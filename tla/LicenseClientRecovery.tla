------------------------ MODULE LicenseClientRecovery ------------------------
(***************************************************************************)
(* What the files of a LicenseClient are good for: whether the next        *)
(* Client::create would start from the cached license.  A history variable *)
(* records, for the client at hand, everything that happened that the code *)
(* does not make up for; the properties say what holds as long as nothing  *)
(* of the kind did.                                                        *)
(***************************************************************************)
EXTENDS LicenseClient

VARIABLE harm

Harms == {"io",           \* a file was not written, or not read
          "noDirectory",  \* a key was not saved because its directory is missing
          "badKey",       \* an unparsable key was saved over the cached one
          "unmatched",    \* the key was replaced, no license accepted since
          "overlap"}      \* both threads were applying a license at once

rvars == <<vars, harm>>

Applying(t) == pc[t] \in ApplySteps \ {"await"}

(* The harm of a step, by the step the thread takes and what it leaves.    *)
HarmOfStep ==
  {h \in Harms :
     \/ /\ h = "io"
        /\ \/ pc[App] = "loadKey" /\ pc'[App] = "loadLicense"
              /\ ~config.pinned /\ pkey' # InstallKey(pkey, keyFile)
           \/ pc[App] = "saveKey" /\ pc'[App] = "verify" /\ dir
              /\ keyFile' # frame[App].newKey
           \/ \E t \in Threads :
                /\ pc[t] = "store" /\ pc'[t] \in {"commit", "bootstrap"}
                /\ licFile' \notin MaybeEncrypt(config.secret, frame[t].doc)
     \/ /\ h = "noDirectory"
        /\ pc[App] = "saveKey" /\ pc'[App] = "verify" /\ ~dir
     \/ /\ h = "badKey"
        /\ pc[App] = "saveKey" /\ pc'[App] = "verify"
        /\ frame[App].newKey = BadPem /\ dir
     \/ /\ h = "unmatched"
        /\ pc[App] = "installKey" /\ pkey' # pkey
     \/ /\ h = "overlap"
        /\ \A t \in Threads : Applying(t)}

(* A license that is accepted was saved before, and the key in use fits it.*)
Settled ==
  IF \E t \in Threads : pc[t] = "commit" /\ pc'[t] = "notify" THEN {"unmatched"}
  ELSE {}

RInit == Init /\ harm = {}

RNext ==
  /\ Next
  /\ harm' = IF pc'[App] \in {"none", "loadKey"} THEN {}
             ELSE (harm \ Settled) \cup HarmOfStep

RSpec == RInit /\ [][RNext]_rvars

RTypeOK == TypeOK /\ harm \subseteq Harms

-----------------------------------------------------------------------------
(* The key the next create() with this configuration verifies with, what   *)
(* it finds on disk, and whether it starts from that, expiry aside.        *)
RestartKey ==
  IF config.pinned THEN ConfiguredKey(config)
  ELSE InstallKey(ConfiguredKey(config), keyFile)

Cached ==
  IF licFile = None \/ MaybeDecrypt(config.secret, licFile) = None THEN Garbage
  ELSE NormalizeLicenseBytes(MaybeDecrypt(config.secret, licFile))

RestartLoads ==
  /\ RestartKey # None
  /\ VerifyLicense(Cached, RestartKey, MachineFingerprint, Epoch) = "success"

Quiescent == pc[App] = "live" /\ pc[Hb] \in HbSteps

(* As long as no harm was done, a client that is at rest can be killed at  *)
(* any point and the next one starts from its cached license with the      *)
(* cached key, through any number of key rotations, heartbeats and         *)
(* restarts under other configurations (client.cpp 134-174, 268-302).      *)
SurvivesRestart == Quiescent /\ harm = {} => RestartLoads

(* Under the same conditions the license on disk is the one in memory: the *)
(* last one accepted, whichever thread accepted it.                        *)
CacheMatchesMemory == Quiescent /\ harm = {} => PayloadOf(Cached) = current

-----------------------------------------------------------------------------
(* README 9 and 172: the cache is encrypted with storage_secret.  It would *)
(* have to be readable afterwards.                                         *)
EncryptedCacheLoads ==
  Quiescent /\ harm = {} /\ config.secret # None => RestartLoads

(* README 77: on the first activation the key comes from the server, and   *)
(* the SDK caches it.                                                      *)
FirstActivationIsCached ==
  Quiescent /\ harm \subseteq {"noDirectory"} => RestartLoads

=============================================================================
