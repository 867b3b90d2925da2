---------------------- MODULE LicenseClientRecoveryProofs ----------------------
(***************************************************************************)
(* Proofs that a LicenseClient at rest can be killed and started again     *)
(* from its files, as long as no harm in the sense of                      *)
(* LicenseClientRecovery was done and no storage_secret is configured: for *)
(* any keys, documents and configurations, any number of rotations,        *)
(* heartbeats and restarts, at any time.                                   *)
(***************************************************************************)
EXTENDS LicenseClientRecovery, LicenseClientProofs

(* No configuration has a storage_secret; with one, the cache is lost      *)
(* (EncryptedCacheLoads).                                                  *)
NoSecrets == \A c \in Configs : c.secret = None

(* What the threads carry, whether or not harm was done.                   *)
Carried ==
  /\ config \in Configs \cup {None}
  /\ pc[App] = "loadKey" => pkey = ConfiguredKey(config)
  /\ frame[Hb].newKey = None
  /\ frame[App].newKey # None => Applying(App) /\ frame[App].call # "load"
  /\ pc[App] \in {"installKey", "saveKey"} =>
       frame[App].newKey # None /\ ~config.pinned
  /\ pc[App] = "saveKey" /\ frame[App].newKey \in Keys => pkey = frame[App].newKey
  /\ frame[App].call = "load" /\ pc[App] # "bootstrap" => current = None

(* The key in use is the one the next create() will use.                   *)
KeyInPlace ==
  pc[App] \notin {"none", "loadKey", "saveKey"} => pkey = RestartKey

(* The next create() will accept doc, under the key in use.                *)
Reloads(doc) ==
  /\ doc \in Document
  /\ VerifyLicense(NormalizeLicenseBytes(doc), pkey, MachineFingerprint, Epoch)
       = "success"

(* The license in use is in the file, except between the step that writes  *)
(* a new one and the assignment that adopts it, and while the key was      *)
(* replaced and no license accepted since.                                 *)
CacheInPlace ==
  /\ \A t \in Threads :
       /\ pc[t] \in {"store", "commit", "notify"} => Reloads(frame[t].doc)
       /\ pc[t] \in {"commit", "notify"} => licFile = Plain(frame[t].doc)
  /\ current # None =>
       \/ \E t \in Threads : pc[t] = "commit"
       \/ "unmatched" \in harm
       \/ \E doc \in Document :
            licFile = Plain(doc) /\ Reloads(doc) /\ PayloadOf(doc) = current

Alone == \E t \in Threads : ~Applying(t)
Mendable == harm \subseteq {"unmatched"}

RInv ==
  /\ IInv /\ Carried /\ harm \subseteq Harms
  /\ Mendable /\ Alone => KeyInPlace /\ CacheInPlace

(* Only the step that adopts a license takes anything off the record.      *)
Adopts == \E t \in Threads : pc[t] = "commit" /\ pc'[t] = "notify"
OnRecord == Adopts \/ harm \subseteq harm'

-----------------------------------------------------------------------------
(* A license that verified once verifies after a restart, when it has lost *)
(* a layer and expiry does not count.                                      *)
LEMMA ReverifiesAtRestart ==
  ASSUME NEW doc \in Document, NEW key, NEW expected, NEW time,
         VerifyLicense(doc, key, expected, time) = "success"
  PROVE  VerifyLicense(NormalizeLicenseBytes(doc), key, expected, Epoch) = "success"
<1> DEFINE again == NormalizeLicenseBytes(doc)
<1>1. /\ doc.form = "wellFormed" /\ doc.layers <= 1 /\ doc.signer = key
      /\ FitsMachine(doc, expected)
  BY AcceptedExactly
<1>2. /\ again.form = doc.form /\ again.signer = doc.signer
      /\ again.fingerprint = doc.fingerprint /\ again.expiresAt = doc.expiresAt
      /\ again.layers <= 1 /\ again.expiresAt \in Nat /\ again \in Document
  BY <1>1, DocumentTypes DEF NormalizeLicenseBytes, DecodeBase64, Document
<1> HIDE DEF again
<1>3. FitsMachine(again, expected) /\ Epoch <= again.expiresAt
  BY <1>1, <1>2 DEF FitsMachine, Epoch
<1>4. VerifyLicense(again, key, expected, Epoch) = "success"
  BY <1>1, <1>2, <1>3, AcceptedExactly
<1>5. QED
  BY <1>4 DEF again

-----------------------------------------------------------------------------
(* What the threads carry.                                                 *)

LEMMA ResumeCarries ==
  ASSUME IInv, Carried, NEW t \in Threads, NEW res, Resume(t, res)
  PROVE  Carried'
<1> USE DEF App, Hb, Threads, IInv
<1>1. CASE t = App
  BY <1>1 DEF Resume, Goto, Carried, TypeOK, Idle, Applying, ApplySteps
<1>2. CASE t = Hb
  BY <1>2 DEF Resume, Goto, Carried, TypeOK, Idle, Applying, ApplySteps
<1>3. QED
  BY <1>1, <1>2

LEMMA GoLiveCarries ==
  ASSUME IInv, Carried, GoLive
  PROVE  Carried'
  BY DEF App, Hb, Threads, IInv, GoLive, Carried, TypeOK, Idle, Applying, ApplySteps

LEMMA NoClientCarries ==
  ASSUME IInv, Carried, NEW res, NoClient(res)
  PROVE  Carried'
  BY DEF App, Hb, Threads, IInv, NoClient, Discard, Carried, TypeOK, Idle, Applying,
         ApplySteps

LEMMA ReturnCarries ==
  ASSUME IInv, Carried, NEW t \in Threads, NEW res, Return(t, res)
  PROVE  Carried'
  BY ResumeCarries, GoLiveCarries, NoClientCarries DEF Return

LEMMA BeginCarries ==
  ASSUME IInv, Carried, NEW call \in {"create", "activate"}, BeginActivation(call),
         pc[App] \in {"live", "bootstrap"}
  PROVE  Carried'
<1>1. PICK outcome \in AuthOutcomes :
        \/ /\ Goto(App, "await")
           /\ frame' = [frame EXCEPT ![App] = [Idle EXCEPT !.call = call]]
           /\ UNCHANGED <<config, pkey, current, valid, stopRequested>>
        \/ NoClient(outcome[1])
        \/ Resume(App, outcome[1])
  BY DEF BeginActivation
<1>2. CASE NoClient(outcome[1])
  BY <1>2, NoClientCarries
<1>3. CASE Resume(App, outcome[1])
  BY <1>3, ResumeCarries DEF Threads
<1>4. CASE /\ Goto(App, "await")
           /\ frame' = [frame EXCEPT ![App] = [Idle EXCEPT !.call = call]]
           /\ UNCHANGED <<config, pkey, current, valid, stopRequested>>
  BY <1>4 DEF App, Hb, Threads, IInv, Goto, Carried, TypeOK, Idle, Applying,
              ApplySteps
<1>5. QED
  BY <1>1, <1>2, <1>3, <1>4

LEMMA CarriedInductive ==
  ASSUME IInv, Carried, [Next]_vars
  PROVE  Carried'
<1> USE NoneAssumption, CodecAssumption, ClientAssumption
<1> USE DEF App, Hb, Threads, files
<1> USE DEF Goto, Carried, TypeOK, Idle, Applying, ApplySteps, IInv
<1>1. CASE LoadKey
  BY <1>1 DEF LoadKey
<1>2. CASE LoadLicense
  <2>1. /\ pc[App] = "loadLicense" /\ frame[App].call = "load" /\ current = None
        /\ frame[App].newKey = None
        /\ UNCHANGED <<config, pkey, current>>
    BY <1>2 DEF LoadLicense, Control
  <2>2. CASE Goto(App, "verify") /\ frame' = [frame EXCEPT ![App].doc = MaybeDecrypt(config.secret, licFile)]
    BY <2>1, <2>2
  <2>3. CASE Goto(App, "bootstrap") /\ UNCHANGED frame
    BY <2>1, <2>3
  <2>4. QED
    BY <1>2, <2>2, <2>3 DEF LoadLicense
<1>3. CASE Bootstrap
  <2>1. CASE GoLive
    BY <2>1, GoLiveCarries
  <2>2. CASE NoClient("no_license_loaded")
    BY <2>2, NoClientCarries
  <2>3. CASE BeginActivation("create")
    BY <1>3, <2>3, BeginCarries DEF Bootstrap
  <2>4. QED
    BY <1>3, <2>1, <2>2, <2>3 DEF Bootstrap
<1>4. CASE ReceiveActivation
  <2>1. CASE Return(App, "activation_error") \/ Return(App, "validation_decode_error")
    BY <2>1, ReturnCarries
  <2>2. ASSUME NEW wire \in Documents, NEW key \in ServedKeys,
               frame' = [frame EXCEPT ![App].doc = DecodeBase64(wire),
                                      ![App].newKey = key],
               Goto(App, IF MayRotate(key) THEN "installKey" ELSE "verify"),
               UNCHANGED <<config, pkey, current, valid, stopRequested, result>>
        PROVE  Carried'
    <3>1. frame[App].call \in {"create", "activate"}
      BY <1>4 DEF ReceiveActivation
    <3>2. /\ frame'[Hb] = frame[Hb] /\ frame'[App].call = frame[App].call
          /\ frame'[App].newKey = key
      BY <2>2 DEF Frame
    <3>3. CASE MayRotate(key)
      BY <2>2, <3>1, <3>2, <3>3 DEF MayRotate
    <3>4. CASE ~MayRotate(key)
      BY <2>2, <3>1, <3>2, <3>4
    <3>5. QED
      BY <3>3, <3>4
  <2>3. QED
    BY <1>4, <2>1, <2>2 DEF ReceiveActivation
<1>5. CASE InstallNewKey
  BY <1>5 DEF InstallNewKey, InstallKey, AfterInstall
<1>6. CASE SavePubKey
  BY <1>6 DEF SavePubKey
<1>7. CASE Join
  <2>1. CASE NoClient("success")
    BY <2>1, NoClientCarries
  <2>2. CASE /\ pc' = [pc EXCEPT ![App] = "live", ![Hb] = "off"]
             /\ frame' = [frame EXCEPT ![App] = Idle]
             /\ UNCHANGED <<config, pkey, current, valid>>
    BY <2>2
  <2>3. QED
    BY <1>7, <2>1, <2>2 DEF Join
<1>8. ASSUME NEW t \in Threads, ReceiveHeartbeat(t) PROVE Carried'
  <2>1. CASE \E res \in {"success", "heartbeat_error", "validation_decode_error"} :
               Return(t, res)
    BY <2>1, ReturnCarries
  <2>2. CASE \E wire \in Documents :
               /\ frame' = [frame EXCEPT ![t].doc = DecodeBase64(wire)]
               /\ Goto(t, "verify")
               /\ UNCHANGED <<config, pkey, current, valid, stopRequested, result>>
    BY <1>8, <2>2 DEF ReceiveHeartbeat
  <2>3. QED
    BY <1>8, <2>1, <2>2 DEF ReceiveHeartbeat
<1>9. ASSUME NEW t \in Threads, Verify(t) PROVE Carried'
  <2>1. PICK doc, verdict :
          \/ /\ Goto(t, "store")
             /\ frame' = [frame EXCEPT ![t].doc = doc]
             /\ UNCHANGED <<config, pkey, current, valid, stopRequested, result>>
          \/ /\ Goto(t, "bootstrap") /\ frame[t].call = "load"
             /\ UNCHANGED <<config, pkey, current, valid, stopRequested, frame, result>>
          \/ Return(t, verdict)
    BY <1>9 DEF Verify
  <2>2. CASE Return(t, verdict)
    BY <2>2, ReturnCarries
  <2>3. CASE /\ Goto(t, "store")
             /\ frame' = [frame EXCEPT ![t].doc = doc]
             /\ UNCHANGED <<config, pkey, current, valid, stopRequested, result>>
    BY <1>9, <2>3 DEF Verify
  <2>4. CASE /\ Goto(t, "bootstrap") /\ frame[t].call = "load"
             /\ UNCHANGED <<config, pkey, current, valid, stopRequested, frame, result>>
    <3>1. t = App /\ frame[App].newKey = None
      BY <2>4 DEF Control
    <3>2. QED
      BY <1>9, <2>4, <3>1 DEF Verify
  <2>5. QED
    BY <2>1, <2>2, <2>3, <2>4
<1>10. ASSUME NEW t \in Threads, Store(t) PROVE Carried'
  <2>1. pc[t] = "store" /\ UNCHANGED <<config, pkey, frame>>
    BY <1>10 DEF Store
  <2>2. CASE frame[t].call = "load" /\ Goto(t, "bootstrap")
    <3>1. t = App /\ frame[App].newKey = None
      BY <2>2 DEF Control
    <3>2. QED
      BY <2>1, <2>2, <3>1
  <2>3. CASE Goto(t, "commit") /\ UNCHANGED current
    BY <2>1, <2>3
  <2>4. QED
    BY <1>10, <2>2, <2>3 DEF Store
<1>11. ASSUME NEW t \in Threads, Commit(t) PROVE Carried'
  <2>1. /\ pc[t] = "commit" /\ pc' = [pc EXCEPT ![t] = "notify"]
        /\ UNCHANGED <<config, pkey, frame>>
    BY <1>11 DEF Commit
  <2>2. frame[App].call # "load"
    <3>1. CASE t = App
      BY <2>1, <3>1 DEF Trust, ThreadTrust
    <3>2. CASE t = Hb
      BY <2>1, <3>2 DEF Control
    <3>3. QED
      BY <3>1, <3>2
  <2>3. QED
    BY <2>1, <2>2
<1>12. ASSUME NEW t \in Threads, Notify(t) PROVE Carried'
  BY <1>12, ReturnCarries DEF Notify
<1>13. CASE HbExit
  BY <1>13 DEF HbExit
<1>14. ASSUME NEW c \in Configs, Create(c) PROVE Carried'
  <2>1. pc[App] = "none" /\ current = None /\ frame[App].newKey = None /\ UNCHANGED current
    BY <1>14 DEF Create, Control
  <2>2. CASE /\ Goto(App, "loadKey") /\ config' = c /\ pkey' = ConfiguredKey(c)
             /\ frame' = [frame EXCEPT ![App].call = "load"]
    BY <2>1, <2>2
  <2>3. CASE UNCHANGED <<pc, config, pkey, frame>>
    BY <2>1, <2>3
  <2>4. QED
    BY <1>14, <2>2, <2>3 DEF Create
<1>15. CASE Activate
  BY <1>15, BeginCarries DEF Activate
<1>16. CASE SendHeartbeat
  <2>1. CASE Resume(App, "no_license_loaded")
    BY <2>1, ResumeCarries
  <2>2. CASE /\ Goto(App, "await")
             /\ frame' = [frame EXCEPT ![App].call = "manual"]
             /\ UNCHANGED <<config, pkey, current, valid, stopRequested>>
    BY <1>16, <2>2 DEF SendHeartbeat
  <2>3. QED
    BY <1>16, <2>1, <2>2 DEF SendHeartbeat
<1>17. ASSUME NEW call \in {"close", "destroy"}, BeginClose(call) PROVE Carried'
  BY <1>17 DEF BeginClose
<1>18. CASE HbSend
  BY <1>18 DEF HbSend
<1>19. CASE Crash
  BY <1>19 DEF Crash, Discard
<1>20. CASE Tick
  BY <1>20 DEF Tick
<1>21. CASE UNCHANGED vars
  BY <1>21 DEF vars
<1>22. QED
  BY <1>1, <1>2, <1>3, <1>4, <1>5, <1>6, <1>7, <1>8, <1>9, <1>10, <1>11, <1>12,
     <1>13, <1>14, <1>15, <1>16, <1>17, <1>18, <1>19, <1>20, <1>21
     DEF Next, AppStep, HbStep, Apply, Environment

-----------------------------------------------------------------------------
(* The steps that do no harm.                                              *)

(* What a step that leaves no harm behind did, unless it starts over.      *)
LEMMA Harmless ==
  ASSUME harm \subseteq Harms,
         harm' = IF pc'[App] \in {"none", "loadKey"} THEN {}
                 ELSE (harm \ Settled) \cup HarmOfStep,
         Mendable', pc'[App] \notin {"none", "loadKey"}
  PROVE  /\ Mendable /\ Alone /\ OnRecord
         /\ pc[App] = "loadKey" /\ pc'[App] = "loadLicense" /\ ~config.pinned
              => pkey' = InstallKey(pkey, keyFile)
         /\ pc[App] = "saveKey" /\ pc'[App] = "verify"
              => keyFile' = frame[App].newKey /\ frame[App].newKey # BadPem
         /\ \A t \in Threads : pc[t] = "store" /\ pc'[t] \in {"commit", "bootstrap"}
              => licFile' \in MaybeEncrypt(config.secret, frame[t].doc)
         /\ pc[App] = "installKey" /\ pkey' # pkey => "unmatched" \in harm'
<1>1. /\ Mendable /\ HarmOfStep \subseteq {"unmatched"} /\ OnRecord
      /\ HarmOfStep \subseteq harm'
  BY DEF Mendable, Settled, OnRecord, Adopts
<1>2. "io" \in Harms /\ "noDirectory" \in Harms /\ "badKey" \in Harms
      /\ "unmatched" \in Harms /\ "overlap" \in Harms
  BY DEF Harms
<1>3. Alone
  BY <1>1, <1>2 DEF HarmOfStep, Alone
<1>4. /\ pc[App] = "loadKey" /\ pc'[App] = "loadLicense" /\ ~config.pinned
           => pkey' = InstallKey(pkey, keyFile)
      /\ pc[App] = "saveKey" /\ pc'[App] = "verify" /\ dir
           => keyFile' = frame[App].newKey
      /\ \A t \in Threads : pc[t] = "store" /\ pc'[t] \in {"commit", "bootstrap"}
           => licFile' \in MaybeEncrypt(config.secret, frame[t].doc)
  BY <1>1, <1>2 DEF HarmOfStep
<1>5. pc[App] = "saveKey" /\ pc'[App] = "verify" => dir
  BY <1>1, <1>2 DEF HarmOfStep
<1>6. pc[App] = "saveKey" /\ pc'[App] = "verify" /\ dir => frame[App].newKey # BadPem
  BY <1>1, <1>2 DEF HarmOfStep
<1>7. pc[App] = "installKey" /\ pkey' # pkey => "unmatched" \in harm'
  BY <1>1, <1>2 DEF HarmOfStep
<1>8. QED
  BY <1>1, <1>3, <1>4, <1>5, <1>6, <1>7

(* A client that is gone, or is only about to look at its files, has       *)
(* nothing that the files could contradict.                                *)
LEMMA StartsOver ==
  ASSUME IInv', Carried', pc'[App] \in {"none", "loadKey"}
  PROVE  (KeyInPlace /\ CacheInPlace)'
<1>1. current' = None /\ pc'[Hb] = "off"
  BY DEF IInv, Control, Carried
<1>2. QED
  BY <1>1 DEF KeyInPlace, CacheInPlace, Threads, App, Hb

(* A step that leaves the files, the key and the license alone, and takes  *)
(* no thread into the writing of a license or out of the middle of one,    *)
(* disturbs nothing.                                                       *)
LEMMA Undisturbed ==
  ASSUME KeyInPlace, CacheInPlace,
         UNCHANGED <<keyFile, licFile, config, pkey, current>>,
         \A t \in Threads : pc'[t] \in {"store", "commit", "notify"} =>
           pc'[t] = pc[t] /\ frame'[t].doc = frame[t].doc,
         \A t \in Threads : pc[t] = "commit" => pc'[t] = "commit", OnRecord,
         pc[App] \in {"none", "loadKey", "saveKey"} =>
           pc'[App] \in {"none", "loadKey", "saveKey"}
  PROVE  (KeyInPlace /\ CacheInPlace)'
<1>1. KeyInPlace'
  BY DEF KeyInPlace, RestartKey, ConfiguredKey, InstallKey
<1>2. \A doc : Reloads(doc) => Reloads(doc)'
  BY DEF Reloads
<1>3. (\A t \in Threads :
         /\ pc[t] \in {"store", "commit", "notify"} => Reloads(frame[t].doc)
         /\ pc[t] \in {"commit", "notify"} => licFile = Plain(frame[t].doc))'
  BY <1>2 DEF CacheInPlace, Plain
<1>4. (current # None =>
         \/ \E t \in Threads : pc[t] = "commit"
         \/ "unmatched" \in harm
         \/ \E doc \in Document :
              licFile = Plain(doc) /\ Reloads(doc) /\ PayloadOf(doc) = current)'
  <2>1. harm \subseteq harm'
    BY DEF OnRecord, Adopts
  <2>2. QED
    BY <1>2, <2>1 DEF CacheInPlace, Plain, PayloadOf
<1>5. QED
  BY <1>1, <1>3, <1>4 DEF CacheInPlace

(* The end of a call disturbs nothing.                                     *)
LEMMA ReturnDisturbsNothing ==
  ASSUME IInv, KeyInPlace, CacheInPlace, NEW t \in Threads, NEW res,
         Return(t, res), pc'[App] # "none",
         pc[t] \in {"live", "bootstrap", "await", "verify", "notify"},
         UNCHANGED files, OnRecord
  PROVE  (KeyInPlace /\ CacheInPlace)'
<1> USE DEF App, Hb, Threads, files, IInv, TypeOK
<1>1. CASE Resume(t, res)
  <2>1. pc' = [pc EXCEPT ![t] = IF t = App THEN "live" ELSE "wait"]
        /\ frame' = [frame EXCEPT ![t] = Idle] /\ UNCHANGED <<config, pkey, current>>
    BY <1>1 DEF Resume, Goto
  <2>2. \A u \in Threads : pc'[u] \in {"store", "commit", "notify"} =>
          pc'[u] = pc[u] /\ frame'[u].doc = frame[u].doc
    BY <2>1
  <2>3. \A u \in Threads : pc[u] = "commit" => pc'[u] = "commit"
    BY <2>1
  <2>4. pc[App] \in {"none", "loadKey", "saveKey"} =>
          pc'[App] \in {"none", "loadKey", "saveKey"}
    BY <2>1
  <2>5. QED
    BY <2>1, <2>2, <2>3, <2>4, Undisturbed
<1>2. CASE frame[t].call = "create" /\ GoLive
  <2>1. t = App /\ pc[Hb] = "off"
    BY <1>2 DEF Control
  <2>2. /\ pc' = [u \in Threads |->
              IF u = App THEN "live"
              ELSE IF ~config.offline /\ current.licenseKey # None
                   THEN "wait" ELSE "off"]
        /\ frame' = [frame EXCEPT ![App] = Idle]
        /\ UNCHANGED <<config, pkey, current>>
    BY <1>2 DEF GoLive
  <2>3. pc'[App] = "live" /\ pc'[Hb] \in {"wait", "off"}
    BY <2>2
  <2>4. \A u \in Threads : pc'[u] \in {"store", "commit", "notify"} =>
          pc'[u] = pc[u] /\ frame'[u].doc = frame[u].doc
    BY <2>3
  <2>5. \A u \in Threads : pc[u] = "commit" => pc'[u] = "commit"
    BY <2>1
  <2>6. QED
    BY <2>1, <2>2, <2>3, <2>4, <2>5, Undisturbed
<1>3. CASE NoClient(res)
  BY <1>3 DEF NoClient
<1>4. QED
  BY <1>1, <1>2, <1>3 DEF Return

(* The start of an activation disturbs nothing, nor does its failure.      *)
LEMMA BeginDisturbsNothing ==
  ASSUME IInv, KeyInPlace, CacheInPlace, NEW call \in {"create", "activate"},
         BeginActivation(call), pc[App] \in {"live", "bootstrap"}, pc'[App] # "none",
         UNCHANGED files, OnRecord
  PROVE  (KeyInPlace /\ CacheInPlace)'
<1> USE DEF App, Hb, Threads, files, IInv, TypeOK
<1>1. PICK outcome \in AuthOutcomes :
        \/ /\ Goto(App, "await")
           /\ frame' = [frame EXCEPT ![App] = [Idle EXCEPT !.call = call]]
           /\ UNCHANGED <<config, pkey, current, valid, stopRequested>>
        \/ NoClient(outcome[1])
        \/ call = "activate" /\ Resume(App, outcome[1])
  BY DEF BeginActivation
<1>2. CASE NoClient(outcome[1])
  BY <1>2 DEF NoClient
<1>3. CASE call = "activate" /\ Resume(App, outcome[1])
  <2>1. pc' = [pc EXCEPT ![App] = "live"]
        /\ frame' = [frame EXCEPT ![App] = Idle] /\ UNCHANGED <<config, pkey, current>>
    BY <1>3 DEF Resume, Goto
  <2>2. \A u \in Threads : pc'[u] \in {"store", "commit", "notify"} =>
          pc'[u] = pc[u] /\ frame'[u].doc = frame[u].doc
    BY <2>1
  <2>3. \A u \in Threads : pc[u] = "commit" => pc'[u] = "commit"
    BY <2>1
  <2>4. QED
    BY <2>1, <2>2, <2>3, Undisturbed
<1>4. CASE /\ Goto(App, "await")
           /\ frame' = [frame EXCEPT ![App] = [Idle EXCEPT !.call = call]]
           /\ UNCHANGED <<config, pkey, current, valid, stopRequested>>
  <2>1. pc' = [pc EXCEPT ![App] = "await"]
        /\ frame'[Hb] = frame[Hb] /\ UNCHANGED <<config, pkey, current>>
    BY <1>4 DEF Goto
  <2>2. \A u \in Threads : pc'[u] \in {"store", "commit", "notify"} =>
          pc'[u] = pc[u] /\ frame'[u].doc = frame[u].doc
    BY <2>1
  <2>3. \A u \in Threads : pc[u] = "commit" => pc'[u] = "commit"
    BY <2>1
  <2>4. QED
    BY <2>1, <2>2, <2>3, Undisturbed
<1>5. QED
  BY <1>1, <1>2, <1>3, <1>4

(* The steps that read or write the key, the license or their files.       *)

LEMMA LoadKeyKeepsPlace ==
  ASSUME IInv, IInv', Carried, LoadKey,
         ~config.pinned => pkey' = InstallKey(pkey, keyFile)
  PROVE  (KeyInPlace /\ CacheInPlace)'
<1> USE DEF App, Hb, Threads, files, IInv, TypeOK
<1>1. /\ pc[App] = "loadKey" /\ pc' = [pc EXCEPT ![App] = "loadLicense"]
      /\ pkey = ConfiguredKey(config) /\ frame[App].call = "load"
      /\ pc[Hb] = "off" /\ current = None
      /\ (config.pinned => pkey' = pkey)
      /\ UNCHANGED <<files, config, current, frame>>
  BY DEF LoadKey, Goto, Anchor, Carried, Control
<1>2. pc'[App] = "loadLicense" /\ pc'[Hb] = "off"
  BY <1>1
<1>3. KeyInPlace'
  <2>1. pkey' = RestartKey
    BY <1>1 DEF RestartKey
  <2>2. RestartKey' = RestartKey
    BY <1>1 DEF RestartKey, ConfiguredKey, InstallKey
  <2>3. QED
    BY <2>1, <2>2 DEF KeyInPlace
<1>4. CacheInPlace'
  BY <1>1, <1>2 DEF CacheInPlace
<1>5. QED
  BY <1>3, <1>4

LEMMA InstallKeepsPlace ==
  ASSUME IInv, Carried, Alone, KeyInPlace, CacheInPlace, InstallNewKey, OnRecord,
         pkey' # pkey => "unmatched" \in harm'
  PROVE  (KeyInPlace /\ CacheInPlace)'
<1> USE DEF App, Hb, Threads, files, IInv, TypeOK
<1> USE NoneAssumption, ClientAssumption
<1>1. /\ pc[App] = "installKey" /\ frame[App].newKey # None /\ ~config.pinned
      /\ pkey' = InstallKey(pkey, frame[App].newKey)
      /\ pc' = [pc EXCEPT ![App] = AfterInstall(pkey')]
      /\ UNCHANGED <<files, config, current, frame>>
  BY DEF InstallNewKey, Goto, Carried
<1>2. pc[Hb] \notin {"store", "commit", "notify"} /\ pc'[Hb] = pc[Hb]
  BY <1>1 DEF Alone, Applying, ApplySteps
<1>3. CacheInPlace'
  <2>1. /\ pc'[App] \notin {"store", "commit", "notify"} /\ ~Adopts
        /\ pc[App] # "commit"
    BY <1>1, <1>2 DEF AfterInstall, Adopts
  <2>2. harm \subseteq harm'
    BY <2>1 DEF OnRecord
  <2>3. CASE pkey' = pkey
    BY <1>1, <1>2, <2>1, <2>2, <2>3 DEF CacheInPlace, Reloads, Plain, PayloadOf
  <2>4. CASE pkey' # pkey
    BY <1>2, <2>1, <2>4 DEF CacheInPlace
  <2>5. QED
    BY <2>3, <2>4
<1>4. CASE pkey' = None
  <2>1. pkey = None /\ pc'[App] = "verify"
    BY <1>1, <1>4 DEF InstallKey, AfterInstall
  <2>2. KeyInPlace'
    BY <1>1, <1>4, <2>1 DEF KeyInPlace, RestartKey, ConfiguredKey, InstallKey
  <2>3. QED
    BY <1>3, <2>2
<1>5. CASE pkey' # None
  <2>1. pc'[App] = "saveKey"
    BY <1>1, <1>5 DEF AfterInstall
  <2>2. QED
    BY <1>3, <2>1 DEF KeyInPlace
<1>6. QED
  BY <1>4, <1>5

LEMMA SaveKeepsPlace ==
  ASSUME IInv, Carried, Alone, CacheInPlace, SavePubKey, OnRecord,
         keyFile' = frame[App].newKey, frame[App].newKey # BadPem
  PROVE  (KeyInPlace /\ CacheInPlace)'
<1> USE DEF App, Hb, Threads, files, IInv, TypeOK
<1> USE NoneAssumption, ClientAssumption
<1>1. /\ pc[App] = "saveKey" /\ frame[App].newKey # None /\ ~config.pinned
      /\ pc' = [pc EXCEPT ![App] = "verify"]
      /\ UNCHANGED <<licFile, config, pkey, current, frame>>
  BY DEF SavePubKey, Goto, Carried
<1>2. frame[App].newKey \in Keys /\ pkey = frame[App].newKey
  BY <1>1 DEF Carried, Frame
<1>3. pc[Hb] \notin {"store", "commit", "notify"} /\ pc'[Hb] = pc[Hb]
      /\ pc'[App] = "verify"
  BY <1>1 DEF Alone, Applying, ApplySteps
<1>4. KeyInPlace'
  BY <1>1, <1>2, <1>3 DEF KeyInPlace, RestartKey, InstallKey
<1>5. harm \subseteq harm'
  BY <1>1, <1>3 DEF OnRecord, Adopts
<1>6. CacheInPlace'
  BY <1>1, <1>3, <1>5 DEF CacheInPlace, Reloads, Plain, PayloadOf
<1>7. QED
  BY <1>4, <1>6

(* What a thread goes on with after it verified a document reloads.        *)
LEMMA VerifyKeepsPlace ==
  ASSUME IInv, KeyInPlace, CacheInPlace, NEW t \in Threads, Verify(t), pc'[App] # "none",
         OnRecord, Carried
  PROVE  (KeyInPlace /\ CacheInPlace)'
<1> USE DEF App, Hb, Threads, files, IInv, TypeOK
<1> DEFINE doc == NormalizeLicenseBytes(frame[t].doc)
           verdict == IF pkey = None THEN "config_public_key_required"
                      ELSE VerifyLicense(doc, pkey, MachineFingerprint, now)
<1>1. pc[t] = "verify" /\ UNCHANGED files /\ frame[t].doc \in Document
  BY DEF Verify, Trust, ThreadTrust, Frame, ApplySteps
<1>2. CASE /\ verdict = "success"
           /\ Goto(t, "store")
           /\ frame' = [frame EXCEPT ![t].doc = doc]
           /\ UNCHANGED <<config, pkey, current, valid, stopRequested, result>>
  <2>1. doc \in Document
    BY <1>1, DocumentTypes
  <2>2. VerifyLicense(doc, pkey, MachineFingerprint, now) = "success"
    BY <1>2
  <2>3. Reloads(doc)
    <3> HIDE DEF doc
    <3>1. QED
      BY <2>1, <2>2, ReverifiesAtRestart, DocumentTypes DEF Reloads
  <2>4. PICK d \in Document : d = doc /\ Reloads(d)
    BY <2>1, <2>3
  <2> HIDE DEF doc, verdict
  <2>5. /\ pc' = [pc EXCEPT ![t] = "store"] /\ frame' = [frame EXCEPT ![t].doc = d]
        /\ UNCHANGED <<config, pkey, current, keyFile, licFile>>
    BY <1>1, <1>2, <2>4 DEF Goto
  <2>6. KeyInPlace'
    BY <1>1, <2>5 DEF KeyInPlace, RestartKey, ConfiguredKey, InstallKey
  <2>7. \A x : Reloads(x) => Reloads(x)'
    BY <2>5 DEF Reloads
  <2>8. frame'[t].doc = d /\ harm \subseteq harm'
    BY <1>1, <2>5 DEF Frame, OnRecord, Adopts
  <2>9. (\A u \in Threads :
           /\ pc[u] \in {"store", "commit", "notify"} => Reloads(frame[u].doc)
           /\ pc[u] \in {"commit", "notify"} => licFile = Plain(frame[u].doc))'
    BY <2>4, <2>5, <2>7, <2>8 DEF CacheInPlace, Plain
  <2>10. (current # None =>
           \/ \E u \in Threads : pc[u] = "commit"
           \/ "unmatched" \in harm
           \/ \E x \in Document :
                licFile = Plain(x) /\ Reloads(x) /\ PayloadOf(x) = current)'
    BY <1>1, <2>5, <2>7, <2>8 DEF CacheInPlace, Plain, PayloadOf
  <2>11. QED
    BY <2>6, <2>9, <2>10 DEF CacheInPlace
<1>3. CASE /\ frame[t].call = "load" /\ Goto(t, "bootstrap")
           /\ UNCHANGED <<config, pkey, current, valid, stopRequested, frame, result>>
  <2>1. t = App
    BY <1>3 DEF Control
  <2>2. pc' = [pc EXCEPT ![App] = "bootstrap"]
        /\ UNCHANGED <<config, pkey, current, frame, keyFile, licFile>>
    BY <1>1, <1>3, <2>1 DEF Goto
  <2>3. \A u \in Threads : pc'[u] \in {"store", "commit", "notify"} =>
          pc'[u] = pc[u] /\ frame'[u].doc = frame[u].doc
    BY <2>2
  <2>4. \A u \in Threads : pc[u] = "commit" => pc'[u] = "commit"
    BY <1>1, <2>1, <2>2
  <2>5. QED
    BY <1>1, <2>1, <2>2, <2>3, <2>4, Undisturbed
<1>4. CASE Return(t, verdict)
  <2> HIDE DEF verdict
  <2>1. QED
    BY <1>1, <1>4, ReturnDisturbsNothing
<1>5. QED
  BY <1>2, <1>3, <1>4 DEF Verify

(* The license that is written is the one that was verified.               *)
LEMMA StoreKeepsPlace ==
  ASSUME NoSecrets, IInv, Carried, Alone, KeyInPlace, CacheInPlace,
         NEW t \in Threads, Store(t),
         licFile' \in MaybeEncrypt(config.secret, frame[t].doc)
  PROVE  (KeyInPlace /\ CacheInPlace)'
<1> USE DEF App, Hb, Threads, files, IInv, TypeOK
<1>1. /\ pc[t] = "store" /\ Reloads(frame[t].doc) /\ config # None
      /\ pc' = [pc EXCEPT ![t] = IF frame[t].call = "load" THEN "bootstrap" ELSE "commit"]
      /\ current' = IF frame[t].call = "load" THEN PayloadOf(frame[t].doc) ELSE current
      /\ UNCHANGED <<keyFile, config, pkey, frame>>
  BY DEF Store, Goto, CacheInPlace, Control
<1>2. licFile' = Plain(frame[t].doc)
  BY <1>1 DEF NoSecrets, Carried, MaybeEncrypt
<1>3. \A u \in Threads \ {t} : pc[u] \notin {"store", "commit", "notify"}
  BY <1>1 DEF Alone, Applying, ApplySteps
<1>4. frame[t].call = "load" => t = App
  BY DEF Control
<1>5. KeyInPlace'
  BY <1>1, <1>4 DEF KeyInPlace, RestartKey, ConfiguredKey, InstallKey
<1>6. PICK d \in Document : d = frame[t].doc /\ Reloads(d)
  BY <1>1 DEF Reloads
<1>7. Reloads(d)'
  BY <1>1, <1>6 DEF Reloads
<1>8. licFile' = Plain(d)' /\ PayloadOf(d)' = PayloadOf(d)
  BY <1>2, <1>6 DEF Plain, PayloadOf
<1>9. (\A u \in Threads :
         /\ pc[u] \in {"store", "commit", "notify"} => Reloads(frame[u].doc)
         /\ pc[u] \in {"commit", "notify"} => licFile = Plain(frame[u].doc))'
  <2> SUFFICES ASSUME NEW u \in Threads, pc'[u] \in {"store", "commit", "notify"}
               PROVE  Reloads(frame[u].doc)' /\ (licFile = Plain(frame[u].doc))'
    OBVIOUS
  <2>1. u = t /\ frame'[u].doc = d
    BY <1>1, <1>3, <1>6
  <2>2. QED
    BY <1>7, <1>8, <2>1 DEF Reloads, Plain
<1>10. (current # None =>
         \/ \E u \in Threads : pc[u] = "commit"
         \/ "unmatched" \in harm
         \/ \E x \in Document :
              licFile = Plain(x) /\ Reloads(x) /\ PayloadOf(x) = current)'
  <2>1. CASE frame[t].call = "load"
    BY <1>1, <1>6, <1>7, <1>8, <2>1
  <2>2. CASE frame[t].call # "load"
    BY <1>1, <2>2
  <2>3. QED
    BY <2>1, <2>2
<1>11. QED
  BY <1>5, <1>9, <1>10 DEF CacheInPlace

(* The license that is adopted is the one that was written.                *)
LEMMA CommitKeepsPlace ==
  ASSUME IInv, KeyInPlace, CacheInPlace, NEW t \in Threads, Commit(t)
  PROVE  (KeyInPlace /\ CacheInPlace)'
<1> USE DEF App, Hb, Threads, files, IInv, TypeOK
<1>1. /\ pc[t] = "commit" /\ Reloads(frame[t].doc) /\ licFile = Plain(frame[t].doc)
      /\ pc' = [pc EXCEPT ![t] = "notify"] /\ current' = PayloadOf(frame[t].doc)
      /\ UNCHANGED <<keyFile, licFile, config, pkey, frame>>
  BY DEF Commit, Adopted, Goto, CacheInPlace
<1>2. KeyInPlace'
  BY <1>1 DEF KeyInPlace, RestartKey, ConfiguredKey, InstallKey
<1>3. PICK d \in Document : d = frame[t].doc /\ Reloads(d)
  BY <1>1 DEF Reloads
<1>4. \A x : Reloads(x) => Reloads(x)'
  BY <1>1 DEF Reloads
<1>5. (\A u \in Threads :
         /\ pc[u] \in {"store", "commit", "notify"} => Reloads(frame[u].doc)
         /\ pc[u] \in {"commit", "notify"} => licFile = Plain(frame[u].doc))'
  BY <1>1, <1>4 DEF CacheInPlace, Plain
<1>6. (\E x \in Document :
         licFile = Plain(x) /\ Reloads(x) /\ PayloadOf(x) = current)'
  BY <1>1, <1>3, <1>4 DEF Plain, PayloadOf
<1>7. QED
  BY <1>2, <1>5, <1>6 DEF CacheInPlace

-----------------------------------------------------------------------------
(* The invariant.                                                          *)

LEMMA PlaceInductive ==
  ASSUME NoSecrets, RInv, Next, IInv', Carried',
         harm' = IF pc'[App] \in {"none", "loadKey"} THEN {}
                 ELSE (harm \ Settled) \cup HarmOfStep,
         Mendable'
  PROVE  (KeyInPlace /\ CacheInPlace)'
<1> USE DEF App, Hb, Threads, files, TypeOK
<1>1. CASE pc'[App] \in {"none", "loadKey"}
  BY <1>1, StartsOver
<1>2. CASE pc'[App] \notin {"none", "loadKey"}
  <2>1. IInv /\ Carried /\ harm \subseteq Harms
    BY DEF RInv
  <2>2. /\ Mendable /\ Alone /\ OnRecord
        /\ pc[App] = "loadKey" /\ pc'[App] = "loadLicense" /\ ~config.pinned
             => pkey' = InstallKey(pkey, keyFile)
        /\ pc[App] = "saveKey" /\ pc'[App] = "verify"
             => keyFile' = frame[App].newKey /\ frame[App].newKey # BadPem
        /\ \A t \in Threads : pc[t] = "store" /\ pc'[t] \in {"commit", "bootstrap"}
             => licFile' \in MaybeEncrypt(config.secret, frame[t].doc)
        /\ pc[App] = "installKey" /\ pkey' # pkey => "unmatched" \in harm'
    BY <1>2, <2>1, Harmless
  <2>3. KeyInPlace /\ CacheInPlace
    BY <2>2 DEF RInv
  <2> OnRecord
    BY <2>2
  <2> USE <2>1 DEF IInv
  <2>4. CASE LoadKey
    <3>1. pc[App] = "loadKey" /\ pc'[App] = "loadLicense"
      BY <2>4 DEF LoadKey, Goto
    <3>2. QED
      BY <2>2, <2>4, <3>1, LoadKeyKeepsPlace
  <2>5. CASE LoadLicense
    <3>1. /\ pc[App] = "loadLicense"
          /\ pc'[App] \in {"verify", "bootstrap"} /\ pc'[Hb] = pc[Hb]
          /\ frame'[Hb] = frame[Hb]
          /\ UNCHANGED <<keyFile, licFile, config, pkey, current>>
      BY <2>5 DEF LoadLicense, Goto, Control, Carried
    <3>2. QED
      BY <2>3, <3>1, Undisturbed
  <2>6. CASE Bootstrap
    <3>1. pc[App] = "bootstrap" /\ UNCHANGED files
      BY <2>6 DEF Bootstrap
    <3>2. CASE GoLive
      <4>1. pc[Hb] = "off"
        BY <3>1 DEF Control
      <4>2. /\ pc'[App] = "live" /\ pc'[Hb] \in {"wait", "off"}
            /\ UNCHANGED <<keyFile, licFile, config, pkey, current>>
        BY <3>1, <3>2 DEF GoLive
      <4>3. QED
        BY <2>3, <3>1, <4>1, <4>2, Undisturbed
    <3>3. CASE NoClient("no_license_loaded")
      BY <1>2, <3>3 DEF NoClient
    <3>4. CASE BeginActivation("create")
      BY <1>2, <2>3, <3>1, <3>4, BeginDisturbsNothing
    <3>5. QED
      BY <2>6, <3>2, <3>3, <3>4 DEF Bootstrap
  <2>7. CASE ReceiveActivation
    <3>1. pc[App] = "await" /\ UNCHANGED files
      BY <2>7 DEF ReceiveActivation
    <3>2. CASE Return(App, "activation_error") \/ Return(App, "validation_decode_error")
      BY <1>2, <2>3, <3>1, <3>2, ReturnDisturbsNothing
    <3>3. CASE \E wire \in Documents, key \in ServedKeys :
                 /\ frame' = [frame EXCEPT ![App].doc = DecodeBase64(wire),
                                           ![App].newKey = key]
                 /\ Goto(App, IF MayRotate(key) THEN "installKey" ELSE "verify")
                 /\ UNCHANGED <<config, pkey, current, valid, stopRequested, result>>
      <4>1. /\ pc'[App] \in {"installKey", "verify"} /\ pc'[Hb] = pc[Hb]
            /\ frame'[Hb] = frame[Hb]
            /\ UNCHANGED <<keyFile, licFile, config, pkey, current>>
        BY <3>1, <3>3 DEF Goto
      <4>2. QED
        BY <2>3, <3>1, <4>1, Undisturbed
    <3>4. QED
      BY <2>7, <3>2, <3>3 DEF ReceiveActivation
  <2>8. CASE InstallNewKey
    <3>1. pc[App] = "installKey"
      BY <2>8 DEF InstallNewKey
    <3>2. QED
      BY <2>2, <2>3, <2>8, <3>1, InstallKeepsPlace
  <2>9. CASE SavePubKey
    <3>1. pc[App] = "saveKey" /\ pc'[App] = "verify"
      BY <2>9 DEF SavePubKey, Goto
    <3>2. QED
      BY <2>2, <2>3, <2>9, <3>1, SaveKeepsPlace
  <2>10. CASE Join
    <3>1. pc[App] = "join" /\ pc[Hb] \in {"off", "exited"} /\ UNCHANGED files
      BY <2>10 DEF Join, Joinable
    <3>2. CASE NoClient("success")
      BY <1>2, <3>2 DEF NoClient
    <3>3. CASE /\ pc' = [pc EXCEPT ![App] = "live", ![Hb] = "off"]
               /\ UNCHANGED <<config, pkey, current, valid>>
      <4>1. /\ pc'[App] = "live" /\ pc'[Hb] = "off"
            /\ UNCHANGED <<keyFile, licFile, config, pkey, current>>
        BY <3>1, <3>3
      <4>2. QED
        BY <2>3, <3>1, <4>1, Undisturbed
    <3>4. QED
      BY <2>10, <3>2, <3>3 DEF Join
  <2>11. ASSUME NEW t \in Threads, ReceiveHeartbeat(t) PROVE (KeyInPlace /\ CacheInPlace)'
    <3>1. pc[t] = "await" /\ UNCHANGED files
      BY <2>11 DEF ReceiveHeartbeat
    <3>2. ASSUME NEW res, Return(t, res) PROVE (KeyInPlace /\ CacheInPlace)'
      BY <1>2, <2>3, <3>1, <3>2, ReturnDisturbsNothing
    <3>3. CASE \E wire \in Documents :
                 /\ frame' = [frame EXCEPT ![t].doc = DecodeBase64(wire)]
                 /\ Goto(t, "verify")
                 /\ UNCHANGED <<config, pkey, current, valid, stopRequested, result>>
      <4>1. /\ pc' = [pc EXCEPT ![t] = "verify"]
            /\ \A u \in Threads : u # t => frame'[u] = frame[u]
            /\ UNCHANGED <<keyFile, licFile, config, pkey, current>>
        BY <3>1, <3>3 DEF Goto, Frame
      <4>2. \A u \in Threads : pc'[u] \in {"store", "commit", "notify"} =>
              pc'[u] = pc[u] /\ frame'[u].doc = frame[u].doc
        BY <4>1
      <4>3. \A u \in Threads : pc[u] = "commit" => pc'[u] = "commit"
        BY <3>1, <4>1
      <4>4. pc[App] \in {"none", "loadKey", "saveKey"} =>
              pc'[App] \in {"none", "loadKey", "saveKey"}
        BY <3>1, <4>1
      <4>5. QED
        BY <2>3, <4>1, <4>2, <4>3, <4>4, Undisturbed
    <3>4. QED
      BY <2>11, <3>2, <3>3 DEF ReceiveHeartbeat
  <2>12. ASSUME NEW t \in Threads, Verify(t) PROVE (KeyInPlace /\ CacheInPlace)'
    <3>1. pc[t] = "verify"
      BY <2>12 DEF Verify
    <3>2. QED
      BY <1>2, <2>2, <2>3, <2>12, <3>1, VerifyKeepsPlace
  <2>13. ASSUME NEW t \in Threads, Store(t) PROVE (KeyInPlace /\ CacheInPlace)'
    <3>1. pc[t] = "store" /\ pc'[t] \in {"commit", "bootstrap"}
      BY <2>13 DEF Store, Goto
    <3>2. licFile' \in MaybeEncrypt(config.secret, frame[t].doc)
      BY <2>2, <3>1
    <3>3. QED
      BY <2>2, <2>3, <2>13, <3>2, StoreKeepsPlace
  <2>14. ASSUME NEW t \in Threads, Commit(t) PROVE (KeyInPlace /\ CacheInPlace)'
    BY <2>3, <2>14, CommitKeepsPlace
  <2>15. ASSUME NEW t \in Threads, Notify(t) PROVE (KeyInPlace /\ CacheInPlace)'
    <3>1. pc[t] = "notify" /\ Return(t, "success") /\ UNCHANGED files
      BY <2>15 DEF Notify
    <3>2. QED
      BY <1>2, <2>3, <3>1, ReturnDisturbsNothing
  <2>16. CASE HbExit
    <3>1. /\ pc[Hb] = "wait" /\ pc' = [pc EXCEPT ![Hb] = "exited"]
          /\ UNCHANGED <<keyFile, licFile, config, pkey, current, frame>>
      BY <2>16 DEF HbExit, Goto
    <3>2. QED
      BY <2>3, <3>1, Undisturbed
  <2>17. ASSUME NEW c \in Configs, Create(c) PROVE (KeyInPlace /\ CacheInPlace)'
    BY <1>2, <2>17 DEF Create, Goto
  <2>18. CASE Activate
    BY <1>2, <2>3, <2>18, BeginDisturbsNothing DEF Activate
  <2>19. CASE SendHeartbeat
    <3>1. /\ pc[App] = "live" /\ pc'[App] \in {"live", "await"} /\ pc'[Hb] = pc[Hb]
          /\ frame'[Hb] = frame[Hb]
          /\ UNCHANGED <<keyFile, licFile, config, pkey, current>>
      BY <2>19 DEF SendHeartbeat, Resume, Goto
    <3>2. QED
      BY <2>3, <3>1, Undisturbed
  <2>20. ASSUME NEW call \in {"close", "destroy"}, BeginClose(call)
         PROVE  (KeyInPlace /\ CacheInPlace)'
    <3>1. /\ pc[App] = "live" /\ pc'[App] = "join" /\ pc'[Hb] = pc[Hb]
          /\ frame'[Hb] = frame[Hb]
          /\ UNCHANGED <<keyFile, licFile, config, pkey, current>>
      BY <2>20 DEF BeginClose, Goto
    <3>2. QED
      BY <2>3, <3>1, Undisturbed
  <2>21. CASE HbSend
    <3>1. /\ pc[Hb] = "wait" /\ pc'[Hb] = "await" /\ pc'[App] = pc[App]
          /\ frame'[App] = frame[App]
          /\ UNCHANGED <<keyFile, licFile, config, pkey, current>>
      BY <2>21 DEF HbSend, Goto
    <3>2. QED
      BY <2>3, <3>1, Undisturbed
  <2>22. CASE Crash
    BY <1>2, <2>22 DEF Crash
  <2>23. CASE Tick
    <3>1. UNCHANGED <<keyFile, licFile, config, pkey, current, pc, frame>>
      BY <2>23 DEF Tick
    <3>2. QED
      BY <2>3, <3>1, Undisturbed
  <2>24. QED
    BY <2>4, <2>5, <2>6, <2>7, <2>8, <2>9, <2>10, <2>11, <2>12, <2>13, <2>14,
       <2>15, <2>16, <2>17, <2>18, <2>19, <2>20, <2>21, <2>22, <2>23
       DEF Next, AppStep, HbStep, Apply, Environment
<1>3. QED
  BY <1>1, <1>2

(* A client that has no file, no key and no license carries nothing.       *)
LEMMA RInitSound == RInit => RInv
<1> SUFFICES ASSUME RInit PROVE RInv
  OBVIOUS
<1> USE DEF App, Hb, Threads
<1>1. IInv /\ harm = {}
  BY InitSound DEF RInit
<1>2. /\ pc[App] = "none" /\ pc[Hb] = "off" /\ current = None /\ config = None
      /\ frame[App] = Idle /\ frame[Hb] = Idle
  BY DEF RInit, Init
<1>3. Carried
  BY <1>2 DEF Carried, Idle
<1>4. KeyInPlace /\ CacheInPlace
  BY <1>2 DEF KeyInPlace, CacheInPlace
<1>5. QED
  BY <1>1, <1>3, <1>4 DEF RInv

(* RNext is Next with the history of the harm done.                        *)
LEMMA RInductive ==
  ASSUME NoSecrets, RInv, [RNext]_rvars
  PROVE  RInv'
<1>1. IInv /\ Carried /\ harm \subseteq Harms
  BY DEF RInv
<1>2. CASE RNext
  <2>1. Next /\ harm' = IF pc'[App] \in {"none", "loadKey"} THEN {}
                        ELSE (harm \ Settled) \cup HarmOfStep
    BY <1>2 DEF RNext
  <2>2. IInv'
    BY <1>1, <2>1, Inductive
  <2>3. Carried'
    BY <1>1, <2>1, CarriedInductive
  <2>4. harm' \subseteq Harms
    BY <1>1, <2>1 DEF HarmOfStep
  <2>5. ASSUME Mendable' PROVE (KeyInPlace /\ CacheInPlace)'
    BY <2>1, <2>2, <2>3, <2>5, PlaceInductive
  <2>6. QED
    BY <2>2, <2>3, <2>4, <2>5 DEF RInv
<1>3. CASE UNCHANGED rvars
  <2>1. UNCHANGED <<vars, harm>>
    BY <1>3 DEF rvars
  <2>2. IInv'
    BY <1>1, <2>1, Inductive
  <2>3. Carried'
    BY <1>1, <2>1, CarriedInductive
  <2>4. UNCHANGED <<keyFile, licFile, config, pkey, current, pc, frame>>
    BY <2>1 DEF vars
  <2>5. /\ Alone' => Alone
        /\ Mendable' => Mendable
        /\ OnRecord
    BY <2>1, <2>4 DEF Alone, Applying, Mendable, OnRecord
  <2>6. KeyInPlace /\ CacheInPlace => (KeyInPlace /\ CacheInPlace)'
    BY <2>4, <2>5, Undisturbed
  <2>7. QED
    BY <1>1, <2>1, <2>2, <2>3, <2>5, <2>6 DEF RInv
<1>4. QED
  BY <1>2, <1>3

-----------------------------------------------------------------------------
(***************************************************************************)
(* What the files are good for.                                            *)
(***************************************************************************)

(* The types, with the record of the harm done, also when licenses are     *)
(* sealed.                                                                 *)
THEOREM RecoveryTypeCorrect == RSpec => []RTypeOK
<1> DEFINE Typed == IInv /\ harm \subseteq Harms
<1>1. RInit => Typed
  BY InitSound DEF RInit
<1>2. Typed /\ [RNext]_rvars => Typed'
  <2> SUFFICES ASSUME Typed, [RNext]_rvars PROVE Typed'
    OBVIOUS
  <2>1. CASE RNext
    BY <2>1, Inductive DEF RNext, HarmOfStep, Settled
  <2>2. CASE UNCHANGED rvars
    BY <2>2, Inductive DEF rvars
  <2>3. QED
    BY <2>1, <2>2
<1>3. Typed => RTypeOK
  BY DEF IInv, RTypeOK
<1> HIDE DEF Typed
<1>4. QED
  BY <1>1, <1>2, <1>3, PTL DEF RSpec

(* The invariant the recovery rests on: whose key and whose license the    *)
(* files hold at every step of every call.                                 *)
THEOREM RecoveryInvariance ==
  ASSUME NoSecrets
  PROVE  RSpec => []RInv
<1>1. RInit => RInv
  BY RInitSound
<1>2. RInv /\ [RNext]_rvars => RInv'
  BY RInductive
<1>3. QED
  BY <1>1, <1>2, PTL DEF RSpec

(* What a client at rest has in its files.                                 *)
LEMMA AtRest ==
  ASSUME NoSecrets, RInv, Quiescent, harm = {}
  PROVE  /\ pkey = RestartKey /\ config # None /\ config.secret = None
         /\ current # None
         /\ \E doc \in Document :
              licFile = Plain(doc) /\ Reloads(doc) /\ PayloadOf(doc) = current
<1> USE DEF App, Hb, Threads
<1>1. pc[App] = "live" /\ pc[Hb] \in {"off", "wait", "exited"}
  BY DEF Quiescent, HbSteps
<1>2. Alone
  BY <1>1 DEF Alone, Applying, ApplySteps
<1>3. KeyInPlace /\ CacheInPlace
  BY <1>2 DEF RInv, Mendable
<1>4. config \in Configs /\ config # None /\ valid /\ current # None
  BY <1>1 DEF RInv, Carried, IInv, Control, Trust
<1>5. QED
  BY <1>1, <1>3, <1>4 DEF NoSecrets, KeyInPlace, CacheInPlace

(* Without a storage_secret, a client at rest that no harm was done to can *)
(* be killed, and the next one starts from its cached license, verified    *)
(* with its cached key: for any keys, documents and configurations, after  *)
(* any rotations, heartbeats and restarts (client.cpp 134-174, 268-302).   *)
THEOREM RestartsFromCache ==
  ASSUME NoSecrets
  PROVE  RSpec => []SurvivesRestart
<1>1. ASSUME RInv, Quiescent, harm = {} PROVE RestartLoads
  <2>1. /\ pkey = RestartKey /\ config.secret = None
        /\ \E doc \in Document : licFile = Plain(doc) /\ Reloads(doc)
    BY <1>1, AtRest
  <2>2. PICK doc \in Document : licFile = Plain(doc) /\ Reloads(doc)
    BY <2>1
  <2>3. Cached = NormalizeLicenseBytes(doc)
    BY <2>1, <2>2, NoneAssumption, CodecAssumption
       DEF Cached, Plain, MaybeDecrypt, Content
  <2>4. VerifyLicense(Cached, RestartKey, MachineFingerprint, Epoch) = "success"
    BY <2>1, <2>2, <2>3 DEF Reloads
  <2>5. RestartKey # None
    <3>1. PICK d \in Document :
            licFile = Plain(d) /\ Reloads(d) /\ PayloadOf(d) = current
      BY <1>1, AtRest
    <3>2. current # None /\ current.signer # None
      BY <1>1, AtRest DEF RInv, IInv, Trust, Verified
    <3>3. d.signer # None /\ NormalizeLicenseBytes(d).signer = d.signer
      BY <3>1, <3>2 DEF PayloadOf, NormalizeLicenseBytes, DecodeBase64, Document
    <3>4. NormalizeLicenseBytes(d).signer = pkey
      BY <3>1, VerifyLicenseSound, DocumentTypes DEF Reloads
    <3>5. QED
      BY <2>1, <3>3, <3>4
  <2>6. QED
    BY <2>4, <2>5 DEF RestartLoads
<1>2. RInv => SurvivesRestart
  BY <1>1 DEF SurvivesRestart
<1>3. QED
  BY <1>2, RecoveryInvariance, PTL

(* Under the same conditions the license on disk is the one in memory,     *)
(* whichever thread accepted it last (client.cpp 297-309).                 *)
THEOREM CacheIsCurrent ==
  ASSUME NoSecrets
  PROVE  RSpec => []CacheMatchesMemory
<1>1. ASSUME RInv, Quiescent, harm = {} PROVE PayloadOf(Cached) = current
  <2>1. /\ config.secret = None
        /\ \E doc \in Document : licFile = Plain(doc) /\ PayloadOf(doc) = current
    BY <1>1, AtRest
  <2>2. PICK doc \in Document : licFile = Plain(doc) /\ PayloadOf(doc) = current
    BY <2>1
  <2>3. Cached = NormalizeLicenseBytes(doc)
    BY <2>1, <2>2, NoneAssumption, CodecAssumption
       DEF Cached, Plain, MaybeDecrypt, Content
  <2>4. PayloadOf(NormalizeLicenseBytes(doc)) = PayloadOf(doc)
    BY DEF PayloadOf, NormalizeLicenseBytes, DecodeBase64, Document
  <2>5. QED
    BY <2>2, <2>3, <2>4
<1>2. RInv => CacheMatchesMemory
  BY <1>1 DEF CacheMatchesMemory
<1>3. QED
  BY <1>2, RecoveryInvariance, PTL

=============================================================================
