---------------------------- MODULE LicenseClient ----------------------------
(***************************************************************************)
(* license_manager::Client (src/src/client.cpp) with its two threads: the  *)
(* application's, which creates, drives and destroys the client, and the   *)
(* heartbeat thread the client starts.  They share the validator's key,    *)
(* current_license_ and the files; mutex_ covers only the assignment of    *)
(* current_license_ and the callback that reports it.                      *)
(*                                                                         *)
(* Each step below is one access to what the threads share or one call     *)
(* that leaves the process.  Pausing is left out here: the time between    *)
(* two heartbeats is arbitrary, so a paused loop is one that waits longer  *)
(* (HeartbeatManager has the loop in detail).                              *)
(***************************************************************************)
EXTENDS StorageCodec

CONSTANTS
  BadPem,              \* text that PEM_read_bio_PUBKEY refuses
  Unreadable,          \* a configured file that cannot be opened
  Configs,             \* configurations the application passes to create()
  Documents,           \* documents that disk or server may hold at first
  ServedKeys,          \* what the activation API may put in public_key
  MachineFingerprint,  \* what the hardware provider computes
  IoMayFail,           \* whether files may fail to be read or written
  MaxTime              \* bound on the clock

AuthSources == {"none", "inline", "file", "unreadable"}

Config ==
  [fields : SUBSET {"product", "version", "server"}, offline : BOOLEAN,
   pinned : BOOLEAN, pem : Keys \cup {BadPem, None},
   pemFile : Keys \cup {BadPem, Unreadable, None},
   secret : Secrets \cup {None}, auth : AuthSources]

ASSUME ClientAssumption ==
  /\ None \notin {"app", "hb", BadPem, Unreadable}
  /\ BadPem \notin Keys /\ Unreadable \notin Keys \cup {BadPem}
  /\ Configs \subseteq Config /\ None \notin Config
  /\ Documents \subseteq Document
  /\ ServedKeys \subseteq Keys \cup {BadPem, None}
  /\ MachineFingerprint \in Fingerprints \cup {None}
  /\ IoMayFail \in BOOLEAN
  /\ MaxTime \in Nat \ {0}

VARIABLES
  dir,            \* whether the directory of the license file exists
  keyFile,        \* content of the .pubkey file, None when there is none
  licFile,        \* content of the license file, None when there is none
  config,         \* config_ of the client, None when there is no client
  authCode,       \* where config_.authorization_code stands
  pkey,           \* the validator's key, None without a validator
  current,        \* current_license_
  valid,          \* valid_
  mutex,          \* the thread that holds mutex_
  stopRequested,  \* HeartbeatManager::stop_requested_
  pc,             \* the step each thread takes next
  frame,          \* the locals of each thread's call
  result,         \* what the application's last call returned
  now             \* system_clock::now()

files == <<dir, keyFile, licFile>>
vars == <<dir, keyFile, licFile, config, authCode, pkey, current, valid, mutex,
          stopRequested, pc, frame, result, now>>

App == "app"
Hb == "hb"
Threads == {App, Hb}

Calls == {"none", "load", "create", "activate", "manual", "heartbeat",
          "close", "destroy"}
Frame ==
  [call : Calls, doc : Document \cup {None}, newKey : Keys \cup {BadPem, None}]
Idle == [call |-> "none", doc |-> None, newKey |-> None]

AppSteps == {"none", "loadKey", "loadLicense", "bootstrap", "live", "join"}
HbSteps == {"off", "wait", "exited"}
ApplySteps == {"await", "installKey", "saveKey", "verify", "store", "commit",
               "notify"}

-----------------------------------------------------------------------------
(* Returning from a call.                                                  *)

Goto(t, step) == pc' = [pc EXCEPT ![t] = step]

(* The members of the client object are gone.                              *)
Discard(res) ==
  /\ config' = None /\ pkey' = None /\ current' = None
  /\ valid' = FALSE /\ stopRequested' = FALSE
  /\ result' = res

(* The object is destroyed, or was never handed out by create(): a thread  *)
(* that was joined is gone with it, one that was not would go on.          *)
NoClient(res) ==
  /\ Discard(res)
  /\ pc' = [pc EXCEPT ![App] = "none",
                      ![Hb] = IF @ = "exited" THEN "off" ELSE @]
  /\ frame' = [frame EXCEPT ![App] = Idle]

(* start_heartbeat needs a license key; then valid_ is set.                *)
GoLive ==
  /\ pc' = [t \in Threads |->
              IF t = App THEN "live"
              ELSE IF ~config.offline /\ current.licenseKey # None
                   THEN "wait" ELSE "off"]
  /\ frame' = [frame EXCEPT ![App] = Idle]
  /\ valid' = TRUE /\ result' = "success"
  /\ UNCHANGED <<config, pkey, current, stopRequested>>

SwallowError(t, res) ==  \* mutant
  /\ Goto(t, IF t = App THEN "live" ELSE "wait")
  /\ frame' = [frame EXCEPT ![t] = Idle]
  /\ result' = IF t = App THEN "success" ELSE result
  /\ UNCHANGED <<config, pkey, current, valid, stopRequested>>

(* Thread t is back where it waits for its next call.                      *)
Resume(t, res) ==
  /\ Goto(t, IF t = App THEN "live" ELSE "wait")
  /\ frame' = [frame EXCEPT ![t] = Idle]
  /\ result' = IF t = App THEN res ELSE result
  /\ UNCHANGED <<config, pkey, current, valid, stopRequested>>

(* Errors of the heartbeat thread are logged; those of create() leave no   *)
(* client behind.                                                          *)
Return(t, res) ==
  IF frame[t].call # "create" THEN Resume(t, res)
  ELSE IF res = "success" THEN GoLive ELSE NoClient(res)

-----------------------------------------------------------------------------
(* Client::create, up to the first look at the disk.                       *)

ConfiguredKey(c) == IF c.pem # None THEN c.pem ELSE c.pemFile

SetupVerdict(c, hardwareWorks) ==
  FirstFailure(<<
    [holds |-> "product" \in c.fields, error |-> "config_product_required"],
    [holds |-> "version" \in c.fields, error |-> "config_version_required"],
    [holds |-> c.offline \/ "server" \in c.fields,
     error |-> "config_server_required"],
    [holds |-> hardwareWorks, error |-> "hardware_error"],
    [holds |-> c.pinned => c.pem # None, error |-> "config_public_key_required"],
    [holds |-> ConfiguredKey(c) # Unreadable, error |-> "config_file_read_error"],
    [holds |-> ConfiguredKey(c) # BadPem,
     error |-> "validation_invalid_public_key"] >>)

Create(c) ==
  /\ pc[App] = "none"
  /\ \E hardwareWorks \in BOOLEAN :
       LET verdict == SetupVerdict(c, hardwareWorks)
       IN  \/ /\ verdict = "success"
              /\ Goto(App, "loadKey")
              /\ config' = c /\ authCode' = c.auth
              /\ pkey' = ConfiguredKey(c)
              /\ frame' = [frame EXCEPT ![App].call = "load"]
              /\ result' = "pending"
           \/ /\ verdict # "success"
              /\ result' = verdict
              /\ UNCHANGED <<pc, config, authCode, pkey, frame>>
  /\ UNCHANGED <<files, current, valid, mutex, stopRequested, now>>

(* set_public_key keeps the old key when it cannot parse the new one, and  *)
(* so does the catch around the constructor of the first Validator.        *)
InstallAnyKey(old, new) == IF new # None THEN new ELSE old  \* mutant
InstallKey(old, new) == IF new \in Keys THEN new ELSE old

AnchorUnparsed(stored) ==  \* mutant
  IF config.pinned \/ stored = None THEN pkey ELSE stored
AnchorFromCache(stored) == InstallKey(pkey, stored)  \* mutant
Anchor(stored) == IF config.pinned THEN pkey ELSE InstallKey(pkey, stored)

(* load_existing_license, first half: read_stored_pub_key.                 *)
LoadKey ==
  /\ pc[App] = "loadKey"
  /\ \E stored \in {keyFile} \cup (IF IoMayFail THEN {None} ELSE {}) :
       pkey' = Anchor(stored)
  /\ Goto(App, "loadLicense")
  /\ UNCHANGED <<files, config, authCode, current, valid, mutex, stopRequested,
                 frame, result, now>>

(* Second half: storage_->load.  What it reads goes the way of every       *)
(* license, verify and store, with the outcomes of "load".                 *)
LoadLicense ==
  /\ pc[App] = "loadLicense"
  /\ \/ /\ pkey # None /\ licFile # None
        /\ MaybeDecrypt(config.secret, licFile) # None
        /\ frame' = [frame EXCEPT ![App].doc = MaybeDecrypt(config.secret, licFile)]
        /\ Goto(App, "verify")
     \/ /\ \/ pkey = None \/ licFile = None \/ IoMayFail
           \/ licFile # None /\ MaybeDecrypt(config.secret, licFile) = None
        /\ Goto(App, "bootstrap")
        /\ UNCHANGED frame
  /\ UNCHANGED <<files, config, authCode, pkey, current, valid, mutex,
                 stopRequested, result, now>>

-----------------------------------------------------------------------------
(* Activation and heartbeats, up to the answer of the server.              *)

(* resolve_authorization_code: its error, and what it leaves behind.  The  *)
(* code read from a file is kept, and so are the bytes of a short read.    *)
AuthOutcomes ==
  CASE authCode = "inline" -> {<<"success", "inline">>}
    [] authCode = "none" -> {<<"config_auth_code_required", "none">>}
    [] authCode = "unreadable" -> {<<"config_file_read_error", "unreadable">>}
    [] authCode = "file" ->
         {<<"success", "inline">>} \cup
         (IF IoMayFail THEN {<<"config_file_read_error", "inline">>} ELSE {})

(* perform_activation, up to the request.                                  *)
BeginActivation(call) ==
  \E outcome \in AuthOutcomes :
    /\ authCode' = outcome[2]
    /\ \/ /\ outcome[1] = "success"
          /\ Goto(App, "await")
          /\ frame' = [frame EXCEPT ![App] = [Idle EXCEPT !.call = call]]
          /\ result' = "pending"
          /\ UNCHANGED <<config, pkey, current, valid, stopRequested>>
       \/ /\ outcome[1] # "success"
          /\ IF call = "create" THEN NoClient(outcome[1])
             ELSE Resume(App, outcome[1])

(* initialize, after load_existing_license.                                *)
Bootstrap ==
  /\ pc[App] = "bootstrap"
  /\ \/ current # None /\ GoLive /\ UNCHANGED authCode
     \/ /\ current = None /\ config.offline
        /\ NoClient("no_license_loaded") /\ UNCHANGED authCode
     \/ current = None /\ ~config.offline /\ BeginActivation("create")
  /\ UNCHANGED <<files, mutex, now>>

(* Client::activate.                                                       *)
Activate ==
  /\ pc[App] = "live"
  /\ BeginActivation("activate")
  /\ UNCHANGED <<files, mutex, now>>

(* Client::send_heartbeat, up to the request.                              *)
SendHeartbeat ==
  /\ pc[App] = "live"
  /\ IF current = None THEN Resume(App, "no_license_loaded")
     ELSE /\ Goto(App, "await")
          /\ frame' = [frame EXCEPT ![App].call = "manual"]
          /\ result' = "pending"
          /\ UNCHANGED <<config, pkey, current, valid, stopRequested>>
  /\ UNCHANGED <<files, authCode, mutex, now>>

(* One turn of HeartbeatManager::loop: the interval is over.               *)
HbSend ==
  /\ pc[Hb] = "wait" /\ ~stopRequested
  /\ Goto(Hb, "await")
  /\ frame' = [frame EXCEPT ![Hb].call = "heartbeat"]
  /\ UNCHANGED <<files, config, authCode, pkey, current, valid, mutex,
                 stopRequested, result, now>>

MayRotateAlways(key) == key # None  \* mutant
MayRotate(key) == key # None /\ ~config.pinned

(* ActivationService::activate returns, and apply_license_file_impl starts:*)
(* it decodes the file first, then looks at the key.                       *)
ReceiveActivation ==
  /\ pc[App] = "await" /\ frame[App].call \in {"create", "activate"}
  /\ \/ Return(App, "activation_error")
     \/ \E wire \in Documents, key \in ServedKeys :
          \/ ~Decodable(wire) /\ Return(App, "validation_decode_error")
          \/ /\ Decodable(wire)
             /\ frame' = [frame EXCEPT ![App].doc = DecodeBase64(wire),
                                       ![App].newKey = key]
             /\ Goto(App, IF MayRotate(key) THEN "installKey" ELSE "verify")
             /\ UNCHANGED <<config, pkey, current, valid, stopRequested, result>>
  /\ UNCHANGED <<files, authCode, mutex, now>>

(* HeartbeatService::send returns: an error, no file, or a file to apply.  *)
ReceiveHeartbeat(t) ==
  /\ pc[t] = "await" /\ frame[t].call \in {"manual", "heartbeat"}
  /\ \/ \E res \in {"success", "heartbeat_error"} : Return(t, res)
     \/ \E wire \in Documents :
          \/ ~Decodable(wire) /\ Return(t, "validation_decode_error")
          \/ /\ Decodable(wire)
             /\ frame' = [frame EXCEPT ![t].doc = DecodeBase64(wire)]
             /\ Goto(t, "verify")
             /\ UNCHANGED <<config, pkey, current, valid, stopRequested, result>>
  /\ UNCHANGED <<files, authCode, mutex, now>>

-----------------------------------------------------------------------------
(* apply_license_file_impl and validate_and_store.                         *)

(* Nothing is written when the first Validator cannot be constructed.      *)
NeverSave(key) == "verify"  \* mutant
AfterInstall(key) == IF key = None THEN "verify" ELSE "saveKey"

InstallNewKey ==
  /\ pc[App] = "installKey"
  /\ pkey' = InstallKey(pkey, frame[App].newKey)
  /\ Goto(App, AfterInstall(pkey'))
  /\ UNCHANGED <<files, config, authCode, current, valid, mutex, stopRequested,
                 frame, result, now>>

(* save_pub_key does not create the directory.  A write that fails leaves  *)
(* the old file, or a truncated one when only fclose noticed.              *)
SavePubKey ==
  /\ pc[App] = "saveKey"
  /\ keyFile' \in (IF dir THEN {frame[App].newKey} ELSE {keyFile})
                  \cup (IF dir /\ IoMayFail THEN {keyFile, BadPem, None} ELSE {})
  /\ Goto(App, "verify")
  /\ UNCHANGED <<dir, licFile, config, authCode, pkey, current, valid, mutex,
                 stopRequested, frame, result, now>>

(* The application is freeing the key the heartbeat thread verifies with.  *)
KeyInUseFreed(t) ==
  /\ t = Hb /\ pc[App] = "installKey"
  /\ pkey # None /\ frame[App].newKey \in Keys

Verify(t) ==
  /\ pc[t] = "verify"
  /\ LET doc == NormalizeLicenseBytes(frame[t].doc)
         verdict == IF pkey = None THEN "config_public_key_required"
                    ELSE VerifyLicense(doc, pkey, MachineFingerprint, now)
     IN  \/ /\ verdict = "success"
            /\ Goto(t, "store")
            /\ frame' = [frame EXCEPT ![t].doc = doc]
            /\ UNCHANGED <<config, pkey, current, valid, stopRequested, result>>
         \/ /\ verdict # "success" \/ KeyInUseFreed(t)
            /\ IF frame[t].call = "load"
               THEN /\ Goto(t, "bootstrap")
                    /\ UNCHANGED <<config, pkey, current, valid, stopRequested,
                                   frame, result>>
               ELSE Return(t, verdict)
  /\ UNCHANGED <<files, authCode, mutex, now>>

(* The other thread is writing to the same .tmp file.                      *)
Collides(t) == \E u \in Threads \ {t} : pc[u] = "store"

(* storage_->save: its error is only logged.  A failed write leaves the    *)
(* old file, or a truncated one when only fclose noticed.                  *)
Store(t) ==
  /\ pc[t] = "store"
  /\ \/ /\ dir' = TRUE
        /\ licFile' \in MaybeEncrypt(config.secret, frame[t].doc)
                        \cup (IF IoMayFail \/ Collides(t)
                              THEN {licFile, Plain(Garbage)} ELSE {})
     \/ IoMayFail /\ UNCHANGED <<dir, licFile>>
  /\ IF frame[t].call = "load"
     THEN current' = PayloadOf(frame[t].doc) /\ Goto(t, "bootstrap")
     ELSE Goto(t, "commit") /\ UNCHANGED current
  /\ UNCHANGED <<keyFile, config, authCode, pkey, valid, mutex, stopRequested,
                 frame, result, now>>

AcquireUnlocked(t) == mutex' = t  \* mutant
Acquire(t) == mutex = None /\ mutex' = t

KeepLock == UNCHANGED mutex  \* mutant
Release == mutex' = None

AdoptedOnce(doc) == IF current = None THEN PayloadOf(doc) ELSE current  \* mutant
Adopted(doc) == PayloadOf(doc)

(* The lock, and the assignment under it.                                  *)
Commit(t) ==
  /\ pc[t] = "commit"
  /\ Acquire(t)
  /\ current' = Adopted(frame[t].doc)
  /\ Goto(t, "notify")
  /\ UNCHANGED <<files, config, authCode, pkey, valid, stopRequested, frame,
                 result, now>>

(* on_license_updated_ returns, and the lock is released.                  *)
Notify(t) ==
  /\ pc[t] = "notify"
  /\ Release
  /\ Return(t, "success")
  /\ UNCHANGED <<files, authCode, now>>

-----------------------------------------------------------------------------
(* Closing, crashing and the clock.                                        *)

(* Client::close, and the destructor, which calls it: stop() raises the    *)
(* flag and joins.                                                         *)
BeginClose(call) ==
  /\ pc[App] = "live"
  /\ stopRequested' = (pc[Hb] # "off")
  /\ Goto(App, "join")
  /\ frame' = [frame EXCEPT ![App].call = call]
  /\ result' = "pending"
  /\ UNCHANGED <<files, config, authCode, pkey, current, valid, mutex, now>>

HbExit ==
  /\ pc[Hb] = "wait" /\ stopRequested
  /\ Goto(Hb, "exited")
  /\ UNCHANGED <<files, config, authCode, pkey, current, valid, mutex,
                 stopRequested, frame, result, now>>

NoJoin == TRUE  \* mutant
Joinable == pc[Hb] \in {"off", "exited"}

Join ==
  /\ pc[App] = "join" /\ Joinable
  /\ IF frame[App].call = "destroy" THEN NoClient("success")
     ELSE /\ pc' = [pc EXCEPT ![App] = "live", ![Hb] = "off"]
          /\ frame' = [frame EXCEPT ![App] = Idle]
          /\ stopRequested' = FALSE /\ result' = "success"
          /\ UNCHANGED <<config, pkey, current, valid>>
  /\ UNCHANGED <<files, authCode, mutex, now>>

(* The process dies, of an exception nobody catches or from outside; the   *)
(* files stay as they are.                                                 *)
Crash ==
  /\ pc[App] # "none"
  /\ Discard("crash")
  /\ pc' = [t \in Threads |-> IF t = App THEN "none" ELSE "off"]
  /\ frame' = [t \in Threads |-> Idle]
  /\ mutex' = None
  /\ UNCHANGED <<files, authCode, now>>

Tick ==
  /\ now < MaxTime
  /\ now' = now + 1
  /\ UNCHANGED <<files, config, authCode, pkey, current, valid, mutex,
                 stopRequested, pc, frame, result>>

-----------------------------------------------------------------------------
(* An offline license is put in place before the program first runs.       *)
Init ==
  /\ licFile \in {None} \cup {Plain(d) : d \in Documents}
  /\ dir \in BOOLEAN /\ (licFile # None => dir)
  /\ keyFile = None
  /\ config = None /\ authCode = "none" /\ pkey = None /\ current = None
  /\ valid = FALSE /\ mutex = None /\ stopRequested = FALSE
  /\ pc = [t \in Threads |-> IF t = App THEN "none" ELSE "off"]
  /\ frame = [t \in Threads |-> Idle]
  /\ result = "none"
  /\ now = 1

(* What thread t does by itself once a call has begun.                     *)
Apply(t) ==
  ReceiveHeartbeat(t) \/ Verify(t) \/ Store(t) \/ Commit(t) \/ Notify(t)
AppStep ==
  \/ LoadKey \/ LoadLicense \/ Bootstrap \/ ReceiveActivation
  \/ InstallNewKey \/ SavePubKey \/ Join \/ Apply(App)
HbStep == HbExit \/ Apply(Hb)

(* What nobody has to do: calls of the application, the next heartbeat,    *)
(* crashes, time.                                                          *)
Environment ==
  \/ \E c \in Configs : Create(c)
  \/ Activate \/ SendHeartbeat
  \/ \E call \in {"close", "destroy"} : BeginClose(call)
  \/ HbSend \/ Crash \/ Tick

Next == AppStep \/ HbStep \/ Environment

Spec == Init /\ [][Next]_vars

(* Threads that can run do run, and an HTTP request is over when           *)
(* CURLOPT_TIMEOUT is.  mutex_ is not fair, but a thread that released it  *)
(* takes it again only after another round trip to the server.             *)
FairSpec ==
  /\ Spec
  /\ WF_vars(AppStep) /\ WF_vars(HbStep)
  /\ \A t \in Threads : SF_vars(Commit(t))

-----------------------------------------------------------------------------
TypeOK ==
  /\ dir \in BOOLEAN
  /\ keyFile \in Keys \cup {BadPem, None}
  /\ licFile \in Content \cup {None}
  /\ config \in Config \cup {None}
  /\ authCode \in AuthSources
  /\ pkey \in Keys \cup {None}
  /\ current \in Payload \cup {None}
  /\ valid \in BOOLEAN /\ stopRequested \in BOOLEAN
  /\ mutex \in Threads \cup {None}
  /\ pc \in [Threads -> AppSteps \cup HbSteps \cup ApplySteps]
  /\ frame \in [Threads -> Frame]
  /\ now \in 1 .. MaxTime

(***************************************************************************)
(* Safety                                                                  *)
(***************************************************************************)

(* A pinned key is the only trust anchor there is: neither a cached key nor *)
(* one the server sends replaces it, and no license signed by another key   *)
(* becomes the current one, by activation, heartbeat or from disk           *)
(* (pin_public_key, client.cpp 137-152, 270).                               *)
PinnedTrust ==
  config # None /\ config.pinned =>
    /\ pkey = config.pem
    /\ current # None => current.signer = config.pem

(* What was last given to storage, sealed or not.                          *)
Written(content) == IF content.tag = None THEN content.body ELSE content.tag.aad

(* A pinned client leaves the cached key alone, and every license file it  *)
(* writes holds a license its own key signed, unless the write itself was  *)
(* torn (client.cpp 270, 400).                                             *)
PinnedFiles ==
  [][config # None /\ config.pinned =>
       /\ keyFile' = keyFile
       /\ licFile' # licFile =>
            Written(licFile') = Garbage \/ Written(licFile').signer = config.pem]_vars

(* A client that create() handed out holds a license that somebody signed  *)
(* and that is for this machine, whatever applications and heartbeats have *)
(* done since (client.cpp 97-131, validator.cpp 407-412).                  *)
LiveHasLicense ==
  valid => /\ current # None
           /\ current.signer # None
           /\ MachineFingerprint = None
              \/ current.fingerprint \in {None, MachineFingerprint}

(* While on_license_updated runs, the license it was given stays the       *)
(* current one: the other thread cannot replace it, and no second callback *)
(* runs (the lock_guard of client.cpp 304-309).                            *)
ReportedIsCurrent ==
  \A t \in Threads :
    pc[t] = "notify" => mutex = t /\ current = PayloadOf(frame[t].doc)

(* No heartbeat thread outlives its client, whether the client is closed,  *)
(* destroyed or was never handed out, and the lock is not left taken       *)
(* (client.cpp 22-24, 567-572).                                            *)
NoOrphanThread ==
  /\ pc[App] = "none" => pc[Hb] = "off" /\ mutex = None
  /\ stopRequested => pc[App] = "join"

(* Only a license that verified for this machine is ever written to disk,  *)
(* also when the server sends unsigned, foreign or unreadable ones and the *)
(* application retries through failed calls and restarts; a torn write     *)
(* leaves bytes that no stage reads (client.cpp 390-400).                  *)
OnlyVerifiedIsStored ==
  [][licFile' # licFile =>
       LET doc == Written(licFile')
       IN  doc = Garbage
           \/ /\ doc.form = "wellFormed" /\ doc.signer # None
              /\ MachineFingerprint = None
                 \/ doc.fingerprint \in {None, MachineFingerprint}]_vars

(* What the application sees is the contract: a license is put in place    *)
(* only after it verified for this machine, by the call under way or by the *)
(* heartbeat thread; create() and activate() succeed only when they put one *)
(* in place; a call that fails changes nothing; after close() nothing       *)
(* changes behind the application's back (client.cpp 97-131, 204-224,       *)
(* 226-312, 500-528, 567-572).                                              *)
Call ==
  IF pc[App] = "none" THEN "none"
  ELSE IF pc[App] = "live" THEN "idle"
  ELSE IF frame[App].call \in {"load", "create"} THEN "create"
  ELSE frame[App].call

LicensesForThisMachine ==
  {p \in Payload : /\ p.signer # None
                   /\ MachineFingerprint = None
                      \/ p.fingerprint \in {None, MachineFingerprint}}

Contract == INSTANCE ClientContract WITH
  Acceptable <- LicensesForThisMachine,
  NoLicense <- None,
  call <- Call,
  answer <- CASE result \in {"none", "pending"} -> "none"
              [] result = "success" -> "ok"
              [] OTHER -> "error",
  license <- current,
  installed <- IF Call = "create" THEN current # None ELSE pc[App] = "notify",
  beating <- pc[Hb] \notin {"off", "exited"}
KeepsContract == Contract!KSpec

(***************************************************************************)
(* Liveness                                                                *)
(***************************************************************************)

(* Every call of the application returns, close() and the destructor among *)
(* them: no thread waits for the lock or for the join forever              *)
(* (client.cpp 304, heartbeat.cpp 190-196).                                *)
CallsReturn == (pc[App] \notin {"none", "live"}) ~> (pc[App] \in {"none", "live"})

(* The heartbeat thread comes back to its loop from every license it       *)
(* applies (client.cpp 471-481).                                           *)
HeartbeatsReturn == (pc[Hb] \in ApplySteps) ~> (pc[Hb] \notin ApplySteps)

(***************************************************************************)
(* What the documentation says and the code does not do                    *)
(***************************************************************************)

(* client.hpp 72: "Check if client is valid and has a valid license".      *)
IsValidMeansLicensed == valid => ValidateLicense(current, now) = "success"

=============================================================================
