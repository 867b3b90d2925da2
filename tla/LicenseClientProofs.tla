------------------------- MODULE LicenseClientProofs -------------------------
(***************************************************************************)
(* Proofs that LicenseClient has its safety properties for all constants:  *)
(* any sets of keys, documents and configurations, with or without files   *)
(* that fail, at any time.                                                 *)
(***************************************************************************)
EXTENDS LicenseClient, LicenseVerifierProofs

(* Where each thread can be, and when there is a heartbeat thread at all.  *)
Control ==
  /\ config = None <=> pc[App] = "none"
  /\ pc[App] = "none" => pkey = None /\ current = None /\ pc[Hb] = "off"
  /\ pc[App] \in AppSteps \cup ApplySteps
  /\ pc[Hb] \in HbSteps \cup (ApplySteps \ {"installKey", "saveKey"})
  /\ pc[Hb] # "off" => valid
  /\ valid => pc[App] # "none" /\ frame[App].call \notin {"load", "create"}
  /\ pc[App] # "none" /\ frame[App].call \notin {"load", "create"} => valid
  /\ pc[App] \in {"loadKey", "loadLicense", "bootstrap"} => frame[App].call = "load"
  /\ stopRequested => pc[App] = "join"
  /\ frame[Hb].call \notin {"load", "create", "destroy"}
  /\ pc[App] \in {"none", "live"} => frame[App].call = "none"
  /\ pc[App] = "join" => frame[App].call \in {"close", "destroy"}

(* mutex_ is held for the callback and no longer.                          *)
Locking ==
  /\ \A t \in Threads : pc[t] = "notify" <=> mutex = t
  /\ ReportedIsCurrent

(* A license that passed the verifier, and keeps what it was verified for. *)
Verified(license) ==
  /\ license.signer # None
  /\ MachineFingerprint = None
     \/ license.fingerprint \in {None, MachineFingerprint}
  /\ config # None /\ (config.pinned => license.signer = config.pem)

(* What a thread carries from step to step of a call.                      *)
ThreadTrust(t) ==
  /\ pc[t] \in ApplySteps \ {"await"} => frame[t].doc # None
  /\ pc[t] \in {"store", "commit", "notify"} =>
       Verified(frame[t].doc) /\ frame[t].doc.form = "wellFormed"
  /\ frame[t].call = "load" /\ pc[t] \in ApplySteps => pc[t] \in {"verify", "store"}

Trust ==
  /\ config # None /\ config.pinned =>
       pkey = config.pem /\ pc[App] \notin {"installKey", "saveKey"}
  /\ current # None => Verified(current)
  /\ valid => current # None
  /\ \A t \in Threads : ThreadTrust(t)

IInv == TypeOK /\ Control /\ Locking /\ Trust

-----------------------------------------------------------------------------
(* The operators the client is built from.                                 *)

(* create() gets past its checks only with a key that parses or with none, *)
(* and in pinned mode with the configured one.                             *)
LEMMA SetupSound ==
  ASSUME NEW c \in Config, NEW hardwareWorks \in BOOLEAN,
         SetupVerdict(c, hardwareWorks) = "success"
  PROVE  /\ ConfiguredKey(c) \in Keys \cup {None}
         /\ c.pinned => ConfiguredKey(c) = c.pem
<1> DEFINE checks == <<
    [holds |-> "product" \in c.fields, error |-> "config_product_required"],
    [holds |-> "version" \in c.fields, error |-> "config_version_required"],
    [holds |-> c.offline \/ "server" \in c.fields,
     error |-> "config_server_required"],
    [holds |-> hardwareWorks, error |-> "hardware_error"],
    [holds |-> c.pinned => c.pem # None, error |-> "config_public_key_required"],
    [holds |-> ConfiguredKey(c) # Unreadable, error |-> "config_file_read_error"],
    [holds |-> ConfiguredKey(c) # BadPem,
     error |-> "validation_invalid_public_key"] >>
<1>1. FirstFailure(checks) = "success"
  BY DEF SetupVerdict
<1>2. DOMAIN checks = 1 .. 7
  OBVIOUS
<1>3. \A i \in 1 .. 7 : checks[i].error # "success"
  <2> SUFFICES ASSUME NEW i \in 1 .. 7 PROVE checks[i].error # "success"
    OBVIOUS
  <2>1. i \in {1, 2, 3, 4, 5, 6, 7}
    OBVIOUS
  <2>2. QED
    BY <2>1
<1>4. checks[5].holds /\ checks[6].holds /\ checks[7].holds
  <2> HIDE DEF checks
  <2>1. \A i \in 1 .. 7 : checks[i].holds
    BY <1>1, <1>2, <1>3, FirstFailureSound
  <2>2. QED
    BY <2>1
<1>5. checks[5].holds => (c.pinned => c.pem # None)
  OBVIOUS
<1>6. checks[6].holds => ConfiguredKey(c) # Unreadable
  OBVIOUS
<1>7. checks[7].holds => ConfiguredKey(c) # BadPem
  OBVIOUS
<1>8. ConfiguredKey(c) \in Keys \cup {BadPem, Unreadable, None}
  BY DEF Config, ConfiguredKey
<1>9. (c.pinned => c.pem # None)
      /\ ConfiguredKey(c) # Unreadable /\ ConfiguredKey(c) # BadPem
  <2> HIDE DEF checks
  <2>1. QED
    BY <1>4, <1>5, <1>6, <1>7
<1>10. QED
  BY <1>8, <1>9 DEF ConfiguredKey

(* The data operators have the types of the client's variables.            *)
LEMMA DocumentTypes ==
  ASSUME NEW doc \in Document
  PROVE  /\ NormalizeLicenseBytes(doc) \in Document
         /\ Decodable(doc) => DecodeBase64(doc) \in Document
         /\ PayloadOf(doc) \in Payload
         /\ Garbage \in Document
<1>1. Garbage \in Document
  BY DEF Garbage, Document, Forms, Epoch
<1>2. PayloadOf(doc) \in Payload
  BY DEF PayloadOf, Payload, Document
<1>3. doc.layers > 0 => DecodeBase64(doc) \in Document
  BY DEF DecodeBase64, Document
<1>4. QED
  BY <1>1, <1>2, <1>3 DEF NormalizeLicenseBytes, Decodable, Document

(* What activation puts into the locals of its call.                       *)
LEMMA FrameTypes ==
  ASSUME NEW f \in Frame, NEW doc \in Document,
         NEW key \in Keys \cup {BadPem, None}
  PROVE  [f EXCEPT !.doc = doc, !.newKey = key] \in Frame
  BY DEF Frame

(* What is written is the content of a file, what is read a document or    *)
(* the decryption error.                                                   *)
LEMMA CodecTypes ==
  ASSUME NEW secret \in Secrets \cup {None}
  PROVE  /\ \A doc \in Document : MaybeEncrypt(secret, doc) \subseteq Content
         /\ \A content \in Content :
              MaybeDecrypt(secret, content) \in Document \cup {None}
<1>1. Garbage \in Document
  BY DEF Garbage, Document, Forms, Epoch
<1>2. ASSUME NEW doc \in Document PROVE MaybeEncrypt(secret, doc) \subseteq Content
  <2>1. Plain(doc) \in Content
    BY DEF Plain, Content, Tag
  <2>2. secret # None => Sealed(secret, doc) \in Content
    BY <1>1 DEF Sealed, GcmTag, Content, Tag
  <2>3. QED
    BY <2>1, <2>2 DEF MaybeEncrypt
<1>3. ASSUME NEW content \in Content
      PROVE  MaybeDecrypt(secret, content) \in Document \cup {None}
  <2>1. content.body \in Document
    BY DEF Content, Tag
  <2>2. QED
    BY <1>1, <2>1 DEF MaybeDecrypt
<1>4. QED
  BY <1>2, <1>3

(* A call that ends keeps the invariant, whether it resumes its thread,    *)
(* hands out the client or leaves none behind; success needs a license.    *)
LEMMA ReturnKeepsInvariant ==
  ASSUME IInv, NEW t \in Threads, NEW res,
         pc[t] \in ApplySteps, frame[t].call # "load",
         res = "success" => current # None,
         Return(t, res),
         \/ pc[t] = "notify" /\ mutex' = None
         \/ pc[t] # "notify" /\ mutex' = mutex,
         UNCHANGED <<files, authCode, now>>
  PROVE  IInv'
<1> USE NoneAssumption, CodecAssumption, ClientAssumption
<1> USE DEF App, Hb, Threads, files, IInv
<1>1. CASE frame[t].call # "create"
  <2>1. Resume(t, res)
    BY <1>1 DEF Return
  <2>2. TypeOK'
    BY <2>1 DEF Resume, Goto, TypeOK, Idle, Frame, Calls, AppSteps, HbSteps
  <2>3. Control'
    <3>1. valid /\ config # None /\ pc[App] # "none"
      BY <1>1 DEF Control, TypeOK, ApplySteps
    <3>2. CASE t = App
      BY <2>1, <3>1, <3>2 DEF Resume, Goto, Control, TypeOK, Idle, AppSteps,
         HbSteps,
                              ApplySteps
    <3>3. CASE t = Hb
      BY <2>1, <3>1, <3>3 DEF Resume, Goto, Control, TypeOK, Idle, AppSteps,
         HbSteps,
                              ApplySteps
    <3>4. QED
      BY <3>2, <3>3
  <2>4. Locking'
    BY <2>1 DEF Resume, Goto, Locking, ReportedIsCurrent, TypeOK
  <2>5. Trust'
    <3>1. (config # None /\ config.pinned => pkey = config.pem /\ pc[App] \notin {"installKey", "saveKey"})'
      BY <2>1 DEF Resume, Goto, Trust, ThreadTrust, Verified, TypeOK, Idle,
         ApplySteps
    <3>2. (current # None => Verified(current))' /\ (valid => current # None)'
      BY <2>1 DEF Resume, Goto, Trust, ThreadTrust, Verified, TypeOK, Idle,
         ApplySteps
    <3>3. ASSUME NEW u \in Threads
          PROVE  ThreadTrust(u)'
      BY <2>1 DEF Resume, Goto, Trust, ThreadTrust, Verified, TypeOK, Idle,
         ApplySteps
    <3>4. QED
      BY <3>1, <3>2, <3>3 DEF Trust
  <2>6. QED
    BY <2>2, <2>3, <2>4, <2>5
<1>2. CASE frame[t].call = "create" /\ res = "success"
  <2>1. GoLive
    BY <1>2 DEF Return
  <2>2. t = App /\ pc[Hb] = "off" /\ ~stopRequested /\ current # None
    BY <1>2 DEF Control, TypeOK, ApplySteps
  <2>3. TypeOK'
    BY <2>1 DEF GoLive, TypeOK, Idle, Frame, Calls, AppSteps, HbSteps
  <2>4. Control'
    BY <2>1, <2>2 DEF GoLive, Control, TypeOK, Idle, AppSteps, HbSteps,
       ApplySteps
  <2>5. Locking'
    BY <2>1, <2>2 DEF GoLive, Locking, ReportedIsCurrent, TypeOK
  <2>6. Trust'
    <3>1. (config # None /\ config.pinned => pkey = config.pem /\ pc[App] \notin {"installKey", "saveKey"})'
      BY <2>1, <2>2 DEF GoLive, Trust, ThreadTrust, Verified, TypeOK, Idle,
         ApplySteps
    <3>2. (current # None => Verified(current))' /\ (valid => current # None)'
      BY <2>1, <2>2 DEF GoLive, Trust, ThreadTrust, Verified, TypeOK, Idle,
         ApplySteps
    <3>3. ASSUME NEW u \in Threads
          PROVE  ThreadTrust(u)'
      BY <2>1, <2>2 DEF GoLive, Trust, ThreadTrust, Verified, TypeOK, Idle,
         ApplySteps
    <3>4. QED
      BY <3>1, <3>2, <3>3 DEF Trust
  <2>7. QED
    BY <2>3, <2>4, <2>5, <2>6
<1>3. CASE frame[t].call = "create" /\ res # "success"
  <2>1. NoClient(res)
    BY <1>3 DEF Return
  <2>2. t = App /\ pc[Hb] = "off"
    BY <1>3 DEF Control, TypeOK, ApplySteps
  <2>3. TypeOK'
    BY <2>1 DEF NoClient, Discard, TypeOK, Idle, Frame, Calls, AppSteps, HbSteps
  <2>4. Control'
    BY <2>1, <2>2 DEF NoClient, Discard, Control, TypeOK, Idle, AppSteps,
       HbSteps, ApplySteps
  <2>5. Locking'
    BY <2>1, <2>2 DEF NoClient, Discard, Locking, ReportedIsCurrent, TypeOK
  <2>6. Trust'
    <3>1. (config # None /\ config.pinned => pkey = config.pem /\ pc[App] \notin {"installKey", "saveKey"})'
      BY <2>1, <2>2 DEF NoClient, Discard, Trust, ThreadTrust, Verified,
         TypeOK, Idle, ApplySteps
    <3>2. (current # None => Verified(current))' /\ (valid => current # None)'
      BY <2>1, <2>2 DEF NoClient, Discard, Trust, ThreadTrust, Verified,
         TypeOK, Idle, ApplySteps
    <3>3. ASSUME NEW u \in Threads
          PROVE  ThreadTrust(u)'
      BY <2>1, <2>2 DEF NoClient, Discard, Trust, ThreadTrust, Verified,
         TypeOK, Idle, ApplySteps
    <3>4. QED
      BY <3>1, <3>2, <3>3 DEF Trust
  <2>7. QED
    BY <2>3, <2>4, <2>5, <2>6
<1>4. QED
  BY <1>1, <1>2, <1>3

(* Every step of either thread, of the environment, and of the clock keeps *)
(* the invariant.                                                          *)
LEMMA Inductive == IInv /\ [Next]_vars => IInv'
<1> SUFFICES ASSUME IInv, [Next]_vars PROVE IInv'
  OBVIOUS
<1> USE NoneAssumption, CodecAssumption, ClientAssumption
<1> USE DEF App, Hb, Threads, files, IInv
<1>1. ASSUME LoadKey PROVE IInv'
  <2>1. TypeOK'
    BY <1>1 DEF LoadKey, Anchor, InstallKey, Goto, Config, TypeOK, Idle, Frame,
       Calls, AppSteps, HbSteps, ApplySteps
  <2>2. Control'
    BY <1>1 DEF LoadKey, Anchor, InstallKey, Goto, Control, TypeOK, Idle,
       Frame, AppSteps, HbSteps, ApplySteps
  <2>3. Locking'
    BY <1>1 DEF LoadKey, Anchor, InstallKey, Goto, Locking, ReportedIsCurrent,
       Control, TypeOK, Idle, Frame
  <2>4. Trust'
    BY <1>1 DEF LoadKey, Anchor, InstallKey, Goto, Trust, ThreadTrust,
       Verified, Control, TypeOK, Idle, Frame, ApplySteps
  <2>5. QED
    BY <2>1, <2>2, <2>3, <2>4
<1>2. ASSUME LoadLicense PROVE IInv'
  <2>1. licFile # None =>
          MaybeDecrypt(config.secret, licFile) \in Document \cup {None}
    BY <1>2, CodecTypes DEF LoadLicense, Control, TypeOK, Config
  <2>2. TypeOK'
    BY <1>2, <2>1 DEF LoadLicense, Goto, TypeOK, Idle, Frame, Calls, AppSteps,
       HbSteps, ApplySteps
  <2>3. Control'
    BY <1>2, <2>1 DEF LoadLicense, Goto, Control, TypeOK, Idle, Frame,
       AppSteps, HbSteps, ApplySteps
  <2>4. Locking'
    BY <1>2, <2>1 DEF LoadLicense, Goto, Locking, ReportedIsCurrent, Control,
       TypeOK, Idle, Frame
  <2>5. Trust'
    BY <1>2, <2>1 DEF LoadLicense, Goto, Trust, ThreadTrust, Verified, Control,
       TypeOK, Idle, Frame, ApplySteps
  <2>6. QED
    BY <2>2, <2>3, <2>4, <2>5
<1>3. ASSUME Bootstrap PROVE IInv'
  <2>1. pc[App] = "bootstrap" /\ frame[App].call = "load" /\ ~valid /\ pc[Hb] = "off"
        /\ ~stopRequested
    BY <1>3 DEF Bootstrap, Control
  <2>2. UNCHANGED <<files, mutex, now>>
    BY <1>3 DEF Bootstrap
  <2>3. CASE current # None /\ GoLive /\ UNCHANGED authCode
    <3>1. TypeOK'
      BY <2>2, <2>3 DEF GoLive, TypeOK, Idle, Frame, Calls, AppSteps, HbSteps
    <3>2. Control'
      BY <2>1, <2>3 DEF GoLive, Control, TypeOK, Idle, AppSteps, HbSteps,
         ApplySteps
    <3>3. Locking'
      BY <2>1, <2>2, <2>3 DEF GoLive, Locking, ReportedIsCurrent, TypeOK
    <3>4. Trust'
      BY <2>1, <2>3 DEF GoLive, Trust, ThreadTrust, Verified, TypeOK, Idle,
         ApplySteps
    <3>5. QED
      BY <3>1, <3>2, <3>3, <3>4
  <2>4. CASE NoClient("no_license_loaded") /\ UNCHANGED authCode
    <3>1. TypeOK'
      BY <2>2, <2>4 DEF NoClient, Discard, TypeOK, Idle, Frame, Calls,
         AppSteps, HbSteps
    <3>2. Control'
      BY <2>1, <2>4 DEF NoClient, Discard, Control, TypeOK, Idle, AppSteps,
         HbSteps, ApplySteps
    <3>3. Locking'
      BY <2>1, <2>2, <2>4 DEF NoClient, Discard, Locking, ReportedIsCurrent,
         TypeOK
    <3>4. Trust'
      BY <2>1, <2>4 DEF NoClient, Discard, Trust, ThreadTrust, Verified,
         TypeOK, Idle, ApplySteps
    <3>5. QED
      BY <3>1, <3>2, <3>3, <3>4
  <2>5. CASE BeginActivation("create")
    <3>1. TypeOK'
      <4>1. \A outcome \in AuthOutcomes : outcome[2] \in AuthSources
        BY DEF AuthOutcomes, AuthSources, TypeOK
      <4>2. authCode' \in AuthSources
        BY <2>5, <4>1 DEF BeginActivation
      <4>3. CASE NoClient(result')
        BY <2>2, <4>2, <4>3 DEF NoClient, Discard, TypeOK, Idle, Frame, Calls,
                                AppSteps, HbSteps
      <4>4. CASE /\ Goto(App, "await")
                 /\ frame' = [frame EXCEPT ![App] = [Idle EXCEPT !.call = "create"]]
                 /\ UNCHANGED <<config, pkey, current, valid, stopRequested>>
        BY <2>2, <4>2, <4>4 DEF Goto, TypeOK, Idle, Frame, Calls, ApplySteps
      <4>5. QED
        BY <2>5, <4>3, <4>4 DEF BeginActivation, NoClient, Discard
    <3>2. Control'
      BY <2>1, <2>5 DEF BeginActivation, NoClient, Discard, Goto, Control,
         TypeOK, Idle, Frame, AppSteps, HbSteps, ApplySteps
    <3>3. Locking'
      BY <2>1, <2>2, <2>5 DEF BeginActivation, NoClient, Discard, Goto,
         Locking, ReportedIsCurrent, TypeOK
    <3>4. Trust'
      BY <2>1, <2>5 DEF BeginActivation, NoClient, Discard, Goto, Trust,
         ThreadTrust, Verified, TypeOK, Frame, Idle, ApplySteps
    <3>5. QED
      BY <3>1, <3>2, <3>3, <3>4
  <2>6. QED
    BY <1>3, <2>3, <2>4, <2>5 DEF Bootstrap
<1>4. ASSUME ReceiveActivation PROVE IInv'
  <2>1. /\ pc[App] = "await" /\ frame[App].call \in {"create", "activate"}
        /\ UNCHANGED <<files, authCode, mutex, now>>
    BY <1>4 DEF ReceiveActivation
  <2>2. ASSUME NEW res, res # "success", Return(App, res) PROVE IInv'
    BY <2>1, <2>2, ReturnKeepsInvariant DEF ApplySteps
  <2>3. ASSUME NEW wire \in Documents, NEW key \in ServedKeys, Decodable(wire),
               frame' = [frame EXCEPT ![App].doc = DecodeBase64(wire),
                                      ![App].newKey = key],
               Goto(App, IF MayRotate(key) THEN "installKey" ELSE "verify"),
               UNCHANGED <<config, pkey, current, valid, stopRequested, result>>
        PROVE  IInv'
    <3>1. DecodeBase64(wire) \in Document
      BY <2>3, DocumentTypes
    <3>2. TypeOK'
      <4>1. key \in Keys \cup {BadPem, None}
        OBVIOUS
      <4>2. frame' \in [Threads -> Frame]
        <5> DEFINE locals ==
              [frame[App] EXCEPT !.doc = DecodeBase64(wire), !.newKey = key]
        <5>1. locals \in Frame
          <6>1. frame[App] \in Frame
            BY DEF TypeOK
          <6>2. QED
            BY <3>1, <4>1, <6>1, FrameTypes
        <5>2. frame' = [frame EXCEPT ![App] = locals]
          BY <2>3 DEF TypeOK
        <5>3. QED
          BY <5>1, <5>2 DEF TypeOK
      <4>3. pc' \in [Threads -> AppSteps \cup HbSteps \cup ApplySteps]
        BY <2>3 DEF Goto, TypeOK, ApplySteps
      <4>4. QED
        BY <2>1, <2>3, <4>2, <4>3 DEF TypeOK
    <3>3. Control'
      BY <2>1, <2>3 DEF Goto, Control, TypeOK, Frame, AppSteps, HbSteps,
         ApplySteps
    <3>4. Locking'
      BY <2>1, <2>3 DEF Goto, Locking, ReportedIsCurrent, TypeOK, Frame
    <3>5. Trust'
      BY <2>1, <2>3, <3>1 DEF Goto, Trust, ThreadTrust, Verified, MayRotate,
         Control, TypeOK, Frame, ApplySteps
    <3>6. QED
      BY <3>2, <3>3, <3>4, <3>5
  <2>4. QED
    BY <1>4, <2>2, <2>3 DEF ReceiveActivation
<1>5. ASSUME InstallNewKey PROVE IInv'
  <2>1. ~config.pinned
    BY <1>5 DEF InstallNewKey, Trust, Control, TypeOK
  <2>2. TypeOK'
    BY <1>5, <2>1 DEF InstallNewKey, AfterInstall, InstallKey, Goto, TypeOK,
       Idle, Frame, Calls, AppSteps, HbSteps, ApplySteps
  <2>3. Control'
    BY <1>5, <2>1 DEF InstallNewKey, AfterInstall, InstallKey, Goto, Control,
       TypeOK, Idle, Frame, AppSteps, HbSteps, ApplySteps
  <2>4. Locking'
    BY <1>5, <2>1 DEF InstallNewKey, AfterInstall, InstallKey, Goto, Locking,
       ReportedIsCurrent, Control, TypeOK, Idle, Frame
  <2>5. Trust'
    BY <1>5, <2>1 DEF InstallNewKey, AfterInstall, InstallKey, Goto, Trust,
       ThreadTrust, Verified, Control, TypeOK, Idle, Frame, ApplySteps
  <2>6. QED
    BY <2>2, <2>3, <2>4, <2>5
<1>6. ASSUME SavePubKey PROVE IInv'
  <2>1. ~config.pinned
    BY <1>6 DEF SavePubKey, Trust, Control, TypeOK
  <2>2. TypeOK'
    BY <1>6, <2>1 DEF SavePubKey, Goto, TypeOK, Idle, Frame, Calls, AppSteps,
       HbSteps, ApplySteps
  <2>3. Control'
    BY <1>6, <2>1 DEF SavePubKey, Goto, Control, TypeOK, Idle, Frame, AppSteps,
       HbSteps, ApplySteps
  <2>4. Locking'
    BY <1>6, <2>1 DEF SavePubKey, Goto, Locking, ReportedIsCurrent, Control,
       TypeOK, Idle, Frame
  <2>5. Trust'
    BY <1>6, <2>1 DEF SavePubKey, Goto, Trust, ThreadTrust, Verified, Control,
       TypeOK, Idle, Frame, ApplySteps
  <2>6. QED
    BY <2>2, <2>3, <2>4, <2>5
<1>7. ASSUME Join PROVE IInv'
  <2>1. /\ pc[App] = "join" /\ pc[Hb] \in {"off", "exited"}
        /\ UNCHANGED <<files, authCode, mutex, now>>
    BY <1>7 DEF Join, Joinable
  <2>2. CASE NoClient("success")
    <3>1. TypeOK'
      BY <2>1, <2>2 DEF NoClient, Discard, TypeOK, Idle, Frame, Calls,
         AppSteps, HbSteps
    <3>2. Control'
      BY <2>1, <2>2 DEF NoClient, Discard, Control, TypeOK, Idle, AppSteps,
         HbSteps, ApplySteps
    <3>3. Locking'
      BY <2>1, <2>2 DEF NoClient, Discard, Locking, ReportedIsCurrent, TypeOK
    <3>4. Trust'
      BY <2>1, <2>2 DEF NoClient, Discard, Trust, ThreadTrust, Verified,
         TypeOK, Idle, ApplySteps
    <3>5. QED
      BY <3>1, <3>2, <3>3, <3>4
  <2>3. CASE /\ pc' = [pc EXCEPT ![App] = "live", ![Hb] = "off"]
             /\ frame' = [frame EXCEPT ![App] = Idle]
             /\ stopRequested' = FALSE /\ result' = "success"
             /\ UNCHANGED <<config, pkey, current, valid>>
    <3>1. TypeOK'
      BY <2>1, <2>3 DEF TypeOK, Idle, Frame, Calls, AppSteps, HbSteps
    <3>2. Control'
      BY <2>1, <2>3 DEF Control, TypeOK, Idle, AppSteps, HbSteps, ApplySteps
    <3>3. Locking'
      BY <2>1, <2>3 DEF Locking, ReportedIsCurrent, TypeOK
    <3>4. Trust'
      BY <2>1, <2>3 DEF Trust, ThreadTrust, Verified, TypeOK, Idle, ApplySteps
    <3>5. QED
      BY <3>1, <3>2, <3>3, <3>4
  <2>4. QED
    BY <1>7, <2>2, <2>3 DEF Join
<1>8. ASSUME HbExit PROVE IInv'
  <2>1. TypeOK'
    BY <1>8 DEF HbExit, Goto, TypeOK, Idle, Frame, Calls, AppSteps, HbSteps,
       ApplySteps
  <2>2. Control'
    BY <1>8 DEF HbExit, Goto, Control, TypeOK, Idle, Frame, AppSteps, HbSteps,
       ApplySteps
  <2>3. Locking'
    BY <1>8 DEF HbExit, Goto, Locking, ReportedIsCurrent, Control, TypeOK,
       Idle, Frame
  <2>4. Trust'
    BY <1>8 DEF HbExit, Goto, Trust, ThreadTrust, Verified, Control, TypeOK,
       Idle, Frame, ApplySteps
  <2>5. QED
    BY <2>1, <2>2, <2>3, <2>4
<1>9. ASSUME Activate PROVE IInv'
  <2>1. TypeOK'
    BY <1>9 DEF Activate, BeginActivation, AuthOutcomes, Resume, Goto,
       AuthSources, NoClient, TypeOK, Idle, Frame, Calls, AppSteps, HbSteps, ApplySteps
  <2>2. Control'
    BY <1>9 DEF Activate, BeginActivation, AuthOutcomes, Resume, Goto, Control,
       TypeOK, Idle, Frame, AppSteps, HbSteps, ApplySteps
  <2>3. Locking'
    BY <1>9 DEF Activate, BeginActivation, AuthOutcomes, Resume, Goto, Locking,
       ReportedIsCurrent, Control, TypeOK, Idle, Frame
  <2>4. Trust'
    BY <1>9 DEF Activate, BeginActivation, AuthOutcomes, Resume, Goto, Trust,
       ThreadTrust, Verified, Control, TypeOK, Idle, Frame, ApplySteps
  <2>5. QED
    BY <2>1, <2>2, <2>3, <2>4
<1>10. ASSUME SendHeartbeat PROVE IInv'
  <2>1. TypeOK'
    BY <1>10 DEF SendHeartbeat, Resume, Goto, TypeOK, Idle, Frame, Calls,
       AppSteps, HbSteps, ApplySteps
  <2>2. Control'
    BY <1>10 DEF SendHeartbeat, Resume, Goto, Control, TypeOK, Idle, Frame,
       AppSteps, HbSteps, ApplySteps
  <2>3. Locking'
    BY <1>10 DEF SendHeartbeat, Resume, Goto, Locking, ReportedIsCurrent,
       Control, TypeOK, Idle, Frame
  <2>4. Trust'
    BY <1>10 DEF SendHeartbeat, Resume, Goto, Trust, ThreadTrust, Verified,
       Control, TypeOK, Idle, Frame, ApplySteps
  <2>5. QED
    BY <2>1, <2>2, <2>3, <2>4
<1>11. ASSUME HbSend PROVE IInv'
  <2>1. TypeOK'
    BY <1>11 DEF HbSend, Goto, TypeOK, Idle, Frame, Calls, AppSteps, HbSteps,
       ApplySteps
  <2>2. Control'
    BY <1>11 DEF HbSend, Goto, Control, TypeOK, Idle, Frame, AppSteps, HbSteps,
       ApplySteps
  <2>3. Locking'
    BY <1>11 DEF HbSend, Goto, Locking, ReportedIsCurrent, Control, TypeOK,
       Idle, Frame
  <2>4. Trust'
    BY <1>11 DEF HbSend, Goto, Trust, ThreadTrust, Verified, Control, TypeOK,
       Idle, Frame, ApplySteps
  <2>5. QED
    BY <2>1, <2>2, <2>3, <2>4
<1>12. ASSUME Crash PROVE IInv'
  <2>1. TypeOK'
    BY <1>12 DEF Crash, Discard, TypeOK, Idle, Frame, Calls, AppSteps, HbSteps,
       ApplySteps
  <2>2. Control'
    BY <1>12 DEF Crash, Discard, Control, TypeOK, Idle, Frame, AppSteps,
       HbSteps, ApplySteps
  <2>3. Locking'
    BY <1>12 DEF Crash, Discard, Locking, ReportedIsCurrent, Control, TypeOK,
       Idle, Frame
  <2>4. Trust'
    BY <1>12 DEF Crash, Discard, Trust, ThreadTrust, Verified, Control, TypeOK,
       Idle, Frame, ApplySteps
  <2>5. QED
    BY <2>1, <2>2, <2>3, <2>4
<1>13. ASSUME Tick PROVE IInv'
  <2>1. TypeOK'
    BY <1>13 DEF Tick, TypeOK, Idle, Frame, Calls, AppSteps, HbSteps, ApplySteps
  <2>2. Control'
    BY <1>13 DEF Tick, Control, TypeOK, Idle, Frame, AppSteps, HbSteps,
       ApplySteps
  <2>3. Locking'
    BY <1>13 DEF Tick, Locking, ReportedIsCurrent, Control, TypeOK, Idle, Frame
  <2>4. Trust'
    BY <1>13 DEF Tick, Trust, ThreadTrust, Verified, Control, TypeOK, Idle,
       Frame, ApplySteps
  <2>5. QED
    BY <2>1, <2>2, <2>3, <2>4
<1>14. ASSUME NEW t \in Threads, ReceiveHeartbeat(t) PROVE IInv'
  <2>1. /\ pc[t] = "await" /\ frame[t].call \in {"manual", "heartbeat"}
        /\ UNCHANGED <<files, authCode, mutex, now>>
    BY <1>14 DEF ReceiveHeartbeat
  <2>2. ASSUME NEW res, Return(t, res) PROVE IInv'
    <3>1. res = "success" => current # None
      BY <2>1 DEF Control, Trust
    <3>2. QED
      BY <2>1, <2>2, <3>1, ReturnKeepsInvariant DEF ApplySteps
  <2>3. ASSUME NEW wire \in Documents, Decodable(wire),
               frame' = [frame EXCEPT ![t].doc = DecodeBase64(wire)],
               Goto(t, "verify"),
               UNCHANGED <<config, pkey, current, valid, stopRequested, result>>
        PROVE  IInv'
    <3>1. DecodeBase64(wire) \in Document
      BY <2>3, DocumentTypes
    <3>2. TypeOK'
      BY <2>1, <2>3, <3>1 DEF Goto, TypeOK, Frame, AppSteps, HbSteps, ApplySteps
    <3>3. Control'
      BY <2>1, <2>3 DEF Goto, Control, TypeOK, Frame, AppSteps, HbSteps,
         ApplySteps
    <3>4. Locking'
      BY <2>1, <2>3 DEF Goto, Locking, ReportedIsCurrent, TypeOK, Frame
    <3>5. Trust'
      BY <2>1, <2>3, <3>1 DEF Goto, Trust, ThreadTrust, Verified, Control,
         TypeOK, Frame, ApplySteps
    <3>6. QED
      BY <3>2, <3>3, <3>4, <3>5
  <2>4. QED
    BY <1>14, <2>2, <2>3 DEF ReceiveHeartbeat
<1>15. ASSUME NEW t \in Threads, Verify(t) PROVE IInv'
  <2> DEFINE doc == NormalizeLicenseBytes(frame[t].doc)
             verdict == IF pkey = None THEN "config_public_key_required"
                        ELSE VerifyLicense(doc, pkey, MachineFingerprint, now)
  <2>1. /\ pc[t] = "verify" /\ config # None /\ doc \in Document
        /\ UNCHANGED <<files, authCode, mutex, now>>
    BY <1>15, DocumentTypes DEF Verify, Control, Trust, ThreadTrust, TypeOK,
       Frame, ApplySteps
  <2>2. CASE /\ verdict = "success"
             /\ Goto(t, "store")
             /\ frame' = [frame EXCEPT ![t].doc = doc]
             /\ UNCHANGED <<config, pkey, current, valid, stopRequested, result>>
    <3>1. Verified(doc) /\ doc.form = "wellFormed"
      <4>1. /\ doc.form = "wellFormed" /\ doc.signer = pkey /\ pkey # None
            /\ FitsMachine(doc, MachineFingerprint)
        <5> HIDE DEF doc
        <5>1. QED
          BY <2>1, <2>2, VerifyLicenseSound
      <4>2. QED
        BY <2>1, <4>1 DEF Verified, FitsMachine, Trust
    <3> HIDE DEF doc
    <3>2. TypeOK'
      BY <2>1, <2>2 DEF Goto, TypeOK, Frame, AppSteps, HbSteps, ApplySteps
    <3>3. Control'
      BY <2>1, <2>2 DEF Goto, Control, TypeOK, Frame, AppSteps, HbSteps,
         ApplySteps
    <3>4. Locking'
      BY <2>1, <2>2 DEF Goto, Locking, ReportedIsCurrent, TypeOK, Frame
    <3>5. Trust'
      BY <2>1, <2>2, <3>1 DEF Goto, Trust, ThreadTrust, Verified, Control,
         TypeOK, Frame, ApplySteps
    <3>6. QED
      BY <3>2, <3>3, <3>4, <3>5
  <2>3. CASE /\ frame[t].call = "load" /\ Goto(t, "bootstrap")
             /\ UNCHANGED <<config, pkey, current, valid, stopRequested, frame,
                            result>>
    <3>1. t = App
      BY <2>3 DEF Control
    <3>2. TypeOK'
      BY <2>1, <2>3 DEF Goto, TypeOK, AppSteps, HbSteps, ApplySteps
    <3>3. Control'
      BY <2>1, <2>3, <3>1 DEF Goto, Control, TypeOK, AppSteps, HbSteps,
         ApplySteps
    <3>4. Locking'
      BY <2>1, <2>3 DEF Goto, Locking, ReportedIsCurrent, TypeOK
    <3>5. Trust'
      BY <2>1, <2>3 DEF Goto, Trust, ThreadTrust, Verified, TypeOK, ApplySteps
    <3>6. QED
      BY <3>2, <3>3, <3>4, <3>5
  <2>4. ASSUME Return(t, verdict), frame[t].call # "load",
               verdict # "success" \/ KeyInUseFreed(t)
        PROVE  IInv'
    <3>1. verdict = "success" => current # None
      BY <2>1, <2>4 DEF KeyInUseFreed, Control, Trust
    <3> HIDE DEF verdict
    <3>2. QED
      BY <2>1, <2>4, <3>1, ReturnKeepsInvariant DEF ApplySteps
  <2>5. QED
    BY <1>15, <2>2, <2>3, <2>4 DEF Verify
<1>16. ASSUME NEW t \in Threads, Store(t) PROVE IInv'
  <2>1. /\ pc[t] = "store" /\ Verified(frame[t].doc) /\ frame[t].doc \in Document
        /\ config \in Config
        /\ UNCHANGED <<keyFile, config, authCode, pkey, valid, mutex,
                       stopRequested, frame, result, now>>
    BY <1>16 DEF Store, Trust, ThreadTrust, Control, TypeOK, Frame, ApplySteps
  <2>2. PayloadOf(frame[t].doc) \in Payload /\ Verified(PayloadOf(frame[t].doc))
    BY <2>1, DocumentTypes DEF Verified, PayloadOf
  <2>3. dir' \in BOOLEAN /\ licFile' \in Content \cup {None}
    <3>1. MaybeEncrypt(config.secret, frame[t].doc) \subseteq Content
      BY <2>1, CodecTypes DEF Config
    <3>2. Plain(Garbage) \in Content
      BY <2>1, DocumentTypes DEF Plain, Content, Tag
    <3>3. QED
      BY <1>16, <3>1, <3>2 DEF Store, TypeOK
  <2>4. CASE frame[t].call = "load"
    <3>1. t = App /\ current' = PayloadOf(frame[t].doc) /\ Goto(t, "bootstrap")
      BY <1>16, <2>4 DEF Store, Control
    <3>2. TypeOK'
      BY <2>1, <2>2, <2>3, <3>1 DEF Goto, TypeOK, AppSteps, HbSteps, ApplySteps
    <3>3. Control'
      BY <2>1, <2>4, <3>1 DEF Goto, Control, TypeOK, AppSteps, HbSteps,
         ApplySteps
    <3>4. Locking'
      BY <2>1, <2>4, <3>1 DEF Goto, Locking, ReportedIsCurrent, Control, TypeOK
    <3>5. Trust'
      BY <2>1, <2>2, <3>1 DEF Goto, Trust, ThreadTrust, Verified, Control,
         TypeOK, ApplySteps
    <3>6. QED
      BY <3>2, <3>3, <3>4, <3>5
  <2>5. CASE frame[t].call # "load"
    <3>1. current' = current /\ Goto(t, "commit")
      BY <1>16, <2>5 DEF Store
    <3>2. TypeOK'
      BY <2>1, <2>3, <3>1 DEF Goto, TypeOK, AppSteps, HbSteps, ApplySteps
    <3>3. Control'
      BY <2>1, <3>1 DEF Goto, Control, TypeOK, AppSteps, HbSteps, ApplySteps
    <3>4. Locking'
      BY <2>1, <3>1 DEF Goto, Locking, ReportedIsCurrent, TypeOK
    <3>5. Trust'
      BY <2>1, <2>5, <3>1 DEF Goto, Trust, ThreadTrust, Verified, TypeOK,
         ApplySteps
    <3>6. QED
      BY <3>2, <3>3, <3>4, <3>5
  <2>6. QED
    BY <2>4, <2>5
<1>17. ASSUME NEW t \in Threads, Commit(t) PROVE IInv'
  <2>1. /\ pc[t] = "commit" /\ mutex = None /\ mutex' = t
        /\ current' = PayloadOf(frame[t].doc) /\ Goto(t, "notify")
        /\ UNCHANGED <<files, config, authCode, pkey, valid, stopRequested,
                       frame, result, now>>
    BY <1>17 DEF Commit, Acquire, Adopted
  <2>2. Verified(frame[t].doc) /\ frame[t].doc \in Document /\ frame[t].call # "load"
    BY <2>1 DEF Trust, ThreadTrust, TypeOK, Frame, ApplySteps
  <2>3. PayloadOf(frame[t].doc) \in Payload /\ Verified(PayloadOf(frame[t].doc))
    BY <2>2, DocumentTypes DEF Verified, PayloadOf
  <2>4. TypeOK'
    BY <2>1, <2>3 DEF Goto, TypeOK, AppSteps, HbSteps, ApplySteps
  <2>5. Control'
    BY <2>1 DEF Goto, Control, TypeOK, AppSteps, HbSteps, ApplySteps
  <2>6. Locking'
    BY <2>1 DEF Goto, Locking, ReportedIsCurrent, TypeOK
  <2>7. Trust'
    BY <2>1, <2>2, <2>3 DEF Goto, Trust, ThreadTrust, Verified, TypeOK,
       ApplySteps
  <2>8. QED
    BY <2>4, <2>5, <2>6, <2>7
<1>18. ASSUME NEW t \in Threads, Notify(t) PROVE IInv'
  <2>1. /\ pc[t] = "notify" /\ mutex' = None /\ Return(t, "success")
        /\ UNCHANGED <<files, authCode, now>>
    BY <1>18 DEF Notify, Release
  <2>2. current # None /\ frame[t].call # "load"
    BY <2>1, DocumentTypes DEF Locking, ReportedIsCurrent, Trust, ThreadTrust,
       TypeOK, Frame,
                               ApplySteps
  <2>3. QED
    BY <2>1, <2>2, ReturnKeepsInvariant DEF ApplySteps
<1>19. ASSUME NEW c \in Configs, Create(c) PROVE IInv'
  <2>1. TypeOK'
    BY <1>19, SetupSound DEF Create, Goto, AuthSources, Config, TypeOK, Idle,
       Frame, Calls, AppSteps, HbSteps, ApplySteps
  <2>2. Control'
    BY <1>19, SetupSound DEF Create, Goto, Control, TypeOK, Idle, Frame,
       AppSteps, HbSteps, ApplySteps
  <2>3. Locking'
    BY <1>19, SetupSound DEF Create, Goto, Locking, ReportedIsCurrent, Control,
       TypeOK, Idle, Frame
  <2>4. Trust'
    BY <1>19, SetupSound DEF Create, Goto, Trust, ThreadTrust, Verified,
       Control, Config, TypeOK, Idle, Frame, ApplySteps
  <2>5. QED
    BY <2>1, <2>2, <2>3, <2>4
<1>20. ASSUME NEW call \in {"close", "destroy"}, BeginClose(call) PROVE IInv'
  <2>1. TypeOK'
    BY <1>20 DEF BeginClose, Goto, TypeOK, Idle, Frame, Calls, AppSteps,
       HbSteps, ApplySteps
  <2>2. Control'
    BY <1>20 DEF BeginClose, Goto, Control, TypeOK, Idle, Frame, AppSteps,
       HbSteps, ApplySteps
  <2>3. Locking'
    BY <1>20 DEF BeginClose, Goto, Locking, ReportedIsCurrent, Control, TypeOK,
       Idle, Frame
  <2>4. Trust'
    BY <1>20 DEF BeginClose, Goto, Trust, ThreadTrust, Verified, Control,
       TypeOK, Idle, Frame, ApplySteps
  <2>5. QED
    BY <2>1, <2>2, <2>3, <2>4
<1>21. CASE UNCHANGED vars
  BY <1>21 DEF vars, TypeOK, Control, Locking, ReportedIsCurrent, Trust,
     ThreadTrust, Verified
<1>22. QED
  BY <1>1, <1>2, <1>3, <1>4, <1>5, <1>6, <1>7, <1>8, <1>9, <1>10, <1>11, <1>12,
     <1>13, <1>14, <1>15, <1>16, <1>17, <1>18, <1>19, <1>20, <1>21
     DEF Next, AppStep, HbStep, Apply, Environment

(* Before the program first runs the invariant holds.                      *)
LEMMA InitSound == Init => IInv
<1> SUFFICES ASSUME Init PROVE IInv
  OBVIOUS
<1> USE NoneAssumption, CodecAssumption, ClientAssumption
<1> USE DEF App, Hb, Threads, Init
<1>1. TypeOK
  <2>1. licFile \in Content \cup {None}
    BY DEF Plain, Content
  <2>2. pc \in [Threads -> AppSteps \cup HbSteps \cup ApplySteps]
    BY DEF AppSteps, HbSteps
  <2>3. frame \in [Threads -> Frame]
    BY DEF Idle, Frame, Calls
  <2>4. now \in 1 .. MaxTime
    OBVIOUS
  <2>5. QED
    BY <2>1, <2>2, <2>3, <2>4 DEF TypeOK, AuthSources
<1>2. Control
  BY DEF Control, Idle, AppSteps, HbSteps
<1>3. Locking
  BY DEF Locking, ReportedIsCurrent
<1>4. Trust
  BY DEF Trust, ThreadTrust, Idle, ApplySteps
<1>5. QED
  BY <1>1, <1>2, <1>3, <1>4 DEF IInv

(* The two steps that change a file, and what they put there.              *)
LEMMA WhoWrites ==
  ASSUME [Next]_vars
  PROVE  /\ keyFile' # keyFile => SavePubKey
         /\ licFile' # licFile => \E t \in Threads : Store(t)
<1> USE DEF files
<1>1. CASE AppStep
  BY <1>1 DEF AppStep, LoadKey, LoadLicense, Bootstrap, ReceiveActivation,
              InstallNewKey, SavePubKey, Join, Apply, ReceiveHeartbeat, Verify,
              Store, Commit, Notify, Threads
<1>2. CASE HbStep
  BY <1>2 DEF HbStep, HbExit, Apply, ReceiveHeartbeat, Verify, Store, Commit,
              Notify, Threads
<1>3. CASE Environment
  BY <1>3 DEF Environment, Create, Activate, SendHeartbeat, BeginClose, HbSend,
              Crash, Tick
<1>4. CASE UNCHANGED vars
  BY <1>4 DEF vars
<1>5. QED
  BY <1>1, <1>2, <1>3, <1>4 DEF Next

(* A license file that changes holds the document its thread was storing,  *)
(* sealed or not, or the remains of a torn write.                          *)
LEMMA WhatIsWritten ==
  ASSUME IInv, NEW t \in Threads, Store(t), licFile' # licFile
  PROVE  \/ Written(licFile') = Garbage
         \/ /\ pc[t] = "store"
            /\ Written(licFile') = frame[t].doc
<1> USE NoneAssumption, CodecAssumption, ClientAssumption
<1>1. pc[t] = "store"
  BY DEF Store
<1>2. config \in Config /\ frame[t].doc \in Document
  BY <1>1 DEF IInv, Trust, ThreadTrust, Control, TypeOK, Frame, Threads, App,
     Hb,
              ApplySteps
<1>3. CASE licFile' = Plain(Garbage)
  BY <1>3 DEF Plain, Written
<1>4. CASE licFile' \in MaybeEncrypt(config.secret, frame[t].doc)
  <2>1. CASE licFile' = Plain(frame[t].doc)
    BY <1>1, <2>1 DEF Plain, Written
  <2>2. CASE config.secret # None /\ licFile' = Sealed(config.secret, frame[t].doc)
    <3>1. GcmTag(config.secret, frame[t].doc, None) \in Tag
      BY <1>2, <2>2 DEF GcmTag, Tag, Config
    <3>2. QED
      BY <1>1, <2>2, <3>1 DEF Sealed, Written, GcmTag
  <2>3. QED
    BY <1>4, <2>1, <2>2 DEF MaybeEncrypt
<1>5. QED
  BY <1>3, <1>4 DEF Store

-----------------------------------------------------------------------------
(***************************************************************************)
(* What holds of every client.                                             *)
(***************************************************************************)

(* The invariant the proofs rest on: where the two threads can be, who     *)
(* holds mutex_, and what has been verified by the time it is used.        *)
THEOREM Invariance == Spec => []IInv
<1>1. Init => IInv
  BY InitSound
<1>2. IInv /\ [Next]_vars => IInv'
  BY Inductive
<1>3. QED
  BY <1>1, <1>2, PTL DEF Spec

(* Every variable keeps its type, the locals of both threads included.     *)
THEOREM TypeCorrect == Spec => []TypeOK
<1>1. IInv => TypeOK
  BY DEF IInv
<1>2. QED
  BY <1>1, Invariance, PTL

(* With pin_public_key neither the cache nor the server replaces the key,  *)
(* and no license of another signer becomes the current one, whatever keys *)
(* and documents there are (client.cpp 137-152, 270).                      *)
THEOREM PinnedKeyIsTheAnchor == Spec => []PinnedTrust
<1>1. IInv => PinnedTrust
  BY DEF IInv, Trust, Verified, PinnedTrust
<1>2. QED
  BY <1>1, Invariance, PTL

(* A client in the application's hands holds a signed license that fits    *)
(* the machine (client.cpp 97-131, validator.cpp 407-412).                 *)
THEOREM LiveClientIsLicensed == Spec => []LiveHasLicense
<1>1. IInv => LiveHasLicense
  BY DEF IInv, Trust, Verified, LiveHasLicense
<1>2. QED
  BY <1>1, Invariance, PTL

(* While a callback runs its license stays the current one, and its thread *)
(* holds the lock (client.cpp 304-309).                                    *)
THEOREM CallbackSeesCurrent == Spec => []ReportedIsCurrent
<1>1. IInv => ReportedIsCurrent
  BY DEF IInv, Locking
<1>2. QED
  BY <1>1, Invariance, PTL

(* No heartbeat thread outlives its client, and none leaves the lock taken *)
(* (client.cpp 22-24, 567-572).                                            *)
THEOREM ThreadEndsWithClient == Spec => []NoOrphanThread
<1>1. IInv => NoOrphanThread
  <2> SUFFICES ASSUME IInv PROVE NoOrphanThread
    OBVIOUS
  <2>1. pc[App] = "none" => mutex = None
    BY ClientAssumption DEF IInv, Control, Locking, TypeOK, Threads, App, Hb
  <2>2. QED
    BY <2>1 DEF IInv, Control, NoOrphanThread
<1>2. QED
  BY <1>1, Invariance, PTL

(* A pinned client never touches the cached key, and every license file it *)
(* writes holds a license its own key signed (client.cpp 270, 400).        *)
THEOREM PinnedClientFiles == Spec => PinnedFiles
<1> DEFINE Kept ==
      config # None /\ config.pinned =>
        /\ keyFile' = keyFile
        /\ licFile' # licFile =>
             Written(licFile') = Garbage \/ Written(licFile').signer = config.pem
<1>1. IInv /\ [Next]_vars => [Kept]_vars
  <2> SUFFICES ASSUME IInv, [Next]_vars, config # None, config.pinned PROVE Kept
    OBVIOUS
  <2>1. keyFile' = keyFile
    BY WhoWrites DEF SavePubKey, IInv, Trust
  <2>2. ASSUME licFile' # licFile
        PROVE  Written(licFile') = Garbage \/ Written(licFile').signer = config.pem
    <3>1. PICK t \in Threads : Store(t)
      BY <2>2, WhoWrites
    <3>2. pc[t] = "store" => Verified(frame[t].doc)
      BY DEF IInv, Trust, ThreadTrust
    <3>3. QED
      BY <2>2, <3>1, <3>2, WhatIsWritten DEF Verified
  <2>3. QED
    BY <2>1, <2>2
<1>2. QED
  BY <1>1, Invariance, PTL DEF Spec, PinnedFiles

(* Nothing but a license that verified for this machine is ever written to *)
(* the license file, by any thread, after any failures and restarts        *)
(* (client.cpp 390-400).                                                   *)
THEOREM OnlyVerifiedReachesDisk == Spec => OnlyVerifiedIsStored
<1> DEFINE Sound ==
      licFile' # licFile =>
       LET doc == Written(licFile')
       IN  doc = Garbage
           \/ /\ doc.form = "wellFormed" /\ doc.signer # None
              /\ MachineFingerprint = None
                 \/ doc.fingerprint \in {None, MachineFingerprint}
<1>1. IInv /\ [Next]_vars => [Sound]_vars
  <2> SUFFICES ASSUME IInv, [Next]_vars, licFile' # licFile PROVE Sound
    OBVIOUS
  <2>1. PICK t \in Threads : Store(t)
    BY WhoWrites
  <2>2. pc[t] = "store" => Verified(frame[t].doc) /\ frame[t].doc.form = "wellFormed"
    BY DEF IInv, Trust, ThreadTrust
  <2>3. QED
    BY <2>1, <2>2, WhatIsWritten DEF Verified
<1>2. QED
  BY <1>1, Invariance, PTL DEF Spec, OnlyVerifiedIsStored

-----------------------------------------------------------------------------
(* The contract: the initial states map to initial states, and every step  *)
(* of either thread and of the environment to a step of ClientContract or   *)
(* to none.                                                                *)

(* What IInv does not say: there is an answer exactly when no call is      *)
(* under way, and create() has no license before it installs one.          *)
Answered ==
  /\ result = "pending" <=> pc[App] \notin {"none", "live"}
  /\ frame[App].call \in {"load", "create"} /\ pc[App] \notin {"bootstrap", "notify"}
       => current = None
  /\ pc[App] \in ApplySteps =>
       frame[App].call \in {"load", "create", "activate", "manual"}

Promised == Answered' /\ [Contract!KNext]_(Contract!kvars)

Answers == {"none", "pending"}

-----------------------------------------------------------------------------
(* create() that refuses its configuration has an error to say so.         *)
LEMMA SetupIsAnswered ==
  ASSUME NEW c, NEW hardwareWorks
  PROVE  SetupVerdict(c, hardwareWorks) \notin Answers
<1> DEFINE checks == <<
    [holds |-> "product" \in c.fields, error |-> "config_product_required"],
    [holds |-> "version" \in c.fields, error |-> "config_version_required"],
    [holds |-> c.offline \/ "server" \in c.fields,
     error |-> "config_server_required"],
    [holds |-> hardwareWorks, error |-> "hardware_error"],
    [holds |-> c.pinned => c.pem # None, error |-> "config_public_key_required"],
    [holds |-> ConfiguredKey(c) # Unreadable, error |-> "config_file_read_error"],
    [holds |-> ConfiguredKey(c) # BadPem,
     error |-> "validation_invalid_public_key"] >>
<1>1. SetupVerdict(c, hardwareWorks) = FirstFailure(checks)
  BY DEF SetupVerdict
<1>2. DOMAIN checks = 1 .. 7
  OBVIOUS
<1>3. \A i \in 1 .. 7 : checks[i].error \notin Answers
  <2> SUFFICES ASSUME NEW i \in 1 .. 7 PROVE checks[i].error \notin Answers
    OBVIOUS
  <2>1. i \in {1, 2, 3, 4, 5, 6, 7}
    OBVIOUS
  <2>2. QED
    BY <2>1 DEF Answers
<1>4. QED
  <2> HIDE DEF checks
  <2>1. QED
    BY <1>1, <1>2, <1>3, FirstFailureNamed DEF Answers

(* A call of the heartbeat thread ends: the application sees nothing.      *)
LEMMA HeartbeatIsSilent ==
  ASSUME IInv, Answered, NEW res, pc[Hb] \in ApplySteps, Return(Hb, res)
  PROVE  Promised
<1> USE ClientAssumption DEF App, Hb, Threads
<1>1. Resume(Hb, res)
  BY DEF Return, IInv, Control
<1>2. /\ pc' = [pc EXCEPT ![Hb] = "wait"]
      /\ frame' = [frame EXCEPT ![Hb] = Idle]
      /\ result' = result /\ current' = current
  BY <1>1 DEF Resume, Goto
<1>3. /\ pc'[App] = pc[App] /\ pc'[Hb] = "wait" /\ frame'[App] = frame[App]
  BY <1>2 DEF IInv, TypeOK
<1>4. Answered'
  BY <1>2, <1>3 DEF Answered
<1>5. Call' = Call
  BY <1>3 DEF Call
<1>6. QED
  BY <1>2, <1>3, <1>4, <1>5 DEF Promised, Contract!kvars, ApplySteps

(* create() leaves no client behind, and no license was put in place.      *)
LEMMA NoClientIsPromised ==
  ASSUME IInv, Answered, NEW res, res \notin Answers, res # "success",
         pc[App] \notin {"none", "live"},
         frame[App].call \in {"load", "create"}, current = None, NoClient(res)
  PROVE  Promised
<1> USE ClientAssumption DEF App, Hb, Threads, Answers
<1>1. /\ pc' = [pc EXCEPT ![App] = "none",
                           ![Hb] = IF @ = "exited" THEN "off" ELSE @]
      /\ result' = res /\ pc[Hb] = "off"
      /\ frame' = [frame EXCEPT ![App] = Idle] /\ current' = None
  BY DEF NoClient, Discard, IInv, Control
<1>2. pc'[App] = "none" /\ pc'[Hb] = "off" /\ frame'[App] = Idle
  BY <1>1 DEF IInv, TypeOK
<1>3. Answered'
  BY <1>1, <1>2 DEF Answered, Idle, ApplySteps
<1>4. Call = "create" /\ Call' = "none"
  BY <1>2 DEF Call
<1>5. Contract!Fail
  BY <1>1, <1>2, <1>4 DEF Contract!Fail, Contract!Gone
<1>6. QED
  BY <1>3, <1>5 DEF Promised, Contract!KNext

(* create() hands out a client that has its license.                       *)
LEMMA GoLiveIsPromised ==
  ASSUME IInv, Answered, pc[App] \notin {"none", "live"},
         frame[App].call \in {"load", "create"}, current # None, GoLive
  PROVE  Promised
<1> USE ClientAssumption DEF App, Hb, Threads
<1>1. /\ pc'[App] = "live" /\ result' = "success"
      /\ frame' = [frame EXCEPT ![App] = Idle] /\ current' = current
  BY DEF GoLive
<1>2. frame'[App] = Idle
  BY <1>1 DEF IInv, TypeOK
<1>3. Answered'
  BY <1>1, <1>2 DEF Answered, Idle, ApplySteps
<1>4. Call = "create" /\ Call' = "idle"
  BY <1>1 DEF Call
<1>5. Contract!Succeed
  BY <1>1, <1>4 DEF Contract!Succeed
<1>6. QED
  BY <1>3, <1>5 DEF Promised, Contract!KNext

(* The application's call ends: its answer is "ok" only for a heartbeat    *)
(* that brought nothing or after the license was put in place.             *)
LEMMA ReturnIsPromised ==
  ASSUME IInv, Answered, NEW res, res \notin Answers,
         pc[App] \in ApplySteps, frame[App].call # "load",
         res = "success" => pc[App] = "notify" \/ frame[App].call = "manual",
         res # "success" => pc[App] # "notify",
         Return(App, res)
  PROVE  Promised
<1> USE NoneAssumption, ClientAssumption
<1> USE DEF App, Hb, Threads, IInv, TypeOK, Answers, Promised, Answered
<1>1. /\ pc[App] \notin {"none", "live"} /\ result = "pending"
      /\ frame[App].call \in {"create", "activate", "manual"}
      /\ Call = frame[App].call
  BY DEF ApplySteps, Call
<1>2. CASE frame[App].call # "create"
  <2>1. Resume(App, res)
    BY <1>2 DEF Return
  <2>2. /\ pc' = [pc EXCEPT ![App] = "live"] /\ result' = res
        /\ frame' = [frame EXCEPT ![App] = Idle] /\ current' = current
    BY <2>1 DEF Resume, Goto
  <2>3. Answered'
    BY <2>2 DEF Idle, ApplySteps
  <2>4. Call' = "idle" /\ pc'[Hb] = pc[Hb] /\ pc'[App] # "notify"
    <3>1. pc'[App] = "live" /\ pc'[Hb] = pc[Hb]
      BY <2>2
    <3>2. QED
      BY <3>1 DEF Call
  <2>5. CASE res = "success"
    <3>1. Contract!Succeed
      BY <1>1, <1>2, <2>2, <2>4, <2>5 DEF Contract!Succeed
    <3>2. QED
      BY <2>3, <3>1 DEF Contract!KNext
  <2>6. CASE res # "success"
    <3>1. Contract!Fail
      BY <1>1, <1>2, <2>2, <2>4, <2>6 DEF Contract!Fail
    <3>2. QED
      BY <2>3, <3>1 DEF Contract!KNext
  <2>7. QED
    BY <2>5, <2>6
<1>3. CASE frame[App].call = "create" /\ res = "success"
  <2>1. GoLive /\ pc[App] = "notify"
    BY <1>3 DEF Return
  <2>2. current # None
    BY <1>3, <2>1 DEF Locking, ReportedIsCurrent, Trust, ThreadTrust, PayloadOf,
                      Frame, ApplySteps, Document, Payload
  <2>3. QED
    BY <1>1, <1>3, <2>1, <2>2, GoLiveIsPromised
<1>4. CASE frame[App].call = "create" /\ res # "success"
  <2>1. NoClient(res) /\ current = None
    BY <1>1, <1>4 DEF Return, ApplySteps
  <2>2. QED
    BY <1>1, <1>4, <2>1, NoClientIsPromised
<1>5. QED
  BY <1>2, <1>3, <1>4

(* The license of a document that was verified is one for this machine.    *)
LEMMA VerifiedIsAcceptable ==
  ASSUME IInv, NEW t \in Threads, pc[t] \in {"store", "commit", "notify"}
  PROVE  /\ PayloadOf(frame[t].doc) \in LicensesForThisMachine
         /\ PayloadOf(frame[t].doc) # None
<1>1. frame[t].doc \in Document /\ Verified(frame[t].doc)
  BY DEF IInv, Trust, ThreadTrust, TypeOK, Frame, ApplySteps
<1>2. PayloadOf(frame[t].doc) \in Payload
  BY <1>1, DocumentTypes
<1>3. QED
  BY <1>1, <1>2, NoneAssumption DEF Verified, PayloadOf, LicensesForThisMachine

(* Every error of resolve_authorization_code has a name.                   *)
LEMMA AuthIsAnswered ==
  ASSUME IInv, NEW outcome \in AuthOutcomes
  PROVE  outcome[1] \notin Answers
<1>1. authCode \in {"none", "inline", "file", "unreadable"}
  BY DEF IInv, TypeOK, AuthSources
<1>2. CASE authCode = "none"
  BY <1>2 DEF AuthOutcomes, Answers
<1>3. CASE authCode = "inline"
  BY <1>3 DEF AuthOutcomes, Answers
<1>4. CASE authCode = "file"
  BY <1>4 DEF AuthOutcomes, Answers
<1>5. CASE authCode = "unreadable"
  BY <1>5 DEF AuthOutcomes, Answers
<1>6. QED
  BY <1>1, <1>2, <1>3, <1>4, <1>5

(* A call that is turned down before it sends anything.                    *)
LEMMA RefusedIsPromised ==
  ASSUME IInv, Answered, NEW res, res \notin Answers, res # "success",
         pc[App] = "live", Resume(App, res)
  PROVE  Promised
<1> USE ClientAssumption DEF App, Hb, Threads, Answers
<1>1. /\ pc'[App] = "live" /\ pc'[Hb] = pc[Hb] /\ result' = res
      /\ frame'[App] = Idle /\ current' = current
  BY DEF Resume, Goto, IInv, TypeOK
<1>2. Answered'
  BY <1>1 DEF Answered, Idle, ApplySteps
<1>3. Call = "idle" /\ Call' = "idle"
  BY <1>1 DEF Call
<1>4. Contract!Refuse
  BY <1>1, <1>3 DEF Contract!Refuse
<1>5. QED
  BY <1>2, <1>4 DEF Promised, Contract!KNext

(* A call of a live client begins.                                         *)
LEMMA BegunIsPromised ==
  ASSUME IInv, Answered, pc[App] = "live", pc'[App] \in {"await", "join"},
         pc'[Hb] = pc[Hb], frame'[App].call \in {"activate", "manual", "close", "destroy"},
         pc'[App] = "await" => frame'[App].call \in {"activate", "manual"},
         result' = "pending", current' = current
  PROVE  Promised
<1> USE ClientAssumption DEF App, Hb, Threads
<1>1. Answered'
  BY DEF Answered, Idle, ApplySteps
<1>2. Call = "idle" /\ Call' = frame'[App].call
  BY DEF Call
<1>3. Contract!Begin
  BY <1>2 DEF Contract!Begin, Contract!KCalls
<1>4. QED
  BY <1>1, <1>3 DEF Promised, Contract!KNext

-----------------------------------------------------------------------------
(* Every step is a step of the contract, or one it does not see.           *)
LEMMA StepIsPromised == IInv /\ Answered /\ [Next]_vars => Promised
<1> SUFFICES ASSUME IInv, Answered, [Next]_vars PROVE Promised
  OBVIOUS
<1> USE NoneAssumption, ClientAssumption
<1> USE DEF App, Hb, Threads, Contract!kvars
<1>1. CASE LoadKey \/ InstallNewKey \/ SavePubKey \/ Tick
  <2>1. /\ result' = result /\ current' = current /\ frame' = frame
        /\ pc'[Hb] = pc[Hb]
        /\ \/ pc' = pc
           \/ pc[App] = "loadKey" /\ pc'[App] = "loadLicense"
           \/ /\ pc[App] \in {"installKey", "saveKey"}
              /\ pc'[App] \in {"saveKey", "verify"}
    BY <1>1 DEF LoadKey, InstallNewKey, SavePubKey, Tick, Goto, AfterInstall,
                IInv, TypeOK
  <2>2. Answered'
    BY <2>1 DEF Answered, ApplySteps
  <2>3. Call' = Call
    BY <2>1 DEF Call
  <2>4. QED
    BY <2>1, <2>2, <2>3 DEF Promised
<1>2. CASE LoadLicense
  <2>1. /\ result' = result /\ current' = current
        /\ pc[App] = "loadLicense" /\ pc'[App] \in {"verify", "bootstrap"}
        /\ pc'[Hb] = pc[Hb] /\ frame[App].call = "load"
        /\ frame'[App].call = "load"
    BY <1>2 DEF LoadLicense, Goto, IInv, TypeOK, Control, Frame
  <2>2. Answered'
    BY <2>1 DEF Answered, ApplySteps
  <2>3. Call' = Call
    BY <2>1 DEF Call
  <2>4. QED
    BY <2>1, <2>2, <2>3 DEF Promised, Call
<1>3. CASE Bootstrap
  <2>1. pc[App] = "bootstrap" /\ frame[App].call = "load"
    BY <1>3 DEF Bootstrap, IInv, Control
  <2>2. CASE current # None /\ GoLive
    BY <2>1, <2>2, GoLiveIsPromised
  <2>3. CASE current = None /\ NoClient("no_license_loaded")
    BY <2>1, <2>3, NoClientIsPromised DEF Answers
  <2>4. CASE current = None /\ BeginActivation("create")
    <3>1. PICK outcome \in AuthOutcomes :
            \/ /\ Goto(App, "await")
               /\ frame' = [frame EXCEPT ![App] = [Idle EXCEPT !.call = "create"]]
               /\ result' = "pending" /\ current' = current
            \/ outcome[1] # "success" /\ NoClient(outcome[1])
      BY <2>4 DEF BeginActivation
    <3>2. CASE outcome[1] # "success" /\ NoClient(outcome[1])
      BY <2>1, <2>4, <3>2, NoClientIsPromised, AuthIsAnswered
    <3>3. CASE /\ Goto(App, "await")
               /\ frame' = [frame EXCEPT ![App] = [Idle EXCEPT !.call = "create"]]
               /\ result' = "pending" /\ current' = current
      <4>1. /\ pc'[App] = "await" /\ pc'[Hb] = pc[Hb]
            /\ frame'[App].call = "create" /\ result = "pending"
        BY <2>1, <3>3 DEF Goto, IInv, TypeOK, Idle, Answered
      <4>2. Answered'
        BY <2>4, <3>3, <4>1 DEF Answered, ApplySteps
      <4>3. Call = "create" /\ Call' = "create"
        BY <2>1, <4>1 DEF Call
      <4>4. QED
        BY <3>3, <4>1, <4>2, <4>3 DEF Promised
    <3>4. QED
      BY <3>1, <3>2, <3>3
  <2>5. QED
    BY <1>3, <2>2, <2>3, <2>4 DEF Bootstrap
<1>4. CASE ReceiveActivation
  <2>1. pc[App] = "await" /\ frame[App].call \in {"create", "activate"}
    BY <1>4 DEF ReceiveActivation
  <2>2. ASSUME NEW res \in {"activation_error", "validation_decode_error"},
               Return(App, res)
        PROVE  Promised
    BY <2>1, <2>2, ReturnIsPromised DEF ApplySteps, Answers
  <2>3. ASSUME NEW doc, NEW key, NEW step \in {"installKey", "verify"},
               frame' = [frame EXCEPT ![App].doc = doc, ![App].newKey = key],
               Goto(App, step), UNCHANGED <<current, result>>
        PROVE  Promised
    <3>1. /\ pc'[App] = step /\ pc'[Hb] = pc[Hb]
          /\ frame'[App].call = frame[App].call
      BY <2>3 DEF Goto, IInv, TypeOK, Frame
    <3>2. Answered'
      BY <2>1, <2>3, <3>1 DEF Answered, ApplySteps
    <3>3. Call' = Call
      BY <2>1, <3>1 DEF Call
    <3>4. QED
      BY <2>1, <2>3, <3>1, <3>2, <3>3 DEF Promised
  <2>4. QED
    BY <1>4, <2>2, <2>3 DEF ReceiveActivation
<1>5. CASE Join
  <2>1. /\ pc[App] = "join" /\ pc[Hb] \in {"off", "exited"}
        /\ frame[App].call \in {"close", "destroy"}
        /\ Call = frame[App].call
    BY <1>5 DEF Join, Joinable, IInv, Control, Call
  <2>2. CASE frame[App].call = "destroy"
    <3>1. /\ pc'[App] = "none" /\ pc'[Hb] = "off" /\ result' = "success"
          /\ current' = None /\ frame'[App] = Idle
      BY <1>5, <2>1, <2>2 DEF Join, NoClient, Discard, IInv, TypeOK
    <3>2. Answered'
      BY <3>1 DEF Answered, Idle, ApplySteps
    <3>3. Call' = "none"
      BY <3>1 DEF Call
    <3>4. Contract!Destroyed
      BY <2>1, <2>2, <3>1, <3>3 DEF Contract!Destroyed, Contract!Gone
    <3>5. QED
      BY <3>2, <3>4 DEF Promised, Contract!KNext
  <2>3. CASE frame[App].call = "close"
    <3>1. /\ pc'[App] = "live" /\ pc'[Hb] = "off" /\ result' = "success"
          /\ current' = current /\ frame'[App] = Idle
      BY <1>5, <2>3 DEF Join, IInv, TypeOK
    <3>2. Answered'
      BY <3>1 DEF Answered, Idle, ApplySteps
    <3>3. Call' = "idle"
      BY <3>1 DEF Call
    <3>4. Contract!Succeed
      BY <2>1, <2>3, <3>1, <3>3 DEF Contract!Succeed
    <3>5. QED
      BY <3>2, <3>4 DEF Promised, Contract!KNext
  <2>4. QED
    BY <2>1, <2>2, <2>3
<1>6. CASE HbExit
  <2>1. /\ pc[Hb] = "wait" /\ pc'[Hb] = "exited" /\ pc'[App] = pc[App]
        /\ UNCHANGED <<current, result, frame>>
        /\ pc[App] = "join" /\ frame[App].call \in {"close", "destroy"}
    BY <1>6 DEF HbExit, Goto, IInv, TypeOK, Control
  <2>2. Answered'
    BY <2>1 DEF Answered
  <2>3. Call = frame[App].call /\ Call' = Call
    BY <2>1 DEF Call
  <2>4. Contract!Stopped
    BY <2>1, <2>3 DEF Contract!Stopped
  <2>5. QED
    BY <2>2, <2>4 DEF Promised, Contract!KNext
<1>7. ASSUME NEW t \in Threads, ReceiveHeartbeat(t) PROVE Promised
  <2>1. pc[t] = "await" /\ frame[t].call \in {"manual", "heartbeat"}
    BY <1>7 DEF ReceiveHeartbeat
  <2>2. ASSUME NEW res \in {"success", "heartbeat_error", "validation_decode_error"},
               Return(t, res)
        PROVE  Promised
    <3>1. CASE t = App
      <4>1. frame[App].call = "manual"
        BY <2>1, <3>1 DEF Answered, ApplySteps
      <4>2. QED
        BY <2>1, <2>2, <3>1, <4>1, ReturnIsPromised DEF ApplySteps, Answers
    <3>2. CASE t = Hb
      BY <2>1, <2>2, <3>2, HeartbeatIsSilent DEF ApplySteps
    <3>3. QED
      BY <3>1, <3>2
  <2>3. ASSUME NEW doc, frame' = [frame EXCEPT ![t].doc = doc],
               Goto(t, "verify"), UNCHANGED <<current, result>>
        PROVE  Promised
    <3>1. /\ pc'[t] = "verify" /\ \A u \in Threads \ {t} : pc'[u] = pc[u]
          /\ frame'[App].call = frame[App].call
      BY <2>3 DEF Goto, IInv, TypeOK, Frame
    <3>2. Answered'
      BY <2>1, <2>3, <3>1 DEF Answered, ApplySteps
    <3>3. Call' = Call
      BY <2>1, <3>1 DEF Call
    <3>4. QED
      BY <2>1, <2>3, <3>1, <3>2, <3>3 DEF Promised
  <2>4. QED
    BY <1>7, <2>2, <2>3 DEF ReceiveHeartbeat
<1>8. ASSUME NEW t \in Threads, Verify(t) PROVE Promised
  <2> DEFINE doc == NormalizeLicenseBytes(frame[t].doc)
             verdict == IF pkey = None THEN "config_public_key_required"
                        ELSE VerifyLicense(doc, pkey, MachineFingerprint, now)
  <2>1. verdict \notin Answers
    BY VerdictIsAnswer DEF Answers
  <2> HIDE DEF doc, verdict
  <2>2. /\ pc[t] = "verify"
        /\ \/ /\ Goto(t, "store") /\ frame' = [frame EXCEPT ![t].doc = doc]
              /\ UNCHANGED <<current, result>>
           \/ /\ frame[t].call = "load" /\ Goto(t, "bootstrap")
              /\ UNCHANGED <<current, result, frame>>
           \/ /\ frame[t].call # "load" /\ Return(t, verdict)
              /\ verdict # "success" \/ t = Hb
    BY <1>8 DEF Verify, KeyInUseFreed, doc, verdict
  <2>3. CASE /\ Goto(t, "store") /\ frame' = [frame EXCEPT ![t].doc = doc]
             /\ UNCHANGED <<current, result>>
    <3>1. /\ pc'[t] = "store" /\ \A u \in Threads \ {t} : pc'[u] = pc[u]
          /\ frame'[App].call = frame[App].call
      BY <2>3 DEF Goto, IInv, TypeOK, Frame
    <3>2. Answered'
      BY <2>2, <2>3, <3>1 DEF Answered, ApplySteps
    <3>3. Call' = Call
      BY <2>2, <3>1 DEF Call
    <3>4. QED
      BY <2>2, <2>3, <3>1, <3>2, <3>3 DEF Promised
  <2>4. CASE /\ frame[t].call = "load" /\ Goto(t, "bootstrap")
             /\ UNCHANGED <<current, result, frame>>
    <3>1. /\ t = App /\ pc'[App] = "bootstrap" /\ pc'[Hb] = pc[Hb]
      BY <2>4 DEF Goto, IInv, TypeOK, Control
    <3>2. Answered'
      BY <2>2, <2>4, <3>1 DEF Answered, ApplySteps
    <3>3. Call = "create" /\ Call' = Call
      BY <2>2, <2>4, <3>1 DEF Call
    <3>4. QED
      BY <2>2, <2>4, <3>1, <3>2, <3>3 DEF Promised
  <2>5. CASE /\ frame[t].call # "load" /\ Return(t, verdict)
             /\ verdict # "success" \/ t = Hb
    <3>1. CASE t = App
      BY <2>1, <2>2, <2>5, <3>1, ReturnIsPromised DEF ApplySteps
    <3>2. CASE t = Hb
      BY <2>2, <2>5, <3>2, HeartbeatIsSilent DEF ApplySteps
    <3>3. QED
      BY <3>1, <3>2
  <2>6. QED
    BY <2>2, <2>3, <2>4, <2>5
<1>9. ASSUME NEW t \in Threads, Store(t) PROVE Promised
  <2>1. pc[t] = "store" /\ result' = result /\ frame' = frame
    BY <1>9 DEF Store
  <2>2. CASE frame[t].call = "load"
    <3>1. /\ t = App /\ pc'[App] = "bootstrap" /\ pc'[Hb] = pc[Hb]
          /\ current' = PayloadOf(frame[App].doc)
      BY <1>9, <2>2 DEF Store, Goto, IInv, TypeOK, Control
    <3>2. current' \in LicensesForThisMachine /\ current' # None
      BY <2>1, <3>1, VerifiedIsAcceptable
    <3>3. Answered' /\ current = None
      BY <2>1, <2>2, <3>1 DEF Answered, ApplySteps
    <3>4. Call = "create" /\ Call' = "create"
      BY <2>1, <2>2, <3>1 DEF Call
    <3>5. Contract!Install
      BY <2>1, <3>1, <3>2, <3>3, <3>4 DEF Contract!Install
    <3>6. QED
      BY <3>3, <3>5 DEF Promised, Contract!KNext
  <2>3. CASE frame[t].call # "load"
    <3>1. /\ pc'[t] = "commit" /\ \A u \in Threads \ {t} : pc'[u] = pc[u]
          /\ current' = current
      BY <1>9, <2>3 DEF Store, Goto, IInv, TypeOK
    <3>2. Answered'
      BY <2>1, <3>1 DEF Answered, ApplySteps
    <3>3. Call' = Call
      BY <2>1, <3>1 DEF Call
    <3>4. QED
      BY <2>1, <3>1, <3>2, <3>3 DEF Promised
  <2>4. QED
    BY <2>2, <2>3
<1>10. ASSUME NEW t \in Threads, Commit(t) PROVE Promised
  <2>1. /\ pc[t] = "commit" /\ pc'[t] = "notify" /\ UNCHANGED <<result, frame>>
        /\ current' = PayloadOf(frame[t].doc)
        /\ \A u \in Threads \ {t} : pc'[u] = pc[u]
    BY <1>10 DEF Commit, Adopted, Goto, IInv, TypeOK
  <2>2. current' \in LicensesForThisMachine /\ current' # None
    BY <2>1, VerifiedIsAcceptable
  <2>3. CASE t = App
    <3>1. frame[App].call \in {"create", "activate", "manual"}
      BY <2>1, <2>3 DEF IInv, Trust, ThreadTrust, Answered, ApplySteps
    <3>2. Answered'
      BY <2>1, <2>3, <3>1 DEF Answered, ApplySteps
    <3>3. Call = frame[App].call /\ Call' = Call
      BY <2>1, <2>3, <3>1 DEF Call
    <3>4. frame[App].call = "create" => current = None
      BY <2>1, <2>3 DEF Answered
    <3>5. Contract!Install
      BY <2>1, <2>2, <2>3, <3>1, <3>3, <3>4 DEF Contract!Install
    <3>6. QED
      BY <3>2, <3>5 DEF Promised, Contract!KNext
  <2>4. CASE t = Hb
    <3>1. pc[App] # "none" /\ frame[App].call \notin {"load", "create"}
      BY <2>1, <2>4 DEF IInv, Control
    <3>2. Answered'
      BY <2>1, <2>4, <3>1 DEF Answered
    <3>3. Call' = Call /\ Call \notin {"none", "create"}
      <4>1. frame[App].call = "none" => pc[App] = "live"
        BY <3>1 DEF IInv, Control, Answered, AppSteps
      <4>2. QED
        BY <2>1, <2>4, <3>1, <4>1 DEF Call
    <3>4. Contract!Install
      BY <2>1, <2>2, <2>4, <3>3 DEF Contract!Install
    <3>5. QED
      BY <3>2, <3>4 DEF Promised, Contract!KNext
  <2>5. QED
    BY <2>3, <2>4
<1>11. ASSUME NEW t \in Threads, Notify(t) PROVE Promised
  <2>1. pc[t] = "notify" /\ Return(t, "success")
    BY <1>11 DEF Notify
  <2>2. CASE t = App
    <3>1. frame[App].call # "load"
      BY <2>1, <2>2 DEF IInv, Trust, ThreadTrust, ApplySteps
    <3>2. QED
      BY <2>1, <2>2, <3>1, ReturnIsPromised DEF ApplySteps, Answers
  <2>3. CASE t = Hb
    BY <2>1, <2>3, HeartbeatIsSilent DEF ApplySteps
  <2>4. QED
    BY <2>2, <2>3
<1>12. ASSUME NEW c \in Configs, Create(c) PROVE Promised
  <2>1. pc[App] = "none" /\ current = None /\ current' = current
    BY <1>12 DEF Create, IInv, Control
  <2>2. PICK hardwareWorks \in BOOLEAN :
          LET verdict == SetupVerdict(c, hardwareWorks)
          IN  \/ /\ Goto(App, "loadKey") /\ result' = "pending"
                 /\ frame' = [frame EXCEPT ![App].call = "load"]
              \/ /\ verdict # "success" /\ result' = verdict
                 /\ UNCHANGED <<pc, frame>>
    BY <1>12 DEF Create
  <2>3. CASE /\ Goto(App, "loadKey") /\ result' = "pending"
             /\ frame' = [frame EXCEPT ![App].call = "load"]
    <3>1. /\ pc'[App] = "loadKey" /\ pc'[Hb] = pc[Hb]
          /\ frame'[App].call = "load"
      BY <2>3 DEF Goto, IInv, TypeOK, Frame
    <3>2. Answered'
      BY <2>1, <2>3, <3>1 DEF Answered, ApplySteps
    <3>3. Call = "none" /\ Call' = "create"
      BY <2>1, <3>1 DEF Call
    <3>4. Contract!Begin
      BY <2>1, <2>3, <3>1, <3>3 DEF Contract!Begin
    <3>5. QED
      BY <3>2, <3>4 DEF Promised, Contract!KNext
  <2>4. ASSUME NEW verdict, verdict \notin Answers, verdict # "success",
               result' = verdict, UNCHANGED <<pc, frame>>
        PROVE  Promised
    <3>1. Answered'
      BY <2>1, <2>4 DEF Answered, Answers, ApplySteps
    <3>2. Call = "none" /\ Call' = "none"
      BY <2>1, <2>4 DEF Call
    <3>3. Contract!Refuse
      BY <2>1, <2>4, <3>2 DEF Contract!Refuse, Answers
    <3>4. QED
      BY <3>1, <3>3 DEF Promised, Contract!KNext
  <2>5. QED
    BY <2>2, <2>3, <2>4, SetupIsAnswered
<1>13. CASE Activate
  <2>1. pc[App] = "live"
    BY <1>13 DEF Activate
  <2>2. PICK outcome \in AuthOutcomes :
          \/ /\ Goto(App, "await")
             /\ frame' = [frame EXCEPT ![App] = [Idle EXCEPT !.call = "activate"]]
             /\ result' = "pending" /\ current' = current
          \/ outcome[1] # "success" /\ Resume(App, outcome[1])
    BY <1>13 DEF Activate, BeginActivation
  <2>3. CASE /\ Goto(App, "await")
             /\ frame' = [frame EXCEPT ![App] = [Idle EXCEPT !.call = "activate"]]
             /\ result' = "pending" /\ current' = current
    <3>1. /\ pc'[App] = "await" /\ pc'[Hb] = pc[Hb]
          /\ frame'[App].call = "activate"
      BY <2>3 DEF Goto, IInv, TypeOK, Idle
    <3>2. QED
      BY <2>1, <2>3, <3>1, BegunIsPromised
  <2>4. CASE outcome[1] # "success" /\ Resume(App, outcome[1])
    BY <2>1, <2>4, RefusedIsPromised, AuthIsAnswered
  <2>5. QED
    BY <2>2, <2>3, <2>4
<1>14. CASE SendHeartbeat
  <2>1. pc[App] = "live"
    BY <1>14 DEF SendHeartbeat
  <2>2. CASE Resume(App, "no_license_loaded")
    BY <2>1, <2>2, RefusedIsPromised DEF Answers
  <2>3. CASE /\ Goto(App, "await") /\ result' = "pending"
             /\ frame' = [frame EXCEPT ![App].call = "manual"]
             /\ current' = current
    <3>1. /\ pc'[App] = "await" /\ pc'[Hb] = pc[Hb]
          /\ frame'[App].call = "manual"
      BY <2>3 DEF Goto, IInv, TypeOK, Frame
    <3>2. QED
      BY <2>1, <2>3, <3>1, BegunIsPromised
  <2>4. QED
    BY <1>14, <2>2, <2>3 DEF SendHeartbeat
<1>15. ASSUME NEW call \in {"close", "destroy"}, BeginClose(call) PROVE Promised
  <2>1. /\ pc[App] = "live" /\ pc'[App] = "join" /\ pc'[Hb] = pc[Hb]
        /\ frame'[App].call = call /\ result' = "pending" /\ current' = current
    BY <1>15 DEF BeginClose, Goto, IInv, TypeOK, Frame
  <2>2. QED
    BY <2>1, BegunIsPromised
<1>16. CASE HbSend
  <2>1. /\ pc[Hb] = "wait" /\ pc'[Hb] = "await" /\ pc'[App] = pc[App]
        /\ frame'[App] = frame[App] /\ UNCHANGED <<current, result>>
    BY <1>16 DEF HbSend, Goto, IInv, TypeOK
  <2>2. Answered'
    BY <2>1 DEF Answered
  <2>3. Call' = Call
    BY <2>1 DEF Call
  <2>4. QED
    BY <2>1, <2>2, <2>3 DEF Promised
<1>17. CASE Crash
  <2>1. /\ pc[App] # "none" /\ pc'[App] = "none" /\ pc'[Hb] = "off"
        /\ frame'[App] = Idle /\ current' = None /\ result' = "crash"
    BY <1>17 DEF Crash, Discard
  <2>2. Answered'
    BY <2>1 DEF Answered, Idle, ApplySteps
  <2>3. Call # "none"
    <3>1. pc[App] # "live" => frame[App].call # "none"
      BY <2>1 DEF IInv, Control, Answered, AppSteps
    <3>2. QED
      BY <2>1, <3>1 DEF Call
  <2>4. Call' = "none"
    BY <2>1 DEF Call
  <2>5. Contract!Died
    BY <2>1, <2>3, <2>4 DEF Contract!Died, Contract!Gone
  <2>6. QED
    BY <2>2, <2>5 DEF Promised, Contract!KNext
<1>18. CASE UNCHANGED vars
  BY <1>18 DEF vars, Promised, Answered, Call
<1>19. QED
  BY <1>1, <1>2, <1>3, <1>4, <1>5, <1>6, <1>7, <1>8, <1>9, <1>10, <1>11, <1>12,
     <1>13, <1>14, <1>15, <1>16, <1>17, <1>18
     DEF Next, AppStep, HbStep, Apply, Environment

(* Before the program first runs there is neither call nor answer.         *)
LEMMA InitIsPromised == Init => Answered /\ Contract!KInit
<1> SUFFICES ASSUME Init PROVE Answered /\ Contract!KInit
  OBVIOUS
<1>1. /\ pc[App] = "none" /\ pc[Hb] = "off" /\ frame[App] = Idle
      /\ result = "none" /\ current = None
  BY DEF Init, App, Hb, Threads
<1>2. Answered
  BY <1>1 DEF Answered, Idle, ApplySteps
<1>3. Call = "none"
  BY <1>1 DEF Call
<1>4. QED
  BY <1>1, <1>2, <1>3 DEF Contract!KInit

(* For any keys, documents and configurations, with files that fail and a  *)
(* heartbeat thread that applies licenses of its own, what the application *)
(* sees is the contract: a license is put in place only after it verified  *)
(* for this machine, a successful create() or activate() put one there, a  *)
(* failed call left it as it was, and nothing changes after close()        *)
(* (client.cpp 97-131, 204-224, 226-312, 500-528, 567-572).                *)
THEOREM ImplementsContract == Spec => KeepsContract
<1>1. Init => IInv /\ Answered /\ Contract!KInit
  BY InitSound, InitIsPromised
<1>2. IInv /\ Answered /\ [Next]_vars
        => IInv' /\ Answered' /\ [Contract!KNext]_(Contract!kvars)
  BY Inductive, StepIsPromised DEF Promised
<1>3. QED
  BY <1>1, <1>2, PTL DEF Spec, KeepsContract, Contract!KSpec

=============================================================================
