----------------------------- MODULE Application -----------------------------
(***************************************************************************)
(* Applications that use the SDK the way src/examples/basic.cpp does, on   *)
(* one machine: each loads its license at launch, asks for an activation   *)
(* code when it finds none that is valid, activates with it, and runs.     *)
(* Around them the machine changes, and the files move to another one;     *)
(* another program's files may lie next to theirs.                         *)
(*                                                                         *)
(* LicenseClient has the threads of one client; here a client is what its  *)
(* creation reads and writes.  What is new is the fingerprint, where the   *)
(* files lie, and what is left of them at the next launch.                 *)
(***************************************************************************)
EXTENDS HardwareFingerprint

CONSTANTS
  Apps,
  ProductKey,    \* the key each application's product is signed with
  Layouts,       \* where the applications keep their license files
  Pinning,       \* and which of them set pin_public_key there
  Hardware,      \* machines, and what becomes of them
  Home,          \* the machine of the first launch
  Configured,    \* the hardware_fields its versions may be configured with
  Terms,         \* end dates of the licenses the server issues
  MaxTime,       \* bound on the clock
  MaxChanges     \* bound on changes of the machine, the fields and the files

(* A path is a sequence of names, a name the sequence of its parts between *)
(* dots: "app.d/license" is <<<<"app", "d">>, <<"license">>>>.             *)
ASSUME ApplicationAssumption ==
  /\ ProductKey \in [Apps -> Keys]
  /\ Layouts \subseteq [Apps -> Seq(Seq(STRING)) \ {<<>>}]
  /\ Pinning \in [Layouts -> SUBSET Apps]
  /\ Hardware \subseteq Machine /\ Home \in Hardware
  /\ \A a \in Apps : Configured[a] \subseteq Seq(WrittenField)
  /\ \A a \in Apps, m \in Hardware : \A c \in Configured[a] :
       Fingerprint(c, m) \in Fingerprints
  /\ Terms \subseteq Nat \ {Epoch}
  /\ MaxTime \in Nat \ {0} /\ MaxChanges \in Nat

VARIABLES
  machine,   \* the machine the files are on
  now,       \* system_clock::now()
  changes,   \* how often it changed
  layout,    \* the storage path of each application
  fields,    \* the hardware_fields of each application
  dirs,      \* the directories that exist
  licFile,   \* the license files, by path
  keyFile,   \* the .pubkey files, by path
  pc,        \* where each application stands
  client,    \* what its client holds: fingerprint_, the key, the license
  seen,      \* the machine that fingerprint_ was taken of
  issued,    \* for which machine and fields the license there was issued
  held,      \* and the one each client holds
  keyLost    \* applications whose key was not saved, or was deleted

environment == <<machine, now, changes, layout, fields>>
avars == <<environment, dirs, licFile, keyFile, pc, client, seen, issued, held,
           keyLost>>

NoClient == [fingerprint |-> None, key |-> None, license |-> None]

-----------------------------------------------------------------------------
(* Where the files are.                                                    *)

(* find_last_of('.') looks at the whole path: when the file name has no    *)
(* dot, the last directory that has one is cut, with all below it.         *)
Dotted(path) == {i \in DOMAIN path : Len(path[i]) > 1}
FirstDotted(path) ==
  CHOOSE i \in Dotted(path) : \A j \in Dotted(path) : i <= j  \* mutant
LastDotted(path) == CHOOSE i \in Dotted(path) : \A j \in Dotted(path) : i >= j
PubKeyPath(path) ==
  IF Dotted(path) = {}
  THEN [path EXCEPT ![Len(path)] = Append(@, "pubkey")]
  ELSE LET i == LastDotted(path)
       IN  Append(SubSeq(path, 1, i - 1),
                  [path[i] EXCEPT ![Len(path[i])] = "pubkey"])

KeyAt(a) == PubKeyPath(layout[a])
PinnedApps == Pinning[layout]

(* FileStorage makes the directory of the license file and those it is in; *)
(* save_pub_key makes none.                                                *)
DirOf(path) == SubSeq(path, 1, Len(path) - 1)
WithParents(path) == {SubSeq(path, 1, n) : n \in 0 .. Len(path)}
KeyDirExists(a) == DirOf(KeyAt(a)) \in dirs

-----------------------------------------------------------------------------
(* Client::create, called by create_client of the example.                 *)

Leave(a) ==
  /\ client' = [client EXCEPT ![a] = NoClient]
  /\ seen' = [seen EXCEPT ![a] = None]
  /\ held' = [held EXCEPT ![a] = None]
  /\ pc' = [pc EXCEPT ![a] = "off"]

TrustsStored(a, stored) == stored  \* mutant
Trusted(a, stored) == IF a \in PinnedApps THEN ProductKey[a] ELSE stored

VerdictOn(doc, key, fingerprint) ==
  IF key = None THEN "config_public_key_required"
  ELSE IF doc = None THEN "no_license_loaded"
  ELSE VerifyLicense(doc, key, fingerprint, now)

(* initialize and load_existing_license: the fingerprint, the cached key,  *)
(* the cached license.  Without one it comes to perform_activation, which  *)
(* the first time has no code, and the second time the one typed in.       *)
LoadOr(a, otherwise) ==
  LET fingerprint == Fingerprint(fields[a], machine)
      key == Trusted(a, keyFile[KeyAt(a)])
      doc == licFile[layout[a]]
      loads == VerdictOn(doc, key, fingerprint) = "success"
  IN  /\ client' = [client EXCEPT ![a] =
                      [fingerprint |-> fingerprint, key |-> key,
                       license |-> IF loads THEN PayloadOf(doc) ELSE None]]
      /\ seen' = [seen EXCEPT ![a] = machine]
      /\ held' = [held EXCEPT ![a] = IF loads THEN issued[layout[a]] ELSE None]
      /\ pc' = [pc EXCEPT ![a] = IF loads THEN "created" ELSE otherwise]

(* The first create() has no code: with a valid configuration any failure  *)
(* ends as config_auth_code_required, or offline as no_license_loaded, the *)
(* two errors the example prompts on.                                      *)
Launch(a) ==
  /\ pc[a] = "off"
  /\ LoadOr(a, "prompt")
  /\ UNCHANGED <<environment, dirs, licFile, keyFile, issued, keyLost>>

(* std::getline: an empty line ends the program.                           *)
EnterCode(a) ==
  /\ pc[a] = "prompt"
  /\ Leave(a) \/ LoadOr(a, "await")
  /\ UNCHANGED <<environment, dirs, licFile, keyFile, issued, keyLost>>

(* The answer of the activation service, and its public key.               *)
ReceiveLicense(a) ==
  /\ pc[a] = "await"
  /\ \/ Leave(a) /\ UNCHANGED <<keyFile, keyLost>>
     \/ /\ pc' = [pc EXCEPT ![a] = "apply"]
        /\ client' = [client EXCEPT ![a].key = ProductKey[a]]
        /\ IF a \in PinnedApps THEN UNCHANGED <<keyFile, keyLost>>
           ELSE IF KeyDirExists(a)
           THEN /\ keyFile' = [keyFile EXCEPT ![KeyAt(a)] = ProductKey[a]]
                /\ keyLost' = keyLost \ {a}
           ELSE keyLost' = keyLost \cup {a} /\ UNCHANGED keyFile
        /\ UNCHANGED <<seen, held>>
  /\ UNCHANGED <<environment, dirs, licFile, issued>>

(* What the server issues: bound to the fingerprint it was sent.           *)
Issued(a, term) ==
  [form |-> "wellFormed", layers |-> 0, signer |-> ProductKey[a],
   licenseKey |-> None, fingerprint |-> client[a].fingerprint,
   expiresAt |-> term]

(* apply_license_file_impl: verified, saved, current.                      *)
ApplyLicense(a) ==
  /\ pc[a] = "apply"
  /\ \E term \in Terms :
       LET doc == Issued(a, term)
           issue == [machine |-> seen[a], fields |-> fields[a]]
       IN  IF VerdictOn(doc, client[a].key, client[a].fingerprint) = "success"
           THEN /\ licFile' = [licFile EXCEPT ![layout[a]] = doc]
                /\ dirs' = dirs \cup WithParents(DirOf(layout[a]))
                /\ client' = [client EXCEPT ![a].license = PayloadOf(doc)]
                /\ issued' = [issued EXCEPT ![layout[a]] = issue]
                /\ held' = [held EXCEPT ![a] = issue]
                /\ pc' = [pc EXCEPT ![a] = "created"]
                /\ UNCHANGED seen
           ELSE Leave(a) /\ UNCHANGED <<dirs, licFile, issued>>
  /\ UNCHANGED <<environment, keyFile, keyLost>>

(* validate(), which looks at the clock again; business starts after it.   *)
Validate(a) ==
  /\ pc[a] = "created"
  /\ IF ValidateLicense(client[a].license, now) = "success"
     THEN pc' = [pc EXCEPT ![a] = "business"] /\ UNCHANGED <<client, seen, held>>
     ELSE Leave(a)
  /\ UNCHANGED <<environment, dirs, licFile, keyFile, issued, keyLost>>

(* The program ends, or dies anywhere on the way.                          *)
Finish(a) ==
  /\ pc[a] # "off"
  /\ Leave(a)
  /\ UNCHANGED <<environment, dirs, licFile, keyFile, issued, keyLost>>

-----------------------------------------------------------------------------
(* What happens around the applications.                                   *)

Change == changes < MaxChanges /\ changes' = changes + 1

(* A name, an interface or the memory changes, or the files are copied to  *)
(* another machine.                                                        *)
MachineChanges ==
  /\ Change
  /\ machine' \in Hardware \ {machine}
  /\ UNCHANGED <<now, layout, fields, dirs, licFile, keyFile, pc, client, seen,
                 issued, held, keyLost>>

(* A new version of the application comes with other fields.               *)
FieldsChange(a) ==
  /\ Change /\ pc[a] = "off"
  /\ \E c \in Configured[a] \ {fields[a]} : fields' = [fields EXCEPT ![a] = c]
  /\ UNCHANGED <<machine, now, layout, dirs, licFile, keyFile, pc, client, seen,
                 issued, held, keyLost>>

(* Somebody deletes a file.                                                *)
FilesGo(a) ==
  /\ Change
  /\ \/ /\ licFile' = [licFile EXCEPT ![layout[a]] = None]
        /\ UNCHANGED <<keyFile, keyLost>>
     \/ /\ keyFile' = [keyFile EXCEPT ![KeyAt(a)] = None]
        /\ keyLost' = keyLost \cup {b \in Apps : KeyAt(b) = KeyAt(a)}
        /\ UNCHANGED licFile
  /\ UNCHANGED <<machine, now, layout, fields, dirs, pc, client, seen, issued,
                 held>>

Tick ==
  /\ now < MaxTime /\ now' = now + 1
  /\ UNCHANGED <<machine, changes, layout, fields, dirs, licFile, keyFile, pc,
                 client, seen, issued, held, keyLost>>

-----------------------------------------------------------------------------
AllFields == UNION {Configured[a] : a \in Apps}

AInit ==
  /\ machine = Home /\ now = 1 /\ changes = 0
  /\ layout \in Layouts
  /\ fields \in {f \in [Apps -> AllFields] : \A a \in Apps : f[a] \in Configured[a]}
  /\ \E made \in {{}, Apps} :
       dirs = {<<>>} \cup UNION {WithParents(DirOf(layout[a])) : a \in made}
  /\ licFile = [path \in {layout[a] : a \in Apps} |-> None]
  /\ keyFile = [path \in {KeyAt(a) : a \in Apps} |-> None]
  /\ pc = [a \in Apps |-> "off"]
  /\ client = [a \in Apps |-> NoClient]
  /\ seen = [a \in Apps |-> None] /\ held = [a \in Apps |-> None]
  /\ issued = [path \in {layout[a] : a \in Apps} |-> None]
  /\ keyLost = {}

Act(a) ==
  \/ Launch(a) \/ EnterCode(a) \/ ReceiveLicense(a) \/ ApplyLicense(a)
  \/ Validate(a) \/ Finish(a) \/ FieldsChange(a) \/ FilesGo(a)

ANext == (\E a \in Apps : Act(a)) \/ MachineChanges \/ Tick

ASpec == AInit /\ [][ANext]_avars

-----------------------------------------------------------------------------
(* Besides types: the directory of a license file exists, and who runs has *)
(* a license of its product, or of another that keeps its license in the   *)
(* same file.                                                              *)
ProductsAt(path) == {ProductKey[b] : b \in {b \in Apps : layout[b] = path}}
ATypeOK ==
  /\ machine \in Hardware /\ now \in 1 .. MaxTime /\ changes \in 0 .. MaxChanges
  /\ layout \in Layouts /\ keyLost \subseteq Apps
  /\ \A path \in DOMAIN keyFile : keyFile[path] \in Keys \cup {None}
  /\ \A a \in Apps :
       /\ fields[a] \in Configured[a]
       /\ pc[a] \in {"off", "prompt", "await", "apply", "created", "business"}
       /\ licFile[layout[a]] # None =>
            /\ licFile[layout[a]].signer \in ProductsAt(layout[a])
            /\ DirOf(layout[a]) \in dirs
       /\ client[a].key \in Keys \cup {None}
       /\ pc[a] \in {"created", "business"} =>
            /\ client[a].license # None
            /\ client[a].license.signer \in ProductsAt(layout[a])
            /\ a \in PinnedApps => client[a].license.signer = ProductKey[a]

(* What a change is, told from the machines and not from the readings: the *)
(* processor that is listed first and the interface that is found first    *)
(* count, and the memory by whole gigabytes, below one by megabytes.       *)
FirstProcessor(m) ==
  {m.cpuinfo[i] : i \in {i \in DOMAIN m.cpuinfo :
     m.cpuinfo[i] # None /\ \A j \in 1 .. i - 1 : m.cpuinfo[j] = None}} \ {<<>>}
FirstAddress(m) ==
  {m.interfaces[i].address : i \in {i \in DOMAIN m.interfaces :
     /\ m.interfaces[i].kind = "packet"
     /\ \A j \in 1 .. i - 1 : m.interfaces[j].kind # "packet"}} \ {<<>>}
MemoryDiffers(old, new) ==
  LET either(unit) == old >= unit \/ new >= unit
      differs(unit) == old \div unit # new \div unit
  IN  \/ either(1048576) /\ differs(1048576)
      \/ ~either(1048576) /\ either(1024) /\ differs(1024)
      \/ ~either(1024) /\ old # new

Altered(field, old, new) ==
  \/ field = "hostname" /\ old.hostname # new.hostname
  \/ field = "cpu" /\ FirstProcessor(old) # FirstProcessor(new)
  \/ field = "mac" /\ FirstAddress(old) # FirstAddress(new)
  \/ /\ field = "memory" /\ old.meminfo # new.meminfo
     /\ \/ None \in {old.meminfo, new.meminfo}
        \/ MemoryDiffers(old.meminfo, new.meminfo)

(* A license file without an extension takes the dot of a directory, and   *)
(* files of one directory with one stem have one key file.                 *)
Stem(path) == Append(DirOf(path), DirOf(path[Len(path)]))
KeyFileShared(a) ==
  \E b \in Apps \ ({a} \cup PinnedApps) :
    \/ Len(layout[a]) \notin Dotted(layout[a])
    \/ Len(layout[b]) \notin Dotted(layout[b])
    \/ Stem(layout[a]) = Stem(layout[b])

LicenseFileShared(a) == \E b \in Apps \ {a} : layout[b] = layout[a]

Cause(a) ==
  LET doc == licFile[layout[a]]
      then == issued[layout[a]]
  IN  \/ doc = None \/ now > doc.expiresAt \/ LicenseFileShared(a)
      \/ a \notin PinnedApps /\ (a \in keyLost \/ KeyFileShared(a))
      \/ Fields(fields[a]) # Fields(then.fields)
      \/ \E f \in Fields(fields[a]) : Altered(f, then.machine, machine)

(* A user is asked for an activation code again only for a cause: the      *)
(* license is gone or over, the key is gone or another program's files are *)
(* in the way, or the machine differs in what the application configured.  *)
(* An interface that is plugged in behind the first, memory that varies    *)
(* within a gigabyte, fields in another order or spelling, another         *)
(* program's activation and a crash between two steps are none             *)
(* (hardware.cpp 34-95, client.cpp 333-340, basic.cpp 131-155).            *)
AskedForCause ==
  [][\A a \in Apps : pc[a] = "off" /\ pc'[a] = "prompt" => Cause(a)]_avars

(* A license serves no machine but the one it was issued for: whatever is  *)
(* copied, renamed, reconfigured or replaced while a program waits for an  *)
(* answer, and whoever else writes to the file, what runs was issued to a  *)
(* machine that reads the same, as long as no name has a separator in it.  *)
(* Only machines of which nothing configured can be read stand for one     *)
(* another (hardware.cpp 75-94, validator.cpp 407-412).                    *)
NotTransferable ==
  \A a \in Apps :
    pc[a] \in {"created", "business"} =>
      LET then == held[a]
          known(c, m) == {f \in Fields(c) : Reading(f, m) # <<>>}
      IN  Unambiguous(then.machine) /\ Unambiguous(seen[a]) =>
            /\ known(fields[a], seen[a]) = known(then.fields, then.machine)
            /\ \A f \in known(fields[a], seen[a]) :
                 ~Altered(f, then.machine, seen[a])

=============================================================================
