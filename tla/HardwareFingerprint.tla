------------------------- MODULE HardwareFingerprint -------------------------
(***************************************************************************)
(* DefaultHardwareProvider (src/src/hardware.cpp, the Linux branches):     *)
(* which readings of a machine its fingerprint is made of, and the text    *)
(* they are written into.  Only SHA-256 is taken as injective: the         *)
(* fingerprint is the text it is computed over.                            *)
(***************************************************************************)
EXTENDS LicenseVerifier

CONSTANT Characters  \* what names are spelled with, separators among them

(* A reading is a text, the empty one where there is nothing to read.      *)
Separator == ";"
Text == Seq(Characters)
Separable(text) == \A i \in DOMAIN text : text[i] # Separator

(* A machine as the system calls and /proc show it.  A hostname may hold   *)
(* any character, a MAC address is hexadecimal digits and colons.          *)
InterfaceKinds == {"loopback", "packet", "other"}  \* IFF_LOOPBACK, AF_PACKET
Address == {text \in Text : Separable(text)}
Interface == [kind : InterfaceKinds, address : Address]

Machine ==
  [hostname : Text, interfaces : Seq(Interface),
   cpuinfo : Seq(Text \cup {None}),  \* lines, None: not a "model name"
   meminfo : Nat \cup {None}]        \* MemTotal, in kB

KnownFields == {"hostname", "mac", "cpu", "memory"}

(* An entry of Config::hardware_fields: a name, and how it is spelled.     *)
WrittenField ==
  [name : KnownFields \cup {"unknown"}, spelling : {"lower", "upper"}]

ToLower(written) == written.name

(* The fields, without the order and the repetitions of the configuration, *)
(* which the std::map of fingerprint() forgets.                            *)
Fields(configured) ==
  IF configured = <<>> THEN {"mac", "hostname"}
  ELSE {ToLower(configured[i]) : i \in DOMAIN configured}

(* The place in a sequence the loops below stop at.                        *)
FirstOf(places) == CHOOSE i \in places : \A j \in places : i <= j

(* The first interface that is not the loopback and has a link-layer       *)
(* address decides, also when ioctl has no address for it.                 *)
Usable(machine) ==
  {i \in DOMAIN machine.interfaces : machine.interfaces[i].kind = "packet"}
MacAddress(machine) ==
  IF Usable(machine) = {} THEN <<>>
  ELSE machine.interfaces[FirstOf(Usable(machine))].address

(* The first line that names a model decides, also when the name is empty. *)
ModelNames(machine) == {i \in DOMAIN machine.cpuinfo : machine.cpuinfo[i] # None}
CpuInfo(machine) ==
  IF ModelNames(machine) = {} THEN <<>>
  ELSE machine.cpuinfo[FirstOf(ModelNames(machine))]

(* Rounded down to the largest unit of which there is at least one.        *)
Rounded(kB) ==
  IF kB >= 1024 * 1024 THEN <<kB \div (1024 * 1024), "GB">>
  ELSE IF kB >= 1024 THEN <<kB \div 1024, "MB">>
  ELSE <<kB, "KB">>

MemoryInfo(machine) ==
  IF machine.meminfo = None THEN <<>> ELSE Rounded(machine.meminfo)

Reading(field, machine) ==
  CASE field = "hostname" -> machine.hostname
    [] field = "mac" -> MacAddress(machine)
    [] field = "cpu" -> CpuInfo(machine)
    [] field = "memory" -> MemoryInfo(machine)
    [] OTHER -> <<>>

(* A field that cannot be read is left out, and so is an unknown one.      *)
Readable(fields, machine) == {f \in fields : Reading(f, machine) # <<>>}

Entry(key, value) == <<key, "=">> \o (value \o <<Separator>>)
Part(field, configured, machine) ==
  IF field \in Readable(Fields(configured), machine)
  THEN Entry(field, Reading(field, machine))
  ELSE <<>>

(* The text that is hashed: the fields in the order of their names, with   *)
(* nothing escaped; the empty text when nothing can be read.               *)
Fingerprint(configured, machine) ==
  Part("cpu", configured, machine) \o
    (Part("hostname", configured, machine) \o
      (Part("mac", configured, machine) \o
        Part("memory", configured, machine)))

(* What keeps the fields of that text apart: no name has a separator.      *)
Unambiguous(machine) ==
  Separable(machine.hostname) /\ Separable(CpuInfo(machine))

=============================================================================
