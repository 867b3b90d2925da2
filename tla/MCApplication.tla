---------------------------- MODULE MCApplication ----------------------------
(* A small instance of Application for TLC: two applications, four ways to  *)
(* lay out their files, and what may become of one machine.                 *)
EXTENDS Application, TLC

CONSTANTS a, b, ka, kb, h1, h2, m1, m2, c1

MCCharacters == {h1, h2, m1, m2, c1, "mac", "=", Separator}

Lo == [kind |-> "loopback", address |-> <<>>]
Unread == [kind |-> "packet", address |-> <<>>]
Card(address) == [kind |-> "packet", address |-> <<address>>]

Plain == [hostname |-> <<h1>>, interfaces |-> <<Lo, Card(m1)>>,
          cpuinfo |-> <<None, <<c1>>>>, meminfo |-> 16000000]
Reordered == [Plain EXCEPT !.interfaces = <<Lo, Card(m2), Card(m1)>>,
                           !.meminfo = 15990000]
Bare == [Plain EXCEPT !.interfaces = <<Lo, Card(m1), Card(m2)>>,
                      !.cpuinfo = <<<<>>, <<c1>>>>, !.meminfo = None]
(* A hostname that is spelled like an address: by hostname and mac the text *)
(* is that of Plain.                                                        *)
Posing == [hostname |-> <<h1, Separator, "mac", "=", m1>>,
           interfaces |-> <<Lo, Unread, Card(m1)>>,
           cpuinfo |-> <<None>>, meminfo |-> 8000000]
MCHardware == {Plain, Reordered, Bare, Posing}

Lower(name) == [name |-> name, spelling |-> "lower"]
Upper(name) == [name |-> name, spelling |-> "upper"]
Default == <<>>
Spelled == <<Upper("hostname"), Lower("mac"), Upper("mac")>>
Strict == <<Lower("cpu"), Lower("memory"), Lower("unknown")>>
MCConfigured == a :> {Default, Spelled, Strict} @@ b :> {Default}

MCFingerprints == {Fingerprint(c, m) : c \in MCConfigured[a], m \in MCHardware}

ProductKeys == a :> ka @@ b :> kb
(* Files of their own in one directory, or of one name in two directories;  *)
(* or the same files, as programs with the example's fixed path have them,  *)
(* with no key pinned or one.                                               *)
Apart == a :> <<<<"lic", "d">>, <<"a", "lic">>>>
           @@ b :> <<<<"lic", "d">>, <<"b", "lic">>>>
Together == a :> <<<<"app", "v1">>, <<"license">>>>
              @@ b :> <<<<"app", "v2">>, <<"license">>>>
Same == a :> <<<<"license", "lic">>>> @@ b :> <<<<"license", "lic">>>>
SamePinned == a :> <<<<"license", "dat">>>> @@ b :> <<<<"license", "dat">>>>
MCLayouts == {Apart, Together, Same, SamePinned}
MCPinning == [l \in MCLayouts |-> IF l = SamePinned THEN {b} ELSE {}]
=============================================================================
