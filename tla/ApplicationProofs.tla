--------------------------- MODULE ApplicationProofs ---------------------------
(***************************************************************************)
(* Proofs that Application binds licenses to machines for any number of    *)
(* applications, any machines, layouts, fields and end dates, however      *)
(* often things change around them.                                        *)
(***************************************************************************)
EXTENDS Application, LicenseVerifierProofs, SequenceTheorems, WellFoundedInduction

PcSteps == {"off", "prompt", "await", "apply", "created", "business"}
ClientState ==
  [fingerprint : Fingerprints \cup {None}, key : Keys \cup {None},
   license : Payload \cup {None}]
Issue == [machine : Hardware, fields : AllFields]

Paths == {layout[a] : a \in Apps}

Shape ==
  /\ machine \in Hardware /\ now \in 1 .. MaxTime /\ changes \in 0 .. MaxChanges
  /\ layout \in Layouts /\ keyLost \subseteq Apps
  /\ fields \in [Apps -> AllFields]
  /\ licFile \in [Paths -> Document \cup {None}]
  /\ keyFile \in [{KeyAt(a) : a \in Apps} -> Keys \cup {None}]
  /\ pc \in [Apps -> PcSteps]
  /\ client \in [Apps -> ClientState]
  /\ seen \in [Apps -> Hardware \cup {None}]
  /\ issued \in [Paths -> Issue \cup {None}]
  /\ held \in [Apps -> Issue \cup {None}]

(* A license file holds a readable license of a product that keeps its     *)
(* license there, issued for the machine and the fields in issued, in a    *)
(* directory that exists.                                                  *)
FileBound(a) ==
  LET doc == licFile[layout[a]]
      then == issued[layout[a]]
  IN  doc # None =>
        /\ doc.signer \in ProductsAt(layout[a])
        /\ doc.form = "wellFormed" /\ doc.layers = 0
        /\ then \in Issue
        /\ doc.fingerprint \in Fingerprints
        /\ doc.fingerprint = Fingerprint(then.fields, then.machine)
        /\ DirOf(layout[a]) \in dirs

(* A client has the fingerprint of the machine it was started on, and once *)
(* it has a license, that is the one it was issued for.                    *)
ClientBound(a) ==
  /\ pc[a] # "off" =>
       /\ seen[a] \in Hardware
       /\ client[a].fingerprint = Fingerprint(fields[a], seen[a])
  /\ pc[a] \in {"created", "business"} =>
       /\ client[a].license # None
       /\ client[a].license.signer \in ProductsAt(layout[a])
       /\ a \in PinnedApps => client[a].license.signer = ProductKey[a]
       /\ held[a] \in Issue
       /\ Fingerprint(fields[a], seen[a])
            = Fingerprint(held[a].fields, held[a].machine)

Bound(a) == fields[a] \in Configured[a] /\ FileBound(a) /\ ClientBound(a)

IInv == Shape /\ \A a \in Apps : Bound(a)

(* The key file of an application that has a license, or is about to get   *)
(* one, holds the key of its product, unless the key was lost or another   *)
(* program writes to the same key file or license file.                    *)
KeyKept(a) ==
  /\ a \notin PinnedApps /\ a \notin keyLost
  /\ ~KeyFileShared(a) /\ ~LicenseFileShared(a)
  /\ licFile[layout[a]] # None \/ pc[a] = "apply"
  => keyFile[KeyAt(a)] = ProductKey[a]

Recoverable == IInv /\ \A a \in Apps : KeyKept(a)

-----------------------------------------------------------------------------
(* Machines and their fields.                                              *)

(* A set of positions has a first one.                                     *)
LEMMA FirstPosition ==
  ASSUME NEW T, T \subseteq Nat, T # {}
  PROVE  \E i \in T : \A j \in T : i <= j
<1> DEFINE before == {p \in Nat \X Nat : p[1] < p[2]}
<1>0. IsWellFoundedOn(before, Nat)
  BY NatLessThanWellFounded DEF OpToRel
<1>1. PICK i \in T : \A j \in T : ~(<<j, i>> \in before)
  <2> HIDE DEF before
  <2>1. QED
    BY <1>0, WFMin
<1>2. ASSUME NEW j \in T PROVE i <= j
  <2>1. i \in Nat /\ j \in Nat
    OBVIOUS
  <2>2. ~(j < i)
    BY <1>1, <2>1
  <2>3. QED
    BY <2>1, <2>2
<1>3. QED
  BY <1>2

(* The text that is hashed is made of these.                               *)
Token == Characters \cup Nat \cup {"KB", "MB", "GB", "=", Separator} \cup KnownFields

(* Whether x is v followed by t, told by its elements.                     *)
Joined(x, v, t) ==
  /\ Len(x) = Len(v) + Len(t)
  /\ \A i \in 1 .. Len(v) : x[i] = v[i]
  /\ \A i \in 1 .. Len(t) : x[Len(v) + i] = t[i]

LEMMA JoinedIs ==
  ASSUME NEW S, NEW v \in Seq(S), NEW t \in Seq(S)
  PROVE  v \o t \in Seq(S) /\ Joined(v \o t, v, t)
<1>1. /\ v \o t \in Seq(S) /\ Len(v \o t) = Len(v) + Len(t)
      /\ \A i \in 1 .. Len(v) + Len(t) :
           (v \o t)[i] = IF i <= Len(v) THEN v[i] ELSE t[i - Len(v)]
  BY ConcatProperties
<1>2. Len(v) \in Nat /\ Len(t) \in Nat
  OBVIOUS
<1>3. ASSUME NEW x, \A i \in 1 .. Len(v) + Len(t) :
               x[i] = IF i <= Len(v) THEN v[i] ELSE t[i - Len(v)]
      PROVE  /\ \A i \in 1 .. Len(v) : x[i] = v[i]
             /\ \A i \in 1 .. Len(t) : x[Len(v) + i] = t[i]
  BY <1>2, <1>3
<1>4. QED
  BY <1>1, <1>3 DEF Joined

(* A text before a separator, and what follows it.                         *)
Around(x, v, r) ==
  /\ Len(x) = Len(v) + 1 + Len(r) /\ x[Len(v) + 1] = Separator
  /\ \A i \in 1 .. Len(v) : x[i] = v[i]
  /\ \A i \in 1 .. Len(r) : x[Len(v) + 1 + i] = r[i]

LEMMA AroundFromParts ==
  ASSUME NEW S, NEW v \in Seq(S), NEW r \in Seq(S), NEW x \in Seq(S), NEW t \in Seq(S),
         Joined(t, <<Separator>>, r), Joined(x, v, t)
  PROVE  Around(x, v, r)
<1>1. Len(<<Separator>>) = 1 /\ <<Separator>>[1] = Separator
  OBVIOUS
<1>2. Len(v) \in Nat /\ Len(r) \in Nat
  OBVIOUS
<1>3. /\ Len(t) = 1 + Len(r) /\ t[1] = Separator
      /\ \A i \in 1 .. Len(r) : t[1 + i] = r[i]
  BY <1>1 DEF Joined
<1>4. Len(x) = Len(v) + 1 + Len(r)
  BY <1>2, <1>3 DEF Joined
<1>5. x[Len(v) + 1] = Separator
  BY <1>2, <1>3 DEF Joined
<1>6. ASSUME NEW i \in 1 .. Len(r) PROVE x[Len(v) + 1 + i] = r[i]
  <2>1. 1 + i \in 1 .. Len(t) /\ Len(v) + (1 + i) = Len(v) + 1 + i
    BY <1>2, <1>3
  <2>2. x[Len(v) + (1 + i)] = t[1 + i]
    BY <2>1 DEF Joined
  <2>3. QED
    BY <1>3, <2>1, <2>2
<1>7. \A i \in 1 .. Len(v) : x[i] = v[i]
  BY DEF Joined
<1>8. QED
  BY <1>4, <1>5, <1>6, <1>7 DEF Around

LEMMA AroundSeparator ==
  ASSUME NEW S, Separator \in S, NEW v \in Seq(S), NEW r \in Seq(S)
  PROVE  /\ v \o (<<Separator>> \o r) \in Seq(S)
         /\ Around(v \o (<<Separator>> \o r), v, r)
<1>1. <<Separator>> \in Seq(S)
  OBVIOUS
<1> DEFINE t == <<Separator>> \o r
<1>2. t \in Seq(S) /\ Joined(t, <<Separator>>, r)
  BY <1>1, JoinedIs
<1> HIDE DEF t
<1>3. v \o t \in Seq(S) /\ Joined(v \o t, v, t)
  BY <1>2, JoinedIs
<1>4. Around(v \o t, v, r)
  BY <1>2, <1>3, AroundFromParts
<1>5. QED
  BY <1>3, <1>4 DEF t

(* Values without a separator end where the first separator is.            *)
LEMMA SplitAtSeparator ==
  ASSUME NEW S, NEW v \in Seq(S), NEW w \in Seq(S),
         NEW r \in Seq(S), NEW s \in Seq(S), Separable(v), Separable(w),
         NEW x, Around(x, v, r), Around(x, w, s)
  PROVE  v = w /\ r = s
<1>1. /\ Len(v) \in Nat /\ Len(w) \in Nat /\ Len(r) \in Nat /\ Len(s) \in Nat
      /\ DOMAIN v = 1 .. Len(v) /\ DOMAIN w = 1 .. Len(w)
  OBVIOUS
<1>2. (\A i \in 1 .. Len(v) : v[i] # Separator) /\ (\A i \in 1 .. Len(w) : w[i] # Separator)
  BY <1>1 DEF Separable
<1>3. ASSUME Len(v) < Len(w) PROVE FALSE
  <2>1. Len(v) + 1 \in 1 .. Len(w)
    BY <1>1, <1>3
  <2>2. x[Len(v) + 1] = w[Len(v) + 1] /\ x[Len(v) + 1] = Separator
    BY <2>1 DEF Around
  <2>3. QED
    BY <1>2, <2>1, <2>2
<1>4. ASSUME Len(w) < Len(v) PROVE FALSE
  <2>1. Len(w) + 1 \in 1 .. Len(v)
    BY <1>1, <1>4
  <2>2. x[Len(w) + 1] = v[Len(w) + 1] /\ x[Len(w) + 1] = Separator
    BY <2>1 DEF Around
  <2>3. QED
    BY <1>2, <2>1, <2>2
<1>5. Len(v) = Len(w)
  <2>1. \A i, j \in Nat : i < j \/ j < i \/ i = j
    OBVIOUS
  <2>2. QED
    BY <1>1, <1>3, <1>4, <2>1, Zenon
<1>6. Len(r) = Len(s)
  BY <1>1, <1>5 DEF Around
<1>7. \A i \in 1 .. Len(v) : v[i] = w[i]
  BY <1>5 DEF Around
<1>8. \A i \in 1 .. Len(r) : r[i] = s[i]
  BY <1>5, <1>6 DEF Around
<1>9. ASSUME NEW t \in Seq(S), NEW u \in Seq(S), Len(t) = Len(u),
             \A i \in 1 .. Len(t) : t[i] = u[i]
      PROVE  t = u
  <2>1. DOMAIN t = 1 .. Len(t) /\ DOMAIN u = 1 .. Len(t)
    BY <1>9
  <2>2. t = [i \in DOMAIN t |-> t[i]] /\ u = [i \in DOMAIN u |-> u[i]]
    OBVIOUS
  <2>3. QED
    BY <1>9, <2>1, <2>2
<1>10. QED
  BY <1>5, <1>6, <1>7, <1>8, <1>9, Zenon

(* Concatenation, in one direction and in the other.                       *)
Regroups(s, t, u) == (s \o t) \o u = s \o (t \o u)

LEMMA Regrouped ==
  ASSUME NEW S, NEW s \in Seq(S), NEW t \in Seq(S), NEW u \in Seq(S)
  PROVE  Regroups(s, t, u)
BY ConcatAssociative DEF Regroups

LEMMA CancelHead ==
  ASSUME NEW S, NEW u \in Seq(S), NEW x \in Seq(S), NEW y \in Seq(S), u \o x = u \o y
  PROVE  x = y
BY ConcatSimplifications

LEMMA CancelLast ==
  ASSUME NEW S, NEW u \in Seq(S), NEW x \in Seq(S), NEW y \in Seq(S), x \o u = y \o u
  PROVE  x = y
BY ConcatSimplifications

(* An entry begins with its key, and goes on with its value.               *)
BeginsWith(text, k, v, r) ==
  /\ text = <<k, "=">> \o (v \o (<<Separator>> \o r))
  /\ text # <<>> /\ text[1] = k

LEMMA EntryIs ==
  ASSUME NEW S, Separator \in S, "=" \in S, NEW k \in S, NEW v \in Seq(S), NEW r \in Seq(S)
  PROVE  Entry(k, v) \in Seq(S) /\ BeginsWith(Entry(k, v) \o r, k, v, r)
<1> DEFINE head == <<k, "=">>
           last == <<Separator>>
           value == v \o last
           rest == v \o (last \o r)
<1>1. head \in Seq(S) /\ last \in Seq(S) /\ Len(head) = 2 /\ head[1] = k
  OBVIOUS
<1>2. Entry(k, v) = head \o value
  BY DEF Entry
<1> HIDE DEF head, last
<1>3. value \in Seq(S) /\ last \o r \in Seq(S)
  BY <1>1, JoinedIs
<1>4. rest \in Seq(S)
  BY <1>3, JoinedIs
<1>5. value \o r = rest
  <2>1. Regroups(v, last, r)
    BY <1>1, Regrouped, Zenon
  <2>2. QED
    BY <2>1, Zenon DEF Regroups
<1> HIDE DEF value, rest
<1>6. head \o value \in Seq(S)
  BY <1>1, <1>3, JoinedIs
<1>7. (head \o value) \o r = head \o (value \o r)
  <2>1. Regroups(head, value, r)
    BY <1>1, <1>3, Regrouped, Zenon
  <2>2. QED
    BY <2>1, Zenon DEF Regroups
<1>8. (head \o value) \o r = head \o rest
  BY <1>5, <1>7
<1>9. Joined(head \o rest, head, rest) /\ head \o rest \in Seq(S)
  BY <1>1, <1>4, JoinedIs
<1>10. ASSUME NEW x \in Seq(S), Joined(x, head, rest) PROVE x # <<>> /\ x[1] = k
  <2>1. Len(rest) \in Nat
    BY <1>4
  <2>2. Len(x) = 2 + Len(rest) /\ x[1] = k
    BY <1>1, <1>10 DEF Joined
  <2>3. QED
    BY <2>1, <2>2
<1>11. head \o rest # <<>> /\ (head \o rest)[1] = k
  BY <1>9, <1>10
<1>12. QED
  BY <1>2, <1>6, <1>8, <1>11, Zenon DEF BeginsWith, head, last, rest

(* A text that begins with the entry of a key, or without it when there is *)
(* nothing to say, and goes on with one of some keys.                      *)
StartsIn(text, keys) == text \in Seq(Token) /\ (text # <<>> => text[1] \in keys)

Written(x, k, v, r) ==
  /\ v \in Seq(Token) /\ Separable(v)
  /\ x = (IF v = <<>> THEN <<>> ELSE Entry(k, v)) \o r

(* Its entry is told from the text, and what it goes on with.              *)
LEMMA SameEntry ==
  ASSUME NEW k \in KnownFields, NEW keys, k \notin keys, NEW r, NEW s,
         StartsIn(r, keys), StartsIn(s, keys), NEW v, NEW w,
         NEW x, Written(x, k, v, r), Written(x, k, w, s)
  PROVE  v = w /\ r = s
<1>0. /\ k \in Token /\ "=" \in Token /\ Separator \in Token
      /\ r \in Seq(Token) /\ s \in Seq(Token)
      /\ r # <<>> => r[1] # k
      /\ s # <<>> => s[1] # k
      /\ v \in Seq(Token) /\ w \in Seq(Token) /\ Separable(v) /\ Separable(w)
  BY DEF Token, StartsIn, Written
<1>1. v = <<>> => x = r
  BY <1>0, ConcatEmptySeq DEF Written
<1>2. w = <<>> => x = s
  BY <1>0, ConcatEmptySeq DEF Written
<1>3. v # <<>> => x = Entry(k, v) \o r
  BY Zenon DEF Written
<1>4. w # <<>> => x = Entry(k, w) \o s
  BY Zenon DEF Written
<1>5. v # <<>> => BeginsWith(x, k, v, r)
  <2>1. BeginsWith(Entry(k, v) \o r, k, v, r)
    BY <1>0, EntryIs, Zenon
  <2>2. QED
    BY <1>3, <2>1, Zenon
<1>6. w # <<>> => BeginsWith(x, k, w, s)
  <2>1. BeginsWith(Entry(k, w) \o s, k, w, s)
    BY <1>0, EntryIs, Zenon
  <2>2. QED
    BY <1>4, <2>1, Zenon
<1>7. CASE v = <<>> \/ w = <<>>
  BY <1>0, <1>1, <1>2, <1>5, <1>6, <1>7, Zenon DEF BeginsWith
<1>8. CASE v # <<>> /\ w # <<>>
  <2> DEFINE head == <<k, "=">>
             y == v \o (<<Separator>> \o r)
             z == w \o (<<Separator>> \o s)
  <2>1. x = head \o y
    BY <1>5, <1>8, Zenon DEF BeginsWith
  <2>2. x = head \o z
    BY <1>6, <1>8, Zenon DEF BeginsWith
  <2>3. y \in Seq(Token) /\ Around(y, v, r)
    BY <1>0, AroundSeparator, Zenon
  <2>4. z \in Seq(Token) /\ Around(z, w, s)
    BY <1>0, AroundSeparator, Zenon
  <2>5. head \in Seq(Token)
    BY <1>0
  <2> HIDE DEF head, y, z
  <2>6. y = z
    BY <2>1, <2>2, <2>3, <2>4, <2>5, CancelHead, Zenon
  <2>7. QED
    BY <1>0, <2>3, <2>4, <2>6, SplitAtSeparator, Zenon
<1>9. QED
  BY <1>7, <1>8

(* The interface the reading of "mac" comes from is the first one.         *)
LEMMA FirstAddressIsRead ==
  ASSUME NEW m \in Machine
  PROVE  FirstAddress(m) = {MacAddress(m)} \ {<<>>}
<1> DEFINE T == Usable(m)
<1>1. /\ DOMAIN m.interfaces = 1 .. Len(m.interfaces) /\ Len(m.interfaces) \in Nat
      /\ m.interfaces \in Seq(Interface)
  BY DEF Machine
<1>2. T \subseteq Nat
  BY <1>1 DEF Usable
<1>3. CASE T = {}
  <2>1. \A i \in DOMAIN m.interfaces : m.interfaces[i].kind # "packet"
    BY <1>3 DEF Usable
  <2>2. MacAddress(m) = <<>>
    BY <1>3 DEF MacAddress
  <2>3. FirstAddress(m) = {}
    BY <2>1 DEF FirstAddress
  <2>4. QED
    BY <2>2, <2>3
<1>4. CASE T # {}
  <2>1. PICK i \in T : \A j \in T : i <= j
    BY <1>2, <1>4, FirstPosition
  <2>2. \A k \in T : (\A j \in T : k <= j) => k = i
    BY <1>2, <2>1
  <2>3. FirstOf(T) = i
    BY <2>1, <2>2 DEF FirstOf
  <2>4. MacAddress(m) = m.interfaces[i].address
    BY <2>1, <2>3 DEF MacAddress
  <2>5. ASSUME NEW k \in DOMAIN m.interfaces
        PROVE  (/\ m.interfaces[k].kind = "packet"
                /\ \A j \in 1 .. k - 1 : m.interfaces[j].kind # "packet")
                 <=> k = i
    BY <1>1, <2>1 DEF Usable
  <2>6. QED
    BY <2>1, <2>4, <2>5 DEF FirstAddress, Usable
<1>5. QED
  BY <1>3, <1>4

(* The processor the reading of "cpu" comes from is the first one.         *)
LEMMA FirstProcessorIsRead ==
  ASSUME NEW m \in Machine
  PROVE  FirstProcessor(m) = {CpuInfo(m)} \ {<<>>}
<1> DEFINE T == ModelNames(m)
<1>1. DOMAIN m.cpuinfo = 1 .. Len(m.cpuinfo) /\ Len(m.cpuinfo) \in Nat
  BY DEF Machine
<1>2. T \subseteq Nat
  BY <1>1 DEF ModelNames
<1>3. CASE T = {}
  BY <1>3 DEF ModelNames, CpuInfo, FirstProcessor
<1>4. CASE T # {}
  <2>1. PICK i \in T : \A j \in T : i <= j
    BY <1>2, <1>4, FirstPosition
  <2>2. \A k \in T : (\A j \in T : k <= j) => k = i
    BY <1>2, <2>1
  <2>3. FirstOf(T) = i
    BY <2>1, <2>2 DEF FirstOf
  <2>4. CpuInfo(m) = m.cpuinfo[i]
    BY <2>1, <2>3 DEF CpuInfo
  <2>5. ASSUME NEW k \in DOMAIN m.cpuinfo
        PROVE  (m.cpuinfo[k] # None /\ \A j \in 1 .. k - 1 : m.cpuinfo[j] = None)
                 <=> k = i
    BY <1>1, <2>1 DEF ModelNames
  <2>6. QED
    BY <2>1, <2>4, <2>5 DEF FirstProcessor, ModelNames
<1>5. QED
  BY <1>3, <1>4

(* The last entry is followed by nothing, so its value may be any text.    *)
LEMMA SameLastEntry ==
  ASSUME NEW S, Separator \in S, "=" \in S, NEW k \in S,
         NEW v \in Seq(S), NEW w \in Seq(S),
         NEW p, p = IF v = <<>> THEN <<>> ELSE Entry(k, v),
         NEW q, q = IF w = <<>> THEN <<>> ELSE Entry(k, w),
         p = q
  PROVE  v = w
<1> DEFINE head == <<k, "=">>
           last == <<Separator>>
           x == v \o last
           y == w \o last
<1>1. <<>> \in Seq(S) /\ head \in Seq(S) /\ last \in Seq(S)
  OBVIOUS
<1>2. Entry(k, v) = head \o x /\ Entry(k, w) = head \o y
  BY DEF Entry
<1>3. x \in Seq(S) /\ y \in Seq(S)
  <2> HIDE DEF last
  <2>1. QED
    BY <1>1, JoinedIs, Zenon
<1>4. head \o x # <<>> /\ head \o y # <<>>
  <2>1. Len(head) = 2
    OBVIOUS
  <2> HIDE DEF head, x, y
  <2>2. Joined(head \o x, head, x) /\ Joined(head \o y, head, y)
    BY <1>1, <1>3, JoinedIs, Zenon
  <2>3. ASSUME NEW t \in Seq(S), NEW z, Joined(z, head, t) PROVE z # <<>>
    BY <2>1, <2>3 DEF Joined
  <2>4. QED
    BY <1>3, <2>2, <2>3
<1>5. ASSUME head \o x = head \o y PROVE v = w
  <2>1. x = y
    <3> HIDE DEF head, x, y
    <3>1. QED
      BY <1>1, <1>3, <1>5, CancelHead, Zenon
  <2> HIDE DEF last
  <2>2. QED
    BY <1>1, <2>1, CancelLast, Zenon
<1>6. QED
  BY <1>2, <1>4, <1>5, Zenon

(* What each field is read as, and where in the text it comes.             *)
LEMMA ReadingIsText ==
  ASSUME NEW m \in Machine, NEW f
  PROVE  /\ Reading(f, m) \in Seq(Token)
         /\ f \in {"cpu", "hostname", "mac"} /\ Unambiguous(m) => Separable(Reading(f, m))
<1>1. m.hostname \in Text /\ \A t \in Text : t \in Seq(Token)
  BY DEF Machine, Text, Token
<1>2. <<>> \in Seq(Token) /\ Separable(<<>>)
  BY DEF Separable
<1>3. CASE f = "hostname"
  BY <1>1, <1>3 DEF Reading, Unambiguous
<1>4. CASE f = "mac"
  <2>1. /\ m.interfaces \in Seq(Interface)
        /\ \A i \in DOMAIN m.interfaces : m.interfaces[i] \in Interface
    BY DEF Machine
  <2>2. \A i \in DOMAIN m.interfaces : m.interfaces[i].address \in Address
    BY <2>1 DEF Interface
  <2>3. MacAddress(m) = <<>> \/ MacAddress(m) \in Address
    BY <2>2, FirstAddressIsRead DEF FirstAddress
  <2>4. QED
    BY <1>1, <1>2, <1>4, <2>3 DEF Reading, Address
<1>5. CASE f = "cpu"
  <2>1. \A i \in DOMAIN m.cpuinfo : m.cpuinfo[i] \in Text \cup {None}
    BY DEF Machine
  <2>2. CpuInfo(m) = <<>> \/ CpuInfo(m) \in Text
    BY <2>1, FirstProcessorIsRead DEF FirstProcessor
  <2>3. QED
    BY <1>1, <1>2, <1>5, <2>2 DEF Reading, Unambiguous
<1>6. CASE f = "memory"
  <2>1. m.meminfo # None => m.meminfo \in Nat
    BY DEF Machine
  <2>2. ASSUME NEW n \in Nat PROVE Rounded(n) \in Seq(Token)
    <3>1. n \div (1024 * 1024) \in Nat /\ n \div 1024 \in Nat
      BY SMT
    <3>2. ASSUME NEW k \in Nat, NEW unit \in {"KB", "MB", "GB"}
          PROVE  <<k, unit>> \in Seq(Token)
      BY DEF Token
    <3>3. QED
      BY <3>1, <3>2 DEF Rounded
  <2>3. QED
    BY <1>2, <1>6, <2>1, <2>2 DEF Reading, MemoryInfo
<1>7. CASE f \notin {"hostname", "mac", "cpu", "memory"}
  BY <1>2, <1>7 DEF Reading
<1>8. QED
  BY <1>3, <1>4, <1>5, <1>6, <1>7

(* What a field contributes to the text, when it is configured at all.     *)
Seen(f, c, m) == IF f \in Readable(Fields(c), m) THEN Reading(f, m) ELSE <<>>

LEMMA SeenIs ==
  ASSUME NEW m \in Machine, NEW c, NEW f
  PROVE  /\ Seen(f, c, m) \in Seq(Token)
         /\ Part(f, c, m) = IF Seen(f, c, m) = <<>> THEN <<>> ELSE Entry(f, Seen(f, c, m))
         /\ f \in {"cpu", "hostname", "mac"} /\ Unambiguous(m) => Separable(Seen(f, c, m))
<1>1. Seen(f, c, m) \in Seq(Token)
  <2>1. Reading(f, m) \in Seq(Token) /\ <<>> \in Seq(Token)
    BY ReadingIsText
  <2>2. QED
    BY <2>1 DEF Seen
<1>2. f \in {"cpu", "hostname", "mac"} /\ Unambiguous(m) => Separable(Seen(f, c, m))
  BY ReadingIsText DEF Seen, Separable
<1>3. Part(f, c, m) = IF Seen(f, c, m) = <<>> THEN <<>> ELSE Entry(f, Seen(f, c, m))
  BY DEF Seen, Part, Readable
<1>4. QED
  BY <1>1, <1>2, <1>3

(* A text that begins with one of some keys does so behind another part.   *)
LEMMA PartStarts ==
  ASSUME NEW m \in Machine, NEW c, NEW f \in KnownFields,
         NEW r, NEW keys, StartsIn(r, keys)
  PROVE  StartsIn(Part(f, c, m) \o r, keys \cup {f})
<1> DEFINE v == Seen(f, c, m)
<1>1. v \in Seq(Token) /\ Part(f, c, m) = IF v = <<>> THEN <<>> ELSE Entry(f, v)
  BY SeenIs
<1>2. f \in Token /\ "=" \in Token /\ Separator \in Token /\ r \in Seq(Token)
  BY DEF Token, StartsIn
<1> HIDE DEF v
<1>3. CASE v = <<>>
  <2>1. <<>> \o r = r
    BY <1>2, ConcatEmptySeq
  <2>2. StartsIn(r, keys \cup {f})
    BY DEF StartsIn
  <2>3. QED
    BY <1>1, <1>3, <2>1, <2>2, Zenon
<1>4. CASE v # <<>>
  <2>1. Entry(f, v) \in Seq(Token) /\ BeginsWith(Entry(f, v) \o r, f, v, r)
    BY <1>1, <1>2, EntryIs, Zenon
  <2>2. Entry(f, v) \o r \in Seq(Token)
    BY <1>2, <2>1, JoinedIs, Zenon
  <2>3. StartsIn(Entry(f, v) \o r, keys \cup {f})
    BY <2>1, <2>2, Zenon DEF StartsIn, BeginsWith
  <2>4. QED
    BY <1>1, <1>4, <2>3, Zenon
<1>5. QED
  BY <1>3, <1>4

LEMMA PartIsWritten ==
  ASSUME NEW m \in Machine, NEW c, Unambiguous(m),
         NEW f \in {"cpu", "hostname", "mac"}, NEW r
  PROVE  Written(Part(f, c, m) \o r, f, Seen(f, c, m), r)
BY SeenIs, Zenon DEF Written

(* Machines that read the same are written the same, whatever is read.     *)
LEMMA SameParts ==
  ASSUME NEW c, NEW m, NEW d, NEW n,
         Readable(Fields(c), m) = Readable(Fields(d), n),
         \A f \in Readable(Fields(c), m) : Reading(f, m) = Reading(f, n)
  PROVE  Fingerprint(c, m) = Fingerprint(d, n)
<1>1. ASSUME NEW f PROVE Part(f, c, m) = Part(f, d, n)
  BY DEF Part
<1>2. /\ Part("cpu", c, m) = Part("cpu", d, n)
      /\ Part("hostname", c, m) = Part("hostname", d, n)
      /\ Part("mac", c, m) = Part("mac", d, n)
      /\ Part("memory", c, m) = Part("memory", d, n)
  BY <1>1
<1>3. QED
  BY <1>2, Zenon DEF Fingerprint

(* Machines whose names have no separator have one fingerprint exactly     *)
(* when the same configured fields can be read of both, and read the same, *)
(* although nothing is escaped in the text that is hashed                  *)
(* (hardware.cpp 45-95).                                                   *)
THEOREM FingerprintsAgree ==
  ASSUME NEW c, NEW m \in Machine, NEW d, NEW n \in Machine,
         Unambiguous(m), Unambiguous(n)
  PROVE  Fingerprint(c, m) = Fingerprint(d, n) <=>
           /\ Readable(Fields(c), m) = Readable(Fields(d), n)
           /\ \A f \in Readable(Fields(c), m) : Reading(f, m) = Reading(f, n)
<1>1. ASSUME Fingerprint(c, m) = Fingerprint(d, n)
      PROVE  \A f \in KnownFields : Seen(f, c, m) = Seen(f, d, n)
  <2> DEFINE r3 == Part("memory", c, m)
             s3 == Part("memory", d, n)
             r2 == Part("mac", c, m) \o r3
             s2 == Part("mac", d, n) \o s3
             r1 == Part("hostname", c, m) \o r2
             s1 == Part("hostname", d, n) \o s2
  <2>1. "hostname" \in KnownFields /\ "mac" \in KnownFields /\ "memory" \in KnownFields
    BY DEF KnownFields
  <2>2. StartsIn(<<>>, {})
    BY DEF StartsIn
  <2>3. /\ StartsIn(r3 \o <<>>, {} \cup {"memory"})
        /\ StartsIn(s3 \o <<>>, {} \cup {"memory"})
    BY <2>1, <2>2, PartStarts, Zenon
  <2>4. r3 \o <<>> = r3 /\ s3 \o <<>> = s3
    <3>1. <<>> \in Seq(Token) /\ "memory" \in Token /\ "=" \in Token /\ Separator \in Token
      BY DEF Token, KnownFields
    <3>2. Entry("memory", Seen("memory", c, m)) \in Seq(Token)
          /\ Entry("memory", Seen("memory", d, n)) \in Seq(Token)
      BY <3>1, SeenIs, EntryIs, Zenon
    <3>3. r3 \in Seq(Token) /\ s3 \in Seq(Token)
      BY <3>1, <3>2, SeenIs, Zenon
    <3> HIDE DEF r3, s3
    <3>4. QED
      BY <3>3, ConcatEmptySeq
  <2>5. /\ StartsIn(r3, {} \cup {"memory"}) /\ StartsIn(s3, {} \cup {"memory"})
    BY <2>3, <2>4, Zenon
  <2>6. /\ StartsIn(r2, ({} \cup {"memory"}) \cup {"mac"})
        /\ StartsIn(s2, ({} \cup {"memory"}) \cup {"mac"})
    BY <2>1, <2>5, PartStarts, Zenon
  <2>7. /\ StartsIn(r1, (({} \cup {"memory"}) \cup {"mac"}) \cup {"hostname"})
        /\ StartsIn(s1, (({} \cup {"memory"}) \cup {"mac"}) \cup {"hostname"})
    BY <2>1, <2>6, PartStarts, Zenon
  <2>8. /\ "cpu" \notin (({} \cup {"memory"}) \cup {"mac"}) \cup {"hostname"}
        /\ "hostname" \notin ({} \cup {"memory"}) \cup {"mac"}
        /\ "mac" \notin {} \cup {"memory"}
        /\ "cpu" \in KnownFields
        /\ "cpu" \in {"cpu", "hostname", "mac"} /\ "hostname" \in {"cpu", "hostname", "mac"}
        /\ "mac" \in {"cpu", "hostname", "mac"}
    BY DEF KnownFields
  <2>9. Part("cpu", c, m) \o r1 = Part("cpu", d, n) \o s1
    BY <1>1 DEF Fingerprint
  <2>10. Seen("cpu", c, m) = Seen("cpu", d, n) /\ r1 = s1
    <3> HIDE DEF r1, s1
    <3>1. Part("cpu", c, m) \o r1 = Part("cpu", d, n) \o s1
      BY <2>9
    <3>2. /\ Written(Part("cpu", c, m) \o r1, "cpu", Seen("cpu", c, m), r1)
          /\ Written(Part("cpu", d, n) \o s1, "cpu", Seen("cpu", d, n), s1)
      BY <2>8, PartIsWritten, Zenon
    <3> DEFINE text == Part("cpu", c, m) \o r1
               later == (({} \cup {"memory"}) \cup {"mac"}) \cup {"hostname"}
               v == Seen("cpu", c, m)
               w == Seen("cpu", d, n)
    <3>3. Written(text, "cpu", v, r1) /\ Written(text, "cpu", w, s1)
      BY <3>1, <3>2
    <3>4. StartsIn(r1, later) /\ StartsIn(s1, later) /\ "cpu" \notin later
      BY <2>7, <2>8
    <3> HIDE DEF text, later, v, w
    <3>5. v = w /\ r1 = s1
      BY <2>1, <2>8, <3>3, <3>4, SameEntry
    <3>6. QED
      BY <3>5 DEF v, w
  <2>11. Seen("hostname", c, m) = Seen("hostname", d, n) /\ r2 = s2
    <3> HIDE DEF r2, s2
    <3>1. Part("hostname", c, m) \o r2 = Part("hostname", d, n) \o s2
      BY <2>10 DEF r1, s1
    <3>2. /\ Written(Part("hostname", c, m) \o r2, "hostname", Seen("hostname", c, m), r2)
          /\ Written(Part("hostname", d, n) \o s2, "hostname", Seen("hostname", d, n), s2)
      BY <2>8, PartIsWritten, Zenon
    <3> DEFINE text == Part("hostname", c, m) \o r2
               later == ({} \cup {"memory"}) \cup {"mac"}
               v == Seen("hostname", c, m)
               w == Seen("hostname", d, n)
    <3>3. Written(text, "hostname", v, r2) /\ Written(text, "hostname", w, s2)
      BY <3>1, <3>2
    <3>4. StartsIn(r2, later) /\ StartsIn(s2, later) /\ "hostname" \notin later
      BY <2>6, <2>8
    <3> HIDE DEF text, later, v, w
    <3>5. v = w /\ r2 = s2
      BY <2>1, <2>8, <3>3, <3>4, SameEntry
    <3>6. QED
      BY <3>5 DEF v, w
  <2>12. Seen("mac", c, m) = Seen("mac", d, n) /\ r3 = s3
    <3> HIDE DEF r3, s3
    <3>1. Part("mac", c, m) \o r3 = Part("mac", d, n) \o s3
      BY <2>11 DEF r2, s2
    <3>2. /\ Written(Part("mac", c, m) \o r3, "mac", Seen("mac", c, m), r3)
          /\ Written(Part("mac", d, n) \o s3, "mac", Seen("mac", d, n), s3)
      BY <2>8, PartIsWritten, Zenon
    <3> DEFINE text == Part("mac", c, m) \o r3
               later == {} \cup {"memory"}
               v == Seen("mac", c, m)
               w == Seen("mac", d, n)
    <3>3. Written(text, "mac", v, r3) /\ Written(text, "mac", w, s3)
      BY <3>1, <3>2
    <3>4. StartsIn(r3, later) /\ StartsIn(s3, later) /\ "mac" \notin later
      BY <2>5, <2>8
    <3> HIDE DEF text, later, v, w
    <3>5. v = w /\ r3 = s3
      BY <2>1, <2>8, <3>3, <3>4, SameEntry
    <3>6. QED
      BY <3>5 DEF v, w
  <2>13. Seen("memory", c, m) = Seen("memory", d, n)
    <3> DEFINE v == Seen("memory", c, m)
               w == Seen("memory", d, n)
    <3>1. /\ v \in Seq(Token) /\ w \in Seq(Token)
          /\ r3 = IF v = <<>> THEN <<>> ELSE Entry("memory", v)
          /\ s3 = IF w = <<>> THEN <<>> ELSE Entry("memory", w)
      BY SeenIs, Zenon
    <3>2. "memory" \in Token /\ "=" \in Token /\ Separator \in Token
      BY DEF Token, KnownFields
    <3> HIDE DEF v, w, r3, s3
    <3>3. v = w
      BY <2>12, <3>1, <3>2, SameLastEntry, Zenon
    <3>4. QED
      BY <3>3 DEF v, w
  <2>14. QED
    BY <2>10, <2>11, <2>12, <2>13 DEF KnownFields
<1>2. ASSUME NEW f, f \notin KnownFields PROVE Reading(f, m) = <<>> /\ Reading(f, n) = <<>>
  BY <1>2 DEF KnownFields, Reading
<1>3. ASSUME \A f \in KnownFields : Seen(f, c, m) = Seen(f, d, n)
      PROVE  /\ Readable(Fields(c), m) = Readable(Fields(d), n)
             /\ \A f \in Readable(Fields(c), m) : Reading(f, m) = Reading(f, n)
  BY <1>2, <1>3 DEF Seen, Readable
<1>4. ASSUME Readable(Fields(c), m) = Readable(Fields(d), n),
             \A f \in Readable(Fields(c), m) : Reading(f, m) = Reading(f, n)
      PROVE  Fingerprint(c, m) = Fingerprint(d, n)
  BY <1>4, SameParts
<1>5. QED
  BY <1>1, <1>3, <1>4

(* Memory that reads the same does not differ.                             *)
LEMMA SameMemory ==
  ASSUME NEW x \in Nat, NEW y \in Nat, Rounded(x) = Rounded(y)
  PROVE  ~MemoryDiffers(x, y)
<1>1. (x >= 1048576 <=> y >= 1048576) /\ (x >= 1024 <=> y >= 1024)
  BY SMT DEF Rounded
<1>2. x >= 1048576 => x \div 1048576 = y \div 1048576
  BY <1>1, SMT DEF Rounded
<1>3. x < 1048576 /\ x >= 1024 => x \div 1024 = y \div 1024
  BY <1>1, SMT DEF Rounded
<1>4. x < 1024 => x = y
  BY <1>1, SMT DEF Rounded
<1>5. QED
  BY <1>1, <1>2, <1>3, <1>4, SMT DEF MemoryDiffers

(* A field that can be read and reads the same has not been altered.       *)
LEMMA SameReading ==
  ASSUME NEW m \in Machine, NEW n \in Machine, NEW f,
         Reading(f, m) = Reading(f, n), Reading(f, m) # <<>>
  PROVE  ~Altered(f, m, n)
<1>1. CASE f = "hostname"
  BY <1>1 DEF Reading, Altered
<1>2. CASE f = "mac"
  BY <1>2, FirstAddressIsRead DEF Reading, Altered
<1>3. CASE f = "cpu"
  BY <1>3, FirstProcessorIsRead DEF Reading, Altered
<1>4. CASE f = "memory"
  <2>1. m.meminfo \in Nat \cup {None} /\ n.meminfo \in Nat \cup {None}
    BY DEF Machine
  <2>2. MemoryInfo(m) = MemoryInfo(n) /\ MemoryInfo(m) # <<>>
    BY <1>4 DEF Reading
  <2>3. m.meminfo # None /\ n.meminfo # None
    BY <2>2 DEF MemoryInfo
  <2>4. Rounded(m.meminfo) = Rounded(n.meminfo)
    BY <2>2, <2>3 DEF MemoryInfo
  <2>5. QED
    BY <1>4, <2>1, <2>3, <2>4, SameMemory DEF Altered
<1>5. CASE f \notin {"hostname", "mac", "cpu", "memory"}
  BY <1>5 DEF Altered
<1>6. QED
  BY <1>1, <1>2, <1>3, <1>4, <1>5

(* Memory that does not differ reads the same.                             *)
LEMMA SteadyMemory ==
  ASSUME NEW x \in Nat, NEW y \in Nat, ~MemoryDiffers(x, y)
  PROVE  Rounded(x) = Rounded(y)
<1>1. /\ x >= 1048576 \/ y >= 1048576 => x \div 1048576 = y \div 1048576
      /\ ~(x >= 1048576 \/ y >= 1048576) /\ (x >= 1024 \/ y >= 1024)
           => x \div 1024 = y \div 1024
      /\ ~(x >= 1024 \/ y >= 1024) => x = y
  BY DEF MemoryDiffers
<1>2. (x >= 1048576 <=> y >= 1048576) /\ (x >= 1024 <=> y >= 1024)
  BY <1>1, SMT
<1>3. CASE x >= 1048576
  BY <1>1, <1>2, <1>3 DEF Rounded
<1>4. CASE x < 1048576 /\ x >= 1024
  BY <1>1, <1>2, <1>4 DEF Rounded
<1>5. CASE x < 1024
  BY <1>1, <1>2, <1>5 DEF Rounded
<1>6. QED
  BY <1>3, <1>4, <1>5

(* A field that has not been altered reads the same, or as little.         *)
LEMMA UnalteredReading ==
  ASSUME NEW m \in Machine, NEW n \in Machine, NEW f, ~Altered(f, m, n)
  PROVE  Reading(f, m) = Reading(f, n)
<1>1. CASE f = "hostname"
  BY <1>1 DEF Reading, Altered
<1>2. CASE f = "mac"
  BY <1>2, FirstAddressIsRead DEF Reading, Altered
<1>3. CASE f = "cpu"
  BY <1>3, FirstProcessorIsRead DEF Reading, Altered
<1>4. CASE f = "memory"
  <2>1. m.meminfo \in Nat \cup {None} /\ n.meminfo \in Nat \cup {None}
    BY DEF Machine
  <2>2. CASE m.meminfo = n.meminfo
    BY <1>4, <2>2 DEF Reading, MemoryInfo
  <2>3. CASE m.meminfo # n.meminfo
    <3>1. m.meminfo # None /\ n.meminfo # None /\ ~MemoryDiffers(m.meminfo, n.meminfo)
      BY <1>4, <2>3 DEF Altered
    <3>2. Rounded(m.meminfo) = Rounded(n.meminfo)
      BY <2>1, <3>1, SteadyMemory
    <3>3. QED
      BY <1>4, <3>1, <3>2 DEF Reading, MemoryInfo
  <2>4. QED
    BY <2>2, <2>3
<1>5. CASE f \notin {"hostname", "mac", "cpu", "memory"}
  BY <1>5 DEF Reading
<1>6. QED
  BY <1>1, <1>2, <1>3, <1>4, <1>5

(* A machine that was not altered in any field that counts has the same    *)
(* fingerprint, whatever else became of it.                                *)
LEMMA UnalteredFingerprint ==
  ASSUME NEW c, NEW d, NEW m \in Machine, NEW n \in Machine,
         Fields(c) = Fields(d), \A f \in Fields(c) : ~Altered(f, m, n)
  PROVE  Fingerprint(c, m) = Fingerprint(d, n)
<1>1. \A f \in Fields(c) : Reading(f, m) = Reading(f, n)
  BY UnalteredReading
<1>2. Readable(Fields(c), m) = Readable(Fields(d), n)
  BY <1>1 DEF Readable
<1>3. \A f \in Readable(Fields(c), m) : Reading(f, m) = Reading(f, n)
  BY <1>1 DEF Readable
<1>4. QED
  BY <1>2, <1>3, SameParts

-----------------------------------------------------------------------------
(* Paths.                                                                  *)

(* Replacing the last element by one and the same thing loses nothing      *)
(* else: the rest of the sequences is equal.                               *)
LEMMA SameBeginning ==
  ASSUME NEW S, NEW u \in Seq(S), NEW v \in Seq(S), NEW w, Len(u) > 0, Len(v) > 0,
         [u EXCEPT ![Len(u)] = w] = [v EXCEPT ![Len(v)] = w]
  PROVE  DirOf(u) = DirOf(v)
<1> DEFINE x == [u EXCEPT ![Len(u)] = w]
           y == [v EXCEPT ![Len(v)] = w]
<1>1. DOMAIN x = 1 .. Len(u) /\ DOMAIN y = 1 .. Len(v)
  OBVIOUS
<1>2. Len(u) \in Nat /\ Len(v) \in Nat
  OBVIOUS
<1>3. 1 .. Len(u) = 1 .. Len(v)
  BY <1>1
<1>4. \A i, j \in Nat : 1 .. i = 1 .. j => i = j
  OBVIOUS
<1>5. Len(u) = Len(v)
  BY <1>2, <1>3, <1>4
<1>6. ASSUME NEW i \in 1 .. Len(u) - 1 PROVE x[i] = u[i] /\ y[i] = v[i]
  <2>1. \A n \in Nat : \A k \in 1 .. n - 1 : k \in 1 .. n /\ k # n
    OBVIOUS
  <2>2. i \in 1 .. Len(u) /\ i # Len(u)
    BY <1>2, <2>1
  <2>3. DOMAIN u = 1 .. Len(u) /\ DOMAIN v = 1 .. Len(u)
    BY <1>5
  <2>4. QED
    BY <1>5, <2>2, <2>3
<1>7. \A i \in 1 .. Len(u) - 1 : u[i] = v[i]
  BY <1>6
<1>8. DirOf(u) = [i \in 1 .. Len(u) - 1 |-> u[i]]
      /\ DirOf(v) = [i \in 1 .. Len(u) - 1 |-> v[i]]
  BY <1>5 DEF DirOf
<1>9. QED
  BY <1>7, <1>8

(* The key file of a license file that has an extension has its stem.      *)
LEMMA KeyPathOfDotted ==
  ASSUME NEW path \in Seq(Seq(STRING)), path # <<>>, Len(path) \in Dotted(path)
  PROVE  PubKeyPath(path) =
           Append(DirOf(path), [path[Len(path)] EXCEPT ![Len(path[Len(path)])] = "pubkey"])
<1>1. LastDotted(path) = Len(path)
  BY DEF LastDotted, Dotted
<1>2. Dotted(path) # {}
  OBVIOUS
<1>3. QED
  BY <1>1, <1>2 DEF PubKeyPath, DirOf

(* Two license files with extensions have one key file only if they have   *)
(* one directory and one stem.                                             *)
LEMMA KeysMeetAtStems ==
  ASSUME NEW p \in Seq(Seq(STRING)), NEW q \in Seq(Seq(STRING)),
         p # <<>>, q # <<>>, Len(p) \in Dotted(p), Len(q) \in Dotted(q),
         PubKeyPath(p) = PubKeyPath(q)
  PROVE  Stem(p) = Stem(q)
<1> DEFINE u == p[Len(p)]
           v == q[Len(q)]
           x == [u EXCEPT ![Len(u)] = "pubkey"]
           y == [v EXCEPT ![Len(v)] = "pubkey"]
<1>1. /\ u \in Seq(STRING) /\ v \in Seq(STRING) /\ Len(u) > 1 /\ Len(v) > 1
      /\ DirOf(p) \in Seq(Seq(STRING)) /\ DirOf(q) \in Seq(Seq(STRING))
  BY DEF Dotted, DirOf
<1>2. Append(DirOf(p), x) = Append(DirOf(q), y)
  BY KeyPathOfDotted
<1>3. ASSUME NEW S, NEW T, S \subseteq T, NEW seq \in Seq(S) PROVE seq \in Seq(T)
  BY <1>3
<1>4. DirOf(p) = DirOf(q) /\ x = y
  <2> HIDE DEF x, y
  <2> DEFINE Parts == Seq(STRING) \cup {x, y}
  <2>1. x \in Parts /\ y \in Parts
    OBVIOUS
  <2>2. DirOf(p) \in Seq(Parts) /\ DirOf(q) \in Seq(Parts)
    BY <1>1, <1>3
  <2> HIDE DEF Parts
  <2>3. QED
    BY <1>2, <2>1, <2>2, AppendInjective
<1>5. DirOf(u) = DirOf(v)
  <2> HIDE DEF u, v
  <2>1. Len(u) > 0 /\ Len(v) > 0
    BY <1>1
  <2>2. QED
    BY <1>1, <1>4, <2>1, SameBeginning
<1>6. QED
  BY <1>4, <1>5 DEF Stem

(* Whoever shares a key file knows it.                                     *)
LEMMA SharedKeyFile ==
  ASSUME layout \in Layouts, NEW a \in Apps, NEW b \in Apps \ PinnedApps, a # b,
         KeyAt(a) = KeyAt(b)
  PROVE  KeyFileShared(a)
<1>1. /\ layout[a] \in Seq(Seq(STRING)) /\ layout[a] # <<>>
      /\ layout[b] \in Seq(Seq(STRING)) /\ layout[b] # <<>>
  BY ApplicationAssumption
<1>2. CASE Len(layout[a]) \in Dotted(layout[a]) /\ Len(layout[b]) \in Dotted(layout[b])
  BY <1>1, <1>2, KeysMeetAtStems DEF KeyAt, KeyFileShared
<1>3. QED
  BY <1>2 DEF KeyFileShared

-----------------------------------------------------------------------------
(* What the steps of an application preserve.                              *)

LEMMA PrintIsThere ==
  ASSUME NEW a \in Apps, NEW c \in Configured[a], NEW m \in Hardware
  PROVE  Fingerprint(c, m) \in Fingerprints /\ Fingerprint(c, m) # None
BY ApplicationAssumption, NoneAssumption

(* A license that loads fits the fingerprint it is loaded with.            *)
LEMMA LoadSound ==
  ASSUME NEW doc \in Document \cup {None}, NEW key, NEW print \in Fingerprints,
         VerdictOn(doc, key, print) = "success"
  PROVE  /\ doc \in Document /\ doc.signer = key
         /\ doc.fingerprint \in {print, None}
<1>1. doc # None /\ VerifyLicense(doc, key, print, now) = "success"
  BY DEF VerdictOn
<1>2. doc.signer = key /\ FitsMachine(doc, print)
  BY <1>1, VerifyLicenseSound
<1>3. print # None
  BY NoneAssumption
<1>4. QED
  BY <1>1, <1>2, <1>3 DEF FitsMachine

(* Who stands aside keeps what is true of it.                              *)
LEMMA Undisturbed ==
  ASSUME NEW b \in Apps, Bound(b),
         layout' = layout, dirs \subseteq dirs', fields'[b] = fields[b],
         licFile'[layout[b]] = licFile[layout[b]],
         issued'[layout[b]] = issued[layout[b]], pc'[b] = pc[b],
         client'[b] = client[b], seen'[b] = seen[b], held'[b] = held[b]
  PROVE  Bound(b)'
<1>1. ProductsAt(layout[b])' = ProductsAt(layout[b])
  BY DEF ProductsAt
<1>2. QED
  BY <1>1 DEF Bound, FileBound, ClientBound, PinnedApps

(* An application that leaves keeps its file and nothing else.             *)
LEMMA LeaveKeepsInvariant ==
  ASSUME NEW a \in Apps, IInv, Leave(a),
         UNCHANGED <<environment, dirs, licFile, keyFile, issued, keyLost>>
  PROVE  IInv'
<1>1. NoClient \in ClientState
  BY DEF NoClient, ClientState
<1>2. Shape'
  BY <1>1 DEF IInv, Shape, Leave, environment, PcSteps, KeyAt, Paths
<1>3. ASSUME NEW b \in Apps PROVE Bound(b)'
  <2>1. CASE b = a
    <3>1. pc'[a] = "off"
      BY DEF IInv, Shape, Leave
    <3>2. QED
      BY <2>1, <3>1 DEF IInv, Bound, FileBound, ClientBound, environment, ProductsAt
  <2>2. CASE b # a
    BY <2>2, Undisturbed DEF IInv, Shape, Leave, environment
  <2>3. QED
    BY <2>1, <2>2
<1>4. QED
  BY <1>2, <1>3 DEF IInv

(* create() takes the fingerprint of the machine it runs on, and loads     *)
(* only what was issued for it.                                            *)
LEMMA LoadKeepsInvariant ==
  ASSUME NEW a \in Apps, NEW otherwise \in {"prompt", "await"},
         IInv, LoadOr(a, otherwise),
         UNCHANGED <<environment, dirs, licFile, keyFile, issued, keyLost>>
  PROVE  IInv'
<1> DEFINE print == Fingerprint(fields[a], machine)
           key == Trusted(a, keyFile[KeyAt(a)])
           doc == licFile[layout[a]]
           then == issued[layout[a]]
           loads == VerdictOn(doc, key, print) = "success"
           new == [fingerprint |-> print, key |-> key,
                   license |-> IF loads THEN PayloadOf(doc) ELSE None]
<1>1. /\ client' = [client EXCEPT ![a] = new]
      /\ seen' = [seen EXCEPT ![a] = machine]
      /\ held' = [held EXCEPT ![a] = IF loads THEN then ELSE None]
      /\ pc' = [pc EXCEPT ![a] = IF loads THEN "created" ELSE otherwise]
  BY DEF LoadOr
<1>2. print \in Fingerprints /\ print # None
  BY PrintIsThere DEF IInv, Shape, Bound
<1>3. key \in Keys \cup {None}
  BY ApplicationAssumption DEF IInv, Shape, Trusted
<1>4. doc \in Document \cup {None} /\ then \in Issue \cup {None}
  BY DEF IInv, Shape, Paths
<1>5. loads => /\ doc \in Document /\ doc # None /\ doc.signer = key
               /\ doc.fingerprint \in {print, None}
  <2> HIDE DEF print, key, doc
  <2>1. QED
    BY <1>2, <1>4, LoadSound, NoneAssumption
<1>6. loads => PayloadOf(doc) \in Payload /\ PayloadOf(doc).signer = doc.signer
  <2> HIDE DEF loads, doc
  <2>1. QED
    BY <1>5 DEF PayloadOf, Document, Payload
<1>7. new \in ClientState
  <2> HIDE DEF loads, print, key, doc
  <2>1. QED
    BY <1>2, <1>3, <1>6 DEF ClientState
<1>8. Shape'
  <2> HIDE DEF loads, new, then
  <2>1. QED
    BY <1>1, <1>4, <1>7 DEF IInv, Shape, environment, PcSteps, KeyAt, Paths
<1>9. ASSUME NEW b \in Apps PROVE Bound(b)'
  <2>1. CASE b = a
    <3>1. /\ client'[a] = new /\ seen'[a] = machine
          /\ pc'[a] = IF loads THEN "created" ELSE otherwise
          /\ held'[a] = IF loads THEN then ELSE None
      <4> HIDE DEF loads, new, then
      <4>1. QED
        BY <1>1 DEF IInv, Shape
    <3>2. machine \in Hardware
      BY DEF IInv, Shape
    <3>3. ASSUME loads
          PROVE  /\ doc.signer \in ProductsAt(layout[a]) /\ then \in Issue
                 /\ doc.fingerprint \in Fingerprints
                 /\ doc.fingerprint = Fingerprint(then.fields, then.machine)
      <4> HIDE DEF loads
      <4>1. QED
        BY <1>5, <3>3 DEF IInv, Bound, FileBound
    <3>4. a \in PinnedApps => key = ProductKey[a]
      BY DEF Trusted
    <3>5. new.fingerprint = print
      OBVIOUS
    <3>6. loads => new.license = PayloadOf(doc)
      OBVIOUS
    <3>7. loads => /\ new.license # None
                   /\ new.license.signer \in ProductsAt(layout[a])
                   /\ a \in PinnedApps => new.license.signer = ProductKey[a]
                   /\ then \in Issue
                   /\ print = Fingerprint(then.fields, then.machine)
      <4> HIDE DEF loads, print, new, key, doc, then
      <4>1. QED
        BY <1>5, <1>6, <3>3, <3>4, <3>6, NoneAssumption
    <3>8. FileBound(a)'
      <4>1. FileBound(a) /\ UNCHANGED <<layout, dirs, licFile, issued>>
        BY DEF IInv, Bound, environment
      <4>2. QED
        BY <4>1 DEF FileBound, ProductsAt
    <3>9. ClientBound(a)'
      <4>1. UNCHANGED <<layout, fields>>
        BY DEF environment
      <4> HIDE DEF loads, new, then, doc, key
      <4>2. otherwise \notin {"created", "business", "off"}
        OBVIOUS
      <4>3. ProductsAt(layout[a])' = ProductsAt(layout[a])
        BY <4>1 DEF ProductsAt
      <4>4. QED
        BY <3>1, <3>2, <3>5, <3>7, <4>1, <4>2, <4>3 DEF ClientBound, PinnedApps
    <3>10. fields'[a] \in Configured[a]
      BY DEF IInv, Bound, environment
    <3>11. QED
      BY <2>1, <3>8, <3>9, <3>10 DEF Bound
  <2>2. CASE b # a
    BY <2>2, <1>1, Undisturbed DEF IInv, Shape, environment
  <2>3. QED
    BY <2>1, <2>2
<1>10. QED
  BY <1>8, <1>9 DEF IInv

(* The key of the answer changes neither the license nor the fingerprint.  *)
LEMMA ReceiveKeepsInvariant ==
  ASSUME NEW a \in Apps, IInv, ReceiveLicense(a)
  PROVE  IInv'
<1>1. CASE Leave(a) /\ UNCHANGED <<keyFile, keyLost>>
  BY <1>1, LeaveKeepsInvariant DEF ReceiveLicense
<1>2. CASE ~(Leave(a) /\ UNCHANGED <<keyFile, keyLost>>)
  <2> DEFINE new == [client[a] EXCEPT !.key = ProductKey[a]]
  <2>1. /\ pc' = [pc EXCEPT ![a] = "apply"]
        /\ client' = [client EXCEPT ![a] = new]
        /\ seen' = seen /\ held' = held
        /\ keyFile' = keyFile \/ keyFile' = [keyFile EXCEPT ![KeyAt(a)] = ProductKey[a]]
        /\ keyLost' \in {keyLost, keyLost \ {a}, keyLost \cup {a}}
        /\ UNCHANGED <<environment, dirs, licFile, issued>>
    BY <1>2 DEF ReceiveLicense
  <2>2. new \in ClientState /\ new.fingerprint = client[a].fingerprint
    <3>1. client[a] \in ClientState /\ ProductKey[a] \in Keys
      BY ApplicationAssumption DEF IInv, Shape
    <3>2. QED
      BY <3>1 DEF ClientState
  <2>3. Shape'
    <3> HIDE DEF new
    <3>1. keyFile' \in [{KeyAt(b) : b \in Apps} -> Keys \cup {None}]
      BY <2>1, ApplicationAssumption DEF IInv, Shape
    <3>2. keyLost' \subseteq Apps
      BY <2>1 DEF IInv, Shape
    <3>3. pc' \in [Apps -> PcSteps] /\ client' \in [Apps -> ClientState]
      BY <2>1, <2>2 DEF IInv, Shape, PcSteps
    <3>4. QED
      BY <2>1, <3>1, <3>2, <3>3 DEF IInv, Shape, environment, KeyAt, Paths
  <2>4. ASSUME NEW b \in Apps PROVE Bound(b)'
    <3> HIDE DEF new
    <3>1. CASE b = a
      <4>1. pc[a] = "await" /\ pc'[a] = "apply" /\ client'[a] = new
        BY <2>1 DEF IInv, Shape, ReceiveLicense
      <4>2. QED
        BY <2>1, <2>2, <3>1, <4>1
           DEF IInv, Bound, FileBound, ClientBound, environment, ProductsAt
    <3>2. CASE b # a
      BY <2>1, <3>2, Undisturbed DEF IInv, Shape, environment
    <3>3. QED
      BY <3>1, <3>2
  <2>5. QED
    BY <2>3, <2>4 DEF IInv
<1>3. QED
  BY <1>1, <1>2 DEF ReceiveLicense

LEMMA DirectoryIsMade ==
  ASSUME NEW a \in Apps, layout \in Layouts
  PROVE  DirOf(layout[a]) \in WithParents(DirOf(layout[a]))
<1> DEFINE path == layout[a]
           dirname == DirOf(path)
<1>1. path \in Seq(Seq(STRING)) /\ path # <<>>
  BY ApplicationAssumption
<1>2. Len(path) \in Nat /\ Len(path) >= 1
  BY <1>1
<1>3. dirname \in Seq(Seq(STRING))
  BY <1>1, <1>2 DEF DirOf
<1>4. SubSeq(dirname, 1, Len(dirname)) = dirname /\ Len(dirname) \in Nat
  <2> HIDE DEF dirname
  <2>1. QED
    BY <1>3
<1>5. QED
  BY <1>4 DEF WithParents

(* What is applied was issued for the machine the request came from.       *)
LEMMA ApplyKeepsInvariant ==
  ASSUME NEW a \in Apps, IInv, ApplyLicense(a)
  PROVE  IInv'
<1>1. PICK term \in Terms :
        LET doc == Issued(a, term)
            issue == [machine |-> seen[a], fields |-> fields[a]]
        IN  IF VerdictOn(doc, client[a].key, client[a].fingerprint) = "success"
            THEN /\ licFile' = [licFile EXCEPT ![layout[a]] = doc]
                 /\ dirs' = dirs \cup WithParents(DirOf(layout[a]))
                 /\ client' = [client EXCEPT ![a].license = PayloadOf(doc)]
                 /\ issued' = [issued EXCEPT ![layout[a]] = issue]
                 /\ held' = [held EXCEPT ![a] = issue]
                 /\ pc' = [pc EXCEPT ![a] = "created"]
                 /\ UNCHANGED seen
            ELSE Leave(a) /\ UNCHANGED <<dirs, licFile, issued>>
  BY DEF ApplyLicense
<1> DEFINE doc == Issued(a, term)
           new == [client[a] EXCEPT !.license = PayloadOf(doc)]
           issue == [machine |-> seen[a], fields |-> fields[a]]
<1>2. UNCHANGED <<environment, keyFile, keyLost>> /\ pc[a] = "apply"
  BY DEF ApplyLicense
<1>3. CASE Leave(a) /\ UNCHANGED <<dirs, licFile, issued>>
  BY <1>2, <1>3, LeaveKeepsInvariant
<1>4. CASE /\ licFile' = [licFile EXCEPT ![layout[a]] = doc]
           /\ dirs' = dirs \cup WithParents(DirOf(layout[a]))
           /\ client' = [client EXCEPT ![a] = new]
           /\ issued' = [issued EXCEPT ![layout[a]] = issue]
           /\ held' = [held EXCEPT ![a] = issue]
           /\ pc' = [pc EXCEPT ![a] = "created"]
           /\ UNCHANGED seen
  <2>1. /\ seen[a] \in Hardware /\ fields[a] \in Configured[a]
        /\ client[a].fingerprint = Fingerprint(fields[a], seen[a])
        /\ client[a] \in ClientState
    BY <1>2 DEF IInv, Shape, Bound, ClientBound
  <2>2. Fingerprint(fields[a], seen[a]) \in Fingerprints
    BY <2>1, PrintIsThere
  <2>3. /\ doc \in Document /\ doc.signer = ProductKey[a]
        /\ doc.form = "wellFormed" /\ doc.layers = 0
        /\ doc.fingerprint = Fingerprint(fields[a], seen[a])
    BY <2>1, <2>2, ApplicationAssumption DEF Issued, Document, Forms
  <2>4. PayloadOf(doc) \in Payload /\ PayloadOf(doc).signer = ProductKey[a]
    <3> HIDE DEF doc
    <3>1. QED
      BY <2>3 DEF PayloadOf, Document, Payload
  <2>5. /\ new \in ClientState /\ new.license = PayloadOf(doc)
        /\ new.fingerprint = client[a].fingerprint
    <3> HIDE DEF doc
    <3>1. QED
      BY <2>1, <2>4 DEF ClientState
  <2>6. issue \in Issue
    BY <2>1 DEF Issue, AllFields
  <2>7. DirOf(layout[a]) \in dirs'
    BY <1>4, DirectoryIsMade DEF IInv, Shape
  <2>8. Shape'
    <3> HIDE DEF doc, new, issue
    <3>1. layout[a] \in Paths /\ UNCHANGED <<Paths, layout>>
      BY <1>2 DEF Paths, environment
    <3>2. licFile' \in [Paths -> Document \cup {None}]
          /\ issued' \in [Paths -> Issue \cup {None}]
      BY <1>4, <2>3, <2>6, <3>1 DEF IInv, Shape
    <3>3. QED
      BY <1>2, <1>4, <2>5, <2>6, <3>1, <3>2 DEF IInv, Shape, environment, PcSteps, KeyAt
  <2>9. ASSUME NEW b \in Apps PROVE Bound(b)'
    <3> HIDE DEF doc, new, issue
    <3>1. UNCHANGED <<layout, fields>> /\ dirs \subseteq dirs' /\ layout[b] \in Paths
      BY <1>2, <1>4 DEF environment, Paths
    <3>2. ProductsAt(layout[b])' = ProductsAt(layout[b])
      BY <3>1 DEF ProductsAt
    <3>3. issue.machine = seen[a] /\ issue.fields = fields[a]
      BY DEF issue
    <3>4. FileBound(b)'
      <4>1. CASE layout[b] = layout[a]
        <5>1. ProductKey[a] \in ProductsAt(layout[b])
          BY <4>1 DEF ProductsAt
        <5>2. licFile'[layout[b]] = doc /\ issued'[layout[b]] = issue
          BY <1>4, <3>1, <4>1 DEF IInv, Shape
        <5>3. QED
          BY <2>2, <2>3, <2>6, <2>7, <3>1, <3>2, <3>3, <4>1, <5>1, <5>2 DEF FileBound
      <4>2. CASE layout[b] # layout[a]
        <5>1. licFile'[layout[b]] = licFile[layout[b]]
              /\ issued'[layout[b]] = issued[layout[b]]
          BY <1>4, <3>1, <4>2 DEF IInv, Shape
        <5>2. QED
          BY <3>1, <3>2, <5>1 DEF IInv, Bound, FileBound
      <4>3. QED
        BY <4>1, <4>2
    <3>5. ClientBound(b)'
      <4>1. CASE b = a
        <5>1. client'[a] = new /\ held'[a] = issue /\ seen'[a] = seen[a]
          BY <1>4 DEF IInv, Shape
        <5>2. PayloadOf(doc) # None
          BY <2>4, NoneAssumption
        <5>3. ProductKey[a] \in ProductsAt(layout[a])
          BY DEF ProductsAt
        <5>4. QED
          BY <2>1, <2>4, <2>5, <2>6, <3>1, <3>2, <3>3, <4>1, <5>1, <5>2, <5>3
             DEF ClientBound
      <4>2. CASE b # a
        <5>1. /\ client'[b] = client[b] /\ held'[b] = held[b]
              /\ seen'[b] = seen[b] /\ pc'[b] = pc[b]
          BY <1>4, <4>2 DEF IInv, Shape
        <5>2. QED
          BY <3>1, <3>2, <5>1 DEF IInv, Bound, ClientBound, PinnedApps
      <4>3. QED
        BY <4>1, <4>2
    <3>6. QED
      BY <3>1, <3>4, <3>5 DEF IInv, Bound
  <2>10. QED
    BY <2>8, <2>9 DEF IInv
<1>5. QED
  BY <1>1, <1>3, <1>4

-----------------------------------------------------------------------------
(* The invariant.                                                          *)

LEMMA Initial == AInit => IInv
<1> SUFFICES ASSUME AInit PROVE IInv
  OBVIOUS
<1>1. NoClient \in ClientState
  BY DEF NoClient, ClientState
<1>2. Shape
  BY <1>1, ApplicationAssumption DEF AInit, Shape, PcSteps, Paths
<1>3. ASSUME NEW a \in Apps PROVE Bound(a)
  BY DEF AInit, Bound, FileBound, ClientBound, Paths
<1>4. QED
  BY <1>2, <1>3 DEF IInv

LEMMA Inductive == IInv /\ [ANext]_avars => IInv'
<1> SUFFICES ASSUME IInv, [ANext]_avars PROVE IInv'
  OBVIOUS
<1>1. ASSUME NEW a \in Apps, Launch(a) PROVE IInv'
  BY <1>1, LoadKeepsInvariant DEF Launch
<1>2. ASSUME NEW a \in Apps, EnterCode(a) PROVE IInv'
  BY <1>2, LoadKeepsInvariant, LeaveKeepsInvariant DEF EnterCode
<1>3. ASSUME NEW a \in Apps, ReceiveLicense(a) PROVE IInv'
  BY <1>3, ReceiveKeepsInvariant
<1>4. ASSUME NEW a \in Apps, ApplyLicense(a) PROVE IInv'
  BY <1>4, ApplyKeepsInvariant
<1>5. ASSUME NEW a \in Apps, Validate(a) PROVE IInv'
  <2>1. CASE Leave(a)
    BY <1>5, <2>1, LeaveKeepsInvariant DEF Validate
  <2>2. CASE pc' = [pc EXCEPT ![a] = "business"] /\ UNCHANGED <<client, seen, held>>
    <3>1. Shape'
      BY <1>5, <2>2 DEF Validate, IInv, Shape, environment, PcSteps, KeyAt, Paths
    <3>2. ASSUME NEW b \in Apps PROVE Bound(b)'
      <4>1. CASE b = a
        <5>1. pc[a] = "created" /\ pc'[a] = "business"
          BY <1>5, <2>2 DEF Validate, IInv, Shape
        <5>2. QED
          BY <1>5, <2>2, <4>1, <5>1
             DEF Validate, IInv, Bound, FileBound, ClientBound, environment, ProductsAt,
                 PinnedApps
      <4>2. CASE b # a
        BY <1>5, <2>2, <4>2, Undisturbed DEF Validate, IInv, Shape, environment
      <4>3. QED
        BY <4>1, <4>2
    <3>3. QED
      BY <3>1, <3>2 DEF IInv
  <2>3. QED
    BY <1>5, <2>1, <2>2 DEF Validate
<1>6. ASSUME NEW a \in Apps, Finish(a) PROVE IInv'
  BY <1>6, LeaveKeepsInvariant DEF Finish
<1>7. ASSUME NEW a \in Apps, FieldsChange(a) PROVE IInv'
  <2>1. PICK c \in Configured[a] : fields' = [fields EXCEPT ![a] = c]
    BY <1>7 DEF FieldsChange
  <2>2. /\ pc[a] = "off" /\ changes' \in 0 .. MaxChanges
        /\ UNCHANGED <<machine, now, layout, dirs, licFile, keyFile, pc, client,
                       seen, issued, held, keyLost>>
    BY <1>7, ApplicationAssumption DEF FieldsChange, Change, IInv, Shape
  <2>3. Shape'
    BY <2>1, <2>2 DEF IInv, Shape, AllFields, KeyAt, Paths
  <2>4. ASSUME NEW b \in Apps PROVE Bound(b)'
    <3>1. CASE b = a
      BY <2>1, <2>2, <3>1 DEF IInv, Shape, Bound, FileBound, ClientBound, ProductsAt
    <3>2. CASE b # a
      BY <2>1, <2>2, <3>2, Undisturbed DEF IInv, Shape
    <3>3. QED
      BY <3>1, <3>2
  <2>5. QED
    BY <2>3, <2>4 DEF IInv
<1>8. ASSUME NEW a \in Apps, FilesGo(a) PROVE IInv'
  <2>1. /\ licFile' \in {licFile, [licFile EXCEPT ![layout[a]] = None]}
        /\ keyFile' \in {keyFile, [keyFile EXCEPT ![KeyAt(a)] = None]}
        /\ keyLost' \in {keyLost, keyLost \cup {b \in Apps : KeyAt(b) = KeyAt(a)}}
        /\ changes' \in 0 .. MaxChanges
        /\ UNCHANGED <<machine, now, layout, fields, dirs, pc, client, seen, issued,
                       held>>
    BY <1>8, ApplicationAssumption DEF FilesGo, Change, IInv, Shape
  <2>2. Shape'
    <3>1. keyFile' \in [{KeyAt(b) : b \in Apps} -> Keys \cup {None}]
      BY <2>1 DEF IInv, Shape
    <3>2. QED
      BY <2>1, <3>1 DEF IInv, Shape, KeyAt, Paths
  <2>3. ASSUME NEW b \in Apps PROVE Bound(b)'
    <3>1. licFile'[layout[b]] = licFile[layout[b]] \/ licFile'[layout[b]] = None
      BY <2>1 DEF IInv, Shape, Paths
    <3>2. QED
      BY <2>1, <3>1 DEF IInv, Bound, FileBound, ClientBound, ProductsAt, PinnedApps
  <2>4. QED
    BY <2>2, <2>3 DEF IInv
<1>9. ASSUME MachineChanges PROVE IInv'
  <2>1. /\ machine' \in Hardware /\ changes' \in 0 .. MaxChanges
        /\ UNCHANGED <<now, layout, fields, dirs, licFile, keyFile, pc, client,
                       seen, issued, held, keyLost>>
    BY <1>9, ApplicationAssumption DEF MachineChanges, Change, IInv, Shape
  <2>2. QED
    BY <2>1 DEF IInv, Shape, Bound, FileBound, ClientBound, KeyAt, Paths, ProductsAt,
               PinnedApps
<1>10. ASSUME Tick PROVE IInv'
  <2>1. /\ now' \in 1 .. MaxTime
        /\ UNCHANGED <<machine, changes, layout, fields, dirs, licFile, keyFile,
                       pc, client, seen, issued, held, keyLost>>
    BY <1>10, ApplicationAssumption DEF Tick, IInv, Shape
  <2>2. QED
    BY <2>1 DEF IInv, Shape, Bound, FileBound, ClientBound, KeyAt, Paths, ProductsAt,
               PinnedApps
<1>11. ASSUME UNCHANGED avars PROVE IInv'
  BY <1>11 DEF avars, environment, IInv, Shape, Bound, FileBound, ClientBound, KeyAt,
              Paths, ProductsAt, PinnedApps
<1>12. QED
  BY <1>1, <1>2, <1>3, <1>4, <1>5, <1>6, <1>7, <1>8, <1>9, <1>10, <1>11
     DEF ANext, Act

-----------------------------------------------------------------------------
(* What is left for the next launch.                                       *)

(* Who neither loses the key nor begins to have a license keeps the key.   *)
LEMMA KeyStays ==
  ASSUME NEW b \in Apps, KeyKept(b), layout' = layout,
         b \in keyLost => b \in keyLost',
         licFile'[layout[b]] # None \/ pc'[b] = "apply" =>
           licFile[layout[b]] # None \/ pc[b] = "apply" \/ LicenseFileShared(b),
         keyFile'[KeyAt(b)] = keyFile[KeyAt(b)]
  PROVE  KeyKept(b)'
<1>1. KeyFileShared(b)' <=> KeyFileShared(b)
  BY DEF KeyFileShared, PinnedApps
<1>2. KeyAt(b)' = KeyAt(b)
  BY DEF KeyAt
<1>3. QED
  BY <1>1, <1>2 DEF KeyKept, LicenseFileShared, PinnedApps

(* The answer of the activation service brings the key of the product; it  *)
(* is saved, or counted as lost, before the license is.                    *)
LEMMA ReceiveKeepsKeys ==
  ASSUME IInv, NEW a \in Apps, ReceiveLicense(a), NEW b \in Apps, KeyKept(b)
  PROVE  KeyKept(b)'
<1> USE DEF IInv, Shape
<1>1. UNCHANGED <<environment, dirs, licFile, issued>> /\ layout' = layout
  BY DEF ReceiveLicense, environment
<1>2. CASE Leave(a) /\ UNCHANGED <<keyFile, keyLost>>
  <2>1. pc'[b] \in {"off", pc[b]}
    BY <1>2 DEF Leave
  <2>2. QED
    BY <1>1, <1>2, <2>1, KeyStays
<1>3. CASE ~(Leave(a) /\ UNCHANGED <<keyFile, keyLost>>)
  <2>1. /\ pc' = [pc EXCEPT ![a] = "apply"]
        /\ IF a \in PinnedApps THEN UNCHANGED <<keyFile, keyLost>>
           ELSE IF KeyDirExists(a)
           THEN /\ keyFile' = [keyFile EXCEPT ![KeyAt(a)] = ProductKey[a]]
                /\ keyLost' = keyLost \ {a}
           ELSE keyLost' = keyLost \cup {a} /\ UNCHANGED keyFile
    BY <1>3 DEF ReceiveLicense
  <2>2. CASE b = a
    <3>1. CASE a \in PinnedApps
      BY <1>1, <2>2, <3>1 DEF KeyKept, PinnedApps
    <3>2. CASE a \notin PinnedApps /\ KeyDirExists(a)
      <4>1. keyFile'[KeyAt(a)] = ProductKey[a]
        BY <2>1, <3>2
      <4>2. KeyAt(a)' = KeyAt(a)
        BY <1>1 DEF KeyAt
      <4>3. QED
        BY <2>2, <4>1, <4>2 DEF KeyKept
    <3>3. CASE a \notin PinnedApps /\ ~KeyDirExists(a)
      BY <2>1, <2>2, <3>3 DEF KeyKept
    <3>4. QED
      BY <3>1, <3>2, <3>3
  <2>3. CASE b # a
    <3>1. pc'[b] = pc[b] /\ licFile' = licFile /\ (b \in keyLost => b \in keyLost')
      BY <1>1, <2>1, <2>3
    <3>2. CASE keyFile'[KeyAt(b)] = keyFile[KeyAt(b)]
      BY <1>1, <3>1, <3>2, KeyStays
    <3>3. CASE keyFile'[KeyAt(b)] # keyFile[KeyAt(b)]
      <4>1. a \notin PinnedApps /\ KeyAt(a) = KeyAt(b)
        BY <2>1, <3>3
      <4>2. KeyFileShared(b)
        BY <2>3, <4>1, SharedKeyFile
      <4>3. KeyFileShared(b)'
        BY <1>1, <4>2 DEF KeyFileShared, PinnedApps
      <4>4. QED
        BY <4>3 DEF KeyKept
    <3>4. QED
      BY <3>2, <3>3
  <2>4. QED
    BY <2>2, <2>3
<1>4. QED
  BY <1>2, <1>3

LEMMA KeysInductive ==
  ASSUME Recoverable, [ANext]_avars
  PROVE  Recoverable'
<1> USE DEF IInv, Shape
<1>1. IInv'
  BY Inductive DEF Recoverable
<1> SUFFICES ASSUME NEW b \in Apps PROVE KeyKept(b)'
  BY <1>1 DEF Recoverable
<1>2. IInv /\ KeyKept(b)
  BY DEF Recoverable
<1>3. ASSUME NEW a \in Apps, pc' = [pc EXCEPT ![a] = pc'[a]], pc'[a] # "apply",
             UNCHANGED <<environment, licFile, keyFile, keyLost>>
      PROVE  KeyKept(b)'
  <2>1. pc'[b] = "apply" => pc[b] = "apply"
    BY <1>2, <1>3
  <2>2. QED
    BY <1>2, <1>3, <2>1, KeyStays DEF environment
<1>4. ASSUME NEW a \in Apps, Launch(a) PROVE KeyKept(b)'
  BY <1>2, <1>3, <1>4 DEF Launch, LoadOr
<1>5. ASSUME NEW a \in Apps, EnterCode(a) PROVE KeyKept(b)'
  BY <1>2, <1>3, <1>5 DEF EnterCode, LoadOr, Leave
<1>6. ASSUME NEW a \in Apps, ReceiveLicense(a) PROVE KeyKept(b)'
  BY <1>2, <1>6, ReceiveKeepsKeys
<1>7. ASSUME NEW a \in Apps, ApplyLicense(a) PROVE KeyKept(b)'
  <2>1. /\ pc[a] = "apply" /\ UNCHANGED <<environment, keyFile, keyLost>>
        /\ pc'[a] # "apply"
        /\ \A c \in Apps \ {a} : pc'[c] = pc[c]
        /\ \A path \in Paths \ {layout[a]} : licFile'[path] = licFile[path]
    BY <1>2, <1>7 DEF ApplyLicense, Leave
  <2>2. licFile'[layout[b]] # None \/ pc'[b] = "apply" =>
          licFile[layout[b]] # None \/ pc[b] = "apply" \/ LicenseFileShared(b)
    <3>1. b # a /\ layout[b] = layout[a] => LicenseFileShared(b)
      BY DEF LicenseFileShared
    <3>2. layout[b] # layout[a] => licFile'[layout[b]] = licFile[layout[b]]
      BY <2>1 DEF Paths
    <3>3. b # a => pc'[b] = pc[b]
      BY <2>1
    <3>4. QED
      BY <2>1, <3>1, <3>2, <3>3
  <2>3. QED
    BY <1>2, <2>1, <2>2, KeyStays DEF environment
<1>8. ASSUME NEW a \in Apps, Validate(a) PROVE KeyKept(b)'
  BY <1>2, <1>3, <1>8 DEF Validate, Leave
<1>9. ASSUME NEW a \in Apps, Finish(a) PROVE KeyKept(b)'
  BY <1>2, <1>3, <1>9 DEF Finish, Leave
<1>10. ASSUME NEW a \in Apps, FieldsChange(a) PROVE KeyKept(b)'
  BY <1>2, <1>10, KeyStays DEF FieldsChange
<1>11. ASSUME NEW a \in Apps, FilesGo(a) PROVE KeyKept(b)'
  <2>1. /\ layout' = layout /\ pc' = pc /\ (b \in keyLost => b \in keyLost')
        /\ licFile'[layout[b]] # None => licFile[layout[b]] # None
    BY <1>2, <1>11 DEF FilesGo, Paths
  <2>2. CASE keyFile'[KeyAt(b)] = keyFile[KeyAt(b)]
    BY <1>2, <2>1, <2>2, KeyStays
  <2>3. CASE keyFile'[KeyAt(b)] # keyFile[KeyAt(b)]
    <3>1. b \in keyLost'
      BY <1>2, <1>11, <2>3 DEF FilesGo
    <3>2. QED
      BY <3>1 DEF KeyKept
  <2>4. QED
    BY <2>2, <2>3
<1>12. CASE MachineChanges
  BY <1>2, <1>12, KeyStays DEF MachineChanges
<1>13. CASE Tick
  BY <1>2, <1>13, KeyStays DEF Tick
<1>14. CASE UNCHANGED avars
  BY <1>2, <1>14, KeyStays DEF avars, environment
<1>15. QED
  BY <1>4, <1>5, <1>6, <1>7, <1>8, <1>9, <1>10, <1>11, <1>12, <1>13, <1>14
     DEF ANext, Act

(* An application that is launched without a cause to ask loads its license.*)
LEMMA LoadsWithoutCause ==
  ASSUME Recoverable, NEW a \in Apps, pc[a] = "off", ~Cause(a)
  PROVE  VerdictOn(licFile[layout[a]], Trusted(a, keyFile[KeyAt(a)]),
                   Fingerprint(fields[a], machine)) = "success"
<1> DEFINE doc == licFile[layout[a]]
           then == issued[layout[a]]
           key == Trusted(a, keyFile[KeyAt(a)])
           print == Fingerprint(fields[a], machine)
<1>1. doc # None /\ ~(now > doc.expiresAt) /\ ~LicenseFileShared(a)
  BY DEF Cause
<1>2. /\ doc \in Document /\ doc # None /\ now \in 1 .. MaxTime
      /\ machine \in Machine /\ then \in Issue
      /\ doc.signer \in ProductsAt(layout[a]) /\ doc.form = "wellFormed" /\ doc.layers = 0
      /\ doc.fingerprint = Fingerprint(then.fields, then.machine)
  BY <1>1, ApplicationAssumption DEF Recoverable, IInv, Shape, Bound, FileBound, Paths
<1>3. doc.signer = ProductKey[a]
  <2>1. PICK b \in Apps : layout[b] = layout[a] /\ doc.signer = ProductKey[b]
    BY <1>2 DEF ProductsAt
  <2>2. b = a
    BY <1>1, <2>1 DEF LicenseFileShared
  <2>3. QED
    BY <2>1, <2>2
<1>4. now <= doc.expiresAt
  <2>1. doc.expiresAt \in Nat
    BY <1>2 DEF Document
  <2> HIDE DEF doc
  <2>2. QED
    BY <1>1, <1>2, <2>1
<1>5. key = ProductKey[a]
  BY <1>1 DEF Recoverable, KeyKept, Cause, Trusted
<1>6. ProductKey[a] # None
  BY ApplicationAssumption, NoneAssumption
<1>7. doc.fingerprint = print
  <2>1. then.machine \in Machine
    BY <1>2, ApplicationAssumption DEF Issue
  <2>2. /\ Fields(then.fields) = Fields(fields[a])
        /\ \A f \in Fields(then.fields) : ~Altered(f, then.machine, machine)
    BY DEF Cause
  <2>3. QED
    BY <1>2, <2>1, <2>2, UnalteredFingerprint
<1> HIDE DEF doc, key, print
<1>8. VerifyLicense(doc, key, print, now) = "success"
  <2>1. FitsMachine(doc, print)
    BY <1>7 DEF FitsMachine
  <2>2. doc.layers <= 1
    BY <1>2
  <2>3. QED
    BY <1>2, <1>3, <1>4, <1>5, <2>1, <2>2, AcceptedExactly
<1>9. VerdictOn(doc, key, print) = "success"
  BY <1>2, <1>5, <1>6, <1>8 DEF VerdictOn
<1>10. QED
  BY <1>9 DEF doc, key, print

-----------------------------------------------------------------------------
(* Whatever happens to machine, files and configurations, a license file   *)
(* and a client are bound to what the license was issued for.              *)
THEOREM Invariance == ASpec => []IInv
BY Initial, Inductive, PTL DEF ASpec

(* Types, and: a license file is where a directory is, and who runs has a  *)
(* license of its product (client.cpp 134-174, storage.cpp 195-221).       *)
THEOREM TypeCorrect == ASpec => []ATypeOK
<1>1. IInv => ATypeOK
  <2> SUFFICES ASSUME IInv PROVE ATypeOK
    OBVIOUS
  <2>1. ASSUME NEW a \in Apps
        PROVE  /\ licFile[layout[a]] # None =>
                    /\ licFile[layout[a]].signer \in ProductsAt(layout[a])
                    /\ DirOf(layout[a]) \in dirs
               /\ client[a].key \in Keys \cup {None}
               /\ pc[a] \in PcSteps /\ fields[a] \in Configured[a]
               /\ pc[a] \in {"created", "business"} =>
                    /\ client[a].license # None
                    /\ client[a].license.signer \in ProductsAt(layout[a])
                    /\ a \in PinnedApps => client[a].license.signer = ProductKey[a]
    BY DEF IInv, Shape, Bound, FileBound, ClientBound, ClientState
  <2>2. \A path \in DOMAIN keyFile : keyFile[path] \in Keys \cup {None}
    BY DEF IInv, Shape
  <2>3. QED
    BY <2>1, <2>2 DEF IInv, Shape, ATypeOK, PcSteps
<1>2. QED
  BY <1>1, Invariance, PTL

(* What runs was issued to a machine that reads the same, for any machines *)
(* whose names have no separator in them, any choice of fields and any     *)
(* layout of the files (hardware.cpp 75-94, validator.cpp 407-412).        *)
THEOREM LicensesAreBound == ASpec => []NotTransferable
<1>1. ASSUME IInv, NEW a \in Apps, pc[a] \in {"created", "business"},
             Unambiguous(held[a].machine), Unambiguous(seen[a])
      PROVE  LET then == held[a]
                 known(c, m) == {f \in Fields(c) : Reading(f, m) # <<>>}
             IN  /\ known(fields[a], seen[a]) = known(then.fields, then.machine)
                 /\ \A f \in known(fields[a], seen[a]) :
                      ~Altered(f, then.machine, seen[a])
  <2> DEFINE then == held[a]
             read(c, m) == Readable(Fields(c), m)
  <2>1. /\ seen[a] \in Machine /\ then.machine \in Machine
        /\ Fingerprint(fields[a], seen[a]) = Fingerprint(then.fields, then.machine)
    BY <1>1, ApplicationAssumption DEF IInv, Bound, ClientBound, Issue
  <2>2. /\ read(fields[a], seen[a]) = read(then.fields, then.machine)
        /\ \A f \in read(fields[a], seen[a]) :
             Reading(f, seen[a]) = Reading(f, then.machine)
    BY <1>1, <2>1, FingerprintsAgree
  <2>3. ASSUME NEW f \in read(fields[a], seen[a])
        PROVE  ~Altered(f, then.machine, seen[a])
    <3>1. Reading(f, seen[a]) # <<>>
      BY DEF Readable
    <3>2. QED
      BY <2>1, <2>2, <3>1, SameReading
  <2>4. QED
    BY <2>2, <2>3 DEF Readable
<1>2. IInv => NotTransferable
  BY <1>1 DEF NotTransferable
<1>3. QED
  BY <1>2, Invariance, PTL

(* Whatever happens around it, an application finds its key where it was   *)
(* saved, unless that was lost or shared.                                  *)
THEOREM KeysAreKept == ASpec => []Recoverable
<1>1. AInit => Recoverable
  <2>1. AInit => \A a \in Apps : KeyKept(a)
    BY DEF AInit, KeyKept
  <2>2. QED
    BY <2>1, Initial DEF Recoverable
<1>2. Recoverable /\ [ANext]_avars => Recoverable'
  BY KeysInductive
<1>3. QED
  BY <1>1, <1>2, PTL DEF ASpec

(* Nobody is asked for an activation code again without a cause, whatever  *)
(* the layouts, the fields and the machines are, and whatever else changes *)
(* about the machine (hardware.cpp 34-95, client.cpp 333-340).             *)
THEOREM AskedOnlyForCause == ASpec => AskedForCause
<1> DEFINE Justified ==
      \A a \in Apps : pc[a] = "off" /\ pc'[a] = "prompt" => Cause(a)
<1>1. Recoverable /\ [ANext]_avars => [Justified]_avars
  <2> SUFFICES ASSUME Recoverable, ANext, NEW a \in Apps,
                      pc[a] = "off", pc'[a] = "prompt", ~Cause(a)
               PROVE  FALSE
    BY DEF avars
  <2>1. pc \in [Apps -> PcSteps]
    BY DEF Recoverable, IInv, Shape
  <2>2. ASSUME NEW b \in Apps, Act(b), b # a PROVE pc'[a] = pc[a]
    <3>1. pc' = [pc EXCEPT ![b] = pc'[b]]
      BY <2>1, <2>2 DEF Act, Launch, LoadOr, EnterCode, ReceiveLicense, ApplyLicense,
                        Validate, Finish, FieldsChange, FilesGo, Leave
    <3>2. QED
      BY <2>1, <2>2, <3>1
  <2>3. Launch(a)
    <3>1. pc' # pc
      OBVIOUS
    <3>2. Act(a)
      BY <2>2, <3>1 DEF ANext, MachineChanges, Tick
    <3>3. QED
      BY <3>1, <3>2 DEF Act, EnterCode, ReceiveLicense, ApplyLicense, Validate,
                        Finish, FieldsChange, FilesGo
  <2>4. VerdictOn(licFile[layout[a]], Trusted(a, keyFile[KeyAt(a)]),
                  Fingerprint(fields[a], machine)) = "success"
    BY LoadsWithoutCause
  <2>5. pc'[a] = "created"
    BY <2>1, <2>3, <2>4 DEF Launch, LoadOr
  <2>6. QED
    BY <2>5
<1>2. QED
  BY <1>1, KeysAreKept, PTL DEF ASpec, AskedForCause

=============================================================================
