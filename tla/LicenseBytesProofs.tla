--------------------------- MODULE LicenseBytesProofs --------------------------
(***************************************************************************)
(* Proofs about Base64 and LicenseBytes, for texts of any length, any      *)
(* number of encodings and of edits: the decoders undo the encoder and     *)
(* agree with each other, a license that was accepted once is accepted at  *)
(* every restart, and LicenseVerifier may count layers.                    *)
(***************************************************************************)
EXTENDS LicenseBytes, LicenseVerifierProofs, SequenceTheorems,
        WellFoundedInduction

Byte == 0 .. 255
Text == Seq(Byte)

(* The states of a decoder's loop.                                         *)
NoBits == -8
BitCounts == {NoBits, NoBits + 6, NoBits + 4, NoBits + 2}
Loops ==
  [val : Nat, bits : BitCounts, out : Text, state : {"reading", "done", "error"}]

-----------------------------------------------------------------------------
(* Induction, and functions that are defined by recursion.                 *)

(* What holds of zero, and of n when it holds of the number before, holds  *)
(* of all numbers up to N.                                                 *)
LEMMA InductionUpTo ==
  ASSUME NEW N \in Nat, NEW S, 0 \in S,
         \A n \in 1 .. N : n - 1 \in S => n \in S
  PROVE  \A n \in 0 .. N : n \in S
<1> DEFINE before == {p \in Nat \X Nat : p[1] < p[2]}
           T == {n \in 0 .. N : n \notin S}
<1>1. SUFFICES ASSUME T # {} PROVE FALSE
  OBVIOUS
<1>2. IsWellFoundedOn(before, Nat)
  BY NatLessThanWellFounded DEF OpToRel
<1>3. PICK n \in T : \A m \in T : ~(<<m, n>> \in before)
  <2>1. T \subseteq Nat
    OBVIOUS
  <2> HIDE DEF before, T
  <2>2. QED
    BY <1>1, <1>2, <2>1, WFMin
<1>4. n \in 1 .. N /\ n - 1 \in 0 .. N /\ n - 1 < n
  OBVIOUS
<1>5. n - 1 \in S
  <2>1. SUFFICES ASSUME n - 1 \notin S PROVE FALSE
    OBVIOUS
  <2>2. n - 1 \in T /\ <<n - 1, n>> \in before
    BY <1>4, <2>1
  <2>3. QED
    BY <1>3, <2>2
<1>6. QED
  BY <1>4, <1>5

(* A set of positions that is not empty has a first one and a last one.    *)
LEMMA FirstPosition ==
  ASSUME NEW N \in Nat, NEW T \in SUBSET (1 .. N), T # {}
  PROVE  \E i \in T : \A j \in T : i <= j
<1> DEFINE S == {n \in 0 .. N : \A j \in T : ~(j <= n)}
<1>1. SUFFICES ASSUME \A i \in T : \E j \in T : ~(i <= j) PROVE FALSE
  OBVIOUS
<1>2. 0 \in S
  OBVIOUS
<1>3. ASSUME NEW n \in 1 .. N, n - 1 \in S PROVE n \in S
  BY <1>1, <1>3
<1>4. N \in S
  <2>1. N \in 0 .. N
    OBVIOUS
  <2> HIDE DEF S
  <2>2. QED
    BY <1>2, <1>3, <2>1, InductionUpTo
<1>5. PICK j \in T : TRUE
  OBVIOUS
<1>6. ~(j <= N) /\ j \in 1 .. N
  BY <1>4
<1>7. QED
  BY <1>6

(* And a last one.                                                         *)
LEMMA LastPosition ==
  ASSUME NEW N \in Nat, NEW T \in SUBSET (1 .. N), T # {}
  PROVE  \E i \in T : \A j \in T : i >= j
<1> DEFINE U == {i \in 1 .. N : N + 1 - i \in T}
<1>1. U \in SUBSET (1 .. N) /\ U # {}
  <2>1. PICK i \in T : TRUE
    OBVIOUS
  <2>2. i \in 1 .. N /\ N + 1 - i \in 1 .. N /\ N + 1 - (N + 1 - i) = i
    OBVIOUS
  <2>3. N + 1 - i \in U
    BY <2>1, <2>2
  <2>4. QED
    BY <2>3
<1>2. PICK i \in U : \A j \in U : i <= j
  <2> HIDE DEF U
  <2>1. QED
    BY <1>1, FirstPosition
<1>3. ASSUME NEW j \in T PROVE N + 1 - i >= j
  <2>1. N + 1 - j \in U
    <3>1. j \in 1 .. N /\ N + 1 - j \in 1 .. N /\ N + 1 - (N + 1 - j) = j
      OBVIOUS
    <3>2. QED
      BY <3>1
  <2>2. i <= N + 1 - j
    BY <1>2, <2>1
  <2>3. QED
    BY <2>2
<1>4. QED
  BY <1>3

(* A recursive definition over an interval defines a function.             *)
IsStep(N, X, next) == next \in [(1 .. N) \X X -> X]
IsDefinedBy(f, N, X, base, next) ==
  /\ f \in [0 .. N -> X]
  /\ f[0] = base /\ \A n \in 1 .. N : f[n] = next[<<n, f[n - 1]>>]

(* There is a function that is defined from one place to the next up to N. *)
LEMMA RecursionDefines ==
  ASSUME NEW N \in Nat, NEW X, NEW base \in X, NEW next, IsStep(N, X, next)
  PROVE  \E f : IsDefinedBy(f, N, X, base, next)
<1> DEFINE Follows(m, f) ==
      f[0] = base /\ \A n \in 1 .. m : f[n] = next[<<n, f[n - 1]>>]
           S == {m \in 0 .. N : \E f \in [0 .. m -> X] : Follows(m, f)}
<1>1. 0 \in S
  <2> DEFINE one == [n \in 0 .. 0 |-> base]
  <2>1. one \in [0 .. 0 -> X] /\ one[0] = base /\ 1 .. 0 = {}
    OBVIOUS
  <2> HIDE DEF one
  <2>2. Follows(0, one)
    BY <2>1
  <2> HIDE DEF Follows
  <2>3. QED
    BY <2>1, <2>2
<1>2. ASSUME NEW m \in 1 .. N, m - 1 \in S PROVE m \in S
  <2>1. PICK f \in [0 .. m - 1 -> X] : Follows(m - 1, f)
    BY <1>2
  <2> DEFINE g == [n \in 0 .. m |-> IF n < m THEN f[n] ELSE next[<<m, f[m - 1]>>]]
  <2>2. m - 1 \in 0 .. m - 1 /\ f[m - 1] \in X /\ next[<<m, f[m - 1]>>] \in X
    BY DEF IsStep
  <2>3. g \in [0 .. m -> X]
    <3>1. ASSUME NEW n \in 0 .. m PROVE n < m => n \in 0 .. m - 1
      OBVIOUS
    <3>2. QED
      BY <2>2, <3>1
  <2>4. ASSUME NEW n \in 1 .. m PROVE g[n] = next[<<n, g[n - 1]>>]
    <3>1. CASE n \in 1 .. m - 1
      <4>1. n \in 0 .. m /\ n - 1 \in 0 .. m /\ n < m /\ n - 1 < m
        BY <3>1
      <4>2. g[n] = f[n] /\ g[n - 1] = f[n - 1]
        BY <4>1
      <4>3. f[n] = next[<<n, f[n - 1]>>]
        BY <2>1, <3>1
      <4>4. QED
        BY <4>2, <4>3
    <3>2. CASE n = m
      <4>1. m \in 0 .. m /\ m - 1 \in 0 .. m /\ ~(m < m) /\ m - 1 < m
        OBVIOUS
      <4>2. g[m] = next[<<m, f[m - 1]>>] /\ g[m - 1] = f[m - 1]
        BY <4>1
      <4>3. QED
        BY <3>2, <4>2
    <3>3. QED
      BY <3>1, <3>2
  <2>5. g[0] = base
    BY <2>1
  <2> HIDE DEF g
  <2>6. Follows(m, g)
    BY <2>4, <2>5
  <2> HIDE DEF Follows
  <2>7. QED
    BY <2>3, <2>6
<1>3. N \in S
  <2>1. N \in 0 .. N
    OBVIOUS
  <2> HIDE DEF S
  <2>2. QED
    BY <1>1, <1>2, <2>1, InductionUpTo
<1>4. QED
  BY <1>3 DEF IsDefinedBy

-----------------------------------------------------------------------------
(* One character.                                                          *)

(* A character of the table stands for six bits, or for one past the       *)
(* table.                                                                  *)
LEMMA DigitIsSmall ==
  ASSUME NEW c \in Byte, IsDigit(c)
  PROVE  Digit(c) \in 0 .. 64
<1>1. \/ c \in 65 .. 90 \/ c \in 97 .. 122 \/ c \in 48 .. 57
      \/ c = 43 \/ c = 47 \/ c = 0
  BY DEF IsDigit
<1>2. CASE c \in 65 .. 90
  BY <1>2 DEF Digit
<1>3. CASE c \in 97 .. 122
  BY <1>3 DEF Digit
<1>4. CASE c \in 48 .. 57
  BY <1>4 DEF Digit
<1>5. CASE c = 43 \/ c = 47 \/ c = 0
  BY <1>5 DEF Digit
<1>6. QED
  BY <1>1, <1>2, <1>3, <1>4, <1>5

(* None of them is white space, padding or a brace.                        *)
LEMMA DigitIsPlain ==
  ASSUME NEW c, IsDigit(c)
  PROVE  c \notin Blank \cup Space \cup {Pad, OpenBrace, CloseBrace}
<1>1. \/ c \in 65 .. 90 \/ c \in 97 .. 122 \/ c \in 48 .. 57
      \/ c = 43 \/ c = 47 \/ c = 0
  BY DEF IsDigit
<1>2. c \notin 9 .. 13 /\ c \notin {9, 10, 13, 32, 61, 123, 125}
  BY <1>1
<1>3. QED
  BY <1>2, Zenon DEF Blank, Space, Pad, OpenBrace, CloseBrace

(* The int overflows, but the bits that are read stay what they are.       *)
Keeps(v, w, d) == \E m \in Int : v = 4096 * m + (64 * (w % 64) + d)

(* The low bits of the int are kept when six more are collected, however   *)
(* often it has overflowed.                                                *)
LEMMA CollectKeeps ==
  ASSUME NEW w \in Nat, NEW d \in 0 .. 64
  PROVE  /\ Collect(w, d) \in Nat
         /\ d < 64 => Keeps(Collect(w, d), w, d)
<1> DEFINE k == IntValues \div 4096
           q == (w * 64) \div IntValues
           a == w \div 64
           shifted == (w * 64) % IntValues
<1>1. IntValues \in Nat \ {0} /\ IntValues % 16384 = 0
  BY IntAssumption
<1>2. IntValues = 4096 * k /\ k \in Int
  <2> DEFINE j == IntValues \div 16384
  <2>1. IntValues = 4096 * (4 * j) /\ j \in Int
    BY <1>1
  <2>2. k = 4 * j
    BY <2>1
  <2>3. QED
    BY <2>1, <2>2
<1>3. w = 64 * a + (w % 64) /\ a \in Int
  OBVIOUS
<1>4. w * 64 = IntValues * q + shifted /\ q \in Int /\ shifted \in Nat
  BY <1>1
<1>5. shifted = 4096 * (a - k * q) + 64 * (w % 64) /\ a - k * q \in Int
  <2>1. IntValues * q = 4096 * (k * q) /\ k * q \in Int
    <3> HIDE DEF k, q
    <3>1. QED
      BY <1>2, <1>4
  <2>2. w % 64 \in Int
    OBVIOUS
  <2> HIDE DEF k, q, a, shifted
  <2>3. QED
    BY <1>3, <1>4, <2>1, <2>2
<1>6. Collect(w, d) = IF d = 64 /\ (shifted \div 64) % 2 = 1 THEN shifted
                        ELSE shifted + d
  BY DEF Collect
<1>7. Collect(w, d) \in Nat
  <2> HIDE DEF shifted
  <2>1. QED
    BY <1>4, <1>6
<1>8. d < 64 => Collect(w, d) = 4096 * (a - k * q) + (64 * (w % 64) + d)
  <2>1. w % 64 \in Int
    OBVIOUS
  <2> HIDE DEF shifted, a, k, q
  <2>2. QED
    BY <1>5, <1>6, <2>1
<1>9. QED
  BY <1>5, <1>7, <1>8 DEF Keeps

(* The byte that is written after the second, third and fourth digit of a  *)
(* group, the last digit of a value, and two digits put together.          *)
From2(v) == (v \div 16) % 256
From3(v) == (v \div 4) % 256
From4(v) == v % 256
LastDigit(v) == v % 64
Two(p, d) == 64 * p + d

(* A digit changes the loop in one of four ways, which follow one another. *)
LEMMA TakeIs ==
  ASSUME NEW loop \in Loops, NEW c \in Byte, IsDigit(c)
  PROVE  /\ Take(loop, c) \in Loops
         /\ Take(loop, c).state = loop.state
         /\ Take(loop, c).val = Collect(loop.val, Digit(c))
         /\ loop.bits = NoBits =>
              Take(loop, c).bits = NoBits + 6 /\ Take(loop, c).out = loop.out
         /\ loop.bits = NoBits + 6 =>
              /\ Take(loop, c).bits = NoBits + 4
              /\ Take(loop, c).out
                   = Append(loop.out, From2(Collect(loop.val, Digit(c))))
         /\ loop.bits = NoBits + 4 =>
              /\ Take(loop, c).bits = NoBits + 2
              /\ Take(loop, c).out
                   = Append(loop.out, From3(Collect(loop.val, Digit(c))))
         /\ loop.bits = NoBits + 2 =>
              /\ Take(loop, c).bits = NoBits
              /\ Take(loop, c).out = Append(loop.out, From4(Collect(loop.val, Digit(c))))
<1> DEFINE v == Collect(loop.val, Digit(c))
<1>1. /\ loop.val \in Nat /\ loop.out \in Text
      /\ loop.state \in {"reading", "done", "error"}
      /\ loop.bits \in {-8, -2, -4, -6}
  BY DEF Loops, BitCounts, NoBits
<1>2. v \in Nat
  <2>1. Digit(c) \in 0 .. 64
    BY DigitIsSmall
  <2>2. QED
    BY <1>1, <2>1, CollectKeeps
<1>3. Take(loop, c) =
        [val |-> v,
         bits |-> IF Full(loop.bits + 6) THEN (loop.bits + 6) - 8 ELSE loop.bits + 6,
         out |-> IF Full(loop.bits + 6)
                 THEN Append(loop.out, LowByte(v \div 2 ^ (loop.bits + 6)))
                 ELSE loop.out,
         state |-> loop.state]
  BY Zenon DEF Take
<1> HIDE DEF v
<1>5. /\ v \div 1 = v
      /\ From2(v) \in Byte /\ From3(v) \in Byte /\ From4(v) \in Byte
  BY <1>2 DEF Byte, From2, From3, From4
<1>6. \A b \in Byte : Append(loop.out, b) \in Text
  BY <1>1 DEF Text
<1>7. CASE loop.bits = -8
  <2>1. Take(loop, c) = [val |-> v, bits |-> -2, out |-> loop.out,
                         state |-> loop.state]
    BY <1>3, <1>7 DEF Full
  <2>2. QED
    BY <1>1, <1>2, <1>7, <2>1 DEF Loops, BitCounts, NoBits, v
<1>8. CASE loop.bits = -2
  <2>1. Take(loop, c) = [val |-> v, bits |-> -4,
                         out |-> Append(loop.out, LowByte(v \div 2 ^ 4)),
                         state |-> loop.state]
    BY <1>3, <1>8 DEF Full
  <2>2. LowByte(v \div 2 ^ 4) = From2(v)
    BY DEF LowByte, From2
  <2>3. QED
    BY <1>1, <1>2, <1>5, <1>6, <1>8, <2>1, <2>2 DEF Loops, BitCounts, NoBits, v
<1>9. CASE loop.bits = -4
  <2>1. Take(loop, c) = [val |-> v, bits |-> -6,
                         out |-> Append(loop.out, LowByte(v \div 2 ^ 2)),
                         state |-> loop.state]
    BY <1>3, <1>9 DEF Full
  <2>2. LowByte(v \div 2 ^ 2) = From3(v)
    BY DEF LowByte, From3
  <2>3. QED
    BY <1>1, <1>2, <1>5, <1>6, <1>9, <2>1, <2>2 DEF Loops, BitCounts, NoBits, v
<1>10. CASE loop.bits = -6
  <2>1. Take(loop, c) = [val |-> v, bits |-> -8,
                         out |-> Append(loop.out, LowByte(v \div 2 ^ 0)),
                         state |-> loop.state]
    BY <1>3, <1>10 DEF Full
  <2>2. LowByte(v \div 2 ^ 0) = From4(v)
    BY <1>5 DEF LowByte, From4
  <2>3. QED
    BY <1>1, <1>2, <1>5, <1>6, <1>10, <2>1, <2>2 DEF Loops, BitCounts, NoBits, v
<1>11. QED
  BY <1>1, <1>7, <1>8, <1>9, <1>10

-----------------------------------------------------------------------------
(* The loops of the two decoders.                                          *)

(* Neither loop leaves its type.                                           *)
LEMMA StepsAreLoops ==
  ASSUME NEW loop \in Loops, NEW c \in Byte
  PROVE  StrictStep(loop, c) \in Loops /\ LenientStep(loop, c) \in Loops
<1>1. /\ [loop EXCEPT !.state = "done"] \in Loops
      /\ [loop EXCEPT !.state = "error"] \in Loops
  BY DEF Loops
<1>2. IsDigit(c) => Take(loop, c) \in Loops
  BY TakeIs
<1>3. StrictStep(loop, c) \in Loops
  BY <1>1, <1>2, Zenon DEF StrictStep
<1>4. LenientStep(loop, c) \in Loops
  BY <1>1, <1>2, Zenon DEF LenientStep
<1>5. QED
  BY <1>3, <1>4

LEMMA StartIsLoop == Start \in Loops
BY EmptySeq DEF Start, Loops, BitCounts, NoBits, Text

(* The loop of the strict decoder runs through the text from left to       *)
(* right.                                                                  *)
LEMMA StrictRunIs ==
  ASSUME NEW txt \in Text
  PROVE  /\ StrictRun(txt) \in [0 .. Len(txt) -> Loops]
         /\ StrictRun(txt)[0] = Start
         /\ \A n \in 1 .. Len(txt) :
              StrictRun(txt)[n] = StrictStep(StrictRun(txt)[n - 1], txt[n])
<1> DEFINE N == Len(txt)
           advance == [p \in (1 .. N) \X Loops |-> StrictStep(p[2], txt[p[1]])]
           body(f) == [n \in 0 .. N |->
                         IF n = 0 THEN Start ELSE StrictStep(f[n - 1], txt[n])]
<1>1. N \in Nat /\ \A n \in 1 .. N : txt[n] \in Byte
  BY DEF Text
<1>2. IsStep(N, Loops, advance)
  <2>1. ASSUME NEW p \in (1 .. N) \X Loops PROVE StrictStep(p[2], txt[p[1]]) \in Loops
    <3>1. p[1] \in 1 .. N /\ p[2] \in Loops
      OBVIOUS
    <3> HIDE DEF N
    <3>2. QED
      BY <1>1, <3>1, StepsAreLoops
  <2>2. QED
    BY <2>1, Zenon DEF IsStep
<1>3. PICK f \in [0 .. N -> Loops] :
        f[0] = Start /\ \A n \in 1 .. N : f[n] = advance[<<n, f[n - 1]>>]
  <2> HIDE DEF N, advance
  <2>1. PICK f : IsDefinedBy(f, N, Loops, Start, advance)
    BY <1>1, <1>2, StartIsLoop, RecursionDefines
  <2>2. QED
    BY <2>1 DEF IsDefinedBy
<1>4. \A n \in 1 .. N : f[n] = StrictStep(f[n - 1], txt[n])
  <2>1. ASSUME NEW n \in 1 .. N PROVE f[n] = StrictStep(f[n - 1], txt[n])
    <3>1. n - 1 \in 0 .. N
      BY <1>1
    <3>2. <<n, f[n - 1]>> \in (1 .. N) \X Loops
      BY <3>1
    <3>3. QED
      BY <1>3, <3>2
  <2>2. QED
    BY <2>1
<1>5. f = body(f)
  <2>1. f = [n \in 0 .. N |-> f[n]]
    OBVIOUS
  <2>2. ASSUME NEW n \in 0 .. N
        PROVE f[n] = IF n = 0 THEN Start ELSE StrictStep(f[n - 1], txt[n])
    <3>1. n = 0 \/ n \in 1 .. N
      BY <1>1
    <3>2. QED
      BY <1>3, <1>4, <3>1
  <2>3. QED
    BY <2>1, <2>2, Zenon
<1>6. StrictRun(txt) = CHOOSE g : g = body(g)
  BY Zenon DEF StrictRun
<1>7. StrictRun(txt) = body(StrictRun(txt))
  <2> HIDE DEF body
  <2>1. QED
    BY <1>5, <1>6, Zenon
<1> DEFINE run == StrictRun(txt)
<1> HIDE DEF run
<1>8. run = body(run)
  BY <1>7 DEF run
<1>9. run[0] = Start /\ \A n \in 1 .. N : run[n] = StrictStep(run[n - 1], txt[n])
  <2>1. 0 \in 0 .. N /\ \A n \in 1 .. N : n \in 0 .. N /\ n # 0
    BY <1>1
  <2>2. \A n \in 0 .. N :
          run[n] = IF n = 0 THEN Start ELSE StrictStep(run[n - 1], txt[n])
    BY <1>8, Zenon
  <2>3. QED
    BY <2>1, <2>2, Zenon
<1>10. \A n \in 0 .. N : run[n] \in Loops
  <2> DEFINE S == {n \in 0 .. N : run[n] \in Loops}
  <2>1. 0 \in S
    BY <1>1, <1>9, StartIsLoop
  <2>2. ASSUME NEW n \in 1 .. N, n - 1 \in S PROVE n \in S
    <3>1. n \in 0 .. N
      BY <1>1
    <3>2. run[n - 1] \in Loops
      BY <2>2
    <3>3. QED
      BY <1>1, <1>9, <3>1, <3>2, StepsAreLoops
  <2> HIDE DEF S
  <2>3. \A n \in 0 .. N : n \in S
    BY <1>1, <2>1, <2>2, InductionUpTo
  <2>4. QED
    BY <2>3 DEF S
<1>11. run \in [0 .. N -> Loops]
  <2>1. run = [n \in 0 .. N |-> run[n]]
    BY <1>8, Zenon
  <2>2. QED
    BY <1>10, <2>1, Zenon
<1>12. QED
  BY <1>9, <1>11 DEF run

(* So does that of the lenient one.                                        *)
LEMMA LenientRunIs ==
  ASSUME NEW txt \in Text
  PROVE  /\ LenientRun(txt) \in [0 .. Len(txt) -> Loops]
         /\ LenientRun(txt)[0] = Start
         /\ \A n \in 1 .. Len(txt) :
              LenientRun(txt)[n] = LenientStep(LenientRun(txt)[n - 1], txt[n])
<1> DEFINE N == Len(txt)
           advance == [p \in (1 .. N) \X Loops |-> LenientStep(p[2], txt[p[1]])]
           body(f) == [n \in 0 .. N |->
                         IF n = 0 THEN Start ELSE LenientStep(f[n - 1], txt[n])]
<1>1. N \in Nat /\ \A n \in 1 .. N : txt[n] \in Byte
  BY DEF Text
<1>2. IsStep(N, Loops, advance)
  <2>1. ASSUME NEW p \in (1 .. N) \X Loops PROVE LenientStep(p[2], txt[p[1]]) \in Loops
    <3>1. p[1] \in 1 .. N /\ p[2] \in Loops
      OBVIOUS
    <3> HIDE DEF N
    <3>2. QED
      BY <1>1, <3>1, StepsAreLoops
  <2>2. QED
    BY <2>1, Zenon DEF IsStep
<1>3. PICK f \in [0 .. N -> Loops] :
        f[0] = Start /\ \A n \in 1 .. N : f[n] = advance[<<n, f[n - 1]>>]
  <2> HIDE DEF N, advance
  <2>1. PICK f : IsDefinedBy(f, N, Loops, Start, advance)
    BY <1>1, <1>2, StartIsLoop, RecursionDefines
  <2>2. QED
    BY <2>1 DEF IsDefinedBy
<1>4. \A n \in 1 .. N : f[n] = LenientStep(f[n - 1], txt[n])
  <2>1. ASSUME NEW n \in 1 .. N PROVE f[n] = LenientStep(f[n - 1], txt[n])
    <3>1. n - 1 \in 0 .. N
      BY <1>1
    <3>2. <<n, f[n - 1]>> \in (1 .. N) \X Loops
      BY <3>1
    <3>3. QED
      BY <1>3, <3>2
  <2>2. QED
    BY <2>1
<1>5. f = body(f)
  <2>1. f = [n \in 0 .. N |-> f[n]]
    OBVIOUS
  <2>2. ASSUME NEW n \in 0 .. N
        PROVE f[n] = IF n = 0 THEN Start ELSE LenientStep(f[n - 1], txt[n])
    <3>1. n = 0 \/ n \in 1 .. N
      BY <1>1
    <3>2. QED
      BY <1>3, <1>4, <3>1
  <2>3. QED
    BY <2>1, <2>2, Zenon
<1>6. LenientRun(txt) = CHOOSE g : g = body(g)
  BY Zenon DEF LenientRun
<1>7. LenientRun(txt) = body(LenientRun(txt))
  <2> HIDE DEF body
  <2>1. QED
    BY <1>5, <1>6, Zenon
<1> DEFINE run == LenientRun(txt)
<1> HIDE DEF run
<1>8. run = body(run)
  BY <1>7 DEF run
<1>9. run[0] = Start /\ \A n \in 1 .. N : run[n] = LenientStep(run[n - 1], txt[n])
  <2>1. 0 \in 0 .. N /\ \A n \in 1 .. N : n \in 0 .. N /\ n # 0
    BY <1>1
  <2>2. \A n \in 0 .. N :
          run[n] = IF n = 0 THEN Start ELSE LenientStep(run[n - 1], txt[n])
    BY <1>8, Zenon
  <2>3. QED
    BY <2>1, <2>2, Zenon
<1>10. \A n \in 0 .. N : run[n] \in Loops
  <2> DEFINE S == {n \in 0 .. N : run[n] \in Loops}
  <2>1. 0 \in S
    BY <1>1, <1>9, StartIsLoop
  <2>2. ASSUME NEW n \in 1 .. N, n - 1 \in S PROVE n \in S
    <3>1. n \in 0 .. N
      BY <1>1
    <3>2. run[n - 1] \in Loops
      BY <2>2
    <3>3. QED
      BY <1>1, <1>9, <3>1, <3>2, StepsAreLoops
  <2> HIDE DEF S
  <2>3. \A n \in 0 .. N : n \in S
    BY <1>1, <2>1, <2>2, InductionUpTo
  <2>4. QED
    BY <2>3 DEF S
<1>11. run \in [0 .. N -> Loops]
  <2>1. run = [n \in 0 .. N |-> run[n]]
    BY <1>8, Zenon
  <2>2. QED
    BY <1>10, <2>1, Zenon
<1>12. QED
  BY <1>9, <1>11 DEF run

(* The loop is left for good at a padding character or an error; until     *)
(* then a digit is taken, and what the lenient decoder does not know it    *)
(* skips.                                                                  *)
LEMMA StrictReads ==
  ASSUME NEW txt \in Text, NEW n \in 1 .. Len(txt)
  PROVE  LET was == StrictRun(txt)[n - 1]
             is == StrictRun(txt)[n]
         IN  /\ was \in Loops /\ is \in Loops
             /\ was.state # "reading" => is = was
             /\ was.state = "reading" =>
                  /\ txt[n] = Pad => is = [was EXCEPT !.state = "done"]
                  /\ txt[n] \in {10, 13, 32} => is = was
                  /\ IsDigit(txt[n]) => is = Take(was, txt[n])
                  /\ ~IsDigit(txt[n]) /\ txt[n] \notin {10, 13, 32, Pad} =>
                       is = [was EXCEPT !.state = "error"]
<1>1. /\ StrictRun(txt)[n - 1] \in Loops /\ StrictRun(txt)[n] \in Loops
      /\ StrictRun(txt)[n] = StrictStep(StrictRun(txt)[n - 1], txt[n])
      /\ txt[n] \in Byte
  <2>1. n - 1 \in 0 .. Len(txt) /\ n \in 0 .. Len(txt) /\ txt[n] \in Byte
    BY DEF Text
  <2>2. QED
    BY <2>1, StrictRunIs
<1>2. /\ IsDigit(txt[n]) => txt[n] \notin {10, 13, 32, Pad}
      /\ Pad \notin {10, 13, 32}
  BY DigitIsPlain DEF Pad, Blank
<1> DEFINE was == StrictRun(txt)[n - 1]
           c == txt[n]
<1>3. /\ was.state # "reading" => StrictStep(was, c) = was
      /\ was.state = "reading" =>
           /\ c = Pad => StrictStep(was, c) = [was EXCEPT !.state = "done"]
           /\ c \in {10, 13, 32} => StrictStep(was, c) = was
           /\ IsDigit(c) => StrictStep(was, c) = Take(was, c)
           /\ ~IsDigit(c) /\ c \notin {10, 13, 32, Pad} =>
                StrictStep(was, c) = [was EXCEPT !.state = "error"]
  <2> HIDE DEF was, c
  <2>1. IsDigit(c) => c \notin {10, 13, 32, Pad}
    BY <1>2 DEF c
  <2>2. CASE was.state # "reading"
    BY <2>2, Zenon DEF StrictStep
  <2>3. CASE was.state = "reading" /\ c = Pad
    BY <1>2, <2>1, <2>3, Zenon DEF StrictStep, Skips
  <2>4. CASE was.state = "reading" /\ c \in {10, 13, 32}
    BY <1>2, <2>1, <2>4 DEF StrictStep, Skips
  <2>5. CASE was.state = "reading" /\ IsDigit(c)
    BY <1>2, <2>1, <2>5 DEF StrictStep, Skips
  <2>6. CASE was.state = "reading" /\ ~IsDigit(c) /\ c \notin {10, 13, 32, Pad}
    BY <1>2, <2>1, <2>6 DEF StrictStep, Skips
  <2>7. QED
    BY <2>2, <2>3, <2>4, <2>5, <2>6
<1>4. QED
  BY <1>1, <1>3

(* And what the lenient decoder does with one.                             *)
LEMMA LenientReads ==
  ASSUME NEW txt \in Text, NEW n \in 1 .. Len(txt)
  PROVE  LET was == LenientRun(txt)[n - 1]
             is == LenientRun(txt)[n]
         IN  /\ was \in Loops /\ is \in Loops
             /\ was.state # "reading" => is = was
             /\ was.state = "reading" =>
                  /\ txt[n] = Pad => is = [was EXCEPT !.state = "done"]
                  /\ IsDigit(txt[n]) => is = Take(was, txt[n])
                  /\ ~IsDigit(txt[n]) /\ txt[n] # Pad => is = was
<1>1. /\ LenientRun(txt)[n - 1] \in Loops /\ LenientRun(txt)[n] \in Loops
      /\ LenientRun(txt)[n] = LenientStep(LenientRun(txt)[n - 1], txt[n])
  <2>1. n - 1 \in 0 .. Len(txt) /\ n \in 0 .. Len(txt)
    BY DEF Text
  <2>2. QED
    BY <2>1, LenientRunIs
<1>2. ~IsDigit(Pad)
  BY DEF IsDigit, Pad
<1>3. QED
  BY <1>1, <1>2 DEF LenientStep

(* What the decoders return is text again.                                 *)
LEMMA DecodedIsText ==
  ASSUME NEW txt \in Text
  PROVE  /\ StrictDecode(txt) \in Loops /\ StrictDecode(txt).out \in Text
         /\ LenientDecode(txt) \in Text
<1>1. Len(txt) \in 0 .. Len(txt)
  BY DEF Text
<1>2. StrictRun(txt)[Len(txt)] \in Loops /\ LenientRun(txt)[Len(txt)] \in Loops
  BY <1>1, StrictRunIs, LenientRunIs
<1>3. QED
  BY <1>2 DEF StrictDecode, LenientDecode, Loops

-----------------------------------------------------------------------------
(* The decoders agree.                                                     *)

(* A strict decoder that does not fail in the end never failed, and the    *)
(* lenient one went with it.                                               *)
LEMMA LenientFollowsStrict ==
  ASSUME NEW txt \in Text, StrictDecode(txt).state # "error"
  PROVE  \A n \in 0 .. Len(txt) :
           LenientRun(txt)[n] = StrictRun(txt)[n] /\ StrictRun(txt)[n].state # "error"
<1> DEFINE N == Len(txt)
           strict(n) == StrictRun(txt)[n]
           lenient(n) == LenientRun(txt)[n]
           S == {n \in 0 .. N : strict(N - n).state # "error"}
           T == {n \in 0 .. N : lenient(n) = strict(n)}
<1>1. N \in Nat
  BY DEF Text
<1>2. \A n \in 1 .. N : strict(n - 1).state = "error" => strict(n) = strict(n - 1)
  BY StrictReads
<1>3. \A n \in 0 .. N : n \in S
  <2>1. 0 \in S
    BY <1>1 DEF StrictDecode
  <2>2. ASSUME NEW n \in 1 .. N, n - 1 \in S PROVE n \in S
    <3>1. N - (n - 1) \in 1 .. N /\ (N - (n - 1)) - 1 = N - n /\ n \in 0 .. N
      BY <1>1
    <3>2. strict(N - (n - 1)).state # "error"
      BY <2>2
    <3> HIDE DEF strict, N
    <3>3. QED
      BY <1>2, <3>1, <3>2
  <2> HIDE DEF S
  <2>3. QED
    BY <1>1, <2>1, <2>2, InductionUpTo
<1>4. ASSUME NEW n \in 0 .. N PROVE strict(n).state # "error"
  <2>1. N - n \in 0 .. N /\ N - (N - n) = n
    BY <1>1
  <2>2. strict(N - (N - n)).state # "error"
    BY <1>3, <2>1
  <2>3. QED
    BY <2>1, <2>2
<1>5. ASSUME NEW n \in 1 .. N, lenient(n - 1) = strict(n - 1)
      PROVE  lenient(n) = strict(n)
  <2>1. n - 1 \in 0 .. N /\ n \in 0 .. N
    BY <1>1
  <2>2. strict(n - 1).state # "error" /\ strict(n).state # "error"
    BY <1>4, <2>1
  <2>3. strict(n - 1) \in Loops
    BY <2>1, StrictRunIs
  <2>4. CASE strict(n - 1).state # "reading"
    <3>1. lenient(n) = lenient(n - 1) /\ strict(n) = strict(n - 1)
      BY <1>5, <2>4, StrictReads, LenientReads
    <3>2. QED
      BY <1>5, <3>1
  <2>5. CASE strict(n - 1).state = "reading" /\ txt[n] = Pad
    <3>1. lenient(n) = [lenient(n - 1) EXCEPT !.state = "done"]
      BY <1>5, <2>5, LenientReads
    <3>2. strict(n) = [strict(n - 1) EXCEPT !.state = "done"]
      BY <2>5, StrictReads
    <3>3. QED
      BY <1>5, <3>1, <3>2
  <2>6. CASE strict(n - 1).state = "reading" /\ txt[n] # Pad /\ IsDigit(txt[n])
    <3>1. lenient(n) = Take(lenient(n - 1), txt[n])
      BY <1>5, <2>6, LenientReads
    <3>2. strict(n) = Take(strict(n - 1), txt[n])
      BY <2>6, StrictReads
    <3>3. QED
      BY <1>5, <3>1, <3>2
  <2>7. CASE strict(n - 1).state = "reading" /\ txt[n] # Pad /\ ~IsDigit(txt[n])
    <3>1. lenient(n) = lenient(n - 1)
      BY <1>5, <2>7, LenientReads
    <3>2. txt[n] \in {10, 13, 32}
      <4>1. SUFFICES ASSUME txt[n] \notin {10, 13, 32} PROVE FALSE
        OBVIOUS
      <4>2. strict(n) = [strict(n - 1) EXCEPT !.state = "error"]
        BY <2>7, <4>1, StrictReads
      <4>3. [strict(n - 1) EXCEPT !.state = "error"].state = "error"
        <5> HIDE DEF strict
        <5>1. QED
          BY <2>3 DEF Loops
      <4>4. QED
        BY <2>2, <4>2, <4>3
    <3>3. strict(n) = strict(n - 1)
      BY <2>7, <3>2, StrictReads
    <3>4. QED
      BY <1>5, <3>1, <3>3
  <2>8. QED
    BY <2>4, <2>5, <2>6, <2>7
<1>6. \A n \in 0 .. N : n \in T
  <2>1. 0 \in T
    BY <1>1, StrictRunIs, LenientRunIs
  <2>2. ASSUME NEW n \in 1 .. N, n - 1 \in T PROVE n \in T
    <3>1. n \in 0 .. N
      BY <1>1
    <3>2. QED
      BY <1>5, <2>2, <3>1
  <2> HIDE DEF T
  <2>3. QED
    BY <1>1, <2>1, <2>2, InductionUpTo
<1>7. QED
  BY <1>4, <1>6

-----------------------------------------------------------------------------
(* Trimming.                                                               *)

StartsAt(a, txt, dropped) ==
  /\ a \in 1 .. Len(txt) + 1
  /\ \A i \in 1 .. a - 1 : txt[i] \in dropped
  /\ a <= Len(txt) => txt[a] \notin dropped
EndsAt(b, txt, dropped) ==
  /\ b \in 0 .. Len(txt)
  /\ \A i \in b + 1 .. Len(txt) : txt[i] \in dropped
  /\ b >= 1 => txt[b] \notin dropped

(* A part of a text.                                                       *)
LEMMA PartIsText ==
  ASSUME NEW txt \in Text, NEW a \in 1 .. Len(txt) + 1, NEW b \in 0 .. Len(txt),
         a <= b + 1
  PROVE  /\ SubSeq(txt, a, b) \in Text
         /\ Len(SubSeq(txt, a, b)) = (b + 1) - a
         /\ \A k \in 1 .. (b + 1) - a : SubSeq(txt, a, b)[k] = txt[(a - 1) + k]
<1>1. Len(txt) \in Nat
  BY DEF Text
<1>2. SubSeq(txt, a, b) = [k \in 1 .. (b + 1) - a |-> txt[(a - 1) + k]]
  BY <1>1 DEF Text
<1>3. \A k \in 1 .. (b + 1) - a : txt[(a - 1) + k] \in Byte
  <2>1. \A k \in 1 .. (b + 1) - a : (a - 1) + k \in 1 .. Len(txt)
    BY <1>1
  <2>2. QED
    BY <2>1 DEF Text
<1>4. (b + 1) - a \in Nat
  BY <1>1
<1>5. QED
  <2> DEFINE part == [k \in 1 .. (b + 1) - a |-> txt[(a - 1) + k]]
  <2>1. part \in [1 .. (b + 1) - a -> Byte]
    BY <1>3
  <2>2. part \in Seq(Byte) /\ Len(part) = (b + 1) - a
    <3> HIDE DEF part
    <3>1. QED
      BY <1>4, <2>1, IsASeq, LenProperties
  <2>3. QED
    BY <1>2, <2>2 DEF Text

(* Trimming at the start leaves the part from the first kept character on. *)
LEMMA TrimStartIs ==
  ASSUME NEW txt \in Text, NEW dropped
  PROVE  \E a : /\ StartsAt(a, txt, dropped)
                /\ TrimStart(txt, dropped) = SubSeq(txt, a, Len(txt))
<1> DEFINE N == Len(txt)
           K == Kept(txt, dropped)
<1>1. N \in Nat /\ DOMAIN txt = 1 .. N
  BY DEF Text
<1>2. K \in SUBSET (1 .. N) /\ \A i \in 1 .. N : i \in K <=> txt[i] \notin dropped
  BY <1>1 DEF Kept
<1>3. CASE K = {}
  <2>1. TrimStart(txt, dropped) = <<>>
    BY <1>3 DEF TrimStart
  <2>2. SubSeq(txt, N + 1, N) = <<>>
    BY <1>1 DEF Text
  <2>3. StartsAt(N + 1, txt, dropped)
    <3>1. N + 1 \in 1 .. N + 1 /\ ~(N + 1 <= N) /\ (N + 1) - 1 = N
      BY <1>1
    <3>2. \A i \in 1 .. N : txt[i] \in dropped
      BY <1>2, <1>3
    <3>3. QED
      BY <3>1, <3>2 DEF StartsAt
  <2>4. QED
    BY <2>1, <2>2, <2>3
<1>4. CASE K # {}
  <2>1. \E i \in K : \A j \in K : i <= j
    <3> HIDE DEF K, N
    <3>1. QED
      BY <1>1, <1>2, <1>4, FirstPosition
  <2>2. Min(K) \in K /\ \A j \in K : Min(K) <= j
    <3> HIDE DEF K
    <3>1. QED
      BY <2>1 DEF Min
  <2>3. TrimStart(txt, dropped) = SubSeq(txt, Min(K), N)
    BY <1>4, Zenon DEF TrimStart
  <2> HIDE DEF K
  <2>4. StartsAt(Min(K), txt, dropped)
    <3>1. Min(K) \in 1 .. N + 1 /\ txt[Min(K)] \notin dropped
      <4>1. Min(K) \in 1 .. N
        BY <1>2, <2>2, Zenon
      <4>2. txt[Min(K)] \notin dropped
        BY <1>2, <2>2, <4>1, Zenon
      <4>3. QED
        BY <1>1, <4>1, <4>2
    <3>2. ASSUME NEW i \in 1 .. Min(K) - 1 PROVE txt[i] \in dropped
      <4>1. i \in 1 .. N /\ ~(Min(K) <= i)
        BY <1>1, <3>1
      <4>2. QED
        BY <1>2, <2>2, <4>1
    <3>3. QED
      BY <3>1, <3>2 DEF StartsAt
  <2>5. QED
    BY <2>3, <2>4
<1>5. QED
  BY <1>3, <1>4

(* Trimming at the end leaves the part up to the last kept one.            *)
LEMMA TrimEndIs ==
  ASSUME NEW txt \in Text, NEW dropped
  PROVE  \E b : /\ EndsAt(b, txt, dropped)
                /\ TrimEnd(txt, dropped) = SubSeq(txt, 1, b)
<1> DEFINE N == Len(txt)
           K == Kept(txt, dropped)
<1>1. N \in Nat /\ DOMAIN txt = 1 .. N
  BY DEF Text
<1>2. K \in SUBSET (1 .. N) /\ \A i \in 1 .. N : i \in K <=> txt[i] \notin dropped
  BY <1>1 DEF Kept
<1>3. CASE K = {}
  <2>1. TrimEnd(txt, dropped) = <<>>
    BY <1>3 DEF TrimEnd
  <2>2. SubSeq(txt, 1, 0) = <<>>
    BY <1>1 DEF Text
  <2>3. EndsAt(0, txt, dropped)
    <3>1. 0 \in 0 .. N /\ ~(0 >= 1) /\ 0 + 1 = 1
      BY <1>1
    <3>2. \A i \in 1 .. N : txt[i] \in dropped
      BY <1>2, <1>3
    <3>3. QED
      BY <3>1, <3>2 DEF EndsAt
  <2>4. QED
    BY <2>1, <2>2, <2>3
<1>4. CASE K # {}
  <2>1. \E i \in K : \A j \in K : i >= j
    <3> HIDE DEF K, N
    <3>1. QED
      BY <1>1, <1>2, <1>4, LastPosition
  <2>2. Max(K) \in K /\ \A j \in K : Max(K) >= j
    <3> HIDE DEF K
    <3>1. QED
      BY <2>1 DEF Max
  <2>3. TrimEnd(txt, dropped) = SubSeq(txt, 1, Max(K))
    BY <1>4, Zenon DEF TrimEnd
  <2> HIDE DEF K
  <2>4. EndsAt(Max(K), txt, dropped)
    <3>1. Max(K) \in 0 .. N /\ txt[Max(K)] \notin dropped
      <4>1. Max(K) \in 1 .. N
        BY <1>2, <2>2, Zenon
      <4>2. txt[Max(K)] \notin dropped
        BY <1>2, <2>2, <4>1, Zenon
      <4>3. QED
        BY <1>1, <4>1, <4>2
    <3>2. ASSUME NEW i \in Max(K) + 1 .. N PROVE txt[i] \in dropped
      <4>1. i \in 1 .. N /\ ~(Max(K) >= i)
        BY <1>1, <3>1
      <4>2. QED
        BY <1>2, <2>2, <4>1
    <3>3. QED
      BY <3>1, <3>2 DEF EndsAt
  <2>5. QED
    BY <2>3, <2>4
<1>5. QED
  BY <1>3, <1>4

(* What is trimmed is text, and there is no more to trim.                  *)
LEMMA TrimmedIsText ==
  ASSUME NEW txt \in Text, NEW dropped
  PROVE  TrimStart(txt, dropped) \in Text /\ TrimEnd(txt, dropped) \in Text
<1>1. Len(txt) \in Nat
  BY DEF Text
<1>2. TrimStart(txt, dropped) \in Text
  <2>1. PICK a : /\ StartsAt(a, txt, dropped)
                 /\ TrimStart(txt, dropped) = SubSeq(txt, a, Len(txt))
    BY TrimStartIs
  <2>2. a \in 1 .. Len(txt) + 1 /\ Len(txt) \in 0 .. Len(txt) /\ a <= Len(txt) + 1
    BY <1>1, <2>1 DEF StartsAt
  <2>3. QED
    BY <2>1, <2>2, PartIsText
<1>3. TrimEnd(txt, dropped) \in Text
  <2>1. PICK b : EndsAt(b, txt, dropped) /\ TrimEnd(txt, dropped) = SubSeq(txt, 1, b)
    BY TrimEndIs
  <2>2. b \in 0 .. Len(txt) /\ 1 \in 1 .. Len(txt) + 1 /\ 1 <= b + 1
    BY <1>1, <2>1 DEF EndsAt
  <2>3. QED
    BY <2>1, <2>2, PartIsText
<1>4. QED
  BY <1>2, <1>3

(* Where it starts and ends is determined.                                 *)
LEMMA TrimStartAt ==
  ASSUME NEW txt \in Text, NEW dropped, NEW a, StartsAt(a, txt, dropped)
  PROVE  TrimStart(txt, dropped) = SubSeq(txt, a, Len(txt))
<1>1. PICK b : /\ StartsAt(b, txt, dropped)
               /\ TrimStart(txt, dropped) = SubSeq(txt, b, Len(txt))
  BY TrimStartIs
<1>2. Len(txt) \in Nat
  BY DEF Text
<1>3. ~(a < b) /\ ~(b < a) /\ a \in Int /\ b \in Int
  BY <1>1, <1>2 DEF StartsAt
<1>4. a = b
  BY <1>3
<1>5. QED
  BY <1>1, <1>4

LEMMA TrimEndAt ==
  ASSUME NEW txt \in Text, NEW dropped, NEW b, EndsAt(b, txt, dropped)
  PROVE  TrimEnd(txt, dropped) = SubSeq(txt, 1, b)
<1>1. PICK a : EndsAt(a, txt, dropped) /\ TrimEnd(txt, dropped) = SubSeq(txt, 1, a)
  BY TrimEndIs
<1>2. Len(txt) \in Nat
  BY DEF Text
<1>3. ~(a < b) /\ ~(b < a) /\ a \in Int /\ b \in Int
  BY <1>1, <1>2 DEF EndsAt
<1>4. a = b
  BY <1>3
<1>5. QED
  BY <1>1, <1>4

(* From the same state, the same characters lead to the same states.       *)
SameCharacters(s, p, t, q, m) == \A k \in 1 .. m : s[p + k] = t[q + k]
SameStrictRun(s, p, t, q, m) ==
  \A k \in 0 .. m : StrictRun(s)[p + k] = StrictRun(t)[q + k]
SameLenientRun(s, p, t, q, m) ==
  \A k \in 0 .. m : LenientRun(s)[p + k] = LenientRun(t)[q + k]

(* The strict decoder treats equal stretches alike.                        *)
LEMMA StrictGoOn ==
  ASSUME NEW s \in Text, NEW t \in Text, NEW p \in Nat, NEW q \in Nat, NEW m \in Nat,
         p + m <= Len(s), q + m <= Len(t),
         SameCharacters(s, p, t, q, m), StrictRun(s)[p] = StrictRun(t)[q]
  PROVE  SameStrictRun(s, p, t, q, m)
<1> DEFINE S == {k \in 0 .. m : StrictRun(s)[p + k] = StrictRun(t)[q + k]}
<1>1. Len(s) \in Nat /\ Len(t) \in Nat
  BY DEF Text
<1>2. 0 \in S
  OBVIOUS
<1>3. ASSUME NEW k \in 1 .. m, k - 1 \in S PROVE k \in S
  <2>1. /\ p + k \in 1 .. Len(s) /\ (p + k) - 1 = p + (k - 1)
        /\ q + k \in 1 .. Len(t) /\ (q + k) - 1 = q + (k - 1)
        /\ k \in 0 .. m
    BY <1>1
  <2>2. StrictRun(s)[p + (k - 1)] = StrictRun(t)[q + (k - 1)]
    BY <1>3
  <2>3. StrictRun(s)[p + k] = StrictStep(StrictRun(s)[p + (k - 1)], s[p + k])
    BY <2>1, StrictRunIs
  <2>4. StrictRun(t)[q + k] = StrictStep(StrictRun(t)[q + (k - 1)], t[q + k])
    BY <2>1, StrictRunIs
  <2>5. s[p + k] = t[q + k]
    BY DEF SameCharacters
  <2>6. QED
    BY <2>1, <2>2, <2>3, <2>4, <2>5
<1>4. \A k \in 0 .. m : k \in S
  <2> HIDE DEF S
  <2>1. QED
    BY <1>2, <1>3, InductionUpTo
<1>5. QED
  BY <1>4 DEF SameStrictRun

(* The lenient decoder treats equal stretches alike.                       *)
LEMMA LenientGoOn ==
  ASSUME NEW s \in Text, NEW t \in Text, NEW p \in Nat, NEW q \in Nat, NEW m \in Nat,
         p + m <= Len(s), q + m <= Len(t),
         SameCharacters(s, p, t, q, m), LenientRun(s)[p] = LenientRun(t)[q]
  PROVE  SameLenientRun(s, p, t, q, m)
<1> DEFINE S == {k \in 0 .. m : LenientRun(s)[p + k] = LenientRun(t)[q + k]}
<1>1. Len(s) \in Nat /\ Len(t) \in Nat
  BY DEF Text
<1>2. 0 \in S
  OBVIOUS
<1>3. ASSUME NEW k \in 1 .. m, k - 1 \in S PROVE k \in S
  <2>1. /\ p + k \in 1 .. Len(s) /\ (p + k) - 1 = p + (k - 1)
        /\ q + k \in 1 .. Len(t) /\ (q + k) - 1 = q + (k - 1)
        /\ k \in 0 .. m
    BY <1>1
  <2>2. LenientRun(s)[p + (k - 1)] = LenientRun(t)[q + (k - 1)]
    BY <1>3
  <2>3. LenientRun(s)[p + k] = LenientStep(LenientRun(s)[p + (k - 1)], s[p + k])
    BY <2>1, LenientRunIs
  <2>4. LenientRun(t)[q + k] = LenientStep(LenientRun(t)[q + (k - 1)], t[q + k])
    BY <2>1, LenientRunIs
  <2>5. s[p + k] = t[q + k]
    BY DEF SameCharacters
  <2>6. QED
    BY <2>1, <2>2, <2>3, <2>4, <2>5
<1>4. \A k \in 0 .. m : k \in S
  <2> HIDE DEF S
  <2>1. QED
    BY <1>2, <1>3, InductionUpTo
<1>5. QED
  BY <1>4 DEF SameLenientRun

(* Characters that are no digits leave a decoder's output as it is.        *)
LEMMA LenientSkips ==
  ASSUME NEW txt \in Text, NEW p \in 0 .. Len(txt), NEW q \in p .. Len(txt),
         \A i \in p + 1 .. q : ~IsDigit(txt[i]) /\ txt[i] # Pad
  PROVE  LenientRun(txt)[q] = LenientRun(txt)[p]
<1> DEFINE S == {k \in 0 .. q - p : LenientRun(txt)[p + k] = LenientRun(txt)[p]}
<1>1. Len(txt) \in Nat /\ q - p \in Nat
  BY DEF Text
<1>2. 0 \in S
  BY <1>1
<1>3. ASSUME NEW k \in 1 .. q - p, k - 1 \in S PROVE k \in S
  <2>1. /\ p + k \in 1 .. Len(txt) /\ (p + k) - 1 = p + (k - 1)
        /\ p + k \in p + 1 .. q /\ k \in 0 .. q - p
    BY <1>1
  <2>2. LenientRun(txt)[p + (k - 1)] = LenientRun(txt)[p]
    BY <1>3
  <2>3. LenientRun(txt)[p + k] = LenientRun(txt)[p + (k - 1)]
    <3> DEFINE was == LenientRun(txt)[p + (k - 1)]
    <3>1. ~IsDigit(txt[p + k]) /\ txt[p + k] # Pad
      BY <2>1
    <3>2. was.state = "reading" \/ was.state # "reading"
      OBVIOUS
    <3>3. QED
      BY <2>1, <3>1, <3>2, LenientReads
  <2>4. QED
    BY <2>1, <2>2, <2>3
<1>4. \A k \in 0 .. q - p : k \in S
  <2> HIDE DEF S
  <2>1. QED
    BY <1>1, <1>2, <1>3, InductionUpTo
<1>5. q - p \in 0 .. q - p /\ p + (q - p) = q
  BY <1>1
<1>6. QED
  BY <1>4, <1>5

(* White space around a text is nothing to the lenient decoder.            *)
LEMMA LenientTrims ==
  ASSUME NEW txt \in Text
  PROVE  LenientDecode(TrimEnd(TrimStart(txt, Blank), Space)) = LenientDecode(txt)
<1>1. ASSUME NEW t \in Text
      PROVE  LenientDecode(TrimStart(t, Blank)) = LenientDecode(t)
  <2>1. PICK a : StartsAt(a, t, Blank) /\ TrimStart(t, Blank) = SubSeq(t, a, Len(t))
    BY TrimStartIs
  <2> DEFINE s == SubSeq(t, a, Len(t))
             m == (Len(t) + 1) - a
  <2>2. /\ Len(t) \in Nat /\ a \in 1 .. Len(t) + 1 /\ Len(t) \in 0 .. Len(t)
        /\ a <= Len(t) + 1 /\ a - 1 \in 0 .. Len(t) /\ m \in Nat
        /\ 0 + m <= m /\ (a - 1) + m = Len(t) /\ 0 \in 0 .. Len(t)
    BY <2>1 DEF StartsAt, Text
  <2>3. s \in Text /\ Len(s) = m /\ \A k \in 1 .. m : s[k] = t[(a - 1) + k]
    BY <2>2, PartIsText
  <2>4. \A i \in 0 + 1 .. a - 1 : ~IsDigit(t[i]) /\ t[i] # Pad
    BY <2>1, <2>2, DigitIsPlain DEF StartsAt, Pad, Blank
  <2>5. LenientRun(t)[a - 1] = Start /\ LenientRun(s)[0] = Start
    <3>1. LenientRun(t)[a - 1] = LenientRun(t)[0]
      BY <2>2, <2>4, LenientSkips
    <3>2. QED
      BY <2>3, <3>1, LenientRunIs
  <2>6. SameCharacters(s, 0, t, a - 1, m)
    BY <2>3 DEF SameCharacters
  <2>7. SameLenientRun(s, 0, t, a - 1, m)
    <3>1. a - 1 \in Nat /\ 0 + m <= Len(s) /\ (a - 1) + m <= Len(t)
      BY <2>2, <2>3
    <3> HIDE DEF s, m
    <3>2. QED
      BY <2>2, <2>3, <2>5, <2>6, <3>1, LenientGoOn
  <2>8. m \in 0 .. m /\ 0 + m = m
    BY <2>2
  <2> HIDE DEF s, m
  <2>9. LenientRun(s)[m] = LenientRun(t)[Len(t)]
    BY <2>2, <2>7, <2>8 DEF SameLenientRun
  <2>10. QED
    BY <2>1, <2>3, <2>9 DEF LenientDecode, s
<1>2. ASSUME NEW t \in Text
      PROVE  LenientDecode(TrimEnd(t, Space)) = LenientDecode(t)
  <2>1. PICK b : EndsAt(b, t, Space) /\ TrimEnd(t, Space) = SubSeq(t, 1, b)
    BY TrimEndIs
  <2> DEFINE s == SubSeq(t, 1, b)
  <2>2. /\ Len(t) \in Nat /\ b \in 0 .. Len(t) /\ 1 \in 1 .. Len(t) + 1 /\ 1 <= b + 1
        /\ Len(t) \in b .. Len(t) /\ b \in Nat /\ (b + 1) - 1 = b
    BY <2>1 DEF EndsAt, Text
  <2>3. s \in Text /\ Len(s) = b /\ \A k \in 1 .. b : s[0 + k] = t[0 + k]
    <3>1. s \in Text /\ Len(s) = b /\ \A k \in 1 .. b : s[k] = t[(1 - 1) + k]
      BY <2>2, PartIsText
    <3>2. \A k \in 1 .. b : 0 + k = k /\ (1 - 1) + k = k
      BY <2>2
    <3>3. QED
      BY <3>1, <3>2
  <2>4. \A i \in b + 1 .. Len(t) : ~IsDigit(t[i]) /\ t[i] # Pad
    BY <2>1, <2>2, DigitIsPlain DEF EndsAt, Pad, Space
  <2>5. LenientRun(t)[Len(t)] = LenientRun(t)[b]
    BY <2>2, <2>4, LenientSkips
  <2>6. LenientRun(s)[0] = LenientRun(t)[0]
    BY <2>3, LenientRunIs
  <2>7. SameLenientRun(s, 0, t, 0, b)
    <3>0. SameCharacters(s, 0, t, 0, b)
      BY <2>3 DEF SameCharacters
    <3>1. 0 + b <= Len(s) /\ 0 + b <= Len(t) /\ 0 \in Nat
      BY <2>2, <2>3
    <3> HIDE DEF s
    <3>2. QED
      BY <2>2, <2>3, <2>6, <3>0, <3>1, LenientGoOn
  <2>8. b \in 0 .. b /\ 0 + b = b
    BY <2>2
  <2> HIDE DEF s
  <2>9. LenientRun(s)[b] = LenientRun(t)[b]
    BY <2>7, <2>8 DEF SameLenientRun
  <2>10. QED
    BY <2>1, <2>3, <2>5, <2>9 DEF LenientDecode, s
<1>3. QED
  BY <1>1, <1>2, TrimmedIsText

(* The first character that is not white space tells JSON from base64.     *)
LEMMA JsonStart ==
  ASSUME NEW txt \in Text, NEW a, StartsAt(a, txt, Blank)
  PROVE  StartsJson(TrimStart(txt, Blank)) <=> a <= Len(txt) /\ txt[a] = OpenBrace
<1> DEFINE s == SubSeq(txt, a, Len(txt))
           m == (Len(txt) + 1) - a
<1>1. /\ Len(txt) \in Nat /\ a \in 1 .. Len(txt) + 1 /\ Len(txt) \in 0 .. Len(txt)
      /\ a <= Len(txt) + 1 /\ m \in Nat /\ (a - 1) + 1 = a
      /\ m >= 1 <=> a <= Len(txt)
  BY DEF StartsAt, Text
<1>2. s \in Text /\ Len(s) = m /\ \A k \in 1 .. m : s[k] = txt[(a - 1) + k]
  BY <1>1, PartIsText
<1>3. TrimStart(txt, Blank) = s
  BY TrimStartAt
<1> HIDE DEF s, m
<1>4. s # <<>> <=> m >= 1
  BY <1>1, <1>2, EmptySeq DEF Text
<1>5. m >= 1 => Head(s) = txt[a]
  BY <1>1, <1>2 DEF Text
<1>6. QED
  BY <1>1, <1>3, <1>4, <1>5 DEF StartsJson

(* The strict decoder fails at the brace that JSON starts with.            *)
LEMMA StrictRefusesJson ==
  ASSUME NEW txt \in Text, StartsJson(TrimStart(txt, Blank))
  PROVE  StrictDecode(txt).state = "error"
<1>1. PICK a : StartsAt(a, txt, Blank) /\ TrimStart(txt, Blank) = SubSeq(txt, a, Len(txt))
  BY TrimStartIs
<1>2. /\ Len(txt) \in Nat /\ a \in 1 .. Len(txt) + 1 /\ 0 \in 0 .. Len(txt)
      /\ a - 1 \in 0 .. Len(txt)
  BY <1>1 DEF StartsAt, Text
<1>3. SUFFICES ASSUME StrictDecode(txt).state # "error" PROVE FALSE
  OBVIOUS
<1>4. a <= Len(txt) /\ txt[a] = OpenBrace
  BY <1>1, JsonStart
<1>5. \A i \in 0 + 1 .. a - 1 : ~IsDigit(txt[i]) /\ txt[i] # Pad
  BY <1>1, <1>2, DigitIsPlain DEF StartsAt, Pad, Blank
<1>6. StrictRun(txt)[a - 1] = Start
  <2>1. LenientRun(txt)[a - 1] = LenientRun(txt)[0]
    BY <1>2, <1>5, LenientSkips
  <2>2. LenientRun(txt)[0] = Start
    BY LenientRunIs
  <2>3. LenientRun(txt)[a - 1] = StrictRun(txt)[a - 1]
    BY <1>2, <1>3, LenientFollowsStrict
  <2>4. QED
    BY <2>1, <2>2, <2>3
<1>7. a \in 1 .. Len(txt) /\ a \in 0 .. Len(txt)
  BY <1>2, <1>4
<1>8. ~IsDigit(txt[a]) /\ txt[a] \notin {10, 13, 32, Pad}
  <2>1. txt[a] \notin {10, 13, 32, Pad}
    BY <1>4 DEF OpenBrace, Pad
  <2>2. QED
    BY <1>4, <2>1, DigitIsPlain
<1>9. StrictRun(txt)[a] = [Start EXCEPT !.state = "error"]
  <2>1. Start.state = "reading"
    BY DEF Start
  <2>2. QED
    BY <1>6, <1>7, <1>8, <2>1, StrictReads
<1>10. StrictRun(txt)[a].state = "error"
  BY <1>9 DEF Start
<1>11. QED
  BY <1>3, <1>7, <1>10, LenientFollowsStrict

(* What the strict decoder reads, normalize_license_bytes reads alike, up  *)
(* to the white space it trims.                                            *)
LEMMA NormalizesAsDecoded ==
  ASSUME NEW txt \in Text, StrictDecode(txt).state # "error"
  PROVE  NormalizeBytes(txt) = TrimEnd(StrictDecode(txt).out, Blank)
<1>1. ~StartsJson(TrimStart(txt, Blank))
  BY StrictRefusesJson
<1>2. NormalizeBytes(txt)
        = TrimEnd(LenientDecode(TrimEnd(TrimStart(txt, Blank), Space)), Blank)
  BY <1>1, Zenon DEF NormalizeBytes
<1>3. Len(txt) \in 0 .. Len(txt)
  BY DEF Text
<1>4. LenientDecode(txt) = StrictDecode(txt).out
  BY <1>3, LenientFollowsStrict DEF LenientDecode, StrictDecode
<1>5. QED
  BY <1>2, <1>4, LenientTrims

-----------------------------------------------------------------------------
(* What parses once.                                                       *)

(* What is normalized is a text again.                                     *)
LEMMA NormalizedIsText ==
  ASSUME NEW txt \in Text
  PROVE  NormalizeBytes(txt) \in Text /\ EnvelopeText(txt) \in Text
<1>1. /\ TrimStart(txt, Blank) \in Text
      /\ TrimEnd(TrimStart(txt, Blank), Space) \in Text
  BY TrimmedIsText
<1>2. /\ LenientDecode(TrimEnd(TrimStart(txt, Blank), Space)) \in Text
      /\ StrictDecode(TrimEnd(TrimStart(txt, Blank), Space)).out \in Text
  BY <1>1, DecodedIsText
<1>3. TrimEnd(LenientDecode(TrimEnd(TrimStart(txt, Blank), Space)), Blank) \in Text
  BY <1>2, TrimmedIsText
<1>4. <<>> \in Text
  BY EmptySeq DEF Text
<1>5. NormalizeBytes(txt) \in Text
  BY <1>1, <1>3, Zenon DEF NormalizeBytes
<1>6. EnvelopeText(txt) \in Text
  BY <1>1, <1>2, <1>4, Zenon DEF EnvelopeText
<1>7. QED
  BY <1>5, <1>6

(* Trimming twice is trimming once.                                        *)
LEMMA TrimStartTwice ==
  ASSUME NEW txt \in Text, NEW dropped
  PROVE  TrimStart(TrimStart(txt, dropped), dropped) = TrimStart(txt, dropped)
<1>1. PICK a : /\ StartsAt(a, txt, dropped)
               /\ TrimStart(txt, dropped) = SubSeq(txt, a, Len(txt))
  BY TrimStartIs
<1> DEFINE s == SubSeq(txt, a, Len(txt))
           m == (Len(txt) + 1) - a
<1>2. /\ Len(txt) \in Nat /\ a \in 1 .. Len(txt) + 1 /\ Len(txt) \in 0 .. Len(txt)
      /\ a <= Len(txt) + 1 /\ m \in Nat /\ (a - 1) + 1 = a
      /\ m >= 1 => a <= Len(txt)
  BY <1>1 DEF StartsAt, Text
<1>3. s \in Text /\ Len(s) = m /\ \A k \in 1 .. m : s[k] = txt[(a - 1) + k]
  BY <1>2, PartIsText
<1> HIDE DEF s, m
<1>4. StartsAt(1, s, dropped)
  <2>1. 1 \in 1 .. Len(s) + 1 /\ 1 .. 1 - 1 = {}
    BY <1>2, <1>3
  <2>2. 1 <= Len(s) => s[1] \notin dropped
    <3>1. SUFFICES ASSUME 1 <= m PROVE s[1] \notin dropped
      BY <1>3
    <3>2. s[1] = txt[a] /\ a <= Len(txt)
      BY <1>2, <1>3, <3>1
    <3>3. QED
      BY <1>1, <3>2 DEF StartsAt
  <2>3. QED
    BY <2>1, <2>2 DEF StartsAt
<1>5. TrimStart(s, dropped) = SubSeq(s, 1, Len(s))
  BY <1>3, <1>4, TrimStartAt
<1>6. SubSeq(s, 1, Len(s)) = s
  BY <1>3, SubSeqFull DEF Text
<1>7. QED
  BY <1>1, <1>5, <1>6 DEF s

(* White space around it does not matter to JSON that begins without a     *)
(* byte order mark, and ends with the text or at a zero.                   *)
JsonAt(txt, i, j, e) ==
  /\ i \in 1 .. Len(txt) /\ j \in 1 .. Len(txt) /\ e \in 1 .. Len(txt) + 1
  /\ i < j /\ txt[i] = OpenBrace /\ txt[j] = CloseBrace
  /\ j < e /\ (e = Len(txt) + 1 \/ txt[e] = 0)
  /\ \A k \in 1 .. e - 1 : k # i /\ k # j => txt[k] \in Blank
IsJson(txt) == \E i, j, e : JsonAt(txt, i, j, e)

(* A byte order mark is seen in its first byte.                            *)
LEMMA MarkIsSeen ==
  ASSUME NEW txt \in Text, HasMark(txt)
  PROVE  1 <= Len(txt) /\ txt[1] = ByteOrderMark[1]
<1>1. ByteOrderMark \in Text /\ Len(ByteOrderMark) = 3 /\ Len(txt) \in Nat
  BY DEF ByteOrderMark, Text, Byte
<1>2. /\ Len(ByteOrderMark) <= Len(txt)
      /\ SubSeq(ByteOrderMark, 1, Len(ByteOrderMark))
           = SubSeq(txt, 1, Len(ByteOrderMark))
  BY DEF HasMark, IsPrefix
<1> HIDE DEF ByteOrderMark
<1>3. /\ 1 \in 1 .. Len(txt) + 1 /\ 3 \in 0 .. Len(txt) /\ 1 <= 3 + 1
      /\ 1 \in 1 .. (3 + 1) - 1 /\ (1 - 1) + 1 = 1 /\ 1 <= Len(txt)
      /\ 1 \in 1 .. 3 + 1 /\ 3 \in 0 .. 3
  BY <1>1, <1>2
<1>4. SubSeq(txt, 1, 3)[1] = txt[1]
  BY <1>3, PartIsText
<1>5. SubSeq(ByteOrderMark, 1, 3)[1] = ByteOrderMark[1]
  BY <1>1, <1>3, PartIsText
<1>6. QED
  BY <1>1, <1>2, <1>3, <1>4, <1>5

(* It is no byte of JSON.                                                  *)
LEMMA MarkIsNoJson ==
  ByteOrderMark[1] \notin Blank /\ ByteOrderMark[1] # OpenBrace
    /\ ByteOrderMark[1] # CloseBrace
BY DEF ByteOrderMark, Blank, OpenBrace, CloseBrace

(* Parsing, by the places of the braces and of the end.                    *)
LEMMA JsonMeans ==
  ASSUME NEW txt \in Text
  PROVE  IsJson(txt) <=> Parses(txt) /\ ~HasMark(txt)
<1>1. DOMAIN txt = 1 .. Len(txt) /\ Len(txt) \in Nat
  BY DEF Text
<1>2. ASSUME Parses(txt), ~HasMark(txt) PROVE IsJson(txt)
  <2>1. FirstParsed(txt) = 1
    BY <1>2 DEF FirstParsed
  <2>2. PICK i \in 1 .. Len(txt), j \in 1 .. Len(txt), e \in 1 .. Len(txt) + 1 :
          /\ i < j /\ txt[i] = OpenBrace /\ txt[j] = CloseBrace
          /\ j < e /\ (e = Len(txt) + 1 \/ txt[e] = 0)
          /\ \A k \in (1 .. e - 1) \ {i, j} : txt[k] \in Blank
    BY <1>1, <1>2, <2>1, Zenon DEF Parses, EndsInput
  <2>3. JsonAt(txt, i, j, e)
    BY <2>2 DEF JsonAt
  <2>4. QED
    BY <2>3, Zenon DEF IsJson
<1>3. ASSUME IsJson(txt) PROVE Parses(txt) /\ ~HasMark(txt)
  <2>1. PICK i, j, e : JsonAt(txt, i, j, e)
    BY <1>3 DEF IsJson
  <2>2. /\ i \in 1 .. Len(txt) /\ j \in 1 .. Len(txt) /\ e \in 1 .. Len(txt) + 1
        /\ i < j /\ txt[i] = OpenBrace /\ txt[j] = CloseBrace
        /\ j < e /\ (e = Len(txt) + 1 \/ txt[e] = 0)
        /\ \A k \in 1 .. e - 1 : k # i /\ k # j => txt[k] \in Blank
    BY <2>1 DEF JsonAt
  <2>3. ~HasMark(txt)
    <3>1. SUFFICES ASSUME HasMark(txt) PROVE FALSE
      OBVIOUS
    <3>2. txt[1] = ByteOrderMark[1]
      BY <3>1, MarkIsSeen
    <3>3. 1 \in 1 .. e - 1
      BY <1>1, <2>2
    <3>4. QED
      BY <2>2, <3>2, <3>3, MarkIsNoJson, Zenon
  <2>4. FirstParsed(txt) = 1
    BY <2>3 DEF FirstParsed
  <2>5. \A k \in (FirstParsed(txt) .. e - 1) \ {i, j} : txt[k] \in Blank
    BY <2>2, <2>4
  <2>6. EndsInput(txt, e)
    BY <2>2 DEF EndsInput
  <2>7. QED
    BY <1>1, <2>2, <2>3, <2>5, <2>6, Zenon DEF Parses
<1>4. QED
  BY <1>2, <1>3

(* JSON stays JSON when the white space around it is trimmed.              *)
LEMMA JsonTrimmed ==
  ASSUME NEW txt \in Text, IsJson(txt)
  PROVE  /\ StartsJson(TrimStart(txt, Blank))
         /\ IsJson(TrimStart(txt, Blank))
         /\ IsJson(TrimEnd(txt, Blank))
<1>1. PICK i, j, e : JsonAt(txt, i, j, e)
  BY DEF IsJson
<1>2. OpenBrace \notin Blank /\ CloseBrace \notin Blank /\ 0 \notin Blank
  BY DEF OpenBrace, CloseBrace, Blank
<1>3. /\ Len(txt) \in Nat /\ i \in 1 .. Len(txt) /\ j \in 1 .. Len(txt) /\ i < j
      /\ e \in 1 .. Len(txt) + 1 /\ j < e /\ (e = Len(txt) + 1 \/ txt[e] = 0)
      /\ txt[i] = OpenBrace /\ txt[j] = CloseBrace
      /\ \A k \in 1 .. e - 1 : k # i /\ k # j => txt[k] \in Blank
  BY <1>1 DEF JsonAt, Text
<1>4. StartsJson(TrimStart(txt, Blank)) /\ IsJson(TrimStart(txt, Blank))
  <2> DEFINE s == SubSeq(txt, i, Len(txt))
             m == (Len(txt) + 1) - i
             b == (j + 1) - i
             f == (e + 1) - i
  <2>1. StartsAt(i, txt, Blank)
    <3>1. ASSUME NEW k \in 1 .. i - 1 PROVE txt[k] \in Blank
      <4>1. k \in 1 .. e - 1 /\ k # i /\ k # j
        BY <1>3
      <4>2. QED
        BY <1>3, <4>1
    <3>2. QED
      BY <1>2, <1>3, <3>1 DEF StartsAt
  <2>2. StartsJson(TrimStart(txt, Blank))
    BY <1>3, <2>1, JsonStart
  <2>3. TrimStart(txt, Blank) = s
    BY <2>1, TrimStartAt
  <2>4. s \in Text /\ Len(s) = m /\ \A k \in 1 .. m : s[k] = txt[(i - 1) + k]
    <3>1. /\ i \in 1 .. Len(txt) + 1 /\ Len(txt) \in 0 .. Len(txt) /\ i <= Len(txt) + 1
      BY <1>3
    <3>2. QED
      BY <3>1, PartIsText
  <2>5. JsonAt(s, 1, b, f)
    <3>1. /\ m \in Nat /\ 1 \in 1 .. m /\ b \in 1 .. m /\ 1 < b /\ f \in 1 .. m + 1 /\ b < f
          /\ (i - 1) + 1 = i /\ (i - 1) + b = j /\ (i - 1) + f = e
          /\ f = m + 1 <=> e = Len(txt) + 1
          /\ f # m + 1 => f \in 1 .. m
      BY <1>3
    <3>2. \A k \in 1 .. f - 1 : k # 1 /\ k # b =>
            /\ k \in 1 .. m
            /\ (i - 1) + k \in 1 .. e - 1 /\ (i - 1) + k # i /\ (i - 1) + k # j
      BY <1>3
    <3> HIDE DEF s, m, b, f
    <3>3. s[1] = OpenBrace /\ s[b] = CloseBrace
      BY <1>3, <2>4, <3>1
    <3>4. \A k \in 1 .. f - 1 : k # 1 /\ k # b => s[k] \in Blank
      BY <1>3, <2>4, <3>2
    <3>5. f = Len(s) + 1 \/ s[f] = 0
      BY <1>3, <2>4, <3>1
    <3>6. QED
      BY <2>4, <3>1, <3>3, <3>4, <3>5 DEF JsonAt
  <2> HIDE DEF s, b, f
  <2>6. IsJson(s)
    BY <2>5, Zenon DEF IsJson
  <2>7. QED
    BY <2>2, <2>3, <2>6
<1>5. IsJson(TrimEnd(txt, Blank))
  <2>1. PICK n : EndsAt(n, txt, Blank) /\ TrimEnd(txt, Blank) = SubSeq(txt, 1, n)
    BY TrimEndIs
  <2>2. n \in 0 .. Len(txt) /\ \A k \in n + 1 .. Len(txt) : txt[k] \in Blank
    BY <2>1 DEF EndsAt
  <2>3. j <= n
    <3>1. SUFFICES ASSUME ~(j <= n) PROVE FALSE
      OBVIOUS
    <3>2. j \in n + 1 .. Len(txt)
      BY <1>3, <2>2, <3>1
    <3>3. QED
      BY <1>2, <1>3, <2>2, <3>2
  <2>4. e = Len(txt) + 1 \/ (e <= n /\ txt[e] = 0)
    <3>1. SUFFICES ASSUME e # Len(txt) + 1, ~(e <= n) PROVE FALSE
      BY <1>3
    <3>2. txt[e] = 0 /\ e \in 1 .. Len(txt) + 1 /\ Len(txt) \in Nat /\ n \in 0 .. Len(txt)
      BY <1>3, <2>2, <3>1, Zenon
    <3>3. e \in n + 1 .. Len(txt)
      BY <3>1, <3>2
    <3>4. txt[e] \in Blank
      BY <2>2, <3>3, Zenon
    <3>5. QED
      BY <1>2, <3>2, <3>4
  <2> DEFINE s == SubSeq(txt, 1, n)
             f == IF e = Len(txt) + 1 THEN n + 1 ELSE e
  <2>5. s \in Text /\ Len(s) = n /\ \A k \in 1 .. n : s[k] = txt[k]
    <3>1. /\ n \in 0 .. Len(txt) /\ 1 \in 1 .. Len(txt) + 1 /\ 1 <= n + 1 /\ (n + 1) - 1 = n
          /\ \A k \in 1 .. n : (1 - 1) + k = k
      BY <1>3, <2>2
    <3>2. QED
      BY <3>1, PartIsText
  <2>6. JsonAt(s, i, j, f)
    <3>1. /\ i \in 1 .. n /\ j \in 1 .. n /\ f \in 1 .. n + 1 /\ j < f
          /\ f = n + 1 \/ (f \in 1 .. n /\ f = e /\ txt[e] = 0)
          /\ \A k \in 1 .. f - 1 : k \in 1 .. n /\ k \in 1 .. e - 1
      <4>1. /\ Len(txt) \in Nat /\ i \in 1 .. Len(txt) /\ j \in 1 .. Len(txt) /\ i < j
            /\ e \in 1 .. Len(txt) + 1 /\ j < e /\ n \in 0 .. Len(txt) /\ j <= n
        BY <1>3, <2>2, <2>3, Zenon
      <4>2. CASE e = Len(txt) + 1
        BY <4>1, <4>2
      <4>3. CASE e # Len(txt) + 1
        <5>1. f = e /\ e <= n /\ txt[e] = 0
          BY <2>4, <4>3
        <5> HIDE DEF f
        <5>2. /\ i \in 1 .. n /\ j \in 1 .. n /\ e \in 1 .. n + 1 /\ e \in 1 .. n
              /\ \A k \in 1 .. e - 1 : k \in 1 .. n
          BY <4>1, <5>1
        <5>3. QED
          BY <4>1, <5>1, <5>2, Zenon
      <4>4. QED
        BY <4>2, <4>3
    <3> HIDE DEF s, f
    <3>2. s[i] = OpenBrace /\ s[j] = CloseBrace
      BY <1>3, <2>5, <3>1
    <3>3. f = Len(s) + 1 \/ s[f] = 0
      BY <2>5, <3>1
    <3>4. \A k \in 1 .. f - 1 : k # i /\ k # j => s[k] \in Blank
      BY <1>3, <2>5, <3>1
    <3>5. QED
      BY <1>3, <2>5, <3>1, <3>2, <3>3, <3>4 DEF JsonAt
  <2> HIDE DEF s, f
  <2>7. IsJson(s)
    BY <2>6, Zenon DEF IsJson
  <2>8. QED
    BY <2>1, <2>7 DEF s
<1>6. QED
  BY <1>4, <1>5

(* What is normalized on its way to the file is read from there the way it *)
(* was read before.                                                        *)
LEMMA NormalizedJson ==
  ASSUME NEW txt \in Text, IsJson(EnvelopeText(txt))
  PROVE  IsJson(EnvelopeText(NormalizeBytes(txt)))
<1> DEFINE s == TrimStart(txt, Blank)
           t == TrimEnd(s, Space)
<1>1. s \in Text /\ t \in Text /\ TrimStart(s, Blank) = s
  BY TrimmedIsText, TrimStartTwice
<1>2. CASE StartsJson(s)
  <2>1. EnvelopeText(txt) = s /\ NormalizeBytes(txt) = s
    BY <1>2, Zenon DEF EnvelopeText, NormalizeBytes
  <2>2. EnvelopeText(s) = s
    <3> HIDE DEF s
    <3>1. QED
      BY <1>1, <1>2, Zenon DEF EnvelopeText
  <2>3. QED
    BY <2>1, <2>2
<1>3. CASE ~StartsJson(s)
  <2> DEFINE P == StrictDecode(t).out
             Q == TrimEnd(P, Blank)
  <2>1. EnvelopeText(txt) = IF StrictDecode(t).state = "error" THEN <<>> ELSE P
    BY <1>3, Zenon DEF EnvelopeText
  <2>2. StrictDecode(t).state # "error" /\ IsJson(P)
    <3>1. ~IsJson(<<>>)
      <4>1. Len(<<>>) = 0
        OBVIOUS
      <4>2. QED
        BY <4>1 DEF IsJson, JsonAt
    <3> HIDE DEF P, t
    <3>2. QED
      BY <2>1, <3>1
  <2>3. NormalizeBytes(txt) = TrimEnd(LenientDecode(t), Blank)
    BY <1>3, Zenon DEF NormalizeBytes
  <2>4. LenientDecode(t) = P
    <3>1. Len(t) \in 0 .. Len(t)
      BY <1>1 DEF Text
    <3> HIDE DEF t
    <3>2. QED
      BY <1>1, <2>2, <3>1, LenientFollowsStrict DEF LenientDecode, StrictDecode
  <2>5. P \in Text
    BY <1>1, DecodedIsText
  <2> HIDE DEF P
  <2>6. Q \in Text /\ IsJson(Q)
    BY <2>2, <2>5, JsonTrimmed, TrimmedIsText
  <2>7. NormalizeBytes(txt) = Q
    BY <2>3, <2>4
  <2> HIDE DEF Q
  <2>8. EnvelopeText(Q) = TrimStart(Q, Blank)
    BY <2>6, JsonTrimmed, Zenon DEF EnvelopeText
  <2>9. QED
    BY <2>6, <2>7, <2>8, JsonTrimmed
<1>4. QED
  BY <1>2, <1>3

-----------------------------------------------------------------------------
(* What the server encodes.                                                *)

(* The alphabet of the encoder is the table of the decoders.               *)
LEMMA AlphabetIs ==
  ASSUME NEW d \in 0 .. 63
  PROVE  /\ Alphabet(d) \in Byte /\ IsDigit(Alphabet(d)) /\ Digit(Alphabet(d)) = d
         /\ Alphabet(d) # 0
<1>1. CASE d < 26
  <2>1. Alphabet(d) = d + 65 /\ d + 65 \in 65 .. 90
    BY <1>1 DEF Alphabet
  <2>2. QED
    BY <2>1 DEF Byte, IsDigit, Digit
<1>2. CASE d >= 26 /\ d < 52
  <2>1. Alphabet(d) = d + 71 /\ d + 71 \in 97 .. 122
    BY <1>2 DEF Alphabet
  <2>2. QED
    BY <2>1 DEF Byte, IsDigit, Digit
<1>3. CASE d >= 52 /\ d < 62
  <2>1. Alphabet(d) = d - 4 /\ d - 4 \in 48 .. 57
    BY <1>3 DEF Alphabet
  <2>2. QED
    BY <2>1 DEF Byte, IsDigit, Digit
<1>4. CASE d = 62
  <2>1. Alphabet(d) = 43
    BY <1>4 DEF Alphabet
  <2>2. QED
    BY <1>4, <2>1 DEF Byte, IsDigit, Digit
<1>5. CASE d = 63
  <2>1. Alphabet(d) = 47
    BY <1>5 DEF Alphabet
  <2>2. QED
    BY <1>5, <2>1 DEF Byte, IsDigit, Digit
<1>6. QED
  BY <1>1, <1>2, <1>3, <1>4, <1>5

(* Three bytes are cut into four digits.                                   *)
Digit1(a) == a \div 4
Digit2(a, b) == (a % 4) * 16 + (b \div 16)
Digit3(b, c) == (b % 16) * 4 + (c \div 64)
Digit4(c) == c % 64

(* Three bytes are cut into four digits.                                   *)
LEMMA DigitsOfGroup ==
  ASSUME NEW a \in Byte, NEW b \in Byte, NEW c \in Byte
  PROVE  /\ Cut(Triple(a, b, c), 0) = Digit1(a)
         /\ Cut(Triple(a, b, c), 1) = Digit2(a, b)
         /\ Cut(Triple(a, b, c), 2) = Digit3(b, c)
         /\ Cut(Triple(a, b, c), 3) = Digit4(c)
<1>1. PICK a1 \in 0 .. 63, a0 \in 0 .. 3 : a = 4 * a1 + a0
  <2>1. a \div 4 \in 0 .. 63 /\ a % 4 \in 0 .. 3 /\ a = 4 * (a \div 4) + (a % 4)
    BY DEF Byte
  <2>2. QED
    BY <2>1
<1>2. PICK b1 \in 0 .. 15, b0 \in 0 .. 15 : b = 16 * b1 + b0
  <2>1. b \div 16 \in 0 .. 15 /\ b % 16 \in 0 .. 15 /\ b = 16 * (b \div 16) + (b % 16)
    BY DEF Byte
  <2>2. QED
    BY <2>1
<1>3. PICK c1 \in 0 .. 3, c0 \in 0 .. 63 : c = 64 * c1 + c0
  <2>1. c \div 64 \in 0 .. 3 /\ c % 64 \in 0 .. 63 /\ c = 64 * (c \div 64) + (c % 64)
    BY DEF Byte
  <2>2. QED
    BY <2>1
<1>4. /\ 64 ^ 3 = 262144 /\ 64 ^ 2 = 4096 /\ 64 ^ 1 = 64 /\ 64 ^ 0 = 1
  BY SMT
<1>5. /\ a \div 4 = a1 /\ a % 4 = a0 /\ b \div 16 = b1 /\ b % 16 = b0
      /\ c \div 64 = c1 /\ c % 64 = c0
  BY <1>1, <1>2, <1>3
<1> DEFINE g == Triple(a, b, c)
<1>6. g = 262144 * a1 + 65536 * a0 + 4096 * b1 + 256 * b0 + 64 * c1 + c0
  BY <1>1, <1>2, <1>3, SMT DEF Triple
<1> HIDE DEF g
<1>7. (g \div 262144) % 64 = a1
  <2>1. g \div 262144 = a1
    BY <1>6, SMT
  <2>2. QED
    BY <2>1, SMT
<1>8. (g \div 4096) % 64 = a0 * 16 + b1
  <2>1. g \div 4096 = 64 * a1 + (a0 * 16 + b1)
    BY <1>6, SMT
  <2>2. QED
    BY <2>1, SMT
<1>9. (g \div 64) % 64 = b0 * 4 + c1
  <2>1. g \div 64 = 64 * (64 * a1 + 16 * a0 + b1) + (b0 * 4 + c1)
    BY <1>6, SMT
  <2>2. QED
    BY <2>1, SMT
<1>10. (g \div 1) % 64 = c0
  <2>1. g \div 1 = 64 * (4096 * a1 + 1024 * a0 + 64 * b1 + 4 * b0 + c1) + c0
    BY <1>6, SMT
  <2>2. QED
    BY <2>1, SMT
<1>11. QED
  BY <1>4, <1>5, <1>7, <1>8, <1>9, <1>10, SMT
     DEF Cut, Digit1, Digit2, Digit3, Digit4, g

(* Each of the four has six bits.                                          *)
LEMMA DigitsAreSmall ==
  ASSUME NEW a \in Byte, NEW b \in Byte, NEW c \in Byte
  PROVE  /\ Digit1(a) \in 0 .. 63 /\ Digit2(a, b) \in 0 .. 63
         /\ Digit3(b, c) \in 0 .. 63 /\ Digit4(c) \in 0 .. 63
<1>1. /\ a \div 4 \in 0 .. 63 /\ a % 4 \in 0 .. 3
      /\ b \div 16 \in 0 .. 15 /\ b % 16 \in 0 .. 15
      /\ c \div 64 \in 0 .. 3 /\ c % 64 \in 0 .. 63
  BY DEF Byte
<1>2. \A x \in 0 .. 3, y \in 0 .. 15 : x * 16 + y \in 0 .. 63 /\ y * 4 + x \in 0 .. 63
  OBVIOUS
<1>3. QED
  BY <1>1, <1>2 DEF Digit1, Digit2, Digit3, Digit4

(* The k-th group of bytes, counted from 0, and the characters for it.     *)
LEMMA CharsOfGroup ==
  ASSUME NEW bytes \in Text, NEW k \in Nat, 3 * k + 1 <= Len(bytes)
  PROVE  LET a == ByteAt(bytes, 3 * k + 1)
             b == ByteAt(bytes, 3 * k + 2)
             c == ByteAt(bytes, 3 * k + 3)
         IN  /\ a \in Byte /\ b \in Byte /\ c \in Byte
             /\ a = bytes[3 * k + 1]
             /\ Char(bytes, 4 * k) = Alphabet(Digit1(a))
             /\ Char(bytes, 4 * k + 1) = Alphabet(Digit2(a, b))
             /\ Char(bytes, 4 * k + 2)
                  = IF 3 * k + 2 <= Len(bytes) THEN Alphabet(Digit3(b, c)) ELSE Pad
             /\ Char(bytes, 4 * k + 3)
                  = IF 3 * k + 3 <= Len(bytes) THEN Alphabet(Digit4(c)) ELSE Pad
<1> DEFINE N == Len(bytes)
           a == ByteAt(bytes, 3 * k + 1)
           b == ByteAt(bytes, 3 * k + 2)
           c == ByteAt(bytes, 3 * k + 3)
           g == Triple(a, b, c)
<1>1. N \in Nat /\ \A i \in 1 .. N : bytes[i] \in Byte
  BY DEF Text
<1>2. \A i \in Nat \ {0} : ByteAt(bytes, i) \in Byte
  <2>1. ASSUME NEW i \in Nat \ {0} PROVE ByteAt(bytes, i) \in Byte
    <3>1. i <= N => i \in 1 .. N
      BY <1>1
    <3>2. 0 \in Byte
      BY DEF Byte
    <3>3. QED
      BY <1>1, <3>1, <3>2 DEF ByteAt
  <2>2. QED
    BY <2>1
<1>3. a \in Byte /\ b \in Byte /\ c \in Byte
  BY <1>2
<1>4. a = bytes[3 * k + 1]
  BY DEF ByteAt
<1>5. Group(bytes, k) = g
  BY Zenon DEF Group
<1>6. /\ (4 * k) \div 4 = k /\ (4 * k) % 4 = 0
      /\ (4 * k + 1) \div 4 = k /\ (4 * k + 1) % 4 = 1
      /\ (4 * k + 2) \div 4 = k /\ (4 * k + 2) % 4 = 2
      /\ (4 * k + 3) \div 4 = k /\ (4 * k + 3) % 4 = 3
  OBVIOUS
<1>7. /\ ~(4 * k >= DigitCount(bytes))
      /\ ~(4 * k + 1 >= DigitCount(bytes))
      /\ 4 * k + 2 >= DigitCount(bytes) <=> ~(3 * k + 2 <= N)
      /\ 4 * k + 3 >= DigitCount(bytes) <=> ~(3 * k + 3 <= N)
  <2>1. 3 * k + 1 <= N
    BY DEF N
  <2>2. QED
    BY <1>1, <2>1 DEF DigitCount, N
<1>8. /\ Cut(g, 0) = Digit1(a) /\ Cut(g, 1) = Digit2(a, b)
      /\ Cut(g, 2) = Digit3(b, c) /\ Cut(g, 3) = Digit4(c)
  <2> HIDE DEF a, b, c
  <2>1. QED
    BY <1>3, DigitsOfGroup
<1> HIDE DEF a, b, c, g, N
<1>10. \A i : Char(bytes, i) =
         IF i >= DigitCount(bytes) THEN Pad
         ELSE Alphabet(Cut(Group(bytes, i \div 4), i % 4))
  BY Zenon DEF Char
<1>11. Char(bytes, 4 * k) = Alphabet(Digit1(a))
  BY <1>5, <1>6, <1>7, <1>8, <1>10, Zenon
<1>12. Char(bytes, 4 * k + 1) = Alphabet(Digit2(a, b))
  BY <1>5, <1>6, <1>7, <1>8, <1>10, Zenon
<1>13. Char(bytes, 4 * k + 2) = IF 3 * k + 2 <= N THEN Alphabet(Digit3(b, c)) ELSE Pad
  BY <1>5, <1>6, <1>7, <1>8, <1>10, Zenon
<1>14. Char(bytes, 4 * k + 3) = IF 3 * k + 3 <= N THEN Alphabet(Digit4(c)) ELSE Pad
  BY <1>5, <1>6, <1>7, <1>8, <1>10, Zenon
<1>15. QED
  BY <1>3, <1>4, <1>11, <1>12, <1>13, <1>14 DEF a, b, c, N

(* What is encoded is a text, in groups of four characters.                *)
LEMMA EncodeIs ==
  ASSUME NEW bytes \in Text
  PROVE  /\ Encode(bytes) \in Text
         /\ Len(Encode(bytes)) = 4 * ((Len(bytes) + 2) \div 3)
         /\ \A i \in 1 .. Len(Encode(bytes)) : Encode(bytes)[i] = Char(bytes, i - 1)
<1> DEFINE L == 4 * ((Len(bytes) + 2) \div 3)
<1>1. Len(bytes) \in Nat
  BY DEF Text
<1>2. L \in Nat
  BY <1>1
<1>3. \A i \in 1 .. L : Char(bytes, i - 1) \in Byte
  <2>1. ASSUME NEW i \in 1 .. L PROVE Char(bytes, i - 1) \in Byte
    <3> DEFINE k == (i - 1) \div 4
    <3>1. /\ k \in Nat /\ 3 * k + 1 <= Len(bytes)
          /\ i - 1 = 4 * k \/ i - 1 = 4 * k + 1 \/ i - 1 = 4 * k + 2 \/ i - 1 = 4 * k + 3
      BY <1>1
    <3>2. Pad \in Byte /\ \A d \in 0 .. 63 : Alphabet(d) \in Byte
      <4>1. Pad \in Byte
        BY DEF Pad, Byte
      <4>2. QED
        BY <4>1, AlphabetIs
    <3> HIDE DEF k
    <3> DEFINE a == ByteAt(bytes, 3 * k + 1)
               b == ByteAt(bytes, 3 * k + 2)
               c == ByteAt(bytes, 3 * k + 3)
    <3>3. a \in Byte /\ b \in Byte /\ c \in Byte
      BY <3>1, CharsOfGroup
    <3>4. /\ Char(bytes, 4 * k) = Alphabet(Digit1(a))
          /\ Char(bytes, 4 * k + 1) = Alphabet(Digit2(a, b))
          /\ Char(bytes, 4 * k + 2) \in {Alphabet(Digit3(b, c)), Pad}
          /\ Char(bytes, 4 * k + 3) \in {Alphabet(Digit4(c)), Pad}
      BY <3>1, CharsOfGroup
    <3> HIDE DEF a, b, c
    <3>5. /\ Digit1(a) \in 0 .. 63 /\ Digit2(a, b) \in 0 .. 63
          /\ Digit3(b, c) \in 0 .. 63 /\ Digit4(c) \in 0 .. 63
      BY <3>3, DigitsAreSmall
    <3>6. QED
      BY <3>1, <3>2, <3>4, <3>5
  <2>2. QED
    BY <2>1
<1>4. Encode(bytes) = [i \in 1 .. L |-> Char(bytes, i - 1)]
  BY Zenon DEF Encode
<1> HIDE DEF L
<1>5. Encode(bytes) \in [1 .. L -> Byte]
  BY <1>3, <1>4
<1>6. Encode(bytes) \in Text /\ Len(Encode(bytes)) = L
  BY <1>2, <1>5 DEF Text
<1>7. \A i \in 1 .. L : Encode(bytes)[i] = Char(bytes, i - 1)
  BY <1>4
<1>8. QED
  BY <1>6, <1>7 DEF L

-----------------------------------------------------------------------------
(* The decoders undo the encoder.                                          *)

(* A value holds its last digit and the one before it.                     *)
SixBits == 0 .. 63

(* Dividing forgets the low bits and no others.                            *)
LEMMA KeptBits ==
  ASSUME NEW w \in Nat, NEW d \in SixBits, NEW v \in Nat, Keeps(v, w, d)
  PROVE  LastDigit(v) = d
<1>1. PICK m \in Int : v = 4096 * m + (64 * (w % 64) + d)
  BY DEF Keeps
<1>2. w % 64 \in Int
  OBVIOUS
<1>3. \A r \in Int : v = 4096 * m + (64 * r + d) => v % 64 = d
  BY SMT DEF SixBits
<1>4. QED
  BY <1>1, <1>2, <1>3, SMT DEF LastDigit

(* The same for two numbers that were collected one after the other.       *)
LEMMA KeptTwo ==
  ASSUME NEW w \in Nat, NEW d \in SixBits, NEW v \in Nat, Keeps(v, w, d),
         NEW p \in SixBits, LastDigit(w) = p
  PROVE  /\ From2(v) = From2(Two(p, d)) /\ From3(v) = From3(Two(p, d))
         /\ From4(v) = From4(Two(p, d))
<1>1. PICK m \in Int : v = 4096 * m + (64 * (w % 64) + d)
  BY DEF Keeps
<1>2. w % 64 = p
  BY DEF LastDigit
<1>3. PICK s \in 0 .. 4095 : s = 64 * p + d
  BY SMT DEF SixBits
<1>4. v = 4096 * m + s
  BY <1>1, <1>2, <1>3, SMT
<1>5. (v \div 16) % 256 = (s \div 16) % 256
  <2>1. v \div 16 = 256 * m + (s \div 16)
    BY <1>4, SMT
  <2>2. s \div 16 \in Int
    OBVIOUS
  <2>3. \A x \in Int : (256 * m + x) % 256 = x % 256
    BY SMT
  <2>4. QED
    BY <2>1, <2>2, <2>3, SMT
<1>6. (v \div 4) % 256 = (s \div 4) % 256
  BY <1>4, SMT
<1>7. v % 256 = s % 256
  BY <1>4, SMT
<1>8. QED
  BY <1>3, <1>5, <1>6, <1>7, SMT DEF From2, From3, From4, Two

(* Four digits give the three bytes back.                                  *)
LEMMA BytesFromDigits ==
  ASSUME NEW a \in Byte, NEW b \in Byte, NEW c \in Byte
  PROVE  /\ From2(Two(Digit1(a), Digit2(a, b))) = a
         /\ From3(Two(Digit2(a, b), Digit3(b, c))) = b
         /\ From4(Two(Digit3(b, c), Digit4(c))) = c
<1>1. PICK a1 \in 0 .. 63, a0 \in 0 .. 3 :
        a = 4 * a1 + a0 /\ a \div 4 = a1 /\ a % 4 = a0
  <2>1. a \div 4 \in 0 .. 63 /\ a % 4 \in 0 .. 3 /\ a = 4 * (a \div 4) + (a % 4)
    BY DEF Byte
  <2>2. QED
    BY <2>1
<1>2. PICK b1 \in 0 .. 15, b0 \in 0 .. 15 :
        b = 16 * b1 + b0 /\ b \div 16 = b1 /\ b % 16 = b0
  <2>1. b \div 16 \in 0 .. 15 /\ b % 16 \in 0 .. 15 /\ b = 16 * (b \div 16) + (b % 16)
    BY DEF Byte
  <2>2. QED
    BY <2>1
<1>3. PICK c1 \in 0 .. 3, c0 \in 0 .. 63 :
        c = 64 * c1 + c0 /\ c \div 64 = c1 /\ c % 64 = c0
  <2>1. c \div 64 \in 0 .. 3 /\ c % 64 \in 0 .. 63 /\ c = 64 * (c \div 64) + (c % 64)
    BY DEF Byte
  <2>2. QED
    BY <2>1
<1>4. /\ Digit1(a) = a1 /\ Digit2(a, b) = a0 * 16 + b1
      /\ Digit3(b, c) = b0 * 4 + c1 /\ Digit4(c) = c0
  BY <1>1, <1>2, <1>3, SMT DEF Digit1, Digit2, Digit3, Digit4
<1>5. ((64 * a1 + (a0 * 16 + b1)) \div 16) % 256 = a
  <2>1. (64 * a1 + (a0 * 16 + b1)) \div 16 = 4 * a1 + a0
    BY SMT
  <2>2. QED
    BY <1>1, <2>1, SMT DEF Byte
<1>6. ((64 * (a0 * 16 + b1) + (b0 * 4 + c1)) \div 4) % 256 = b
  <2>1. (64 * (a0 * 16 + b1) + (b0 * 4 + c1)) \div 4 = 256 * a0 + (16 * b1 + b0)
    BY SMT
  <2>2. QED
    BY <1>2, <2>1, SMT DEF Byte
<1>7. (64 * (b0 * 4 + c1) + c0) % 256 = c
  <2>1. 64 * (b0 * 4 + c1) + c0 = 256 * b0 + (64 * c1 + c0)
    BY SMT
  <2>2. QED
    BY <1>3, <2>1, SMT DEF Byte
<1>8. QED
  BY <1>4, <1>5, <1>6, <1>7, SMT DEF From2, From3, From4, Two

(* A digit that the server wrote, taken.                                   *)
IsTaken(loop, d, is) ==
  /\ loop.val \in Nat /\ is.val \in Nat /\ Keeps(is.val, loop.val, d)
  /\ is \in Loops /\ is.state = loop.state
  /\ loop.bits = NoBits => is.bits = NoBits + 6 /\ is.out = loop.out
  /\ loop.bits = NoBits + 6 =>
       is.bits = NoBits + 4 /\ is.out = Append(loop.out, From2(is.val))
  /\ loop.bits = NoBits + 4 =>
       is.bits = NoBits + 2 /\ is.out = Append(loop.out, From3(is.val))
  /\ loop.bits = NoBits + 2 =>
       is.bits = NoBits /\ is.out = Append(loop.out, From4(is.val))

(* What taking a character of the alphabet does to the loop.               *)
LEMMA AlphabetTaken ==
  ASSUME NEW loop \in Loops, NEW d \in SixBits
  PROVE  IsTaken(loop, d, Take(loop, Alphabet(d)))
<1> SUFFICES ASSUME NEW is, is = Take(loop, Alphabet(d))
             PROVE  IsTaken(loop, d, is)
  OBVIOUS
<1>1. Alphabet(d) \in Byte /\ IsDigit(Alphabet(d)) /\ Digit(Alphabet(d)) = d
  BY AlphabetIs DEF SixBits
<1>2. loop.val \in Nat
  BY DEF Loops
<1>3. d \in 0 .. 64 /\ d < 64
  BY DEF SixBits
<1>4. Collect(loop.val, d) \in Nat /\ Keeps(Collect(loop.val, d), loop.val, d)
  BY <1>2, <1>3, CollectKeeps
<1>5. is.val = Collect(loop.val, d)
  BY <1>1, TakeIs
<1>6. QED
  <2> DEFINE c == Alphabet(d)
  <2>0. /\ Take(loop, c) \in Loops
        /\ Take(loop, c).state = loop.state
        /\ loop.bits = NoBits =>
             Take(loop, c).bits = NoBits + 6 /\ Take(loop, c).out = loop.out
        /\ loop.bits = NoBits + 6 =>
             /\ Take(loop, c).bits = NoBits + 4
             /\ Take(loop, c).out = Append(loop.out, From2(Collect(loop.val, Digit(c))))
        /\ loop.bits = NoBits + 4 =>
             /\ Take(loop, c).bits = NoBits + 2
             /\ Take(loop, c).out = Append(loop.out, From3(Collect(loop.val, Digit(c))))
        /\ loop.bits = NoBits + 2 =>
             /\ Take(loop, c).bits = NoBits
             /\ Take(loop, c).out = Append(loop.out, From4(Collect(loop.val, Digit(c))))
    BY <1>1, TakeIs
  <2>1. is.val \in Nat /\ Keeps(is.val, loop.val, d)
    BY <1>4, <1>5, Zenon
  <2>2. /\ is \in Loops /\ is.state = loop.state
        /\ loop.bits = NoBits => is.bits = NoBits + 6 /\ is.out = loop.out
    BY <1>1, <1>5, <2>0, Zenon
  <2>3. loop.bits = NoBits + 6 =>
          is.bits = NoBits + 4 /\ is.out = Append(loop.out, From2(is.val))
    BY <1>1, <1>5, <2>0, Zenon
  <2>4. loop.bits = NoBits + 4 =>
          is.bits = NoBits + 2 /\ is.out = Append(loop.out, From3(is.val))
    BY <1>1, <1>5, <2>0, Zenon
  <2>5. loop.bits = NoBits + 2 =>
          is.bits = NoBits /\ is.out = Append(loop.out, From4(is.val))
    BY <1>1, <1>5, <2>0, Zenon
  <2>6. QED
    BY <1>2, <2>1, <2>2, <2>3, <2>4, <2>5, Zenon DEF IsTaken

(* A loop that has taken the four digits of a group has its bytes.         *)
TakesGroup(loop, a, b, c, t1, t2, t3, t4) ==
  /\ t1 = Take(loop, Alphabet(Digit1(a))) /\ t2 = Take(t1, Alphabet(Digit2(a, b)))
  /\ t3 = Take(t2, Alphabet(Digit3(b, c))) /\ t4 = Take(t3, Alphabet(Digit4(c)))
HasGroup(loop, a, b, c, t1, t2, t3, t4) ==
  /\ t1 \in Loops /\ t1.state = loop.state
  /\ t2 \in Loops /\ t2.state = loop.state /\ t2.out = Append(loop.out, a)
  /\ t3 \in Loops /\ t3.state = loop.state /\ t3.out = Append(t2.out, b)
  /\ t4 \in Loops /\ t4.state = loop.state /\ t4.out = Append(t3.out, c)
  /\ t4.bits = NoBits

(* And what taking the four of a group does.                               *)
LEMMA GroupTaken ==
  ASSUME NEW loop \in Loops, loop.bits = NoBits,
         NEW a \in Byte, NEW b \in Byte, NEW c \in Byte,
         NEW t1, NEW t2, NEW t3, NEW t4, TakesGroup(loop, a, b, c, t1, t2, t3, t4)
  PROVE  HasGroup(loop, a, b, c, t1, t2, t3, t4)
<1> DEFINE d1 == Digit1(a)
           d2 == Digit2(a, b)
           d3 == Digit3(b, c)
           d4 == Digit4(c)
<1>1. d1 \in SixBits /\ d2 \in SixBits /\ d3 \in SixBits /\ d4 \in SixBits
  BY DigitsAreSmall DEF SixBits
<1>2. /\ From2(Two(d1, d2)) = a
      /\ From3(Two(d2, d3)) = b
      /\ From4(Two(d3, d4)) = c
  BY BytesFromDigits
<1>3. /\ t1 = Take(loop, Alphabet(d1)) /\ t2 = Take(t1, Alphabet(d2))
      /\ t3 = Take(t2, Alphabet(d3)) /\ t4 = Take(t3, Alphabet(d4))
  BY Zenon DEF TakesGroup
<1> HIDE DEF d1, d2, d3, d4
<1>4. /\ t1 \in Loops /\ t1.state = loop.state /\ t1.val \in Nat /\ LastDigit(t1.val) = d1
      /\ t1.bits = NoBits + 6 /\ t1.out = loop.out
  <2>1. /\ t1 \in Loops /\ t1.state = loop.state
        /\ t1.bits = NoBits + 6 /\ t1.out = loop.out
        /\ loop.val \in Nat /\ t1.val \in Nat /\ Keeps(t1.val, loop.val, d1)
    <3>1. IsTaken(loop, d1, t1)
      BY <1>1, <1>3, AlphabetTaken
    <3>2. QED
      BY <3>1 DEF IsTaken
  <2>2. LastDigit(t1.val) = d1
    BY <1>1, <2>1, KeptBits, KeptTwo
  <2>3. QED
    BY <2>1, <2>2
<1>5. /\ t2 \in Loops /\ t2.state = loop.state /\ t2.val \in Nat /\ LastDigit(t2.val) = d2
      /\ t2.bits = NoBits + 4 /\ t2.out = Append(loop.out, a)
  <2>1. /\ t2 \in Loops /\ t2.state = t1.state
        /\ t2.bits = NoBits + 4 /\ t2.out = Append(t1.out, From2(t2.val))
        /\ t2.val \in Nat /\ Keeps(t2.val, t1.val, d2)
    <3>1. IsTaken(t1, d2, t2)
      BY <1>1, <1>3, <1>4, AlphabetTaken
    <3>2. QED
      BY <1>4, <3>1 DEF IsTaken
  <2>2. LastDigit(t2.val) = d2 /\ From2(t2.val) = From2(Two(d1, d2))
    BY <1>1, <1>4, <2>1, KeptBits, KeptTwo
  <2>3. QED
    BY <1>2, <1>4, <2>1, <2>2, Zenon
<1>6. /\ t3 \in Loops /\ t3.state = loop.state /\ t3.val \in Nat /\ LastDigit(t3.val) = d3
      /\ t3.bits = NoBits + 2 /\ t3.out = Append(t2.out, b)
  <2>1. /\ t3 \in Loops /\ t3.state = t2.state
        /\ t3.bits = NoBits + 2 /\ t3.out = Append(t2.out, From3(t3.val))
        /\ t3.val \in Nat /\ Keeps(t3.val, t2.val, d3)
    <3>1. IsTaken(t2, d3, t3)
      BY <1>1, <1>3, <1>5, AlphabetTaken
    <3>2. QED
      BY <1>5, <3>1 DEF IsTaken
  <2>2. LastDigit(t3.val) = d3 /\ From3(t3.val) = From3(Two(d2, d3))
    BY <1>1, <1>5, <2>1, KeptBits, KeptTwo
  <2>3. QED
    BY <1>2, <1>5, <2>1, <2>2, Zenon
<1>7. /\ t4 \in Loops /\ t4.state = loop.state
      /\ t4.bits = NoBits /\ t4.out = Append(t3.out, c)
  <2>1. /\ t4 \in Loops /\ t4.state = t3.state
        /\ t4.bits = NoBits /\ t4.out = Append(t3.out, From4(t4.val))
        /\ t4.val \in Nat /\ Keeps(t4.val, t3.val, d4)
    <3>1. IsTaken(t3, d4, t4)
      BY <1>1, <1>3, <1>6, AlphabetTaken
    <3>2. QED
      BY <1>6, <3>1 DEF IsTaken
  <2>2. From4(t4.val) = From4(Two(d3, d4))
    BY <1>1, <1>6, <2>1, KeptBits, KeptTwo
  <2>3. QED
    BY <1>2, <1>6, <2>1, <2>2, Zenon
<1>8. QED
  BY <1>4, <1>5, <1>6, <1>7 DEF HasGroup

(* What the two decoders have in common.                                   *)
ReadsFrom(was, c, is) ==
  /\ was \in Loops /\ is \in Loops
  /\ was.state # "reading" => is = was
  /\ was.state = "reading" /\ c = Pad => is.state = "done" /\ is.out = was.out
  /\ was.state = "reading" /\ IsDigit(c) => is = Take(was, c)
IsReader(run, txt) ==
  /\ run[0] = Start
  /\ \A n \in 1 .. Len(txt) : ReadsFrom(run[n - 1], txt[n], run[n])

(* Both decoders read digits and stop at padding.                          *)
LEMMA BothRead ==
  ASSUME NEW txt \in Text
  PROVE  IsReader(StrictRun(txt), txt) /\ IsReader(LenientRun(txt), txt)
<1>1. \A lp \in Loops : /\ [lp EXCEPT !.state = "done"].state = "done"
                        /\ [lp EXCEPT !.state = "done"].out = lp.out
  BY DEF Loops
<1>2. StrictRun(txt)[0] = Start /\ LenientRun(txt)[0] = Start
  BY StrictRunIs, LenientRunIs
<1>3. ASSUME NEW n \in 1 .. Len(txt)
      PROVE  /\ ReadsFrom(StrictRun(txt)[n - 1], txt[n], StrictRun(txt)[n])
             /\ ReadsFrom(LenientRun(txt)[n - 1], txt[n], LenientRun(txt)[n])
  <2>1. ReadsFrom(StrictRun(txt)[n - 1], txt[n], StrictRun(txt)[n])
    <3> DEFINE was == StrictRun(txt)[n - 1]
               is == StrictRun(txt)[n]
    <3>1. /\ was \in Loops /\ is \in Loops
          /\ was.state # "reading" => is = was
          /\ was.state = "reading" /\ txt[n] = Pad => is = [was EXCEPT !.state = "done"]
          /\ was.state = "reading" /\ IsDigit(txt[n]) => is = Take(was, txt[n])
      BY StrictReads, Zenon
    <3> HIDE DEF was, is
    <3>2. QED
      BY <1>1, <3>1, Zenon DEF ReadsFrom, was, is
  <2>2. ReadsFrom(LenientRun(txt)[n - 1], txt[n], LenientRun(txt)[n])
    <3> DEFINE was == LenientRun(txt)[n - 1]
               is == LenientRun(txt)[n]
    <3>1. /\ was \in Loops /\ is \in Loops
          /\ was.state # "reading" => is = was
          /\ was.state = "reading" /\ txt[n] = Pad => is = [was EXCEPT !.state = "done"]
          /\ was.state = "reading" /\ IsDigit(txt[n]) => is = Take(was, txt[n])
      BY LenientReads, Zenon
    <3> HIDE DEF was, is
    <3>2. QED
      BY <1>1, <3>1, Zenon DEF ReadsFrom, was, is
  <2>3. QED
    BY <2>1, <2>2
<1>4. QED
  BY <1>2, <1>3 DEF IsReader

(* The text read so far grows by one byte.                                 *)
LEMMA AppendNext ==
  ASSUME NEW s \in Text, NEW n \in 1 .. Len(s)
  PROVE  Append(SubSeq(s, 1, n - 1), s[n]) = SubSeq(s, 1, n)
<1>1. Len(s) \in Nat /\ 1 \in 1 .. Len(s) /\ n \in 1 .. Len(s) /\ s[n] \in Byte
  BY DEF Text
<1>2. SubSeq(s, 1, n) = SubSeq(s, 1, n - 1) \o <<s[n]>>
  BY <1>1, SubSeqRecursiveSecond DEF Text
<1>3. SubSeq(s, 1, n - 1) \in Seq(Byte)
  <2>1. 1 \in 1 .. Len(s) + 1 /\ n - 1 \in 0 .. Len(s) /\ 1 <= (n - 1) + 1
    BY <1>1
  <2>2. QED
    BY <2>1, PartIsText DEF Text
<1>4. QED
  BY <1>1, <1>2, <1>3, AppendIsConcat

(* The decoder before the k-th group.                                      *)
IsAtGroup(lp, bytes, k) ==
  /\ lp \in Loops /\ lp.state = "reading" /\ lp.bits = NoBits
  /\ lp.out = SubSeq(bytes, 1, 3 * k)
IsDecoded(lp, bytes) == lp \in Loops /\ lp.state # "error" /\ lp.out = bytes

(* One group more is read.                                                 *)
LEMMA GroupIsRead ==
  ASSUME NEW bytes \in Text, NEW run, IsReader(run, Encode(bytes)),
         NEW k \in Nat, 3 * k + 1 <= Len(bytes), IsAtGroup(run[4 * k], bytes, k)
  PROVE  /\ 3 * k + 3 <= Len(bytes) => IsAtGroup(run[4 * (k + 1)], bytes, k + 1)
         /\ ~(3 * k + 3 <= Len(bytes)) => IsDecoded(run[4 * (k + 1)], bytes)
<1> DEFINE N == Len(bytes)
           txt == Encode(bytes)
           a == ByteAt(bytes, 3 * k + 1)
           b == ByteAt(bytes, 3 * k + 2)
           c == ByteAt(bytes, 3 * k + 3)
           l0 == run[4 * k]
           l1 == run[4 * k + 1]
           l2 == run[4 * k + 2]
           l3 == run[4 * k + 3]
           l4 == run[4 * k + 4]
           c1 == Alphabet(Digit1(a))
           c2 == Alphabet(Digit2(a, b))
           c3 == Alphabet(Digit3(b, c))
           c4 == Alphabet(Digit4(c))
           T1 == Take(l0, c1)
           T2 == Take(T1, c2)
           T3 == Take(T2, c3)
           T4 == Take(T3, c4)
<1>1. N \in Nat /\ 3 * k + 1 <= N /\ Len(txt) = 4 * ((N + 2) \div 3)
  BY EncodeIs DEF Text
<1>2. /\ 4 * k + 1 \in 1 .. Len(txt) /\ (4 * k + 1) - 1 = 4 * k
      /\ 4 * k + 2 \in 1 .. Len(txt) /\ (4 * k + 2) - 1 = 4 * k + 1
      /\ 4 * k + 3 \in 1 .. Len(txt) /\ (4 * k + 3) - 1 = 4 * k + 2
      /\ 4 * k + 4 \in 1 .. Len(txt) /\ (4 * k + 4) - 1 = 4 * k + 3
  <2> HIDE DEF N, txt
  <2>1. QED
    BY <1>1
<1>3. /\ txt[4 * k + 1] = Char(bytes, 4 * k) /\ txt[4 * k + 2] = Char(bytes, 4 * k + 1)
      /\ txt[4 * k + 3] = Char(bytes, 4 * k + 2) /\ txt[4 * k + 4] = Char(bytes, 4 * k + 3)
  BY <1>2, EncodeIs
<1>4. /\ a \in Byte /\ b \in Byte /\ c \in Byte /\ a = bytes[3 * k + 1]
      /\ txt[4 * k + 1] = c1 /\ txt[4 * k + 2] = c2
      /\ 3 * k + 2 <= N => txt[4 * k + 3] = c3
      /\ ~(3 * k + 2 <= N) => txt[4 * k + 3] = Pad
      /\ 3 * k + 3 <= N => txt[4 * k + 4] = c4
      /\ ~(3 * k + 3 <= N) => txt[4 * k + 4] = Pad
  BY <1>3, CharsOfGroup
<1>5. IsDigit(c1) /\ IsDigit(c2) /\ IsDigit(c3) /\ IsDigit(c4)
  <2> HIDE DEF a, b, c
  <2>1. /\ Digit1(a) \in 0 .. 63 /\ Digit2(a, b) \in 0 .. 63
        /\ Digit3(b, c) \in 0 .. 63 /\ Digit4(c) \in 0 .. 63
    BY <1>4, DigitsAreSmall
  <2>2. QED
    BY <2>1, AlphabetIs
<1>6. /\ 3 * k + 2 <= N => b = bytes[3 * k + 2]
      /\ 3 * k + 3 <= N => c = bytes[3 * k + 3]
  BY DEF ByteAt
<1>7. /\ ReadsFrom(l0, txt[4 * k + 1], l1) /\ ReadsFrom(l1, txt[4 * k + 2], l2)
      /\ ReadsFrom(l2, txt[4 * k + 3], l3) /\ ReadsFrom(l3, txt[4 * k + 4], l4)
  <2> DEFINE at(n) == ReadsFrom(run[n - 1], txt[n], run[n])
  <2>1. \A n \in 1 .. Len(txt) : at(n)
    BY DEF IsReader
  <2> HIDE DEF at
  <2>2. at(4 * k + 1) /\ at(4 * k + 2) /\ at(4 * k + 3) /\ at(4 * k + 4)
    BY <1>2, <2>1
  <2>3. QED
    BY <1>2, <2>2, Zenon DEF at
<1>8. IsAtGroup(l0, bytes, k)
  OBVIOUS
<1>9. /\ T1 \in Loops /\ T1.state = "reading"
      /\ T2 \in Loops /\ T2.state = "reading" /\ T2.out = Append(l0.out, a)
      /\ T3 \in Loops /\ T3.state = "reading" /\ T3.out = Append(T2.out, b)
      /\ T4 \in Loops /\ T4.state = "reading" /\ T4.out = Append(T3.out, c)
      /\ T4.bits = NoBits
  <2>1. l0 \in Loops /\ l0.bits = NoBits /\ l0.state = "reading"
    BY <1>8 DEF IsAtGroup
  <2>2. TakesGroup(l0, a, b, c, T1, T2, T3, T4)
    BY Zenon DEF TakesGroup
  <2> HIDE DEF l0, a, b, c, T1, T2, T3, T4
  <2>3. HasGroup(l0, a, b, c, T1, T2, T3, T4)
    BY <1>4, <2>1, <2>2, GroupTaken
  <2>4. QED
    BY <2>1, <2>3, Zenon DEF HasGroup
<1>10. /\ 4 * (k + 1) = 4 * k + 4 /\ 3 * (k + 1) = 3 * k + 3
       /\ (3 * k + 1) - 1 = 3 * k /\ 3 * k + 1 \in 1 .. N
       /\ (3 * k + 2) - 1 = 3 * k + 1 /\ (3 * k + 3) - 1 = 3 * k + 2
       /\ 3 * k + 2 <= N => 3 * k + 2 \in 1 .. N
       /\ 3 * k + 3 <= N => 3 * k + 3 \in 1 .. N /\ 3 * k + 2 <= N
       /\ ~(3 * k + 2 <= N) => N = 3 * k + 1 /\ ~(3 * k + 3 <= N)
       /\ ~(3 * k + 3 <= N) /\ 3 * k + 2 <= N => N = 3 * k + 2
  <2> HIDE DEF N
  <2>1. QED
    BY <1>1
<1>11. /\ T2.out = SubSeq(bytes, 1, 3 * k + 1)
       /\ 3 * k + 2 <= N => T3.out = SubSeq(bytes, 1, 3 * k + 2)
       /\ 3 * k + 3 <= N => T4.out = SubSeq(bytes, 1, 3 * k + 3)
  <2> HIDE DEF a, b, c, T2, T3, T4, N
  <2>1. l0.out = SubSeq(bytes, 1, 3 * k)
    BY <1>8 DEF IsAtGroup
  <2> HIDE DEF l0
  <2>2. \A n \in 1 .. N : Append(SubSeq(bytes, 1, n - 1), bytes[n]) = SubSeq(bytes, 1, n)
    BY AppendNext DEF N
  <2>3. T2.out = SubSeq(bytes, 1, 3 * k + 1)
    BY <1>4, <1>9, <1>10, <2>1, <2>2, Zenon
  <2>4. 3 * k + 2 <= N => T3.out = SubSeq(bytes, 1, 3 * k + 2)
    BY <1>6, <1>9, <1>10, <2>2, <2>3, Zenon
  <2>5. 3 * k + 3 <= N => T4.out = SubSeq(bytes, 1, 3 * k + 3)
    BY <1>6, <1>9, <1>10, <2>2, <2>4, Zenon
  <2>6. QED
    BY <2>3, <2>4, <2>5
<1>12. SubSeq(bytes, 1, N) = bytes
  BY SubSeqFull DEF Text
<1> HIDE DEF N, txt, a, b, c, c1, c2, c3, c4, l0, l1, l2, l3, l4
<1>13. l1 = T1
  BY <1>4, <1>5, <1>7, <1>8, Zenon DEF ReadsFrom, IsAtGroup
<1>14. l2 = T2
  BY <1>4, <1>5, <1>7, <1>9, <1>13, Zenon DEF ReadsFrom
<1> HIDE DEF T1, T2
<1>15. CASE ~(3 * k + 2 <= N)
  <2>1. l3.state = "done" /\ l3.out = l2.out /\ l3 \in Loops
    BY <1>4, <1>7, <1>9, <1>14, <1>15, Zenon DEF ReadsFrom
  <2>2. l4 = l3
    BY <1>7, <2>1 DEF ReadsFrom
  <2>3. IsDecoded(l4, bytes)
    BY <1>10, <1>11, <1>12, <1>14, <1>15, <2>1, <2>2 DEF IsDecoded
  <2>4. QED
    BY <1>10, <1>15, <2>3 DEF l4, N
<1>16. CASE 3 * k + 2 <= N
  <2>1. l3 = T3
    BY <1>4, <1>5, <1>7, <1>9, <1>14, <1>16, Zenon DEF ReadsFrom
  <2> HIDE DEF T3
  <2>2. CASE ~(3 * k + 3 <= N)
    <3>1. l4.state = "done" /\ l4.out = l3.out /\ l4 \in Loops
      BY <1>4, <1>7, <1>9, <2>1, <2>2, Zenon DEF ReadsFrom
    <3>2. IsDecoded(l4, bytes)
      BY <1>10, <1>11, <1>12, <1>16, <2>1, <2>2, <3>1 DEF IsDecoded
    <3>3. QED
      BY <1>10, <2>2, <3>2 DEF l4, N
  <2>3. CASE 3 * k + 3 <= N
    <3>1. l4 = T4
      BY <1>4, <1>5, <1>7, <1>9, <2>1, <2>3, Zenon DEF ReadsFrom
    <3> HIDE DEF T4
    <3>2. IsAtGroup(l4, bytes, k + 1)
      BY <1>9, <1>10, <1>11, <2>3, <3>1, Zenon DEF IsAtGroup
    <3>3. QED
      BY <1>10, <2>3, <3>2 DEF l4, N
  <2>4. QED
    BY <2>2, <2>3
<1>17. QED
  BY <1>15, <1>16

(* Any such decoder gives back what was encoded.                           *)
LEMMA DecodesEncoded ==
  ASSUME NEW bytes \in Text, NEW run, IsReader(run, Encode(bytes))
  PROVE  IsDecoded(run[Len(Encode(bytes))], bytes)
<1> DEFINE N == Len(bytes)
           K == N \div 3
           S == {k \in 0 .. K : IsAtGroup(run[4 * k], bytes, k)}
<1>1. /\ N \in Nat /\ K \in Nat /\ 3 * K <= N /\ N < 3 * (K + 1)
      /\ Len(Encode(bytes)) = 4 * ((N + 2) \div 3)
  <2>1. N \in Nat /\ Len(Encode(bytes)) = 4 * ((N + 2) \div 3)
    BY EncodeIs DEF Text
  <2> HIDE DEF N
  <2>2. QED
    BY <2>1
<1>2. 0 \in S
  <2>1. Start \in Loops /\ Start.state = "reading" /\ Start.bits = NoBits /\ Start.out = <<>>
    BY StartIsLoop DEF Start, NoBits
  <2>2. SubSeq(bytes, 1, 0) = <<>>
    BY DEF Text
  <2>3. 4 * 0 = 0 /\ 3 * 0 = 0 /\ 0 \in 0 .. K
    BY <1>1
  <2>4. run[0] = Start
    BY DEF IsReader
  <2>5. QED
    BY <2>1, <2>2, <2>3, <2>4 DEF IsAtGroup
<1>3. ASSUME NEW k \in 1 .. K, k - 1 \in S PROVE k \in S
  <2>1. /\ k - 1 \in Nat /\ 3 * (k - 1) + 1 <= N /\ 3 * (k - 1) + 3 <= N
        /\ (k - 1) + 1 = k /\ k \in 0 .. K
    <3> HIDE DEF K, N
    <3>1. QED
      BY <1>1
  <2>2. IsAtGroup(run[4 * (k - 1)], bytes, k - 1)
    BY <1>3
  <2>3. IsAtGroup(run[4 * ((k - 1) + 1)], bytes, (k - 1) + 1)
    BY <2>1, <2>2, GroupIsRead
  <2>4. QED
    BY <2>1, <2>3
<1>4. IsAtGroup(run[4 * K], bytes, K)
  <2>1. \A k \in 0 .. K : k \in S
    <3> HIDE DEF S, K
    <3>1. QED
      BY <1>1, <1>2, <1>3, InductionUpTo
  <2>2. K \in 0 .. K
    BY <1>1
  <2>3. QED
    BY <2>1, <2>2
<1>5. CASE N = 3 * K
  <2>1. Len(Encode(bytes)) = 4 * K
    <3> HIDE DEF K, N
    <3>1. QED
      BY <1>1, <1>5
  <2>2. SubSeq(bytes, 1, 3 * K) = bytes
    BY <1>5, SubSeqFull DEF Text
  <2> HIDE DEF K
  <2>3. QED
    BY <1>4, <2>1, <2>2 DEF IsAtGroup, IsDecoded
<1>6. CASE N # 3 * K
  <2>1. /\ 3 * K + 1 <= N /\ ~(3 * K + 3 <= N)
        /\ Len(Encode(bytes)) = 4 * (K + 1)
    <3> HIDE DEF K, N
    <3>1. QED
      BY <1>1, <1>6
  <2> HIDE DEF K
  <2>2. IsDecoded(run[4 * (K + 1)], bytes)
    BY <1>1, <1>4, <2>1, GroupIsRead
  <2>3. QED
    BY <2>1, <2>2
<1>7. QED
  BY <1>5, <1>6

(* And so do both decoders of the SDK (client.cpp 243-258, 432-449).       *)
LEMMA DecodersUndoTheEncoder ==
  ASSUME NEW bytes \in Text
  PROVE  /\ StrictDecode(Encode(bytes)).state # "error"
         /\ StrictDecode(Encode(bytes)).out = bytes
         /\ LenientDecode(Encode(bytes)) = bytes
<1>1. Encode(bytes) \in Text
  BY EncodeIs
<1>2. /\ IsReader(StrictRun(Encode(bytes)), Encode(bytes))
      /\ IsReader(LenientRun(Encode(bytes)), Encode(bytes))
  BY <1>1, BothRead
<1>3. /\ IsDecoded(StrictRun(Encode(bytes))[Len(Encode(bytes))], bytes)
      /\ IsDecoded(LenientRun(Encode(bytes))[Len(Encode(bytes))], bytes)
  BY <1>2, DecodesEncoded
<1>4. QED
  BY <1>3 DEF IsDecoded, StrictDecode, LenientDecode

-----------------------------------------------------------------------------
(* The inductive invariants.                                               *)

BTypes ==
  /\ text \in Text /\ raw \in Text /\ file \in Text
  /\ step \in {"sent", "received", "accepted", "refused"}
  /\ edits \in 0 .. MaxEdits /\ layers \in 0 .. MaxLayers
  /\ source \in {"server", "package"}
  /\ layoutOnly \in BOOLEAN /\ accepted \in BOOLEAN

(* What was accepted lies in the file, is read from nowhere else, and is   *)
(* not refused when it is JSON that begins without a byte order mark.      *)
KeptAsAccepted ==
  /\ step = "accepted" => accepted
  /\ accepted =>
       /\ step # "sent" /\ Parses(EnvelopeText(file))
       /\ step = "received" => raw = file
       /\ step = "refused" => ~IsJson(EnvelopeText(file))

(* JSON without a byte order mark, and without a zero that ends it: what   *)
(* the server encodes.                                                     *)
Encoded == Wrapped(Json)
BareAt(txt, i, j) ==
  /\ i \in 1 .. Len(txt) /\ j \in 1 .. Len(txt)
  /\ i < j /\ txt[i] = OpenBrace /\ txt[j] = CloseBrace
  /\ \A k \in 1 .. Len(txt) : k # i /\ k # j => txt[k] \in Blank
BareJson(txt) == \E i, j : BareAt(txt, i, j)

(* A text that only the layout of was changed: JSON that parses still, or  *)
(* characters every decoder knows that decode to what was encoded.         *)
Readable(txt) == \A i \in 1 .. Len(txt) : IsDigit(txt[i]) \/ txt[i] \in {10, 13, 32, Pad}
Carries(txt, m) ==
  IF m = 0 THEN BareJson(txt)
  ELSE Readable(txt) /\ StrictDecode(txt).out = Encoded[m - 1]
SameLicense == layoutOnly => Carries(text, layers)

(* How many layers each way in takes.                                      *)
FewLayers == IF source = "package" THEN layers <= 2 ELSE layers \in 1 .. 3
Arrived ==
  IF source = "package" THEN raw = text
  ELSE layers >= 1 /\ raw = Encoded[layers - 1]
LayersCounted ==
  layoutOnly =>
    /\ step = "received" /\ ~accepted => Arrived
    /\ step = "refused" => ~FewLayers
    /\ accepted => FewLayers /\ IsJson(EnvelopeText(file))

(* The encodings are what their recursive definition says.                 *)
LEMMA WrappedIs ==
  ASSUME NEW json \in Text
  PROVE  /\ \A n \in 0 .. MaxLayers : Wrapped(json)[n] \in Text
         /\ Wrapped(json)[0] = json
         /\ \A n \in 1 .. MaxLayers : Wrapped(json)[n] = Encode(Wrapped(json)[n - 1])
<1> DEFINE N == MaxLayers
           advance == [p \in (1 .. N) \X Text |-> Encode(p[2])]
           Is(f) == f = [n \in 0 .. MaxLayers |->
                           IF n = 0 THEN json ELSE Encode(f[n - 1])]
<1>1. N \in Nat
  BY BytesAssumption
<1>2. json \in Text
  OBVIOUS
<1>3. IsStep(N, Text, advance)
  <2>1. ASSUME NEW p \in (1 .. N) \X Text PROVE Encode(p[2]) \in Text
    <3>1. p[2] \in Text
      OBVIOUS
    <3>2. QED
      BY <3>1, EncodeIs
  <2>2. QED
    BY <2>1, Zenon DEF IsStep
<1>4. PICK f \in [0 .. N -> Text] :
        f[0] = json /\ \A n \in 1 .. N : f[n] = advance[<<n, f[n - 1]>>]
  <2> HIDE DEF N, advance
  <2>1. PICK f : IsDefinedBy(f, N, Text, json, advance)
    BY <1>1, <1>2, <1>3, RecursionDefines
  <2>2. QED
    BY <2>1 DEF IsDefinedBy
<1>5. \A n \in 1 .. N : f[n] = Encode(f[n - 1])
  <2>1. ASSUME NEW n \in 1 .. N PROVE f[n] = Encode(f[n - 1])
    <3>1. n - 1 \in 0 .. N
      BY <1>1
    <3>2. <<n, f[n - 1]>> \in (1 .. N) \X Text
      BY <3>1
    <3>3. QED
      BY <1>4, <3>2
  <2>2. QED
    BY <2>1
<1>6. Is(f)
  <2>1. f = [n \in 0 .. N |-> f[n]]
    OBVIOUS
  <2>2. ASSUME NEW n \in 0 .. N PROVE f[n] = IF n = 0 THEN json ELSE Encode(f[n - 1])
    <3>1. n = 0 \/ n \in 1 .. N
      BY <1>1
    <3>2. QED
      BY <1>4, <1>5, <3>1
  <2>3. QED
    BY <2>1, <2>2, Zenon
<1>7. Wrapped(json) = CHOOSE g : Is(g)
  BY Zenon DEF Wrapped
<1>8. Is(Wrapped(json))
  <2> HIDE DEF Is
  <2>1. QED
    BY <1>6, <1>7, Zenon
<1>9. Wrapped(json)[0] = json /\ \A n \in 1 .. N : Wrapped(json)[n] = Encode(Wrapped(json)[n - 1])
  <2>1. 0 \in 0 .. N /\ \A n \in 1 .. N : n \in 0 .. N /\ n # 0
    BY <1>1
  <2>2. \A n \in 0 .. N : Wrapped(json)[n] = IF n = 0 THEN json ELSE Encode(Wrapped(json)[n - 1])
    BY <1>8, Zenon
  <2>3. QED
    BY <2>1, <2>2, Zenon
<1>10. \A n \in 0 .. N : Wrapped(json)[n] \in Text
  <2> DEFINE S == {n \in 0 .. N : Wrapped(json)[n] \in Text}
  <2>1. 0 \in S
    BY <1>1, <1>2, <1>9
  <2>2. ASSUME NEW n \in 1 .. N, n - 1 \in S PROVE n \in S
    <3>1. n \in 0 .. N
      BY <1>1
    <3>2. Wrapped(json)[n - 1] \in Text /\ Wrapped(json)[n] = Encode(Wrapped(json)[n - 1])
      BY <1>9, <2>2
    <3>3. QED
      BY <3>1, <3>2, EncodeIs
  <2> HIDE DEF S
  <2>3. \A n \in 0 .. N : n \in S
    BY <1>1, <2>1, <2>2, InductionUpTo
  <2>4. QED
    BY <2>3 DEF S
<1>11. QED
  BY <1>9, <1>10

LEMMA EncodedIs ==
  /\ \A n \in 0 .. MaxLayers : Encoded[n] \in Text
  /\ Encoded[0] = Json
  /\ \A n \in 1 .. MaxLayers : Encoded[n] = Encode(Encoded[n - 1])
<1>1. Json \in Text
  BY DEF Json, Text, Byte, OpenBrace, CloseBrace
<1>2. QED
  BY <1>1, WrappedIs DEF Encoded

(* A text with one character more, and with one less.                      *)
LEMMA InsertedIs ==
  ASSUME NEW txt \in Text, NEW i \in 1 .. Len(txt) + 1, NEW c \in Byte
  PROVE  LET s == InsertAt(txt, i, c)
         IN  /\ s \in Text /\ Len(s) = Len(txt) + 1
             /\ \A k \in 1 .. i - 1 : s[k] = txt[k]
             /\ s[i] = c
             /\ \A k \in i .. Len(txt) : s[k + 1] = txt[k]
<1> DEFINE head == SubSeq(txt, 1, i - 1)
           tail == SubSeq(txt, i, Len(txt))
           N == Len(txt)
<1>1. N \in Nat /\ 1 \in 1 .. N + 1 /\ i - 1 \in 0 .. N /\ 1 <= (i - 1) + 1
      /\ N \in 0 .. N /\ i <= N + 1
  BY DEF Text
<1>2. /\ head \in Text /\ Len(head) = ((i - 1) + 1) - 1
      /\ \A k \in 1 .. ((i - 1) + 1) - 1 : head[k] = txt[(1 - 1) + k]
  BY <1>1, PartIsText
<1>3. /\ tail \in Text /\ Len(tail) = (N + 1) - i
      /\ \A k \in 1 .. (N + 1) - i : tail[k] = txt[(i - 1) + k]
  BY <1>1, PartIsText
<1> HIDE DEF head, tail, N
<1>4. ((i - 1) + 1) - 1 = i - 1 /\ \A k \in 1 .. i - 1 : (1 - 1) + k = k
  BY <1>1
<1> DEFINE one == <<c>>
           front == head \o one
           s == front \o tail
<1>5. one \in Text /\ Len(one) = 1 /\ one[1] = c
  BY DEF Text
<1> HIDE DEF one
<1>6. /\ front \in Text /\ Len(front) = i
      /\ \A k \in 1 .. i - 1 : front[k] = txt[k]
      /\ front[i] = c
  <2>1. /\ front \in Text /\ Len(front) = Len(head) + Len(one)
        /\ \A k \in 1 .. Len(head) + Len(one) :
             front[k] = IF k <= Len(head) THEN head[k] ELSE one[k - Len(head)]
    BY <1>2, <1>5, ConcatProperties DEF Text
  <2> HIDE DEF front
  <2>2. QED
    BY <1>1, <1>2, <1>4, <1>5, <2>1
<1> HIDE DEF front
<1>7. /\ s \in Text /\ Len(s) = N + 1
      /\ \A k \in 1 .. i - 1 : s[k] = txt[k]
      /\ s[i] = c
      /\ \A k \in i .. N : s[k + 1] = txt[k]
  <2>1. /\ s \in Text /\ Len(s) = Len(front) + Len(tail)
        /\ \A k \in 1 .. Len(front) + Len(tail) :
             s[k] = IF k <= Len(front) THEN front[k] ELSE tail[k - Len(front)]
    BY <1>3, <1>6, ConcatProperties DEF Text
  <2> HIDE DEF s
  <2>2. Len(s) = N + 1
    BY <1>1, <1>3, <1>6, <2>1
  <2>3. \A k \in 1 .. i : s[k] = front[k]
    BY <1>1, <1>3, <1>6, <2>1
  <2>4. ASSUME NEW k \in i .. N PROVE s[k + 1] = txt[k]
    <3>1. /\ k + 1 \in 1 .. Len(front) + Len(tail) /\ ~(k + 1 <= Len(front))
          /\ (k + 1) - Len(front) \in 1 .. (N + 1) - i
          /\ (i - 1) + ((k + 1) - Len(front)) = k
      BY <1>1, <1>3, <1>6
    <3>2. QED
      BY <1>3, <2>1, <3>1
  <2>5. QED
    BY <1>1, <1>6, <2>1, <2>2, <2>3, <2>4
<1>8. InsertAt(txt, i, c) = s
  BY Zenon DEF InsertAt, s, front, one, head, tail, N
<1>9. QED
  BY <1>7, <1>8 DEF N

(* A text with one character less.                                         *)
LEMMA RemovedIs ==
  ASSUME NEW txt \in Text, NEW i \in 1 .. Len(txt)
  PROVE  LET s == RemoveAt(txt, i)
         IN  /\ s \in Text /\ Len(s) = Len(txt) - 1
             /\ \A k \in 1 .. i - 1 : s[k] = txt[k]
             /\ \A k \in i .. Len(txt) - 1 : s[k] = txt[k + 1]
<1> DEFINE head == SubSeq(txt, 1, i - 1)
           tail == SubSeq(txt, i + 1, Len(txt))
           N == Len(txt)
           s == head \o tail
<1>1. N \in Nat /\ 1 \in 1 .. N + 1 /\ i - 1 \in 0 .. N /\ 1 <= (i - 1) + 1
      /\ N \in 0 .. N /\ i + 1 <= N + 1 /\ i + 1 \in 1 .. N + 1
  BY DEF Text
<1>2. /\ head \in Text /\ Len(head) = ((i - 1) + 1) - 1
      /\ \A k \in 1 .. ((i - 1) + 1) - 1 : head[k] = txt[(1 - 1) + k]
  BY <1>1, PartIsText
<1>3. /\ tail \in Text /\ Len(tail) = (N + 1) - (i + 1)
      /\ \A k \in 1 .. (N + 1) - (i + 1) : tail[k] = txt[((i + 1) - 1) + k]
  BY <1>1, PartIsText
<1> HIDE DEF head, tail, N
<1>4. ((i - 1) + 1) - 1 = i - 1 /\ \A k \in 1 .. i - 1 : (1 - 1) + k = k
  BY <1>1
<1>5. /\ s \in Text /\ Len(s) = Len(head) + Len(tail)
      /\ \A k \in 1 .. Len(head) + Len(tail) :
           s[k] = IF k <= Len(head) THEN head[k] ELSE tail[k - Len(head)]
  BY <1>2, <1>3, ConcatProperties DEF Text
<1> HIDE DEF s
<1>6. Len(s) = N - 1
  BY <1>1, <1>2, <1>3, <1>5
<1>7. \A k \in 1 .. i - 1 : s[k] = txt[k]
  <2>1. \A k \in 1 .. i - 1 : k \in 1 .. Len(head) + Len(tail) /\ k <= Len(head)
    BY <1>1, <1>2, <1>3
  <2>2. QED
    BY <1>2, <1>4, <1>5, <2>1
<1>8. ASSUME NEW k \in i .. N - 1 PROVE s[k] = txt[k + 1]
  <2>1. /\ k \in 1 .. Len(head) + Len(tail) /\ ~(k <= Len(head))
        /\ k - Len(head) \in 1 .. (N + 1) - (i + 1)
        /\ ((i + 1) - 1) + (k - Len(head)) = k + 1
    BY <1>1, <1>2, <1>3
  <2>2. QED
    BY <1>3, <1>5, <2>1
<1>9. RemoveAt(txt, i) = s
  BY Zenon DEF RemoveAt, s, head, tail, N
<1>10. QED
  BY <1>5, <1>6, <1>7, <1>8, <1>9 DEF N

-----------------------------------------------------------------------------
(* What the variables hold.                                                *)

(* What gets in on the way is bytes.                                       *)
LEMMA InsertedAreBytes == ASSUME NEW c \in Inserted PROVE c \in Byte
BY BytesAssumption DEF Byte

(* The types, through every edit, decoding and restart.                    *)
THEOREM TypesHold == BSpec => []BTypes
<1>1. BInit => BTypes
  <2>1. <<>> \in Text
    BY EmptySeq DEF Text
  <2>2. MaxEdits \in Nat
    BY BytesAssumption
  <2>3. SUFFICES ASSUME BInit PROVE BTypes
    OBVIOUS
  <2>4. text \in Text
    <3>1. Json \in Text /\ ByteOrderMark \o Json \in Text
      <4>1. Json \in Text /\ ByteOrderMark \in Text
        BY DEF Json, ByteOrderMark, Text, Byte, OpenBrace, CloseBrace
      <4>2. QED
        BY <4>1, ConcatProperties DEF Text
    <3>2. PICK json \in Text : text = Wrapped(json)[layers]
      BY <2>3, <3>1 DEF BInit
    <3>3. QED
      BY <2>3, <3>2, WrappedIs DEF BInit
  <2>5. edits \in 0 .. MaxEdits
    BY <2>2, <2>3 DEF BInit
  <2>6. layers \in 0 .. MaxLayers /\ layoutOnly \in BOOLEAN /\ accepted \in BOOLEAN
    BY <2>3, Zenon DEF BInit
  <2>7. QED
    BY <2>1, <2>3, <2>4, <2>5, <2>6, Zenon DEF BInit, BTypes
<1>2. BTypes /\ [BNext]_bvars => BTypes'
  <2> SUFFICES ASSUME BTypes, [BNext]_bvars PROVE BTypes'
    OBVIOUS
  <2>1. CASE Edit
    <3>1. text' \in Text /\ layoutOnly' \in BOOLEAN
      <4>1. CASE \E i \in 1 .. Len(text) + 1, c \in Inserted :
                   /\ text' = InsertAt(text, i, c)
                   /\ layoutOnly' = (layoutOnly /\ c \in Layout)
        <5>1. PICK i \in 1 .. Len(text) + 1, c \in Inserted :
                /\ text' = InsertAt(text, i, c)
                /\ layoutOnly' = (layoutOnly /\ c \in Layout)
          BY <4>1
        <5>2. text \in Text /\ c \in Byte
          BY InsertedAreBytes DEF BTypes
        <5>3. InsertAt(text, i, c) \in Text
          BY <5>2, InsertedIs
        <5>4. QED
          BY <5>1, <5>3
      <4>2. CASE \E i \in DOMAIN text :
                   /\ text' = RemoveAt(text, i)
                   /\ layoutOnly' = (layoutOnly /\ Unpadded(i))
        <5>1. PICK i \in DOMAIN text :
                /\ text' = RemoveAt(text, i)
                /\ layoutOnly' = (layoutOnly /\ Unpadded(i))
          BY <4>2
        <5>2. text \in Text /\ i \in 1 .. Len(text)
          BY DEF BTypes, Text
        <5>3. RemoveAt(text, i) \in Text
          BY <5>2, RemovedIs
        <5>4. QED
          BY <5>1, <5>3
      <4>3. QED
        BY <2>1, <4>1, <4>2 DEF Edit
    <3>2. edits' \in 0 .. MaxEdits
      BY <2>1, BytesAssumption DEF Edit, BTypes
    <3>3. QED
      BY <2>1, <3>1, <3>2 DEF Edit, BTypes
  <2>2. CASE Receive
    <3>1. text \in Text /\ StrictDecode(text).out \in Text
      BY DecodedIsText DEF BTypes
    <3>2. raw' \in Text /\ step' \in {"sent", "received", "accepted", "refused"}
      BY <2>2, <3>1 DEF Receive, BTypes
    <3>3. QED
      BY <2>2, <3>2 DEF Receive, BTypes
  <2>3. CASE Adopt
    <3>1. NormalizeBytes(raw) \in Text
      BY NormalizedIsText DEF BTypes
    <3>2. /\ file' \in Text /\ accepted' \in BOOLEAN
          /\ step' \in {"sent", "received", "accepted", "refused"}
      BY <2>3, <3>1 DEF Adopt, BTypes
    <3>3. QED
      BY <2>3, <3>2 DEF Adopt, BTypes
  <2>4. CASE Restart
    BY <2>4 DEF Restart, BTypes
  <2>5. CASE UNCHANGED bvars
    BY <2>5 DEF bvars, BTypes
  <2>6. QED
    BY <2>1, <2>2, <2>3, <2>4, <2>5 DEF BNext
<1>3. QED
  BY <1>1, <1>2, PTL DEF BSpec

(* Texts stay texts, and the bounds are kept, whatever is edited, decoded  *)
(* and trimmed (client.cpp 234-263, 408-459).                              *)
THEOREM BytesAreTyped == BSpec => []BTypeOK
<1>1. ASSUME NEW s \in Text PROVE Bytes(s)
  <2>1. DOMAIN s = 1 .. Len(s) /\ \A i \in 1 .. Len(s) : s[i] \in Byte
    BY DEF Text
  <2>2. QED
    BY <2>1, Zenon DEF Bytes, Byte
<1>2. BTypes => BTypeOK
  BY <1>1, Zenon DEF BTypes, BTypeOK
<1>3. QED
  BY <1>2, TypesHold, PTL

(* Both decoders give back the bytes that were encoded, for every text and *)
(* every width of the int that is a multiple of two to the 14              *)
(* (client.cpp 243-258, 432-449).                                          *)
THEOREM EncodingIsUndone == BSpec => []DecodesWhatWasEncoded
<1>1. BTypes => DecodesWhatWasEncoded
  BY DecodersUndoTheEncoder DEF BTypes, DecodesWhatWasEncoded
<1>2. QED
  BY <1>1, TypesHold, PTL

(* What the strict decoder accepts, the lenient one reads alike            *)
(* (client.cpp 234-261, 408-459).                                          *)
THEOREM DecodersAlwaysAgree == BSpec => []DecodersAgree
<1>1. BTypes => DecodersAgree
  BY NormalizesAsDecoded DEF BTypes, DecodersAgree
<1>2. QED
  BY <1>1, TypesHold, PTL

(* The file is in the form that normalizing keeps readable.                *)
LEMMA StaysAccepted == BSpec => []KeptAsAccepted
<1>1. BInit => KeptAsAccepted
  BY DEF BInit, KeptAsAccepted
<1>2. BTypes /\ KeptAsAccepted /\ [BNext]_bvars => KeptAsAccepted'
  <2> SUFFICES ASSUME BTypes, KeptAsAccepted, [BNext]_bvars PROVE KeptAsAccepted'
    OBVIOUS
  <2>1. CASE Edit
    BY <2>1 DEF Edit, KeptAsAccepted
  <2>2. CASE Receive
    BY <2>2 DEF Receive, KeptAsAccepted
  <2>3. CASE Adopt
    <3>1. IsJson(EnvelopeText(raw)) => Parses(EnvelopeText(NormalizeBytes(raw)))
      BY NormalizedJson, NormalizedIsText, JsonMeans DEF BTypes
    <3>2. CASE Parses(EnvelopeText(NormalizeBytes(raw)))
      BY <2>3, <3>2 DEF Adopt, KeptAsAccepted
    <3>3. CASE ~Parses(EnvelopeText(NormalizeBytes(raw)))
      <4>1. accepted => raw = file /\ ~IsJson(EnvelopeText(file))
        BY <2>3, <3>1, <3>3 DEF Adopt, KeptAsAccepted
      <4>2. step' = "refused" /\ accepted' = accepted /\ file' = file
        BY <2>3, <3>3 DEF Adopt
      <4>3. QED
        BY <4>1, <4>2 DEF KeptAsAccepted
    <3>4. QED
      BY <3>2, <3>3
  <2>4. CASE Restart
    BY <2>4 DEF Restart, KeptAsAccepted
  <2>5. CASE UNCHANGED bvars
    BY <2>5 DEF bvars, KeptAsAccepted
  <2>6. QED
    BY <2>1, <2>2, <2>3, <2>4, <2>5 DEF BNext
<1>3. QED
  BY <1>1, <1>2, TypesHold, PTL DEF BSpec

(* What was accepted once is accepted at every restart, whatever was done  *)
(* to the text before: the bytes normalize_license_bytes writes to the     *)
(* file are read like those it was given.  The only license it can lose is *)
(* one that has a byte order mark under the encoding in the file, which    *)
(* the parser skips the first time and the look for a brace does not the   *)
(* next (client.cpp 390-420, validator.cpp 260-279).                       *)
THEOREM AcceptedIsReloaded == BSpec => []ReloadsAsAccepted
<1>1. BTypes /\ KeptAsAccepted => ReloadsAsAccepted
  <2>1. BTypes => EnvelopeText(file) \in Text
    BY NormalizedIsText DEF BTypes
  <2>2. QED
    BY <2>1, JsonMeans DEF KeptAsAccepted, ReloadsAsAccepted
<1>2. QED
  BY <1>1, TypesHold, StaysAccepted, PTL

-----------------------------------------------------------------------------
(* Layers.                                                                 *)

(* Nothing is trimmed where there is nothing to trim.                      *)
LEMMA TrimPlain ==
  ASSUME NEW txt \in Text, NEW dropped, \A i \in 1 .. Len(txt) : txt[i] \notin dropped
  PROVE  TrimStart(txt, dropped) = txt /\ TrimEnd(txt, dropped) = txt
<1>1. Len(txt) \in Nat
  BY DEF Text
<1>2. SubSeq(txt, 1, Len(txt)) = txt
  BY SubSeqFull DEF Text
<1>3. StartsAt(1, txt, dropped)
  <2>1. 1 \in 1 .. Len(txt) + 1 /\ 1 .. 1 - 1 = {} /\ (1 <= Len(txt) => 1 \in 1 .. Len(txt))
    BY <1>1
  <2>2. QED
    BY <2>1, Zenon DEF StartsAt
<1>4. EndsAt(Len(txt), txt, dropped)
  <2>1. /\ Len(txt) \in 0 .. Len(txt) /\ Len(txt) + 1 .. Len(txt) = {}
        /\ Len(txt) >= 1 => Len(txt) \in 1 .. Len(txt)
    BY <1>1
  <2>2. QED
    BY <2>1, Zenon DEF EndsAt
<1>5. QED
  BY <1>2, <1>3, <1>4, TrimStartAt, TrimEndAt

(* What the server encodes has no character that is trimmed or that JSON   *)
(* is made of.                                                             *)
LEMMA EncodedIsPlain ==
  ASSUME NEW bytes \in Text
  PROVE  /\ \A i \in 1 .. Len(Encode(bytes)) :
              IsDigit(Encode(bytes)[i]) \/ Encode(bytes)[i] = Pad
         /\ \A i \in 1 .. Len(Encode(bytes)) :
              Encode(bytes)[i] \notin Blank \cup Space \cup {OpenBrace, CloseBrace}
<1>1. ASSUME NEW i \in 1 .. Len(Encode(bytes))
      PROVE  IsDigit(Encode(bytes)[i]) \/ Encode(bytes)[i] = Pad
  <2> DEFINE N == Len(bytes)
             L == Len(Encode(bytes))
             k == (i - 1) \div 4
             a == ByteAt(bytes, 3 * k + 1)
             b == ByteAt(bytes, 3 * k + 2)
             c == ByteAt(bytes, 3 * k + 3)
  <2>1. N \in Nat /\ L = 4 * ((N + 2) \div 3) /\ i \in 1 .. L
    BY EncodeIs DEF Text
  <2>2. /\ k \in Nat /\ 3 * k + 1 <= N
        /\ i - 1 = 4 * k \/ i - 1 = 4 * k + 1 \/ i - 1 = 4 * k + 2 \/ i - 1 = 4 * k + 3
    <3> HIDE DEF N, L
    <3>1. QED
      BY <2>1
  <2>3. Encode(bytes)[i] = Char(bytes, i - 1)
    BY EncodeIs
  <2> HIDE DEF k
  <2>4. /\ a \in Byte /\ b \in Byte /\ c \in Byte
        /\ Char(bytes, 4 * k) = Alphabet(Digit1(a))
        /\ Char(bytes, 4 * k + 1) = Alphabet(Digit2(a, b))
        /\ Char(bytes, 4 * k + 2) \in {Alphabet(Digit3(b, c)), Pad}
        /\ Char(bytes, 4 * k + 3) \in {Alphabet(Digit4(c)), Pad}
    BY <2>2, CharsOfGroup
  <2> HIDE DEF a, b, c
  <2>5. /\ Digit1(a) \in 0 .. 63 /\ Digit2(a, b) \in 0 .. 63
        /\ Digit3(b, c) \in 0 .. 63 /\ Digit4(c) \in 0 .. 63
    BY <2>4, DigitsAreSmall
  <2>6. \A d \in 0 .. 63 : IsDigit(Alphabet(d))
    BY AlphabetIs
  <2>7. QED
    BY <2>2, <2>3, <2>4, <2>5, <2>6
<1>2. Pad \notin Blank \cup Space \cup {OpenBrace, CloseBrace}
  BY DEF Pad, Blank, Space, OpenBrace, CloseBrace
<1>3. QED
  BY <1>1, <1>2, DigitIsPlain

(* One encoding is what the validator takes off, and what normalizing      *)
(* takes off (client.cpp 408-459, validator.cpp 245-272).                  *)
LEMMA EnvelopeOfEncoded ==
  ASSUME NEW bytes \in Text
  PROVE  /\ EnvelopeText(Encode(bytes)) = bytes
         /\ NormalizeBytes(Encode(bytes)) = TrimEnd(bytes, Blank)
         /\ TrimEnd(Encode(bytes), Blank) = Encode(bytes)
         /\ ~Parses(Encode(bytes))
<1> DEFINE e == Encode(bytes)
<1>1. /\ e \in Text /\ Len(e) \in Nat
      /\ \A i \in 1 .. Len(e) : /\ e[i] \notin Blank /\ e[i] \notin Space
                                /\ e[i] # OpenBrace
  BY EncodeIs, EncodedIsPlain DEF Text
<1>2. /\ StrictDecode(e).state # "error" /\ StrictDecode(e).out = bytes
  BY DecodersUndoTheEncoder
<1>3. NormalizeBytes(e) = TrimEnd(bytes, Blank)
  BY <1>1, <1>2, NormalizesAsDecoded
<1> HIDE DEF e
<1>4. TrimStart(e, Blank) = e /\ TrimEnd(e, Space) = e /\ TrimEnd(e, Blank) = e
  BY <1>1, TrimPlain
<1>5. ~StartsJson(e)
  BY <1>1, <1>2, <1>4, StrictRefusesJson
<1>6. EnvelopeText(e) = bytes
  BY <1>2, <1>4, <1>5, Zenon DEF EnvelopeText
<1>7. ~Parses(e)
  <2>1. DOMAIN e = 1 .. Len(e)
    BY <1>1 DEF Text
  <2>2. QED
    BY <1>1, <2>1, Zenon DEF Parses
<1>8. QED
  BY <1>3, <1>4, <1>6, <1>7 DEF e

(* JSON is read as it is.                                                  *)
LEMMA JsonIsRead ==
  /\ Json \in Text /\ BareJson(Json) /\ EnvelopeText(Json) = Json
  /\ NormalizeBytes(Json) = Json /\ TrimEnd(Json, Blank) = Json
<1>1. /\ Json \in Text /\ Len(Json) = 2 /\ Json[1] = OpenBrace /\ Json[2] = CloseBrace
      /\ Json # <<>>
  BY DEF Json, Text, Byte, OpenBrace, CloseBrace
<1>2. \A i \in 1 .. Len(Json) : Json[i] \notin Blank
  BY <1>1 DEF Blank, OpenBrace, CloseBrace
<1>3. TrimStart(Json, Blank) = Json /\ TrimEnd(Json, Blank) = Json
  BY <1>1, <1>2, TrimPlain
<1>4. StartsJson(Json)
  BY <1>1 DEF StartsJson
<1>5. BareAt(Json, 1, 2)
  BY <1>1 DEF BareAt
<1>6. EnvelopeText(Json) = Json /\ NormalizeBytes(Json) = Json
  BY <1>3, <1>4, Zenon DEF EnvelopeText, NormalizeBytes
<1>7. QED
  BY <1>1, <1>3, <1>5, <1>6 DEF BareJson

(* Its input ends with the text.                                           *)
LEMMA BareIsJson ==
  ASSUME NEW txt \in Text, BareJson(txt)
  PROVE  IsJson(txt) /\ Parses(txt)
<1>1. PICK i, j : BareAt(txt, i, j)
  BY DEF BareJson
<1>2. Len(txt) \in Nat /\ \A k : k \in 1 .. (Len(txt) + 1) - 1 => k \in 1 .. Len(txt)
  BY DEF Text
<1>3. JsonAt(txt, i, j, Len(txt) + 1)
  BY <1>1, <1>2 DEF BareAt, JsonAt
<1>4. QED
  BY <1>3, JsonMeans DEF IsJson

(* A document under m layers is read when there is one at most, and loses  *)
(* one when it is normalized.                                              *)
LEMMA LayersAreRead ==
  ASSUME NEW m \in 0 .. MaxLayers
  PROVE  /\ Encoded[m] \in Text
         /\ TrimEnd(Encoded[m], Blank) = Encoded[m]
         /\ IsJson(EnvelopeText(Encoded[m])) <=> m <= 1
         /\ Parses(EnvelopeText(Encoded[m])) <=> m <= 1
         /\ NormalizeBytes(Encoded[m]) = IF m = 0 THEN Json ELSE Encoded[m - 1]
<1>1. MaxLayers \in Nat /\ Encoded[m] \in Text /\ Encoded[0] = Json
  BY BytesAssumption, EncodedIs
<1>2. CASE m = 0
  BY <1>1, <1>2, JsonIsRead, BareIsJson
<1>3. CASE m # 0
  <2>1. m \in 1 .. MaxLayers /\ m - 1 \in 0 .. MaxLayers
    BY <1>1, <1>3
  <2>2. Encoded[m] = Encode(Encoded[m - 1]) /\ Encoded[m - 1] \in Text
    BY <2>1, EncodedIs
  <2>3. /\ EnvelopeText(Encoded[m]) = Encoded[m - 1]
        /\ NormalizeBytes(Encoded[m]) = TrimEnd(Encoded[m - 1], Blank)
        /\ TrimEnd(Encoded[m], Blank) = Encoded[m]
    BY <2>2, EnvelopeOfEncoded
  <2>4. CASE m = 1
    <3>1. Encoded[m - 1] = Json
      BY <1>1, <2>4
    <3>2. QED
      BY <1>1, <1>3, <2>3, <2>4, <3>1, JsonIsRead, BareIsJson
  <2>5. CASE m # 1
    <3>1. m - 1 \in 1 .. MaxLayers /\ (m - 1) - 1 \in 0 .. MaxLayers /\ ~(m <= 1)
      BY <1>1, <2>1, <2>5
    <3>2. Encoded[m - 1] = Encode(Encoded[(m - 1) - 1]) /\ Encoded[(m - 1) - 1] \in Text
      BY <3>1, EncodedIs
    <3>3. ~Parses(Encoded[m - 1]) /\ TrimEnd(Encoded[m - 1], Blank) = Encoded[m - 1]
      BY <3>2, EnvelopeOfEncoded
    <3>4. ~IsJson(Encoded[m - 1])
      BY <2>2, <3>3, JsonMeans
    <3>5. QED
      BY <1>1, <1>3, <2>3, <3>1, <3>3, <3>4
  <2>6. QED
    BY <2>4, <2>5
<1>4. QED
  BY <1>2, <1>3

-----------------------------------------------------------------------------
(* Edits of the layout.                                                    *)

(* A text of known characters never fails.                                 *)
LEMMA ReadableIsRead ==
  ASSUME NEW txt \in Text, Readable(txt)
  PROVE  StrictDecode(txt).state # "error"
<1> DEFINE N == Len(txt)
           lp(n) == StrictRun(txt)[n]
           S == {n \in 0 .. N : lp(n).state # "error"}
<1>1. N \in Nat
  BY DEF Text
<1>2. 0 \in S
  BY <1>1, StrictRunIs DEF Start
<1>3. ASSUME NEW n \in 1 .. N, n - 1 \in S PROVE n \in S
  <2>1. lp(n - 1).state # "error" /\ n \in 0 .. N
    BY <1>1, <1>3
  <2>2. /\ lp(n - 1) \in Loops
        /\ lp(n - 1).state # "reading" => lp(n) = lp(n - 1)
        /\ lp(n - 1).state = "reading" =>
             /\ txt[n] = Pad => lp(n) = [lp(n - 1) EXCEPT !.state = "done"]
             /\ txt[n] \in {10, 13, 32} => lp(n) = lp(n - 1)
             /\ IsDigit(txt[n]) => lp(n) = Take(lp(n - 1), txt[n])
    BY StrictReads, Zenon
  <2>3. IsDigit(txt[n]) \/ txt[n] \in {10, 13, 32} \/ txt[n] = Pad
    BY DEF Readable
  <2>4. IsDigit(txt[n]) => Take(lp(n - 1), txt[n]).state = lp(n - 1).state
    <3>1. txt[n] \in Byte
      BY DEF Text
    <3> HIDE DEF lp
    <3>2. QED
      BY <2>2, <3>1, TakeIs
  <2> HIDE DEF lp
  <2>5. [lp(n - 1) EXCEPT !.state = "done"].state = "done"
    BY <2>2 DEF Loops
  <2>6. lp(n).state # "error"
    BY <2>1, <2>2, <2>3, <2>4, <2>5
  <2>7. QED
    BY <2>1, <2>6
<1>4. \A n \in 0 .. N : n \in S
  <2> HIDE DEF S
  <2>1. QED
    BY <1>1, <1>2, <1>3, InductionUpTo
<1>5. N \in 0 .. N
  BY <1>1
<1>6. QED
  BY <1>4, <1>5 DEF StrictDecode

(* Nothing is written where there are no digits.                           *)
LEMMA StrictKeepsOut ==
  ASSUME NEW txt \in Text, NEW p \in 0 .. Len(txt), NEW q \in p .. Len(txt),
         \A i \in p + 1 .. q : ~IsDigit(txt[i])
  PROVE  StrictRun(txt)[q].out = StrictRun(txt)[p].out
<1> DEFINE lp(n) == StrictRun(txt)[n]
           S == {k \in 0 .. q - p : lp(p + k).out = lp(p).out}
<1>1. Len(txt) \in Nat /\ q - p \in Nat
  BY DEF Text
<1>2. 0 \in S
  BY <1>1
<1>3. ASSUME NEW k \in 1 .. q - p, k - 1 \in S PROVE k \in S
  <2>1. /\ p + k \in 1 .. Len(txt) /\ (p + k) - 1 = p + (k - 1)
        /\ p + k \in p + 1 .. q /\ k \in 0 .. q - p
    BY <1>1
  <2>2. lp(p + (k - 1)).out = lp(p).out
    BY <1>3
  <2> DEFINE n == p + k
             c == txt[p + k]
  <2>3. /\ lp(n - 1) \in Loops
        /\ lp(n - 1).state # "reading" => lp(n) = lp(n - 1)
        /\ lp(n - 1).state = "reading" =>
             /\ c = Pad => lp(n) = [lp(n - 1) EXCEPT !.state = "done"]
             /\ c \in {10, 13, 32} => lp(n) = lp(n - 1)
             /\ ~IsDigit(c) /\ c \notin {10, 13, 32, Pad} =>
                  lp(n) = [lp(n - 1) EXCEPT !.state = "error"]
    BY <2>1, StrictReads, Zenon
  <2>4. ~IsDigit(c)
    BY <2>1
  <2> HIDE DEF lp, n, c
  <2>5. /\ [lp(n - 1) EXCEPT !.state = "done"].out = lp(n - 1).out
        /\ [lp(n - 1) EXCEPT !.state = "error"].out = lp(n - 1).out
    BY <2>3 DEF Loops
  <2>6. lp(n).out = lp(n - 1).out
    BY <2>3, <2>4, <2>5
  <2>7. QED
    BY <2>1, <2>2, <2>6 DEF n
<1>4. \A k \in 0 .. q - p : k \in S
  <2> HIDE DEF S
  <2>1. QED
    BY <1>1, <1>2, <1>3, InductionUpTo
<1>5. q - p \in 0 .. q - p /\ p + (q - p) = q
  BY <1>1
<1>6. QED
  BY <1>4, <1>5

(* A line that is broken changes neither what is decoded nor what parses.  *)
LEMMA BreakingKeeps ==
  ASSUME NEW txt \in Text, NEW i \in 1 .. Len(txt) + 1, NEW c \in Layout
  PROVE  /\ Readable(txt) => Readable(InsertAt(txt, i, c))
         /\ StrictDecode(InsertAt(txt, i, c)) = StrictDecode(txt)
         /\ BareJson(txt) => BareJson(InsertAt(txt, i, c))
<1> DEFINE s == InsertAt(txt, i, c)
           N == Len(txt)
<1>1. N \in Nat /\ i \in 1 .. N + 1 /\ c \in {10, 13, 32} /\ c \in Byte /\ c \in Blank
  BY DEF Text, Layout, Byte, Blank
<1>2. /\ s \in Text /\ Len(s) = N + 1
      /\ \A k \in 1 .. i - 1 : s[k] = txt[k]
      /\ s[i] = c
      /\ \A k \in i .. N : s[k + 1] = txt[k]
  BY <1>1, InsertedIs
<1>3. ASSUME Readable(txt) PROVE Readable(s)
  <2> HIDE DEF s, N
  <2>1. ASSUME NEW k \in 1 .. N + 1
        PROVE  IsDigit(s[k]) \/ s[k] \in {10, 13, 32, Pad}
    <3>1. CASE k \in 1 .. i - 1
      <4>1. k \in 1 .. Len(txt)
        BY <1>1, <3>1 DEF N
      <4>2. QED
        BY <1>2, <1>3, <3>1, <4>1, Zenon DEF Readable
    <3>2. CASE k = i
      BY <1>1, <1>2, <3>2
    <3>3. CASE k - 1 \in i .. N
      <4>1. k - 1 \in 1 .. Len(txt) /\ (k - 1) + 1 = k
        BY <1>1, <3>3 DEF N
      <4>2. s[k] = txt[k - 1]
        BY <1>2, <3>3, <4>1
      <4>3. QED
        BY <1>3, <4>1, <4>2, Zenon DEF Readable
    <3>4. k \in 1 .. i - 1 \/ k = i \/ k - 1 \in i .. N
      BY <1>1
    <3>5. QED
      BY <3>1, <3>2, <3>3, <3>4
  <2>2. QED
    BY <1>2, <2>1 DEF Readable
<1>4. StrictDecode(s) = StrictDecode(txt)
  <2> HIDE DEF s
  <2>1. StrictRun(s)[i - 1] = StrictRun(txt)[i - 1]
    <3>1. SameCharacters(s, 0, txt, 0, i - 1)
      <4>1. \A k \in 1 .. i - 1 : 0 + k = k
        BY <1>1
      <4>2. QED
        BY <1>2, <4>1, Zenon DEF SameCharacters
    <3>2. StrictRun(s)[0] = StrictRun(txt)[0]
      BY <1>2, StrictRunIs
    <3>3. 0 \in Nat /\ i - 1 \in Nat /\ 0 + (i - 1) <= Len(s) /\ 0 + (i - 1) <= Len(txt)
      BY <1>1, <1>2
    <3>4. SameStrictRun(s, 0, txt, 0, i - 1)
      BY <1>2, <3>1, <3>2, <3>3, StrictGoOn
    <3>5. i - 1 \in 0 .. i - 1 /\ 0 + (i - 1) = i - 1
      BY <1>1
    <3>6. QED
      BY <3>4, <3>5, Zenon DEF SameStrictRun
  <2>2. StrictRun(s)[i] = StrictRun(s)[i - 1]
    <3>1. i \in 1 .. Len(s) /\ s[i] \in {10, 13, 32}
      BY <1>1, <1>2
    <3> DEFINE was == StrictRun(s)[i - 1]
               is == StrictRun(s)[i]
    <3>2. /\ was.state # "reading" => is = was
          /\ was.state = "reading" => (s[i] \in {10, 13, 32} => is = was)
      BY <1>2, <3>1, StrictReads, Zenon
    <3>3. QED
      BY <3>1, <3>2
  <2>3. SameStrictRun(s, i, txt, i - 1, N - (i - 1))
    <3>1. SameCharacters(s, i, txt, i - 1, N - (i - 1))
      <4>1. ASSUME NEW k \in 1 .. N - (i - 1)
            PROVE  s[i + k] = txt[(i - 1) + k]
        <5>1. (i - 1) + k \in i .. N /\ ((i - 1) + k) + 1 = i + k
          BY <1>1
        <5> HIDE DEF N
        <5>2. QED
          BY <1>2, <5>1
      <4>2. QED
        BY <4>1 DEF SameCharacters
    <3>2. /\ i \in Nat /\ i - 1 \in Nat /\ N - (i - 1) \in Nat
          /\ i + (N - (i - 1)) <= Len(s) /\ (i - 1) + (N - (i - 1)) <= Len(txt)
      BY <1>1, <1>2
    <3>3. StrictRun(s)[i] = StrictRun(txt)[i - 1]
      BY <2>1, <2>2
    <3> HIDE DEF N
    <3>4. QED
      BY <1>2, <3>1, <3>2, <3>3, StrictGoOn
  <2>4. /\ N - (i - 1) \in 0 .. N - (i - 1) /\ i + (N - (i - 1)) = N + 1
        /\ (i - 1) + (N - (i - 1)) = N
    BY <1>1
  <2>5. StrictRun(s)[N + 1] = StrictRun(txt)[N]
    <3> HIDE DEF N
    <3>1. QED
      BY <2>3, <2>4 DEF SameStrictRun
  <2>6. QED
    BY <1>2, <2>5 DEF StrictDecode
<1>5. ASSUME BareJson(txt) PROVE BareJson(s)
  <2>1. PICK a, b : BareAt(txt, a, b)
    BY <1>5 DEF BareJson
  <2>2. /\ a \in 1 .. N /\ b \in 1 .. N /\ a < b
        /\ txt[a] = OpenBrace /\ txt[b] = CloseBrace
        /\ \A k \in 1 .. N : k # a /\ k # b => txt[k] \in Blank
    BY <2>1 DEF BareAt
  <2> DEFINE moved(k) == IF k < i THEN k ELSE k + 1
  <2> HIDE DEF s, N
  <2>3. /\ moved(a) \in 1 .. N + 1 /\ moved(b) \in 1 .. N + 1 /\ moved(a) < moved(b)
    BY <1>1, <2>2
  <2>4. ASSUME NEW k \in 1 .. N PROVE s[moved(k)] = txt[k]
    <3>1. CASE k < i
      <4>1. k \in 1 .. i - 1 /\ moved(k) = k
        BY <1>1, <3>1
      <4>2. QED
        BY <1>2, <4>1
    <3>2. CASE ~(k < i)
      <4>1. k \in i .. N /\ moved(k) = k + 1
        BY <1>1, <3>2
      <4>2. QED
        BY <1>2, <4>1
    <3>3. QED
      BY <3>1, <3>2
  <2>5. ASSUME NEW k \in 1 .. N + 1, k # moved(a), k # moved(b)
        PROVE  s[k] \in Blank
    <3>1. CASE k = i
      BY <1>1, <1>2, <3>1
    <3>2. CASE k < i
      <4>1. k \in 1 .. N /\ moved(k) = k /\ k # a /\ k # b
        BY <1>1, <2>5, <3>2
      <4>2. QED
        BY <2>2, <2>4, <4>1
    <3>3. CASE k > i
      <4>1. k - 1 \in 1 .. N /\ moved(k - 1) = k /\ k - 1 # a /\ k - 1 # b
        BY <1>1, <2>5, <3>3
      <4>2. QED
        BY <2>2, <2>4, <4>1
    <3>4. QED
      BY <1>1, <3>1, <3>2, <3>3
  <2>6. s[moved(a)] = OpenBrace /\ s[moved(b)] = CloseBrace
    BY <2>2, <2>4
  <2> HIDE DEF moved
  <2>7. BareAt(s, moved(a), moved(b))
    BY <1>2, <2>3, <2>5, <2>6 DEF BareAt
  <2>8. QED
    BY <2>7, Zenon DEF BareJson
<1>6. QED
  BY <1>3, <1>4, <1>5

(* Nor does padding that is dropped at the end.                            *)
LEMMA UnpaddingKeeps ==
  ASSUME NEW txt \in Text, NEW i \in 1 .. Len(txt), txt[i] = Pad,
         \A j \in i .. Len(txt) : ~IsDigit(txt[j])
  PROVE  /\ Readable(txt) => Readable(RemoveAt(txt, i))
         /\ StrictDecode(RemoveAt(txt, i)).out = StrictDecode(txt).out
         /\ ~BareJson(txt)
<1> DEFINE s == RemoveAt(txt, i)
           N == Len(txt)
<1>1. N \in Nat /\ i \in 1 .. N
  BY DEF Text
<1>2. /\ s \in Text /\ Len(s) = N - 1
      /\ \A k \in 1 .. i - 1 : s[k] = txt[k]
      /\ \A k \in i .. N - 1 : s[k] = txt[k + 1]
  BY RemovedIs
<1>3. ASSUME Readable(txt) PROVE Readable(s)
  <2> HIDE DEF s, N
  <2>1. ASSUME NEW k \in 1 .. N - 1
        PROVE  IsDigit(s[k]) \/ s[k] \in {10, 13, 32, Pad}
    <3>1. CASE k \in 1 .. i - 1
      <4>1. k \in 1 .. Len(txt)
        BY <1>1, <3>1 DEF N
      <4>2. QED
        BY <1>2, <1>3, <3>1, <4>1, Zenon DEF Readable
    <3>2. CASE k \in i .. N - 1
      <4>1. k + 1 \in 1 .. Len(txt)
        BY <1>1, <3>2 DEF N
      <4>2. QED
        BY <1>2, <1>3, <3>2, <4>1, Zenon DEF Readable
    <3>3. k \in 1 .. i - 1 \/ k \in i .. N - 1
      BY <1>1
    <3>4. QED
      BY <3>1, <3>2, <3>3
  <2>2. QED
    BY <1>2, <2>1 DEF Readable
<1>4. StrictDecode(s).out = StrictDecode(txt).out
  <2> HIDE DEF s
  <2>1. StrictRun(s)[i - 1] = StrictRun(txt)[i - 1]
    <3>1. SameCharacters(s, 0, txt, 0, i - 1)
      <4>1. \A k \in 1 .. i - 1 : 0 + k = k
        BY <1>1
      <4>2. QED
        BY <1>2, <4>1, Zenon DEF SameCharacters
    <3>2. StrictRun(s)[0] = StrictRun(txt)[0]
      BY <1>2, StrictRunIs
    <3>3. 0 \in Nat /\ i - 1 \in Nat /\ 0 + (i - 1) <= Len(s) /\ 0 + (i - 1) <= Len(txt)
      BY <1>1, <1>2
    <3>4. SameStrictRun(s, 0, txt, 0, i - 1)
      BY <1>2, <3>1, <3>2, <3>3, StrictGoOn
    <3>5. i - 1 \in 0 .. i - 1 /\ 0 + (i - 1) = i - 1
      BY <1>1
    <3>6. QED
      BY <3>4, <3>5, Zenon DEF SameStrictRun
  <2>2. StrictRun(txt)[N].out = StrictRun(txt)[i - 1].out
    <3>1. i - 1 \in 0 .. N /\ N \in i - 1 .. N /\ (i - 1) + 1 = i
      BY <1>1
    <3>2. QED
      BY <3>1, StrictKeepsOut
  <2>3. StrictRun(s)[N - 1].out = StrictRun(s)[i - 1].out
    <3>1. i - 1 \in 0 .. Len(s) /\ N - 1 \in i - 1 .. Len(s) /\ (i - 1) + 1 = i
      BY <1>1, <1>2
    <3>2. \A k \in i .. N - 1 : k + 1 \in i .. N
      BY <1>1
    <3>3. \A k \in i .. N - 1 : ~IsDigit(s[k])
      BY <1>2, <3>2
    <3>4. QED
      BY <1>2, <3>1, <3>3, StrictKeepsOut
  <2>4. QED
    BY <1>2, <2>1, <2>2, <2>3 DEF StrictDecode
<1>5. ~BareJson(txt)
  <2>1. SUFFICES ASSUME NEW a, NEW b, BareAt(txt, a, b) PROVE FALSE
    BY DEF BareJson
  <2>2. Pad \notin Blank /\ Pad # OpenBrace /\ Pad # CloseBrace
    BY DEF Pad, Blank, OpenBrace, CloseBrace
  <2>3. QED
    BY <2>1, <2>2, Zenon DEF BareAt
<1>6. QED
  BY <1>3, <1>4, <1>5

-----------------------------------------------------------------------------
(* Counting layers.                                                        *)

(* What the server sends carries the license.                              *)
LEMMA EncodedCarries ==
  ASSUME NEW m \in 0 .. MaxLayers
  PROVE  Encoded[m] \in Text /\ Carries(Encoded[m], m)
<1>1. MaxLayers \in Nat /\ Encoded[m] \in Text /\ Encoded[0] = Json
  BY BytesAssumption, EncodedIs
<1>2. CASE m = 0
  BY <1>1, <1>2, JsonIsRead DEF Carries
<1>3. CASE m # 0
  <2>1. m \in 1 .. MaxLayers /\ m - 1 \in 0 .. MaxLayers
    BY <1>1, <1>3
  <2>2. Encoded[m] = Encode(Encoded[m - 1]) /\ Encoded[m - 1] \in Text
    BY <2>1, EncodedIs
  <2>3. \A i \in 1 .. Len(Encoded[m]) : IsDigit(Encoded[m][i]) \/ Encoded[m][i] = Pad
    BY <2>2, EncodedIsPlain
  <2>4. Readable(Encoded[m])
    BY <2>3, Zenon DEF Readable
  <2>5. StrictDecode(Encoded[m]).out = Encoded[m - 1]
    BY <2>2, DecodersUndoTheEncoder
  <2>6. QED
    BY <1>1, <1>3, <2>4, <2>5 DEF Carries
<1>4. QED
  BY <1>2, <1>3

(* The strict decoder refuses it without layers; from any text that carries *)
(* it two can be taken, one by normalizing and one by the validator.       *)
LEMMA CarriedIsCounted ==
  ASSUME NEW txt \in Text, NEW m \in 0 .. MaxLayers, Carries(txt, m)
  PROVE  /\ StrictDecode(txt).state = "error" <=> m = 0
         /\ IsJson(EnvelopeText(NormalizeBytes(txt))) <=> m <= 2
         /\ Parses(EnvelopeText(NormalizeBytes(txt))) <=> m <= 2
<1>1. MaxLayers \in Nat
  BY BytesAssumption
<1>2. CASE m = 0
  <2>1. /\ StartsJson(TrimStart(txt, Blank)) /\ IsJson(TrimStart(txt, Blank))
    BY <1>2, BareIsJson, JsonTrimmed DEF Carries
  <2>2. StrictDecode(txt).state = "error"
    BY <2>1, StrictRefusesJson
  <2>3. EnvelopeText(txt) = TrimStart(txt, Blank)
    BY <2>1, Zenon DEF EnvelopeText
  <2>4. /\ IsJson(EnvelopeText(NormalizeBytes(txt)))
        /\ Parses(EnvelopeText(NormalizeBytes(txt)))
    BY <2>1, <2>3, NormalizedJson, NormalizedIsText, JsonMeans
  <2>5. QED
    BY <1>2, <2>2, <2>4
<1>3. CASE m # 0
  <2>1. m - 1 \in 0 .. MaxLayers /\ (m - 1 <= 1 <=> m <= 2)
    BY <1>1, <1>3
  <2>2. Readable(txt) /\ StrictDecode(txt).out = Encoded[m - 1]
    BY <1>3 DEF Carries
  <2>3. StrictDecode(txt).state # "error"
    BY <2>2, ReadableIsRead
  <2>4. NormalizeBytes(txt) = TrimEnd(Encoded[m - 1], Blank)
    BY <2>2, <2>3, NormalizesAsDecoded
  <2>5. /\ TrimEnd(Encoded[m - 1], Blank) = Encoded[m - 1]
        /\ IsJson(EnvelopeText(Encoded[m - 1])) <=> m - 1 <= 1
        /\ Parses(EnvelopeText(Encoded[m - 1])) <=> m - 1 <= 1
    BY <2>1, LayersAreRead
  <2>6. QED
    BY <1>3, <2>1, <2>3, <2>4, <2>5
<1>4. QED
  BY <1>2, <1>3

(* Line breaks, spaces and missing padding never change what a text        *)
(* carries, however many there are.                                        *)
LEMMA StaysTheSame == BSpec => []SameLicense
<1>1. BInit => SameLicense
  BY EncodedCarries DEF BInit, SameLicense, Encoded
<1>2. BTypes /\ SameLicense /\ [BNext]_bvars => SameLicense'
  <2> SUFFICES ASSUME BTypes, SameLicense, [BNext]_bvars PROVE SameLicense'
    OBVIOUS
  <2>1. CASE Edit
    <3> SUFFICES ASSUME layoutOnly' PROVE Carries(text', layers)
      BY <2>1 DEF Edit, SameLicense, Carries
    <3>1. text \in Text /\ layers \in 0 .. MaxLayers
      BY DEF BTypes
    <3>2. CASE \E i \in 1 .. Len(text) + 1, c \in Inserted :
                 /\ text' = InsertAt(text, i, c)
                 /\ layoutOnly' = (layoutOnly /\ c \in Layout)
      <4>1. PICK i \in 1 .. Len(text) + 1, c \in Inserted :
              /\ text' = InsertAt(text, i, c)
              /\ layoutOnly' = (layoutOnly /\ c \in Layout)
        BY <3>2
      <4>2. c \in Layout /\ Carries(text, layers)
        BY <4>1 DEF SameLicense
      <4>3. /\ Readable(text) => Readable(InsertAt(text, i, c))
            /\ StrictDecode(InsertAt(text, i, c)) = StrictDecode(text)
            /\ BareJson(text) => BareJson(InsertAt(text, i, c))
        BY <3>1, <4>2, BreakingKeeps
      <4>4. QED
        BY <4>1, <4>2, <4>3, Zenon DEF Carries
    <3>3. CASE \E i \in DOMAIN text :
                 /\ text' = RemoveAt(text, i)
                 /\ layoutOnly' = (layoutOnly /\ Unpadded(i))
      <4>1. PICK i \in DOMAIN text :
              /\ text' = RemoveAt(text, i)
              /\ layoutOnly' = (layoutOnly /\ Unpadded(i))
        BY <3>3
      <4>2. i \in 1 .. Len(text)
        BY <3>1 DEF Text
      <4>3. layoutOnly /\ Unpadded(i)
        BY <4>1, Zenon
      <4>4. Carries(text, layers)
        BY <4>3 DEF SameLicense
      <4>5. /\ Readable(text) => Readable(RemoveAt(text, i))
            /\ StrictDecode(RemoveAt(text, i)).out = StrictDecode(text).out
            /\ ~BareJson(text)
        BY <3>1, <4>2, <4>3, UnpaddingKeeps DEF Unpadded
      <4>6. QED
        BY <4>1, <4>4, <4>5, Zenon DEF Carries
    <3>4. QED
      BY <2>1, <3>2, <3>3 DEF Edit
  <2>2. CASE Receive
    BY <2>2 DEF Receive, SameLicense, Carries
  <2>3. CASE Adopt
    BY <2>3 DEF Adopt, SameLicense, Carries
  <2>4. CASE Restart
    BY <2>4 DEF Restart, SameLicense, Carries
  <2>5. CASE UNCHANGED bvars
    BY <2>5 DEF bvars, SameLicense, Carries
  <2>6. QED
    BY <2>1, <2>2, <2>3, <2>4, <2>5 DEF BNext
<1>3. QED
  BY <1>1, <1>2, TypesHold, PTL DEF BSpec

(* A license is accepted, or refused, for its layers and nothing else.     *)
LEMMA CountsLayers == BSpec => []LayersCounted
<1>1. BInit => LayersCounted
  BY DEF BInit, LayersCounted
<1>2. /\ BTypes /\ KeptAsAccepted /\ SameLicense /\ LayersCounted
      /\ [BNext]_bvars
      => LayersCounted'
  <2> SUFFICES ASSUME BTypes, KeptAsAccepted, SameLicense, LayersCounted, [BNext]_bvars,
                      layoutOnly'
               PROVE  /\ step' = "received" /\ ~accepted' => Arrived'
                      /\ step' = "refused" => ~FewLayers'
                      /\ accepted' => FewLayers' /\ IsJson(EnvelopeText(file'))
    BY DEF LayersCounted
  <2> USE DEF BTypes
  <2>1. CASE Edit
    <3>1. step' = "sent" /\ ~accepted'
      BY <2>1 DEF Edit, KeptAsAccepted
    <3>2. QED
      BY <3>1
  <2>2. CASE Receive
    <3>1. /\ step = "sent" /\ ~accepted /\ ~accepted' /\ layoutOnly
          /\ layers' = layers /\ source' = source /\ text' = text
      BY <2>2 DEF Receive, KeptAsAccepted
    <3>2. Carries(text, layers)
      BY <3>1 DEF SameLicense
    <3>3. CASE source = "package"
      <4>1. raw' = text /\ step' = "received"
        BY <2>2, <3>3 DEF Receive
      <4>2. QED
        BY <3>1, <3>3, <4>1 DEF Arrived
    <3>4. CASE source # "package" /\ StrictDecode(text).state = "error"
      <4>1. step' = "refused" /\ layers = 0
        BY <2>2, <3>2, <3>4, CarriedIsCounted DEF Receive
      <4>2. ~FewLayers'
        BY <3>1, <3>4, <4>1 DEF FewLayers
      <4>3. QED
        BY <3>1, <4>1, <4>2
    <3>5. CASE source # "package" /\ StrictDecode(text).state # "error"
      <4>1. step' = "received" /\ raw' = StrictDecode(text).out
        BY <2>2, <3>5 DEF Receive
      <4>2. layers # 0
        BY <3>2, <3>5, CarriedIsCounted
      <4>3. StrictDecode(text).out = Encoded[layers - 1] /\ layers >= 1
        BY <3>2, <4>2 DEF Carries
      <4>4. Arrived'
        BY <3>1, <3>5, <4>1, <4>3 DEF Arrived
      <4>5. QED
        BY <3>1, <4>1, <4>4
    <3>6. QED
      BY <3>3, <3>4, <3>5
  <2>3. CASE Adopt
    <3>1. /\ step = "received" /\ layoutOnly
          /\ layers' = layers /\ source' = source
          /\ FewLayers' <=> FewLayers
      BY <2>3 DEF Adopt, FewLayers
    <3>2. /\ step' = "accepted" \/ step' = "refused"
          /\ step' = "accepted" => Parses(EnvelopeText(NormalizeBytes(raw)))
          /\ step' = "refused" => ~Parses(EnvelopeText(NormalizeBytes(raw)))
          /\ step' = "accepted" => file' = NormalizeBytes(raw)
          /\ step' = "refused" => file' = file
          /\ accepted' => accepted \/ step' = "accepted"
      BY <2>3 DEF Adopt
    <3>3. CASE accepted
      <4>1. FewLayers /\ IsJson(EnvelopeText(raw))
        BY <3>1, <3>3 DEF LayersCounted, KeptAsAccepted
      <4>2. /\ IsJson(EnvelopeText(NormalizeBytes(raw)))
            /\ Parses(EnvelopeText(NormalizeBytes(raw)))
        BY <4>1, NormalizedJson, NormalizedIsText, JsonMeans
      <4>3. QED
        BY <3>1, <3>2, <4>1, <4>2
    <3>4. CASE ~accepted
      <4>1. Arrived /\ Carries(text, layers)
        BY <3>1, <3>4 DEF LayersCounted, SameLicense
      <4>2. /\ IsJson(EnvelopeText(NormalizeBytes(raw))) <=> FewLayers
            /\ Parses(EnvelopeText(NormalizeBytes(raw))) <=> FewLayers
        <5>1. CASE source = "package"
          <6>1. raw = text
            BY <4>1, <5>1 DEF Arrived
          <6>2. QED
            BY <4>1, <5>1, <6>1, CarriedIsCounted DEF FewLayers
        <5>2. CASE source # "package"
          <6>1. layers >= 1 /\ raw = Encoded[layers - 1]
            BY <4>1, <5>2 DEF Arrived
          <6>2. layers - 1 \in 0 .. MaxLayers
            BY <6>1, BytesAssumption
          <6>3. /\ IsJson(EnvelopeText(NormalizeBytes(raw))) <=> layers - 1 <= 2
                /\ Parses(EnvelopeText(NormalizeBytes(raw))) <=> layers - 1 <= 2
            BY <6>1, <6>2, EncodedCarries, CarriedIsCounted
          <6>4. layers \in 1 .. 3 <=> layers - 1 <= 2
            BY <6>1, BytesAssumption
          <6>5. QED
            BY <5>2, <6>3, <6>4 DEF FewLayers
        <5>3. QED
          BY <5>1, <5>2
      <4>3. QED
        BY <3>1, <3>2, <3>4, <4>2
    <3>5. QED
      BY <3>3, <3>4
  <2>4. CASE Restart
    BY <2>4 DEF Restart, LayersCounted, FewLayers, KeptAsAccepted
  <2>5. CASE UNCHANGED bvars
    BY <2>5 DEF bvars, LayersCounted, FewLayers, Arrived
  <2>6. QED
    BY <2>1, <2>2, <2>3, <2>4, <2>5 DEF BNext
<1>3. QED
  BY <1>1, <1>2, TypesHold, StaysAccepted, StaysTheSame, PTL DEF BSpec

(* LicenseVerifier accepts the counted document for just as many layers.   *)
LEMMA CountedAlike ==
  ASSUME NEW n \in 0 .. MaxLayers
  PROVE  LET doc == [form |-> "wellFormed", layers |-> n, signer |-> None,
                     licenseKey |-> None, fingerprint |-> None, expiresAt |-> Epoch]
         IN  /\ CountedVerdict(doc) = "success" <=> n <= 2
             /\ Decodable(doc) <=> n # 0
             /\ n # 0 => (CountedVerdict(DecodeBase64(doc)) = "success" <=> n <= 3)
<1> DEFINE Doc(k) == [form |-> "wellFormed", layers |-> k, signer |-> None,
                      licenseKey |-> None, fingerprint |-> None, expiresAt |-> Epoch]
<1>1. MaxLayers \in Nat
  BY BytesAssumption
<1>2. ASSUME NEW k \in Nat
      PROVE  VerifyLicense(Doc(k), None, None, 1) = "success" <=> k <= 1
  <2>1. Doc(k) \in Document
    BY DEF Document, Forms, Epoch
  <2>2. FitsMachine(Doc(k), None)
    BY DEF FitsMachine
  <2>3. QED
    BY <2>1, <2>2, AcceptedExactly
<1>3. ASSUME NEW k \in Nat, k # 0 PROVE DecodeBase64(Doc(k)) = Doc(k - 1)
  BY DEF DecodeBase64
<1>4. ASSUME NEW k \in Nat
      PROVE  CountedVerdict(Doc(k)) = "success" <=> k <= 2
  <2>1. NormalizeLicenseBytes(Doc(k)) = IF k = 0 THEN Doc(k) ELSE Doc(k - 1)
    BY <1>3 DEF NormalizeLicenseBytes
  <2>2. CASE k = 0
    BY <1>2, <2>1, <2>2 DEF CountedVerdict
  <2>3. CASE k # 0
    <3>1. k - 1 \in Nat /\ (k - 1 <= 1 <=> k <= 2)
      BY <2>3
    <3> HIDE DEF Doc
    <3>2. QED
      BY <1>2, <2>1, <2>3, <3>1 DEF CountedVerdict
  <2>4. QED
    BY <2>2, <2>3
<1>5. Decodable(Doc(n)) <=> n # 0
  BY <1>1 DEF Decodable
<1>6. ASSUME n # 0 PROVE CountedVerdict(DecodeBase64(Doc(n))) = "success" <=> n <= 3
  <2>1. n \in Nat /\ n - 1 \in Nat /\ (n - 1 <= 2 <=> n <= 3)
    BY <1>1, <1>6
  <2> HIDE DEF Doc
  <2>2. QED
    BY <1>3, <1>4, <1>6, <2>1
<1>7. n \in Nat
  BY <1>1
<1>8. QED
  BY <1>4, <1>5, <1>6, <1>7

(* However a license is wrapped and however its padding is lost, its bytes *)
(* are accepted if and only if LicenseVerifier accepts a document with as  *)
(* many layers as it was encoded times (client.cpp 234-263, 390-459;       *)
(* validator.cpp 245-272).                                                 *)
THEOREM LayersMayBeCounted == BSpec => []LayersDecide
<1>1. BTypes /\ KeptAsAccepted /\ LayersCounted => LayersDecide
  <2> SUFFICES ASSUME BTypes, KeptAsAccepted, LayersCounted,
                      layoutOnly, step \in {"accepted", "refused"}
               PROVE  step = "accepted" <=>
                        IF source = "package" THEN CountedVerdict(Counted) = "success"
                        ELSE /\ Decodable(Counted)
                             /\ CountedVerdict(DecodeBase64(Counted)) = "success"
    BY DEF LayersDecide
  <2>1. step = "accepted" <=> FewLayers
    BY DEF KeptAsAccepted, LayersCounted
  <2>2. layers \in 0 .. MaxLayers /\ MaxLayers \in Nat
    BY BytesAssumption DEF BTypes
  <2>3. /\ CountedVerdict(Counted) = "success" <=> layers <= 2
        /\ Decodable(Counted) <=> layers # 0
        /\ layers # 0 => (CountedVerdict(DecodeBase64(Counted)) = "success" <=> layers <= 3)
    BY <2>2, CountedAlike DEF Counted
  <2>4. layers \in 1 .. 3 <=> layers # 0 /\ layers <= 3
    BY <2>2
  <2>5. QED
    BY <2>1, <2>3, <2>4 DEF FewLayers
<1>2. QED
  BY <1>1, TypesHold, StaysAccepted, CountsLayers, PTL

=============================================================================
