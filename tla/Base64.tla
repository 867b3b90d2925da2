-------------------------------- MODULE Base64 --------------------------------
(***************************************************************************)
(* The three base64 decoders of the SDK, as loops over character codes:    *)
(* the strict one of Client::apply_license_file_impl, which the validator  *)
(* has a copy of, and the lenient one of Client::normalize_license_bytes   *)
(* (src/src/client.cpp, src/src/validator.cpp).                            *)
(***************************************************************************)
EXTENDS Integers, SequencesExt

CONSTANT IntValues  \* how many values the int has that bits are collected in

ASSUME IntAssumption == IntValues \in Nat \ {0} /\ IntValues % 2 ^ 14 = 0

Blank == {9, 10, 13, 32}     \* '\t', '\n', '\r', ' '
Space == 9 .. 13 \cup {32}   \* isspace
Pad == 61                    \* '='
OpenBrace == 123             \* '{'

(* strchr finds every character of the table, and the terminating zero.    *)
IsDigit(c) ==
  c \in (65 .. 90) \cup (97 .. 122) \cup (48 .. 57) \cup {43, 47, 0}
Digit(c) ==
  CASE c \in 65 .. 90 -> c - 65     \* 'A' .. 'Z'
    [] c \in 97 .. 122 -> c - 71    \* 'a' .. 'z'
    [] c \in 48 .. 57 -> c + 4      \* '0' .. '9'
    [] c = 43 -> 62                 \* '+'
    [] c = 47 -> 63                 \* '/'
    [] c = 0 -> 64                  \* one past the table

CollectByte(val, digit) == (val * 64 + digit) % 256  \* mutant

(* (val << 6) | digit, in an int; a digit of 64 sets a bit of val.         *)
Collect(val, digit) ==
  LET shifted == (val * 64) % IntValues
  IN  IF digit = 64 /\ (shifted \div 64) % 2 = 1 THEN shifted
      ELSE shifted + digit

AnyByte(val) == val  \* mutant
LowByte(val) == val % 256

Full(bits) == bits >= 0

(* The loop, and its body for a character of the table.                    *)
Start == [val |-> 0, bits |-> -8, out |-> <<>>, state |-> "reading"]
Take(loop, c) ==
  LET val == Collect(loop.val, Digit(c))
      bits == loop.bits + 6
  IN  [val |-> val,
       bits |-> IF Full(bits) THEN bits - 8 ELSE bits,
       out |-> IF Full(bits) THEN Append(loop.out, LowByte(val \div 2 ^ bits))
               ELSE loop.out,
       state |-> loop.state]

SkipsSpace(c) == c = 32  \* mutant
Skips(c) == c \in {10, 13, 32}

StrictStep(loop, c) ==
  CASE loop.state # "reading" -> loop
    [] loop.state = "reading" /\ c = Pad -> [loop EXCEPT !.state = "done"]
    [] loop.state = "reading" /\ Skips(c) -> loop
    [] loop.state = "reading" /\ IsDigit(c) -> Take(loop, c)
    [] OTHER -> [loop EXCEPT !.state = "error"]

PadIsSkipped(loop, c) ==
  IF loop.state = "reading" /\ IsDigit(c) THEN Take(loop, c) ELSE loop  \* mutant
LenientStep(loop, c) ==
  CASE loop.state # "reading" -> loop
    [] loop.state = "reading" /\ c = Pad -> [loop EXCEPT !.state = "done"]
    [] loop.state = "reading" /\ IsDigit(c) -> Take(loop, c)
    [] OTHER -> loop

(* The loop after each character of the text.                              *)
StrictRun(text) ==
  LET run[n \in 0 .. Len(text)] ==
        IF n = 0 THEN Start ELSE StrictStep(run[n - 1], text[n])
  IN  run
LenientRun(text) ==
  LET run[n \in 0 .. Len(text)] ==
        IF n = 0 THEN Start ELSE LenientStep(run[n - 1], text[n])
  IN  run

StrictDecode(text) == StrictRun(text)[Len(text)]
LenientDecode(text) == LenientRun(text)[Len(text)].out

Kept(text, dropped) == {i \in DOMAIN text : text[i] \notin dropped}
TrimStart(text, dropped) ==
  IF Kept(text, dropped) = {} THEN <<>>
  ELSE SubSeq(text, Min(Kept(text, dropped)), Len(text))
TrimEnd(text, dropped) ==
  IF Kept(text, dropped) = {} THEN <<>>
  ELSE SubSeq(text, 1, Max(Kept(text, dropped)))

StartsJson(text) == text # <<>> /\ Head(text) = OpenBrace

(* normalize_license_bytes.                                                *)
AlwaysDecoded(raw) ==
  TrimEnd(LenientDecode(TrimEnd(TrimStart(raw, Blank), Space)), Blank)  \* mutant
NormalizeBytes(raw) ==
  LET text == TrimStart(raw, Blank)
  IN  IF StartsJson(text) THEN text
      ELSE TrimEnd(LenientDecode(TrimEnd(text, Space)), Blank)

(* The text verify_license hands to the JSON parser, empty for none.       *)
EnvelopeText(data) ==
  LET text == TrimStart(data, Blank)
      decoded == StrictDecode(TrimEnd(text, Space))
  IN  IF StartsJson(text) THEN text
      ELSE IF decoded.state = "error" THEN <<>> ELSE decoded.out

(* RFC 4648, which the server encodes with.                                *)
Alphabet(digit) ==
  CASE digit < 26 -> digit + 65
    [] digit >= 26 /\ digit < 52 -> digit + 71
    [] digit >= 52 /\ digit < 62 -> digit - 4
    [] digit = 62 -> 43
    [] OTHER -> 47

ByteAt(bytes, i) == IF i <= Len(bytes) THEN bytes[i] ELSE 0
Triple(a, b, c) == a * 65536 + b * 256 + c
Group(bytes, n) ==
  Triple(ByteAt(bytes, 3 * n + 1), ByteAt(bytes, 3 * n + 2), ByteAt(bytes, 3 * n + 3))
Cut(triple, n) == (triple \div 64 ^ (3 - n)) % 64  \* its n-th six bits
DigitCount(bytes) == (Len(bytes) * 8 + 5) \div 6
Char(bytes, i) ==  \* the i-th, counted from 0
  IF i >= DigitCount(bytes) THEN Pad ELSE Alphabet(Cut(Group(bytes, i \div 4), i % 4))
Encode(bytes) ==
  [i \in 1 .. 4 * ((Len(bytes) + 2) \div 3) |-> Char(bytes, i - 1)]

=============================================================================
