----------------------------- MODULE LicenseBytes -----------------------------
(***************************************************************************)
(* The bytes of one license on their way through the SDK: from the server  *)
(* by apply_license_file_impl, or laid on disk by hand, through            *)
(* validate_and_store to the license file, and back from it at every       *)
(* restart (src/src/client.cpp).  LicenseVerifier counts the base64 layers *)
(* of a document; here are the characters, with what becomes of them when  *)
(* a text is wrapped, padded, edited or garbled on the way.                *)
(*                                                                         *)
(* The signature is left out: a license is the empty JSON object, and      *)
(* accepted when it is what the parser is given.  Whoever writes it may    *)
(* put a byte order mark before it.                                        *)
(***************************************************************************)
EXTENDS Base64, LicenseVerifier

CONSTANTS
  MaxLayers,  \* bound on how often the server encodes a license
  MaxEdits,   \* bound on how often it is changed on the way
  Inserted    \* characters that may get in

ASSUME BytesAssumption ==
  /\ MaxLayers \in Nat /\ MaxEdits \in Nat
  /\ Inserted \subseteq 0 .. 255

VARIABLES
  layers,      \* how often it was encoded
  text,        \* what arrives
  edits,       \* how often it was changed
  layoutOnly,  \* plain JSON, but for lines broken and padding dropped
  source,      \* "server" or "package"
  raw,         \* what validate_and_store is given
  file,        \* the license file
  step,        \* "sent", "received", "accepted" or "refused"
  accepted     \* it has been accepted before

bvars == <<layers, text, edits, layoutOnly, source, raw, file, step, accepted>>

CloseBrace == 125                  \* '}'
Json == <<OpenBrace, CloseBrace>>
ByteOrderMark == <<239, 187, 191>>  \* U+FEFF in UTF-8
HasMark(envelope) == IsPrefix(ByteOrderMark, envelope)

(* json::parse allows for white space and for a byte order mark at the     *)
(* very start, and a zero ends its input.                                  *)
FirstParsed(envelope) == IF HasMark(envelope) THEN Len(ByteOrderMark) + 1 ELSE 1
EndsInput(envelope, end) == end = Len(envelope) + 1 \/ envelope[end] = 0
Parses(envelope) ==
  \E i, j \in DOMAIN envelope, end \in 1 .. Len(envelope) + 1 :
    /\ i < j /\ envelope[i] = OpenBrace /\ envelope[j] = CloseBrace
    /\ j < end /\ EndsInput(envelope, end)
    /\ \A k \in (FirstParsed(envelope) .. end - 1) \ {i, j} : envelope[k] \in Blank

(* A license encoded any number of times.                                  *)
Wrapped(json) ==
  LET wrapped[n \in 0 .. MaxLayers] ==
        IF n = 0 THEN json ELSE Encode(wrapped[n - 1])
  IN  wrapped

BInit ==
  /\ layers \in 0 .. MaxLayers
  /\ \E json \in {Json, ByteOrderMark \o Json} :
       text = Wrapped(json)[layers] /\ layoutOnly = (json = Json)
  /\ edits = 0
  /\ source \in {"server", "package"}
  /\ raw = <<>> /\ file = <<>> /\ step = "sent" /\ accepted = FALSE

(* Mail programs, editors, terminals.  Lines that are broken and padding    *)
(* that is dropped are only layout.                                        *)
Layout == {10, 13, 32}
Unpadded(i) == text[i] = Pad /\ \A j \in i .. Len(text) : ~IsDigit(text[j])
Edit ==
  /\ step = "sent" /\ edits < MaxEdits
  /\ edits' = edits + 1
  /\ \/ \E i \in 1 .. Len(text) + 1, c \in Inserted :
          /\ text' = InsertAt(text, i, c)
          /\ layoutOnly' = (layoutOnly /\ c \in Layout)
     \/ \E i \in DOMAIN text :
          /\ text' = RemoveAt(text, i)
          /\ layoutOnly' = (layoutOnly /\ Unpadded(i))
  /\ UNCHANGED <<layers, source, raw, file, step, accepted>>

(* apply_license_file_impl, first thing; or a file that is simply there.   *)
Receive ==
  /\ step = "sent"
  /\ LET decoded == StrictDecode(text)
     IN  IF source = "package" THEN raw' = text /\ step' = "received"
         ELSE IF decoded.state = "error" THEN step' = "refused" /\ UNCHANGED raw
         ELSE raw' = decoded.out /\ step' = "received"
  /\ UNCHANGED <<layers, text, edits, layoutOnly, source, file, accepted>>

(* validate_and_store.                                                     *)
Adopt ==
  /\ step = "received"
  /\ LET normalized == NormalizeBytes(raw)
     IN  IF Parses(EnvelopeText(normalized))
         THEN file' = normalized /\ step' = "accepted" /\ accepted' = TRUE
         ELSE step' = "refused" /\ UNCHANGED <<file, accepted>>
  /\ UNCHANGED <<layers, text, edits, layoutOnly, source, raw>>

(* load_existing_license of the next client.                               *)
Restart ==
  /\ step = "accepted"
  /\ raw' = file /\ step' = "received"
  /\ UNCHANGED <<layers, text, edits, layoutOnly, source, file, accepted>>

BNext == Edit \/ Receive \/ Adopt \/ Restart

BSpec == BInit /\ [][BNext]_bvars

-----------------------------------------------------------------------------
Bytes(seq) == \A i \in DOMAIN seq : seq[i] \in 0 .. 255

BTypeOK ==
  /\ Bytes(text) /\ Bytes(raw) /\ Bytes(file)
  /\ step \in {"sent", "received", "accepted", "refused"}
  /\ edits \in 0 .. MaxEdits /\ layers \in 0 .. MaxLayers

(* What is encoded comes back from both decoders byte by byte, whatever    *)
(* the bytes are and however often the int they pass through overflows     *)
(* (client.cpp 243-258, 432-449).                                          *)
DecodesWhatWasEncoded ==
  step = "sent" =>
    /\ StrictDecode(Encode(text)).out = text
    /\ LenientDecode(Encode(text)) = text

(* A text the strict decoders accept means the same to the lenient one, up *)
(* to the white space it trims: what came online and what is laid on disk  *)
(* are read alike (client.cpp 234-261, 408-459).                           *)
DecodersAgree ==
  step = "sent" /\ StrictDecode(text).state # "error" =>
    NormalizeBytes(text) = TrimEnd(StrictDecode(text).out, Blank)

(* A license that was accepted once is accepted at every restart: the      *)
(* bytes that go to the file are read the way the first ones were, whether *)
(* they came as JSON, encoded or encoded twice.  One thing loses it: a     *)
(* byte order mark under the encoding that is in the file.  The parser     *)
(* skips it; the next start takes the encoding off and finds a text that   *)
(* does not begin with a brace (client.cpp 390-420, validator.cpp 260-279).*)
ReloadsAsAccepted ==
  accepted /\ step = "refused" => HasMark(EnvelopeText(file))

(* Line breaks, spaces and missing padding change nothing, and what is     *)
(* accepted is what LicenseVerifier says of a document with this many      *)
(* layers: it may count them instead of decoding them (client.cpp 234-263, *)
(* validator.cpp 245-272).                                                 *)
Counted ==
  [form |-> "wellFormed", layers |-> layers, signer |-> None,
   licenseKey |-> None, fingerprint |-> None, expiresAt |-> Epoch]
CountedVerdict(doc) == VerifyLicense(NormalizeLicenseBytes(doc), None, None, 1)
LayersDecide ==
  layoutOnly /\ step \in {"accepted", "refused"} =>
    (step = "accepted" <=>
       IF source = "package" THEN CountedVerdict(Counted) = "success"
       ELSE /\ Decodable(Counted)
            /\ CountedVerdict(DecodeBase64(Counted)) = "success")

=============================================================================
