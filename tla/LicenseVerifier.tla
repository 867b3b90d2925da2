--------------------------- MODULE LicenseVerifier ---------------------------
(***************************************************************************)
(* What a license document is, and what the SDK decides about one:         *)
(* Validator::verify_license (src/src/validator.cpp), the byte             *)
(* normalisation of Client::normalize_license_bytes and the expiry test of *)
(* Client::validate (src/src/client.cpp).  No state: the modules of the    *)
(* client evaluate these operators.                                        *)
(***************************************************************************)
EXTENDS Naturals, Sequences

CONSTANTS
  Keys,          \* RSA public keys that PEM_read_bio_PUBKEY parses
  LicenseKeys,   \* values of the payload's license_key
  Fingerprints,  \* hardware fingerprints
  None           \* an empty string or an absent std::optional

(* system_clock::time_point{}, which is what expires_at holds when the     *)
(* payload has no end_date.                                                *)
Epoch == 0

(***************************************************************************)
(* A document is an envelope as it travels or lies on disk: form says how  *)
(* much of it can be read, layers how many times its JSON text is wrapped  *)
(* in base64, signer whose private key made the signature (None: nobody's).*)
(***************************************************************************)
Forms == {"garbage", "incomplete", "badPayload", "wellFormed"}

Document ==
  [form : Forms, layers : Nat, signer : Keys \cup {None},
   licenseKey : LicenseKeys \cup {None},
   fingerprint : Fingerprints \cup {None}, expiresAt : Nat]

(* LicensePayload, with the signer kept beside it for the properties.      *)
Payload ==
  [signer : Keys \cup {None}, licenseKey : LicenseKeys \cup {None},
   fingerprint : Fingerprints \cup {None}, expiresAt : Nat]

ASSUME NoneAssumption ==
  /\ None \notin Keys \cup LicenseKeys \cup Fingerprints
  /\ None \notin Document /\ None \notin Payload

(* Bytes no stage can read: a truncated or torn file, a mangled response.  *)
Garbage ==
  [form |-> "garbage", layers |-> 0, signer |-> None, licenseKey |-> None,
   fingerprint |-> None, expiresAt |-> Epoch]

PayloadOf(doc) ==
  [signer |-> doc.signer, licenseKey |-> doc.licenseKey,
   fingerprint |-> doc.fingerprint, expiresAt |-> doc.expiresAt]

(* The result of a function that runs its checks in order and returns the  *)
(* error of the first that fails.                                          *)
FirstFailure(checks) ==
  LET failed == {i \in DOMAIN checks : ~checks[i].holds}
  IN  IF failed = {} THEN "success"
      ELSE checks[CHOOSE i \in failed : \A j \in failed : i <= j].error

(* One base64 decoding: the strict one of apply_license_file_impl, which   *)
(* refuses raw JSON and garbled text (layers = 0).                         *)
Decodable(wire) == wire.layers > 0
DecodeBase64(wire) == [wire EXCEPT !.layers = @ - 1]

(* JSON is kept as it is, anything else loses one base64 layer.            *)
NormalizeLicenseBytes(doc) ==
  IF doc.layers = 0 THEN doc ELSE DecodeBase64(doc)

(* The signature check, of either padding.                                 *)
SignedByAnyone(doc, pkey) == doc.signer \in {pkey, None}  \* mutant
SignedBy(doc, pkey) == doc.signer = pkey

(* Either side may be empty: an unbound license, a provider with no data.  *)
FitsAny(license, expected) == license.fingerprint # None  \* mutant
FitsMachine(license, expected) ==
  \/ expected = None
  \/ license.fingerprint = None
  \/ license.fingerprint = expected

(* verify_license reads JSON or JSON under one base64 layer; the errors of *)
(* unreadable bytes (empty, decode, parse) are one class here.             *)
VerifyLicense(doc, pkey, expected, now) ==
  FirstFailure(<<
    [holds |-> doc.form # "garbage" /\ doc.layers <= 1,
     error |-> "validation_parse_error"],
    [holds |-> doc.form # "incomplete",
     error |-> "validation_decode_error"],
    [holds |-> SignedBy(doc, pkey),
     error |-> "validation_signature_mismatch"],
    [holds |-> doc.form # "badPayload",
     error |-> "validation_parse_error"],
    [holds |-> FitsMachine(doc, expected),
     error |-> "validation_fingerprint_mismatch"],
    [holds |-> doc.expiresAt = Epoch \/ now <= doc.expiresAt,
     error |-> "validation_expired"] >>)

(* Client::validate: no exemption for a license without an end date.       *)
ValidateLicense(license, now) ==
  IF license = None THEN "no_license_loaded"
  ELSE IF now > license.expiresAt THEN "validation_expired"
  ELSE "success"

=============================================================================
