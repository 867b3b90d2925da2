------------------------- MODULE LicenseVerifierProofs ------------------------
(***************************************************************************)
(* Lemmas about the verdicts of LicenseVerifier, for the proofs of the     *)
(* modules that use them.                                                  *)
(***************************************************************************)
EXTENDS LicenseVerifier, TLAPS

(* Among checks that failed there is a first one.                          *)
LEMMA FirstIsThere ==
  ASSUME NEW failed \in SUBSET (1 .. 7), failed # {}
  PROVE  \E i \in failed : \A j \in failed : i <= j
<1> DEFINE first ==
      IF 1 \in failed THEN 1 ELSE IF 2 \in failed THEN 2
      ELSE IF 3 \in failed THEN 3 ELSE IF 4 \in failed THEN 4
      ELSE IF 5 \in failed THEN 5 ELSE IF 6 \in failed THEN 6 ELSE 7
<1>1. ASSUME NEW j \in failed PROVE j \in {1, 2, 3, 4, 5, 6, 7}
  <2>1. j \in 1 .. 7
    OBVIOUS
  <2>2. QED
    BY <2>1
<1>2. PICK one \in failed : TRUE
  OBVIOUS
<1>3. first \in failed
  BY <1>1, <1>2
<1>4. ASSUME NEW j \in failed PROVE first <= j
  BY <1>1, j \in failed
<1>5. QED
  BY <1>3, <1>4

(* A function that checks in order returns the error of one of its checks, *)
(* which does not hold.                                                    *)
LEMMA FirstFailureNamed ==
  ASSUME NEW n \in 1 .. 7, NEW checks,
         DOMAIN checks = 1 .. n
  PROVE  \/ FirstFailure(checks) = "success"
         \/ \E i \in 1 .. n : /\ FirstFailure(checks) = checks[i].error
                              /\ ~checks[i].holds
<1> DEFINE failed == {i \in DOMAIN checks : ~checks[i].holds}
<1>1. CASE failed = {}
  BY <1>1 DEF FirstFailure
<1>2. CASE failed # {}
  <2>1. failed \in SUBSET (1 .. 7)
    OBVIOUS
  <2>2. \E i \in failed : \A j \in failed : i <= j
    <3> HIDE DEF failed
    <3>1. QED
      BY <1>2, <2>1, FirstIsThere
  <2>3. FirstFailure(checks) =
          checks[CHOOSE i \in failed : \A j \in failed : i <= j].error
    BY <1>2 DEF FirstFailure
  <2>4. QED
    BY <2>2, <2>3
<1>3. QED
  BY <1>1, <1>2

(* It succeeds only if every check holds.                                  *)
LEMMA FirstFailureSound ==
  ASSUME NEW n \in 1 .. 7, NEW checks,
         DOMAIN checks = 1 .. n,
         \A i \in 1 .. n : checks[i].error # "success",
         FirstFailure(checks) = "success"
  PROVE  \A i \in 1 .. n : checks[i].holds
<1> DEFINE failed == {i \in DOMAIN checks : ~checks[i].holds}
<1>1. SUFFICES ASSUME failed # {} PROVE FALSE
  OBVIOUS
<1>2. failed \in SUBSET (1 .. 7)
  OBVIOUS
<1>3. \E i \in failed : \A j \in failed : i <= j
  <2> HIDE DEF failed
  <2>1. QED
    BY <1>1, <1>2, FirstIsThere
<1>4. FirstFailure(checks) = checks[CHOOSE i \in failed : \A j \in failed : i <= j].error
  BY <1>1 DEF FirstFailure
<1>5. QED
  BY <1>3, <1>4

(* A license is accepted if and only if it can be read, the key signed it, *)
(* it fits the machine and it is not over: no order of the checks, and no  *)
(* early return, lets through or holds up any other (validator.cpp         *)
(* 244-423).                                                               *)
THEOREM AcceptedExactly ==
  ASSUME NEW doc \in Document, NEW key, NEW expected, NEW time
  PROVE  VerifyLicense(doc, key, expected, time) = "success" <=>
           /\ doc.form = "wellFormed" /\ doc.layers <= 1 /\ doc.signer = key
           /\ FitsMachine(doc, expected)
           /\ doc.expiresAt = Epoch \/ time <= doc.expiresAt
<1> DEFINE checks == <<
      [holds |-> doc.form # "garbage" /\ doc.layers <= 1,
       error |-> "validation_parse_error"],
      [holds |-> doc.form # "incomplete",
       error |-> "validation_decode_error"],
      [holds |-> SignedBy(doc, key),
       error |-> "validation_signature_mismatch"],
      [holds |-> doc.form # "badPayload",
       error |-> "validation_parse_error"],
      [holds |-> FitsMachine(doc, expected),
       error |-> "validation_fingerprint_mismatch"],
      [holds |-> doc.expiresAt = Epoch \/ time <= doc.expiresAt,
       error |-> "validation_expired"] >>
<1>1. VerifyLicense(doc, key, expected, time) = FirstFailure(checks)
  BY DEF VerifyLicense
<1>2. DOMAIN checks = 1 .. 6
  OBVIOUS
<1>3. \A i \in 1 .. 6 : i \in {1, 2, 3, 4, 5, 6}
  OBVIOUS
<1>4. ASSUME NEW i \in 1 .. 6 PROVE checks[i].error # "success"
  <2>1. i \in {1, 2, 3, 4, 5, 6}
    BY <1>3
  <2>2. QED
    BY <2>1
<1>5. FirstFailure(checks) = "success" <=> \A i \in 1 .. 6 : checks[i].holds
  <2> HIDE DEF checks
  <2>1. QED
    BY <1>2, <1>4, FirstFailureSound, FirstFailureNamed
<1>6. (\A i \in 1 .. 6 : checks[i].holds) <=>
        /\ checks[1].holds /\ checks[2].holds /\ checks[3].holds
        /\ checks[4].holds /\ checks[5].holds /\ checks[6].holds
  <2> HIDE DEF checks
  <2>1. QED
    BY <1>3
<1>7. /\ checks[1].holds <=> (doc.form # "garbage" /\ doc.layers <= 1)
      /\ checks[2].holds <=> (doc.form # "incomplete")
      /\ checks[3].holds <=> SignedBy(doc, key)
      /\ checks[4].holds <=> (doc.form # "badPayload")
      /\ checks[5].holds <=> FitsMachine(doc, expected)
      /\ checks[6].holds <=> (doc.expiresAt = Epoch \/ time <= doc.expiresAt)
  OBVIOUS
<1>8. doc.form = "wellFormed" <=> doc.form \notin {"garbage", "incomplete", "badPayload"}
  BY DEF Document, Forms
<1> HIDE DEF checks
<1>9. QED
  BY <1>1, <1>5, <1>6, <1>7, <1>8 DEF SignedBy

(* What the proofs about the client need of an accepted license.           *)
LEMMA VerifyLicenseSound ==
  ASSUME NEW doc \in Document, NEW key, NEW expected, NEW time,
         VerifyLicense(doc, key, expected, time) = "success"
  PROVE  /\ doc.form = "wellFormed" /\ doc.signer = key
         /\ FitsMachine(doc, expected)
BY AcceptedExactly

(* Whatever it says of a license, it is none of the words for "no answer". *)
LEMMA VerdictIsAnswer ==
  ASSUME NEW doc, NEW key, NEW expected, NEW time
  PROVE  VerifyLicense(doc, key, expected, time) \notin {"none", "pending"}
<1> DEFINE checks == <<
      [holds |-> doc.form # "garbage" /\ doc.layers <= 1,
       error |-> "validation_parse_error"],
      [holds |-> doc.form # "incomplete",
       error |-> "validation_decode_error"],
      [holds |-> SignedBy(doc, key),
       error |-> "validation_signature_mismatch"],
      [holds |-> doc.form # "badPayload",
       error |-> "validation_parse_error"],
      [holds |-> FitsMachine(doc, expected),
       error |-> "validation_fingerprint_mismatch"],
      [holds |-> doc.expiresAt = Epoch \/ time <= doc.expiresAt,
       error |-> "validation_expired"] >>
<1>1. VerifyLicense(doc, key, expected, time) = FirstFailure(checks)
  BY DEF VerifyLicense
<1>2. DOMAIN checks = 1 .. 6
  OBVIOUS
<1>3. \A i \in 1 .. 6 : checks[i].error \notin {"none", "pending"}
  <2> SUFFICES ASSUME NEW i \in 1 .. 6
               PROVE  checks[i].error \notin {"none", "pending"}
    OBVIOUS
  <2>1. i \in {1, 2, 3, 4, 5, 6}
    OBVIOUS
  <2>2. QED
    BY <2>1
<1>4. QED
  <2> HIDE DEF checks
  <2>1. QED
    BY <1>1, <1>2, <1>3, FirstFailureNamed

=============================================================================
