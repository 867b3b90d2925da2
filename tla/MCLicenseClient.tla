--------------------------- MODULE MCLicenseClient ---------------------------
(* Small instances of LicenseClient for TLC: two keys, two machines, one   *)
(* license key, one secret, and the documents that take the branches of    *)
(* the verifier.                                                           *)
EXTENDS LicenseClient

CONSTANTS k1, k2, here, elsewhere, lic, s1

Doc(layers, signer, licenseKey, fingerprint, expiresAt) ==
  [form |-> "wellFormed", layers |-> layers, signer |-> signer,
   licenseKey |-> licenseKey, fingerprint |-> fingerprint,
   expiresAt |-> expiresAt]

Short == Doc(1, k1, lic, here, 1)       \* expires when the clock ticks
Perpetual == Doc(2, k1, None, None, 0)  \* unbound, no license key, no end date
Rotated == Doc(1, k2, lic, here, 2)     \* signed by the second key
Foreign == Doc(1, k1, lic, elsewhere, 2)
Unsigned == Doc(1, None, lic, here, 2)
RawJson == Doc(0, k1, lic, here, 2)     \* as an offline package delivers it

MCDocuments == {Short, Perpetual, Rotated, Foreign, RawJson}
OddDocuments ==
  {RawJson, Short, Unsigned, [RawJson EXCEPT !.form = "incomplete"],
   [Short EXCEPT !.form = "badPayload"], [Short EXCEPT !.layers = 4], Garbage}
TwoDocuments == {Doc(1, k1, lic, here, 2), Rotated}

Online ==
  [fields |-> {"product", "version", "server"}, offline |-> FALSE,
   pinned |-> FALSE, pem |-> None, pemFile |-> None, secret |-> None,
   auth |-> "inline"]
Pinned == [Online EXCEPT !.pinned = TRUE, !.pem = k1]
KeyFromFile == [Online EXCEPT !.pemFile = k1, !.auth = "file"]
Offline ==
  [Online EXCEPT !.fields = {"product", "version"}, !.offline = TRUE,
                 !.pem = k1, !.auth = "none"]
Sealing == [Pinned EXCEPT !.secret = s1]
Refused ==
  {[Online EXCEPT !.fields = {"version", "server"}],
   [Online EXCEPT !.fields = {"product", "server"}],
   [Online EXCEPT !.fields = {"product", "version"}],
   [Online EXCEPT !.pinned = TRUE],
   [Online EXCEPT !.pemFile = Unreadable],
   [Online EXCEPT !.pem = BadPem],
   [Online EXCEPT !.auth = "none"],
   [Online EXCEPT !.auth = "unreadable"]}

SetupConfigs == Refused \cup {Offline, Sealing, KeyFromFile}
SharedConfigs == {Online, Pinned}
OnlineConfigs == {Online}
GoodKeys == {None, k1, k2}
FewServedKeys == {None, k1, BadPem}
AllServedKeys == GoodKeys \cup {BadPem}
=============================================================================
