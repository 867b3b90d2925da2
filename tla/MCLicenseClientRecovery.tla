----------------------- MODULE MCLicenseClientRecovery -----------------------
(* Small instances of LicenseClientRecovery for TLC, over the documents    *)
(* and configurations of MCLicenseClient.                                  *)
EXTENDS MCLicenseClient, LicenseClientRecovery

FilelessConfigs == SharedConfigs \cup {KeyFromFile}
SealingConfigs == {Sealing}
=============================================================================
