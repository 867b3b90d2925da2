SPECIFICATION FairSpec
CONSTANTS
  None = None
  BadPem = BadPem
  Unreadable = Unreadable
  k1 = k1
  k2 = k2
  here = here
  elsewhere = elsewhere
  lic = lic
  s1 = s1
  Keys = {k1, k2}
  LicenseKeys = {lic}
  Fingerprints = {here, elsewhere}
  Secrets = {s1}
  MachineFingerprint = here
  Documents <- OddDocuments
  Configs <- SetupConfigs
  ServedKeys <- FewServedKeys
  IoMayFail = TRUE
  MaxTime = 1
PROPERTIES
  OnlyVerifiedIsStored
  CallsReturn
  HeartbeatsReturn
