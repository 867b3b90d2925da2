SPECIFICATION RSpec
CONSTANTS
  None = None
  BadPem = BadPem
  Unreadable = Unreadable
  k1 = k1
  k2 = k2
  here = here
  elsewhere = elsewhere
  lic = lic
  s1 = s1
  Keys = {k1, k2}
  LicenseKeys = {lic}
  Fingerprints = {here, elsewhere}
  Secrets = {s1}
  MachineFingerprint = here
  Documents <- TwoDocuments
  Configs <- OnlineConfigs
  ServedKeys <- GoodKeys
  IoMayFail = FALSE
  MaxTime = 1
INVARIANTS
  FirstActivationIsCached
