SPECIFICATION ASpec
CONSTANTS
  None = None
  a = a
  b = b
  ka = ka
  kb = kb
  h1 = h1
  h2 = h2
  m1 = m1
  m2 = m2
  c1 = c1
  Keys = {ka, kb}
  LicenseKeys = {}
  Fingerprints <- MCFingerprints
  Characters <- MCCharacters
  Apps = {a, b}
  ProductKey <- ProductKeys
  Layouts <- MCLayouts
  Pinning <- MCPinning
  Home <- Plain
  Hardware <- MCHardware
  Configured <- MCConfigured
  Terms = {1}
  MaxTime = 2
  MaxChanges = 2
INVARIANTS
  ATypeOK
  NotTransferable
PROPERTIES
  AskedForCause
