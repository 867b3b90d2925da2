SPECIFICATION BSpec
CONSTANTS
  None = None
  Keys = {}
  LicenseKeys = {}
  Fingerprints = {}
  IntValues = 16777216
  MaxLayers = 4
  MaxEdits = 2
  Inserted = {0, 9, 10, 32, 61, 65, 123, 255}
INVARIANTS
  BTypeOK
  DecodesWhatWasEncoded
  DecodersAgree
  ReloadsAsAccepted
  LayersDecide
CHECK_DEADLOCK FALSE
