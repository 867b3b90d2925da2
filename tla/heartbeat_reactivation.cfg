SPECIFICATION Spec
CONSTANTS
  Interval = 1
  MinBackoff = 2
  MaxBackoff = 6
  ServerIntervals = {0}
  MaxFailures = 4
INVARIANTS
  ReactivationIsReported
