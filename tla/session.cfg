SPECIFICATION SFairSpec
CONSTANTS
  Interval = 1
  MinBackoff = 1
  MaxBackoff = 1
  ServerIntervals = {0}
  MaxFailures = 0
  Uses <- AllUses
  MaxDepth = 6
INVARIANTS
  STypeOK
  LockIsScoped
  OnlyMisuseDeadlocks
  NestingIsBounded
  QuietAfterClose
PROPERTIES
  CallsComeBack
CHECK_DEADLOCK FALSE
