SPECIFICATION FairSpec
CONSTANTS
  Interval = 1
  MinBackoff = 2
  MaxBackoff = 6
  ServerIntervals <- MCServerIntervals
  MaxFailures = 4
INVARIANTS
  TypeOK
  OneThread
  ExponentialBackoff
PROPERTIES
  FollowsContract
  StopReturns
  KeepsSending
