SPECIFICATION Spec
CONSTANTS
  Records = {r1, r2}
  None = None
  Scheduled = {r2}
  PendingCap = 3
  MaxRuns = 1
  Threshold = 1
  PreemptMax = 2
  DeferMax = 1
  MaxAttempts = 2
  Drafted = {r1}
  MaxHuman = 2
  MaxCalls = 2
  MaxFaults = 1
INVARIANTS
  PostedOnce
  PostedAsApproved
  BreakerStops
CHECK_DEADLOCK FALSE
