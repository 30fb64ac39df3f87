SPECIFICATION JoinSpec
CONSTANTS
  Accounts = {a1, a2}
  Groups = {g1}
  Nil = Nil
  MaxAttempts = 1
  MaxLeft = 2
  MaxRuns = 3
  MaxOps = 1
  MaxEdge = 2
INVARIANTS
  OneAccountPerGroup
PROPERTIES
  JoinedHolds
  RunsEnd
CHECK_DEADLOCK FALSE
