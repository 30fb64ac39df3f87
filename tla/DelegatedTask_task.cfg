SPECIFICATION MCFairSpec
CONSTANTS
  s1 = s1  s2 = s2  o1 = o1
  None = None
  Tasks = {1}
  Slots = {s1, s2}
  Target <- MCTargets
  MaxAttempts <- MCTwoAttempts
  Operators = {o1}
  MaxOps = 2
  MaxCrashes = 1
PROPERTIES ImplementsContract EveryTaskEnds
CONSTRAINT OneDisturbance
ACTION_CONSTRAINT SecondCompetes
