SPECIFICATION Spec
CONSTANTS
  t1 = t1
  t2 = t2
  KindsOf <- MCKindsOf
  Tasks = {t1, t2}
  Humans = {t2}
  Notes = {n1}
  None = None
  MaxDrops = 1
INVARIANTS
  NoSecondComment
  LeaseHolds
PROPERTY FlagIsFreed
CHECK_DEADLOCK FALSE
