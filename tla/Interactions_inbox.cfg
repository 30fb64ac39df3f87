SPECIFICATION Spec
CONSTANTS
  Envs = {e1, e2}
  Hosts = {h1, h2}
  FailureLimit = 1
  MaxChanges = 2
  None = None
  Jobs = {j1, j2}
  Texts = {t1, t2}
  Workers = {w1, w2}
  MaxAttempts = 2
  MaxOps = 4
  MaxStimuli = 4
SYMMETRY Symmetry
CONSTRAINT StimulusBound
INVARIANTS
  JobAttemptAgree
  LiveDataKept
PROPERTY ImplementsContract
CHECK_DEADLOCK FALSE
