SPECIFICATION LinkSpec
CONSTANTS
  Sockets = {s1, s2, s3}
  e1 = e1
  Edges = {e1}
  NoNote = NoNote
  EdgeOf <- AllOfOne
  Activities = {a1, a2}
  Notes = {n1, n2}
  MaxPending = 1
  MaxInputs = 5
SYMMETRY Symm
INVARIANTS ConnectionOwnsWork PauseSettles FactsAreTrue
CHECK_DEADLOCK FALSE
