SPECIFICATION MCFairSpec
CONSTANTS
  p1 = p1  p2 = p2  k1 = k1  a1 = a1  dev = dev  ol = ol
  None = None
  Procs = {p1, p2}
  Keys = {k1}
  Accounts = {a1}
  Targets = {dev, ol}
  ProcTarget <- MCAllDev
  KeyTarget <- MCKeysDev
  KeyAccount <- MCOneAccount
  MaxAttempts = 2
  BatchLimit = 2
  MaxCrashes = 1
  MaxEvictions = 1
INVARIANTS ExactlyOnce MemoryBackedByLedger AwaitedRoundCoversRow
PROPERTIES TerminalStable AccountingSettles
CONSTRAINT PeerOnlyPolls
ACTION_CONSTRAINT PeerClaimsOnce
CHECK_DEADLOCK FALSE
