CONSTANTS
    p1 = p1
    p2 = p2
    c1 = c1
    c2 = c2
    c3 = c3
    k1 = k1
    k2 = k2
    v1 = v1
    v2 = v2
    None = None
    Procs = {p1, p2}
    Values = {v1, v2}
    Cmds = {c1, c2, c3}
    Calls = {k1, k2}
    KindOf <- MCKindOf
    Ledgers <- MCLedgers
    Required = 3
    Known = {1, 2, 3}
    Owned = {1, 3}
    Waiver = 0
    GateMode = "enforce"
    MaxVersion = 2
    MaxDraft = 2
    MaxInputs = 2
SPECIFICATION Spec
SYMMETRY Symm
CHECK_DEADLOCK FALSE
INVARIANTS
    LockGuardsWork
    OwnedFactHolds
    ReadyIsBacked
    CommandRunsOnce
    DecidedAsConfirmed
CONSTRAINT OneMoves
