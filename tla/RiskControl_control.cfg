CONSTANTS
    Procs = {p1, p2}
    Ctls = {k1, k2, k3}
    Recoveries = {r1}
    Signals = {s1}
    MaxTime = 1
    Window = 1
    MaxReports = 1
    MaxFaults = 1
    MaxShakes = 1
    None = None
    MaxStimuli = 2
SPECIFICATION Spec
INVARIANTS ResumedOnce OutcomeHonest
PROPERTIES OutcomeStable
CHECK_DEADLOCK FALSE
SYMMETRY Symmetry
VIEW LiveState
CONSTRAINT StimuliBound
