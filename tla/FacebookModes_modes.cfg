CONSTANTS
    Services = {p1, p2}
    MaxRev = 2
    MaxMoves = 2
    Nothing = Nothing
    Contents = {c1}
    Targets = {g1}
    ViewsPerLike = 1
    LikesPerJoin = 1
    JoinsPerComment = 1
    MaxActions = 3
    RuleContents = {c1}
    RuleViewsPerLike = 1
    JoinEveryNRounds = 1
    MaxBatches = 2
    MaxRows = 3
SPECIFICATION ModesSpec
CONSTRAINT RowBound
INVARIANTS WriteOnce ObligationsEarned OneRound
CHECK_DEADLOCK FALSE
SYMMETRY Symmetry
