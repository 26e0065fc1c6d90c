SPECIFICATION DSpec
CONSTANTS
    Null = Null
    Keys = {k1, k2, k3}
    Backlog = {k1}
    Posts = {c1, c2}
    PageSize = 1
    MoveTargets = {"QUEUED", "PROCESSING", "DEAD"}
    MaxMoves = 2
    Filters = {"ALL", "DEAD"}
    JobPages = {1, 2}
    MaxLoads = 2
SYMMETRY Symmetry
INVARIANTS
    DTypeOK
    ShownAnswersQuery
    SpinnerIsServed
    NoFalseEmpty
    RetryShowsOnlyRequeued
