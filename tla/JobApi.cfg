SPECIFICATION ApiSpec
CONSTANTS
    Null = Null
    Keys = {k1, k2, k3}
    Backlog = {k1}
    Posts = {c1, c2, c3}
    PageSize = 1
    MoveTargets = {"QUEUED", "PROCESSING", "SUCCEEDED", "DEAD"}
    MaxMoves = 3
SYMMETRY Symmetry
INVARIANTS
    OneJobPerKey
