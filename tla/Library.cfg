SPECIFICATION Spec
CONSTANTS
    GlobalPacks = {g1, g2}
    OwnedPacks = {o1}
    MaxMutations = 2
    MaxFailures = 1
INVARIANTS
    CacheIsTrue
    OptimismHolds
SYMMETRY Symmetry
