\* Two sets of two ways, three addresses, every pair of current and target
\* hash tables; the remap sweep holds the cache's lock.
CONSTANTS
    a1 = a1
    a2 = a2
    a3 = a3
    Empty = Empty
    NumSets = 2
    Assoc = 2
    SweepHoldsLock = TRUE
    SweepWaitsInsert = TRUE
    Addr <- MC_Addr

SPECIFICATION Spec
SYMMETRY MC_Symmetry
INVARIANT TypeOK
INVARIANT NoDuplicateResidency
INVARIANT LinesReachable
PROPERTY ImplementsCacheArray
