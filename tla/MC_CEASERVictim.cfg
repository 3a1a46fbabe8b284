\* A CEASER array of 2 sets of 3 ways: numSets is a power of two, as the
\* constructor requires, but assoc is not.
CONSTANTS
    a1 = a1
    a2 = a2
    a3 = a3
    Empty = Empty
    NumSets = 2
    Assoc = 3
    SweepHoldsLock = TRUE
    SweepWaitsInsert = TRUE
    Addr <- MC_Addr

SPECIFICATION Spec
SYMMETRY MC_Symmetry
INVARIANT VictimCoversSet
