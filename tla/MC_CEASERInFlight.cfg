\* Two sets of two ways, three addresses.  The sweep holds the cache's lock,
\* but an access gives the lock up between preinsert and postinsert
\* (processEviction), and the sweep does not wait for it there.
CONSTANTS
    a1 = a1
    a2 = a2
    a3 = a3
    Empty = Empty
    NumSets = 2
    Assoc = 2
    SweepHoldsLock = TRUE
    SweepWaitsInsert = FALSE
    Addr <- MC_Addr

SPECIFICATION Spec
SYMMETRY MC_Symmetry
INVARIANT NoDuplicateResidency
