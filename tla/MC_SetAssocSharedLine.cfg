\* A line shared by two partitions (e.g. a shared-library line that the
\* FTM translation maps to one physical address for every process): the
\* set-partitioned LLC, 4 sets of 2 ways, two cores.
CONSTANTS
    a1 = a1
    a2 = a2
    a3 = a3
    a4 = a4
    a5 = a5
    Empty = Empty
    NoOwner = NoOwner
    NumLines = 8
    Assoc = 2
    NumCores = 2
    Modes = {"setPartition"}
    HashValues = {0, 1, 2, 3}
    Addr <- MC_Addr

SPECIFICATION Spec
SYMMETRY MC_Symmetry
INVARIANT NoDuplicateResidency
