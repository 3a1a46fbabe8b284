\* 2 sets of 2 ways, five addresses, every hash table over the two set
\* indices, in each mode: plain, and the LLC partitioned between two cores
\* (set partitions are sets {0} and {1}; way partitions are way 0 and 1).
CONSTANTS
    a1 = a1
    a2 = a2
    a3 = a3
    a4 = a4
    a5 = a5
    Empty = Empty
    NoOwner = NoOwner
    NumLines = 4
    Assoc = 2
    NumCores = 2
    Modes = {"plain", "setPartition", "wayPartition"}
    HashValues = {0, 1}
    Addr <- MC_Addr

SPECIFICATION Spec
SYMMETRY MC_Symmetry
INVARIANT TypeOK
INVARIANT LinesReachable
PROPERTY PartitionIsolation
PROPERTY ImplementsCacheArray
