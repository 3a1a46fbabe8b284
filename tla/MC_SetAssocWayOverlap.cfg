\* More cores than sets and than ways: the LLC of 2 sets of 2 ways shared
\* by three cores, set- or way-partitioned.  With set partitioning,
\* partitionSetCount is 2 / 3 = 0 and partitionMask = 0 - 1 wraps to
\* 0xFFFFFFFF: every core's set is the unmasked hash(0, a), so all three
\* share every set (the hash values here are the set indices 0 and 1).
\* With way partitioning, partitionAssoc is raised from 0 to 1, and the
\* way offsets (p * 1) & 1 give cores 0 and 2 the same way.
CONSTANTS
    a1 = a1
    a2 = a2
    a3 = a3
    a4 = a4
    a5 = a5
    Empty = Empty
    NoOwner = NoOwner
    NumLines = 4
    Assoc = 2
    NumCores = 3
    Modes = {"setPartition", "wayPartition"}
    HashValues = {0, 1}
    Addr <- MC_Addr

SPECIFICATION Spec
SYMMETRY MC_Symmetry
PROPERTY PartitionIsolation
