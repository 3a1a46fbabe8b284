\* A filter of two sets over a direct-mapped L1 of two sets; three virtual
\* lines of one process in its first phase with sharing, line 1 in a
\* shared library's text; the application makes one syscall on line 2 or
\* 3, and the parent sends at most two invalidations.
CONSTANTS
    VAddrs = {1, 2, 3}
    NumSets = 2
    ProcMask = 16
    MaxInv = 2
    Libs = {"L", "M"}
    LibAddr <- MC_LibAddr
    PageLines = 2
    InitMap <- MC_InitMap
    MmapRows <- MC_MmapRows
    SysLines = {2, 3}
    FirstPhase = TRUE
    NoSharing = FALSE
    ScatterCache = FALSE
    MaxSys = 1

SPECIFICATION FairSpec
INVARIANT TypeOK
INVARIANT NoWaitCycle
INVARIANT FilterEntryResident
INVARIANT TranslationFindsLib
PROPERTY ReplaceCompletes
