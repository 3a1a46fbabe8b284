\* As MC_FilterCache.cfg, without syscalls: line 1 lies in library L's
\* text, which checkSharedLib translates to L's line.
CONSTANTS
    VAddrs = {1, 2, 3}
    NumSets = 2
    ProcMask = 16
    MaxInv = 2
    Libs = {"L", "M"}
    LibAddr <- MC_LibAddr
    PageLines = 2
    InitMap <- MC_InitMap
    MmapRows <- MC_MmapRows
    SysLines = {2, 3}
    FirstPhase = TRUE
    NoSharing = FALSE
    ScatterCache = FALSE
    MaxSys = 0

SPECIFICATION Spec
INVARIANT SharedEntryResident
