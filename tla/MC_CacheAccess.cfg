\* Three cache levels above memory, two lines each, three addresses:
\* writebacks and fetches nest through every level and reach memory, which
\* may record each.  A top-level access makes at most 4 memory accesses
\* (MaxRecords never cuts one off).  The LLC runs accessSkew with FTM on
\* for loads only (ftmTypeFlag = 1), in the first phase with sharing, so
\* that the delayed, the counted-only and the untouched cases all occur.
CONSTANTS
    a1 = a1
    a2 = a2
    a3 = a3
    Empty = Empty
    NumLevels = 3
    Cap = 2
    MaxRecords = 4
    FTMEnable = TRUE
    FTMTypes = {"GETS"}
    FirstPhase = TRUE
    NoSharing = FALSE
    ScatterCache = FALSE
    Regions <- MC_Regions
    Addr <- MC_Addr

SPECIFICATION Spec
SYMMETRY MC_Symmetry
INVARIANT TypeOK
INVARIANT SingleRecord
INVARIANT NoRecordLost
INVARIANT RecordEndsAtFetch
INVARIANT InvalidationFindsLine
INVARIANT FTMDelayOnlyOnHit
