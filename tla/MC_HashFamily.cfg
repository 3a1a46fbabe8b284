\* Each family: H3 at every output width (65 panics), Feistel with either
\* evaluation order of an sMat row's draws, SHA1 over six ids (two passes)
\* and three keys, 0 among them.
CONSTANTS
    Families = {"H3", "Feistel", "SHA1"}
    SHA1Keys = {0, 1, 2}
SPECIFICATION Spec
INVARIANT H3UnrolledIsReference
INVARIANT H3HashIsLinear
INVARIANT H3IdsDiffer
INVARIANT FeistelEveryBitMatters
INVARIANT SHA1MemoTransparent
INVARIANT SHA1IdsDiffer
