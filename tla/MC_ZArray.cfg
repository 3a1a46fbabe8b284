\* Two ways of two sets, four lines, five addresses: every access past the
\* fourth evicts, and a budget of six candidates walks deep enough to loop back to a line it
\* already holds.
CONSTANTS
    a1 = a1
    a2 = a2
    a3 = a3
    a4 = a4
    a5 = a5
    Empty = Empty
    Ways = 2
    NumSets = 2
    Cands = 6
    Addr <- MC_Addr

SPECIFICATION Spec
SYMMETRY MC_Symmetry
INVARIANT TypeOK
INVARIANT LinesReachable
INVARIANT IndirectionIsPermutation
INVARIANT SwapChainValid
PROPERTY ImplementsCacheArray
