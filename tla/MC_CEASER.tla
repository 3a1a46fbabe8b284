----------------------------- MODULE MC_CEASER -----------------------------
EXTENDS CEASERArray, TLC

CONSTANTS a1, a2, a3

MC_Addr == {a1, a2, a3}
MC_Symmetry == Permutations(MC_Addr)
=============================================================================
