--------------------------- MODULE MC_CacheAccess ---------------------------
EXTENDS CacheAccess, TLC

CONSTANTS a1, a2, a3

MC_Addr == {a1, a2, a3}
MC_Symmetry == Permutations(MC_Addr)

\* protection()'s rows for a shared library's read-only data (r--p) and
\* text (r-xp), both with the sl bit (region bit 2), and for the heap
\* (rw-p, region bit 1).
MC_Regions == {[perm |-> "r--p", region |-> {2}],
               [perm |-> "r-xp", region |-> {2}],
               [perm |-> "rw-p", region |-> {1}]}
=============================================================================
