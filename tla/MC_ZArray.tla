------------------------------ MODULE MC_ZArray ------------------------------
(* Model-checking instance of ZArray: small geometries, every hash table.   *)
EXTENDS ZArray, TLC

CONSTANTS a1, a2, a3, a4, a5

MC_Addr == {a1, a2, a3, a4, a5}

\* Addresses are only compared for equality, and the hash table is part of
\* the state, so permuting addresses maps behaviours to behaviours.
MC_Symmetry == Permutations(MC_Addr)
=============================================================================
