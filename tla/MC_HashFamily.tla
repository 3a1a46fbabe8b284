--------------------------- MODULE MC_HashFamily ---------------------------
(***************************************************************************)
(* The HashFamily an array is constructed with: one of H3HashFamily,       *)
(* FeistelFamily and SHA1HashFamily, chosen once, then called with        *)
(* hash(id, val) any number of times.  Each family is an instance with     *)
(* its own variables; only the chosen one moves.                           *)
(*                                                                         *)
(* The seeded MTRand streams are stood for by a linear congruential        *)
(* generator: bit j of draw n of the stream with seed s is one bit of a    *)
(* twice-iterated LCG of (n, j, s).  H3 draws 64-bit rows, Feistel 32-bit  *)
(* words.                                                                  *)
(***************************************************************************)
EXTENDS Naturals

CONSTANTS
    Families,     \* the families the configuration may choose
    SHA1Keys      \* the keys SHA1HashFamily is called with

LCG(n) == (n * 25173 + 13849) % 65536

MC_Stream(width, len, seed) ==
    [n \in 0 .. len - 1 |->
        {j \in 0 .. width - 1 : (LCG(LCG(n * width + j + seed)) \div 4096) % 2 = 1}]

\* Keys with single bits at the word's edges and at 31/32, and denser ones.
MC_Vals == {{0}, {1}, {7}, {31}, {32}, {63}, {0, 32},
            {i \in 0 .. 63 : i % 2 = 0}, {i \in 0 .. 63 : i % 3 = 1}, 16 .. 47}

VARIABLES
    family,
    resShift, hMatrix, h3Call, h3Out,
    sMat, pMat, keys, fCall, fOut,
    memoizedVal, memoizedHashes, sCall, sOut

h3Vars   == <<resShift, hMatrix, h3Call, h3Out>>
fVars    == <<sMat, pMat, keys, fCall, fOut>>
sha1Vars == <<memoizedVal, memoizedHashes, sCall, sOut>>
vars     == <<family, h3Vars, fVars, sha1Vars>>

H3 == INSTANCE H3Hash
    WITH NumFuncs <- 2,
         Streams <- {MC_Stream(64, 128, 0), MC_Stream(64, 128, 7919)},
         OutputBits <- {6, 8, 12, 32, 64, 65},
         Vals <- MC_Vals, call <- h3Call, out <- h3Out

F == INSTANCE FeistelHash
    WITH Streams <- {MC_Stream(32, 388, 0), MC_Stream(32, 388, 7919)},
         Ids <- {0, 1, 2},
         Vals <- MC_Vals, call <- fCall, out <- fOut

S == INSTANCE SHA1Hash
    WITH NumFuncs <- 6, Keys <- SHA1Keys, call <- sCall, out <- sOut

Init ==
    /\ family \in Families
    /\ H3!Init /\ F!Init /\ S!Init

Next ==
    \/ family = "H3" /\ H3!Next /\ UNCHANGED <<family, fVars, sha1Vars>>
    \/ family = "Feistel" /\ F!Next /\ UNCHANGED <<family, h3Vars, sha1Vars>>
    \/ family = "SHA1" /\ S!Next /\ UNCHANGED <<family, h3Vars, fVars>>

Spec == Init /\ [][Next]_vars

-----------------------------------------------------------------------------

TypeOK ==
    /\ family \in Families
    /\ H3!TypeOK /\ F!TypeOK /\ S!TypeOK

\* H3: the hand-unrolled loop is the reference H3 loop over a permutation
\* of the function's rows (64-bit output).
H3UnrolledIsReference == H3!UnrolledIsReference

\* H3: at every output width the hash is linear over GF(2).
H3HashIsLinear == H3!HashIsLinear

\* H3: distinct ids are distinct functions.
H3IdsDiffer == H3!IdsDiffer

\* Feistel: flipping any key bit changes the 32-bit hash value.
FeistelEveryBitMatters == F!EveryBitMatters

\* SHA1: memoization is invisible for keys other than 0.
SHA1MemoTransparent == S!MemoTransparent

\* SHA1: the ids of the memoized key name distinct digest words.
SHA1IdsDiffer == S!IdsDiffer

\* SHA1: every call returns the key's digest word, key 0 included.
SHA1HashIsDigest == S!HashIsDigest

====
