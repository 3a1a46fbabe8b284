------------------------------- MODULE H3Hash -------------------------------
(***************************************************************************)
(* H3HashFamily of src/src/hash.cpp (lines 32-124).  A 64-bit word is the *)
(* set of its 1 bits, so & is \cap, ^ is symmetric difference and a        *)
(* rotation moves every bit position modulo 64.                            *)
(*                                                                         *)
(* The constructor picks resShift from outputBits (panic above 64) and     *)
(* fills hMatrix[ii*words + jj], words = 64 >> resShift, row by row from   *)
(* an MTRand stream; the stream is the constant function Stream, row r     *)
(* being the r-th word drawn.  hash(id, val) runs the 8-way unrolled loop  *)
(* over the function's maxBits = words rows and folds the result to the    *)
(* output width (the caller masks it).  The comment above hash gives the   *)
(* original loop it replaced: res ^= val & row; rotate res left by 1.      *)
(***************************************************************************)
EXTENDS Integers, FiniteSets

CONSTANTS
    NumFuncs,    \* numFunctions
    Streams,     \* candidate MTRand streams: [0 .. NumFuncs*64-1 -> SUBSET Bits]
    OutputBits,  \* the outputBits the constructor may be given
    Vals         \* the keys hashed (sets of bit positions)

Bits == 0 .. 63
Word == SUBSET Bits
Funcs == 0 .. NumFuncs - 1

ASSUME /\ NumFuncs \in Nat \ {0} /\ OutputBits \subseteq Nat
       /\ Vals \subseteq Word

\* x ^ y, and the ^ of every word of a family F.
Xor(x, y) == (x \ y) \cup (y \ x)
XorAll(F) == {i \in Bits : Cardinality({k \in DOMAIN F : i \in F[k]}) % 2 = 1}

\* (x << n) | (x >> (64 - n)) and x >> n on uint64_t.
Rotl(x, n) == {(i + n) % 64 : i \in x}
Shr(x, n) == {i - n : i \in {j \in x : j >= n}}

\* The constructor's choice of resShift; outputBits > 64 panics.
ResShift(ob) ==
    CASE ob <= 8 -> 3 [] ob <= 16 -> 2 [] ob <= 32 -> 1 [] OTHER -> 0

Words(rs) == 64 \div (2 ^ rs)

None == [done |-> FALSE, res |-> {}]

VARIABLES
    resShift,  \* resShift
    hMatrix,   \* hMatrix[0 .. words*numFuncs - 1]
    call,      \* the arguments of the hash call: [id, val]
    out        \* its result

vars == <<resShift, hMatrix, call, out>>

\* Mutant of Block: res1 is xored in without its rotation.
BlockNoRot1(m, base, val) ==
    XorAll([k \in 0 .. 7 |-> Rotl(val \cap m[base + k], IF k = 1 THEN 0 ELSE k)])

\* One iteration of the unrolled loop on rows base .. base+7: res_k =
\* val & hMatrix[base+k], xored in rotated left by k.
Block(m, base, val) == XorAll([k \in 0 .. 7 |-> Rotl(val \cap m[base + k], k)])

\* Mutant of Unrolled: the rows are read from base x, without id's offset.
RECURSIVE UnrolledNoId(_, _, _, _, _, _)
UnrolledNoId(m, rs, id, val, x, res) ==
    IF x >= Words(rs) THEN res
    ELSE UnrolledNoId(m, rs, id, val, x + 8, Rotl(Xor(res, Block(m, x, val)), 8))

\* for (x = 0; x < maxBits; x += 8): res ^= the block; res rotated by 8.
RECURSIVE Unrolled(_, _, _, _, _, _)
Unrolled(m, rs, id, val, x, res) ==
    IF x >= Words(rs) THEN res
    ELSE Unrolled(m, rs, id, val, x + 8,
                  Rotl(Xor(res, Block(m, id * Words(rs) + x, val)), 8))

\* Mutant of Fold: the folds are or-ed in instead of xored.
FoldOr(res, rs) ==
    LET s1 == IF rs >= 1 THEN Shr(res, 32) \cup res ELSE res
        s2 == IF rs >= 2 THEN Shr(s1, 16) \cup s1 ELSE s1
    IN  IF rs >= 3 THEN Shr(s2, 8) \cup s2 ELSE s2

\* The output folding: res = (res >> 32) ^ res, then >> 16, then >> 8, as
\* many times as resShift.
Fold(res, rs) ==
    LET s1 == IF rs >= 1 THEN Xor(Shr(res, 32), res) ELSE res
        s2 == IF rs >= 2 THEN Xor(Shr(s1, 16), s1) ELSE s1
    IN  IF rs >= 3 THEN Xor(Shr(s2, 8), s2) ELSE s2

\* hash(id, val).
Hash(m, rs, id, val) == Fold(Unrolled(m, rs, id, val, 0, {}), rs)

\* The reference loop of the comment: for x in 0..63, res ^= val &
\* hMatrix[id*64 + x], then res is rotated left by 1.  Rotation
\* distributes over ^, so the term of row x ends rotated by 64 - x.
Reference(row, id, val) ==
    XorAll([x \in 0 .. 63 |-> Rotl(val \cap row[id * 64 + x], 64 - x)])

\* The constructor: resShift from outputBits, then words*numFuncs rows.
Construct(ob, stream) ==
    /\ resShift = -1
    /\ ob <= 64
    /\ resShift' = ResShift(ob)
    /\ hMatrix' = [r \in 0 .. NumFuncs * Words(ResShift(ob)) - 1 |-> stream[r]]
    /\ UNCHANGED <<call, out>>

\* A call hash(id, val) with assert(id < numFuncs).
HashCall(id, val) ==
    /\ resShift # -1
    /\ call' = [id |-> id, val |-> val]
    /\ out' = [done |-> TRUE, res |-> Hash(hMatrix, resShift, id, val)]
    /\ UNCHANGED <<resShift, hMatrix>>

Init ==
    /\ resShift = -1
    /\ hMatrix = <<>>
    /\ call = [id |-> 0, val |-> {}]
    /\ out = None

Next ==
    \/ \E ob \in OutputBits, s \in Streams : Construct(ob, s)
    \/ \E id \in Funcs, v \in Vals : HashCall(id, v)

Spec == Init /\ [][Next]_vars

-----------------------------------------------------------------------------

TypeOK ==
    /\ resShift \in {-1, 0, 1, 2, 3}
    /\ call \in [id : Funcs, val : Word]
    /\ out \in [done : BOOLEAN, res : Word]

\* The row of the reference loop that the unrolled loop's row 8b+k plays:
\* the unrolled loop rotates it by k + 8*(8-b), the reference by -x.
UnrolledRow(x) == CHOOSE u \in 0 .. 63 : (8 * (u \div 8) - (u % 8)) % 64 = x

\* With 64-bit output the hand-unrolled loop computes the comment's
\* reference H3 hash of the same function's rows, in another order: every
\* row is used once, so the result is an H3 function of a random matrix.
UnrolledIsReference ==
    out.done /\ resShift = 0 =>
        out.res = Reference([r \in DOMAIN hMatrix |->
                               hMatrix[64 * (r \div 64) + UnrolledRow(r % 64)]],
                            call.id, call.val)

\* Each output bit is the parity of the key and a matrix row (spec, H3
\* family), for every output width: the hash is linear, and 0 hashes to 0.
HashIsLinear ==
    out.done =>
        /\ Hash(hMatrix, resShift, call.id, {}) = {}
        /\ \A b \in Vals :
              Hash(hMatrix, resShift, call.id, Xor(call.val, b))
                  = Xor(out.res, Hash(hMatrix, resShift, call.id, b))

\* Distinct function ids are distinct functions: some key hashes
\* differently under id and under another id (the ways of a ZArray need
\* independent functions).
IdsDiffer ==
    out.done =>
        \A j \in Funcs \ {call.id} :
            \E v \in Vals : Hash(hMatrix, resShift, call.id, v)
                               # Hash(hMatrix, resShift, j, v)

====
