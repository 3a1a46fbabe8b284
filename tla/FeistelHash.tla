----------------------------- MODULE FeistelHash -----------------------------
(***************************************************************************)
(* FeistelFamily of src/src/hash.cpp (lines 126-215): four rounds over two *)
(* 32-bit halves.  A word is the set of its 1 bits.  The constructor draws *)
(* from an MTRand stream of 32-bit words (the constant function Stream),   *)
(* for each round k and row i: sMat = randInt() | (randInt() << 32), then  *)
(* pMat = randInt(); then the four keys randInt() << 32.  The two draws of *)
(* one sMat row are operands of |, whose evaluation order C++ leaves       *)
(* unspecified: the model lets the build take either order.                *)
(*                                                                         *)
(* bitXor(val, row, size) is the parity of the bits i < size of val whose  *)
(* bit of row is 0.  A round computes f_input = up | key, s_result bit j = *)
(* bitXor(f_input, sMat[j], 64), p_result bit j = bitXor(s_result,         *)
(* pMat[j], 32), then stage = down ^ p_result, down = up, up = stage.      *)
(* hash(id, val) returns the last stage: the up half only, 32 bits.       *)
(* randInt() is below 2^32 (MTRand), so every draw is a subset of 0..31.  *)
(***************************************************************************)
EXTENDS Integers, FiniteSets

CONSTANTS
    Streams,   \* candidate MTRand streams: [0 .. 387 -> SUBSET 0..31]
    Ids,       \* function ids hash is called with
    Vals       \* the keys hashed (sets of bit positions)

Bits   == 0 .. 63
Low    == 0 .. 31
Word   == SUBSET Bits
Rounds == 0 .. 3
Rows   == 0 .. 31

ASSUME Vals \subseteq Word

Xor(x, y) == (x \ y) \cup (y \ x)
Shl(x, n) == {i + n : i \in {j \in x : j + n < 64}}
Shr(x, n) == {i - n : i \in {j \in x : j >= n}}

None == [done |-> FALSE, res |-> {}]

VARIABLES
    sMat,   \* s[k].sMat[i]
    pMat,   \* p[k].pMat[i]
    keys,   \* keys[k]
    call,   \* the arguments of the hash call: [id, val]
    out     \* its result

vars == <<sMat, pMat, keys, call, out>>

\* The constructor: row i of round k takes draws 3*(32k+i) .. 3*(32k+i)+2,
\* the keys draws 384 .. 387; lowFirst is the order the build evaluates
\* the two operands of randInt() | (randInt() << 32).
Construct(w, lowFirst) ==
    /\ sMat = <<>>
    /\ LET n(k, i) == 3 * (32 * k + i)
           lo(k, i) == IF lowFirst THEN n(k, i) ELSE n(k, i) + 1
           hi(k, i) == IF lowFirst THEN n(k, i) + 1 ELSE n(k, i)
       IN  /\ sMat' = [k \in Rounds |-> [i \in Rows |-> w[lo(k, i)] \cup Shl(w[hi(k, i)], 32)]]
           /\ pMat' = [k \in Rounds |-> [i \in Rows |-> w[n(k, i) + 2]]]
           /\ keys' = [k \in Rounds |-> Shl(w[384 + k], 32)]
    /\ UNCHANGED <<call, out>>

\* bitXor: the parity of the bits i < size of val where row has a 0.
BitXor(val, row, size) ==
    Cardinality({i \in val \ row : i < size}) % 2

\* Mutant of Round: f_input is the key alone (up_input is dropped).
RoundKeyOnly(k, up, down) ==
    LET f  == keys[k]
        sr == {j \in Rows : BitXor(f, sMat[k][j], 64) = 1}
        pr == {j \in Rows : BitXor(sr, pMat[k][j], 32) = 1}
    IN  [up |-> Xor(down, pr), down |-> up]

\* One round: the halves after stage k.
Round(k, up, down) ==
    LET f  == up \cup keys[k]
        sr == {j \in Rows : BitXor(f, sMat[k][j], 64) = 1}
        pr == {j \in Rows : BitXor(sr, pMat[k][j], 32) = 1}
    IN  [up |-> Xor(down, pr), down |-> up]

\* hash(id, val): l = val >> 32, r = (val << 32) >> 32, four rounds; the
\* result is the last stage_output.  id is not read.
Hash(id, val) ==
    LET st[k \in 0 .. 4] ==
            IF k = 0 THEN [up |-> Shr(val, 32), down |-> val \cap Low]
            ELSE Round(k - 1, st[k - 1].up, st[k - 1].down)
    IN  st[4].up

HashCall(id, val) ==
    /\ sMat # <<>>
    /\ call' = [id |-> id, val |-> val]
    /\ out' = [done |-> TRUE, res |-> Hash(id, val)]
    /\ UNCHANGED <<sMat, pMat, keys>>

Init ==
    /\ sMat = <<>> /\ pMat = <<>> /\ keys = <<>>
    /\ call = [id |-> 0, val |-> {}]
    /\ out = None

Next ==
    \/ \E w \in Streams, lowFirst \in BOOLEAN : Construct(w, lowFirst)
    \/ \E id \in Ids, v \in Vals : HashCall(id, v)

Spec == Init /\ [][Next]_vars

-----------------------------------------------------------------------------

TypeOK ==
    /\ call \in [id : Ids, val : Word]
    /\ out \in [done : BOOLEAN, res : SUBSET Low]

\* Every key bit reaches the hash value (spec: flipping one bit of the key
\* changes the output): after four rounds, flipping any of the 64 bits of
\* the line address, in either half, changes the 32-bit value hash()
\* returns.  (Which bits survive a set mask depends on the MTRand draws.)
EveryBitMatters ==
    out.done => \A i \in Bits : Hash(call.id, Xor(call.val, {i})) # out.res

====
