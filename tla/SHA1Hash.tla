------------------------------- MODULE SHA1Hash -------------------------------
(***************************************************************************)
(* SHA1HashFamily of src/src/hash.cpp (lines 221-255, built with PolarSSL; *)
(* without it both members panic).  hash(id, val) serves numFuncs ids from *)
(* numPasses = numFuncs/5 + 1 SHA-1 digests of five 32-bit words each,     *)
(* and memoizes them for the last key.  The buffer holds val in all 16     *)
(* words; before pass i > 0 the previous digest is xored into words 0..4,  *)
(* so it accumulates every earlier digest.                                 *)
(*                                                                         *)
(* sha1 is taken as injective: the digest of a buffer is the record of the *)
(* buffer, and word j of it is <<buffer, j>>.  A buffer is val with the    *)
(* set of digests xored into it (distinct digests xor as a set).  The      *)
(* calloc'd memo words are Zero (a word no digest equals), and memoizedVal *)
(* starts at 0.                                                            *)
(***************************************************************************)
EXTENDS Naturals, FiniteSets

CONSTANTS
    NumFuncs,   \* numFuncs
    Keys        \* the keys hashed (small naturals standing for uint64_t)

ASSUME NumFuncs \in Nat \ {0} /\ Keys \subseteq Nat

NumPasses == NumFuncs \div 5 + 1
Slots     == 0 .. NumPasses * 5 - 1
Ids       == 0 .. NumFuncs - 1

\* The word 0.
Zero == <<>>

Xor(x, y) == (x \ y) \cup (y \ x)

\* sha1(buffer): five digest words.
Sha1(buf) == [j \in 0 .. 4 |-> <<buf, j>>]

\* Mutant of Passes: the previous digest is not xored into the buffer.
PassesUnchained(v) ==
    LET buf[i \in 0 .. NumPasses - 1] == [val |-> v, mix |-> {}]
    IN  [k \in Slots |-> Sha1(buf[k \div 5])[k % 5]]

\* The memoizedHashes a miss computes for v: pass i hashes the buffer with
\* the digests of passes 0 .. i-1 xored in.
Passes(v) ==
    LET buf[i \in 0 .. NumPasses - 1] ==
            IF i = 0 THEN [val |-> v, mix |-> {}]
            ELSE [val |-> v, mix |-> Xor(buf[i - 1].mix, {Sha1(buf[i - 1])})]
    IN  [k \in Slots |-> Sha1(buf[k \div 5])[k % 5]]

None == [done |-> FALSE, res |-> Zero]

VARIABLES
    memoizedVal,     \* memoizedVal
    memoizedHashes,  \* memoizedHashes[0 .. numPasses*5 - 1]
    call,            \* the arguments of the last hash call: [id, val]
    out              \* its result

vars == <<memoizedVal, memoizedHashes, call, out>>

\* Mutant of HashCall: a miss returns the slot before the passes fill it.
HashCallStale(id, val) ==
    /\ call' = [id |-> id, val |-> val]
    /\ IF val = memoizedVal
          THEN /\ out' = [done |-> TRUE, res |-> memoizedHashes[id]]
               /\ UNCHANGED <<memoizedVal, memoizedHashes>>
          ELSE /\ out' = [done |-> TRUE, res |-> memoizedHashes[id]]
               /\ memoizedHashes' = Passes(val)
               /\ memoizedVal' = val

\* hash(id, val), assert(id < numFuncs): a hit returns the memoized word,
\* a miss runs the passes, memoizes val and returns the new word.
HashCall(id, val) ==
    /\ call' = [id |-> id, val |-> val]
    /\ IF val = memoizedVal
          THEN /\ out' = [done |-> TRUE, res |-> memoizedHashes[id]]
               /\ UNCHANGED <<memoizedVal, memoizedHashes>>
          ELSE /\ memoizedHashes' = Passes(val)
               /\ memoizedVal' = val
               /\ out' = [done |-> TRUE, res |-> Passes(val)[id]]

Init ==
    /\ memoizedVal = 0
    /\ memoizedHashes = [k \in Slots |-> Zero]
    /\ call = [id |-> 0, val |-> 0]
    /\ out = None

Next == \E id \in Ids, v \in Keys : HashCall(id, v)

Spec == Init /\ [][Next]_vars

-----------------------------------------------------------------------------

TypeOK ==
    /\ memoizedVal \in Keys \cup {0}
    /\ memoizedHashes \in [Slots -> {Zero} \cup {Passes(k)[s] : k \in Keys, s \in Slots}]
    /\ call \in [id : Ids, val : Keys \cup {0}]

\* hash(id, val) is the id-th word of val's digests whatever keys came
\* before (spec, section 4.1: the memo only saves recomputation), for the
\* keys that are not 0.
MemoTransparent ==
    out.done /\ call.val # 0 => out.res = Passes(call.val)[call.id]

\* Distinct ids give distinct words for every key memoized: the digests
\* of later passes differ from the first pass's because the buffer
\* changes between passes.
IdsDiffer ==
    \A i, j \in Ids : i # j /\ memoizedVal # 0 =>
        memoizedHashes[i] # memoizedHashes[j]

\* hash(id, val) is the id-th word of val's digests for every key: the
\* key 0 included.
HashIsDigest ==
    out.done => out.res = Passes(call.val)[call.id]

====
