------------------------------- MODULE ZArray -------------------------------
(***************************************************************************)
(* The skewed-associative ZArray of src/src/cache_arrays.cpp (lines        *)
(* 246-395).  Way w of an address a is position w*NumSets + hash(w, a); an *)
(* indirection table lookupArray maps each position to the line (lineId)   *)
(* that currently holds it, so that a replacement can relocate lines by    *)
(* permuting lookupArray instead of moving their contents.                 *)
(*                                                                         *)
(* preinsert walks a breadth-first tree of replacement candidates from the *)
(* Ways seed positions of the incoming address, asks the replacement       *)
(* policy (an opaque oracle: any candidate) for the victim, and records    *)
(* the chain of positions from the victim back to a seed in swapArray.     *)
(* postinsert replays that chain on lookupArray and writes the new address *)
(* into the victim line.  Cache::access (src/src/cache.cpp:271-297) calls  *)
(* preinsert only after lookup missed, then postinsert for the same line;  *)
(* the variable insert holds those locals between the two calls.          *)
(***************************************************************************)
EXTENDS Naturals, Sequences, FiniteSets, FiniteSetsExt, Functions

CONSTANTS
    Ways,       \* ways (>= 2)
    NumSets,    \* numSets = numLines / ways
    Cands,      \* cands: candidate budget of the walk (>= ways)
    Addr,       \* line addresses that may be accessed (model values)
    Empty       \* the address 0 of an invalid line

ASSUME /\ Ways \in Nat /\ Ways > 1
       /\ NumSets \in Nat \ {0}
       /\ Cands \in Nat /\ Cands >= Ways
       /\ Empty \notin Addr

NumLines == Ways * NumSets
LineIds  == 0 .. NumLines - 1
WayIds   == 0 .. Ways - 1
SetIds   == 0 .. NumSets - 1
NotFound == -1


NoInsert == [addr |-> Empty, lineId |-> NotFound, wb |-> Empty]

VARIABLES
    hash,        \* hash[w][a] = hf->hash(w, a) & setMask, fixed at construction
    array,       \* array[lineId]: the address held by the line, Empty if invalid
    lookupArray, \* lookupArray[pos]: the line at position pos
    swapArray,   \* swapArray[1..swapArrayLen]: chain recorded by preinsert
    insert       \* Cache::access locals between preinsert and postinsert

vars == <<hash, array, lookupArray, swapArray, insert>>

Position(w, a) == w * NumSets + hash[w][a]

\* Mutant of Lookup: the probe loop stops one way early.
LookupFirstWaysOnly(a) ==
    LET hits == {w \in 0 .. Ways - 2 : array[lookupArray[Position(w, a)]] = a}
    IN  IF hits = {} THEN -1 ELSE lookupArray[Position(Min(hits), a)]

\* lookup: probe the Ways positions of a in way order, first match wins.
Lookup(a) ==
    LET hits == {w \in WayIds : array[lookupArray[Position(w, a)]] = a}
    IN  IF hits = {} THEN NotFound ELSE lookupArray[Position(Min(hits), a)]

\* The Ways candidates of address a, all with the given parent.
Displaced(a, parent) ==
    [i \in 1 .. Ways |->
        [pos    |-> Position(i - 1, a),
         lineId |-> lookupArray[Position(i - 1, a)],
         parent |-> parent]]

AllValid(cs) == \A i \in DOMAIN cs : array[cs[i].lineId] # Empty

\* The BFS expansion loop of preinsert: expand the fringe while the budget
\* is not reached and every candidate so far holds a valid line.  A
\* displaced candidate equal to the fringe line itself is written but not
\* counted (numCandidates += (lineId != fringeId)); it still enters all_valid.
RECURSIVE Expand(_, _, _)
Expand(cands, fringe, allValid) ==
    IF Len(cands) < Cands /\ allValid
    THEN LET fringeId == cands[fringe].lineId
             kids     == Displaced(array[fringeId], fringe)
             added    == SelectSeq(kids, LAMBDA c : c.lineId # fringeId)
         IN  Expand(cands \o added, fringe + 1, allValid /\ AllValid(kids))
    ELSE cands

\* The candidates handed to rankCands: seeds, expansion, cut to the budget.
Walk(a) ==
    LET seeds == Displaced(a, 0)
        all   == Expand(seeds, 1, AllValid(seeds))
    IN  SubSeq(all, 1, Min({Len(all), Cands}))

\* Mutant of FirstIdx: the last occurrence instead of the first.
LastIdx(cands, id) == Max({i \in DOMAIN cands : cands[i].lineId = id})

\* The minimum index of the candidate holding the chosen line.
FirstIdx(cands, id) == Min({i \in DOMAIN cands : cands[i].lineId = id})

\* swapArray: positions from candidate idx back through the parents to a seed.
RECURSIVE ChainFrom(_, _)
ChainFrom(cands, idx) ==
    IF idx = 0 THEN << >>
    ELSE << cands[idx].pos >> \o ChainFrom(cands, cands[idx].parent)

\* Mutant of Preinsert: returns the candidate index minIdx, not its lineId.
PreinsertReturnsIndex(a) ==
    /\ insert = NoInsert
    /\ Lookup(a) = NotFound
    /\ LET cands == Walk(a)
       IN  \E best \in {cands[i].lineId : i \in DOMAIN cands} :
              /\ swapArray' = ChainFrom(cands, FirstIdx(cands, best))
              /\ insert' = [addr |-> a, lineId |-> FirstIdx(cands, best),
                            wb |-> array[best]]
    /\ UNCHANGED <<hash, array, lookupArray>>

\* preinsert, called by Cache::access after lookup missed.
Preinsert(a) ==
    /\ insert = NoInsert
    /\ Lookup(a) = NotFound
    /\ LET cands == Walk(a)
       IN  \E best \in {cands[i].lineId : i \in DOMAIN cands} :   \* rp->rankCands
              /\ swapArray' = ChainFrom(cands, FirstIdx(cands, best))
              /\ insert' = [addr |-> a, lineId |-> best, wb |-> array[best]]
    /\ UNCHANGED <<hash, array, lookupArray>>

\* Mutant of ShiftChain: the loop stops one element early.
ShiftChainShort(la, swap, i) ==
    LET n == Len(swap) - 1
        RECURSIVE Go(_, _)
        Go(f, j) == IF j >= n THEN f ELSE Go([f EXCEPT ![swap[j]] = f[swap[j + 1]]], j + 1)
    IN  Go(la, i)

\* The shifting loop of postinsert: lookupArray[swap[i]] = lookupArray[swap[i+1]].
RECURSIVE ShiftChain(_, _, _)
ShiftChain(la, swap, i) ==
    IF i >= Len(swap) THEN la
    ELSE ShiftChain([la EXCEPT ![swap[i]] = la[swap[i + 1]]], swap, i + 1)

\* Mutant of Postinsert: the victim line is put back at the head of the
\* chain instead of its seed end.
PostinsertAtHead ==
    /\ insert # NoInsert
    /\ lookupArray' = [ShiftChain(lookupArray, swapArray, 1)
                          EXCEPT ![swapArray[1]] = insert.lineId]
    /\ array' = [array EXCEPT ![insert.lineId] = insert.addr]
    /\ insert' = NoInsert
    /\ UNCHANGED <<hash, swapArray>>

\* postinsert: rotate the chain, put the victim line at the seed position,
\* write the new address into it.
Postinsert ==
    /\ insert # NoInsert
    /\ lookupArray' = [ShiftChain(lookupArray, swapArray, 1)
                          EXCEPT ![swapArray[Len(swapArray)]] = insert.lineId]
    /\ array' = [array EXCEPT ![insert.lineId] = insert.addr]
    /\ insert' = NoInsert
    /\ UNCHANGED <<hash, swapArray>>

Init ==
    /\ hash \in [WayIds -> [Addr -> SetIds]]
    /\ array = [l \in LineIds |-> Empty]
    /\ lookupArray = [p \in LineIds |-> p]
    /\ swapArray = << >>
    /\ insert = NoInsert

Next ==
    \/ \E a \in Addr : Preinsert(a)
    \/ Postinsert

Spec == Init /\ [][Next]_vars

-----------------------------------------------------------------------------

TypeOK ==
    /\ hash \in [WayIds -> [Addr -> SetIds]]
    /\ array \in [LineIds -> Addr \cup {Empty}]
    /\ lookupArray \in [LineIds -> LineIds]
    /\ swapArray \in Seq(LineIds)
    /\ insert \in [addr : Addr \cup {Empty}, lineId : LineIds \cup {NotFound},
                   wb : Addr \cup {Empty}]

\* Every valid line is found by lookup of its own address, at its own
\* lineId: after any sequence of preinsert/postinsert swap chains, no line
\* is stranded at a position its hashes do not reach (ZArray::postinsert).
LinesReachable ==
    \A l \in LineIds : array[l] # Empty => Lookup(array[l]) = l

\* lookupArray stays a permutation of the lines: no two positions alias one
\* line and no line loses its position (ZArray::postinsert shifting loop).
IndirectionIsPermutation ==
    \A p, q \in LineIds : p # q => lookupArray[p] # lookupArray[q]

\* While an insertion is pending, swapArray is a valid relocation chain: it
\* starts at the victim's position, ends at a seed position of the incoming
\* address, visits no position twice, and each line it shifts may live at
\* its new position (a hash of its address).  The walk can revisit a line
\* through a loop; ZArray::preinsert takes the minimum candidate index so
\* that the chain stays simple.
SwapChainValid ==
    insert # NoInsert =>
        LET n == Len(swapArray)
        IN  /\ n >= 1
            /\ IsInjective(swapArray)
            /\ lookupArray[swapArray[1]] = insert.lineId
            /\ \E w \in WayIds : swapArray[n] = Position(w, insert.addr)
            /\ \A i \in 1 .. n - 1 :
                  \E w \in WayIds :
                     swapArray[i] = Position(w, array[lookupArray[swapArray[i + 1]]])

\* The refinement mapping to the abstract array contract.
Resident == {array[l] : l \in LineIds} \ {Empty}

Abstract == INSTANCE CacheArray
    WITH resident <- Resident,
         insert   <- [addr |-> insert.addr, wb |-> insert.wb],
         NumLines <- NumLines,
         Relocates <- FALSE

\* The ZArray implements the CacheArray contract: preinsert names a resident
\* victim (or an invalid line only when there is room) of an address lookup
\* missed, and postinsert replaces exactly that victim.
ImplementsCacheArray == Abstract!Spec

=============================================================================
