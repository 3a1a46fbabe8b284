---------------------------- MODULE CEASERArray ----------------------------
(***************************************************************************)
(* CEASERArray of src/src/cache_arrays.cpp (lines 131-243): a set-         *)
(* associative array addressed by a current hash, with a target hash and a *)
(* per-set switch flag.  Once a set's flag is set, lookup and preinsert of *)
(* an address whose current set is that set use its target set instead.    *)
(* The victim is rng->randInt(assoc - 1) & (assoc - 1) (MTRand: randInt(n) *)
(* is uniform over [0, n]).                                                *)
(*                                                                         *)
(* The remap sweep that calls getAddr, getReplSet, getReplId, moveAddr,    *)
(* setSwitch, switchHash and resetSwitches is not in src/; it is the       *)
(* environment, written from the spec (section 4.3): for a set, every line *)
(* is moved to a random slot of its target set (the occupant is evicted),  *)
(* then the set's flag is set; when every set is switched, the hashes swap *)
(* roles and the flags are cleared.  With SweepHoldsLock no access starts *)
(* while a set is being remapped, as when the sweep holds the cache's      *)
(* lock; without it, accesses interleave between the line moves.  An      *)
(* access releases the cache's lock between preinsert and postinsert (the  *)
(* coherence controller unlocks it in processEviction, cache.cpp:283-297), *)
(* so a sweep holding the lock can run there; with SweepWaitsInsert it     *)
(* also waits for the pending insertion to finish.                         *)
(***************************************************************************)
EXTENDS Naturals, FiniteSets, FiniteSetsExt, Bitwise

CONSTANTS
    NumSets,      \* numSets (a power of two)
    Assoc,        \* assoc
    Addr,         \* line addresses (model values)
    Empty,        \* the address 0 of an invalid line
    SweepHoldsLock, \* no access runs while a set is being remapped
    SweepWaitsInsert \* no sweep step while an insertion is pending

ASSUME /\ NumSets \in Nat \ {0} /\ Assoc \in Nat \ {0}
       /\ SweepHoldsLock \in BOOLEAN /\ SweepWaitsInsert \in BOOLEAN
       /\ Empty \notin Addr

Sets     == 0 .. NumSets - 1
Ways     == 0 .. Assoc - 1
LineIds  == 0 .. NumSets * Assoc - 1
Draws    == 0 .. Assoc - 1          \* rng->randInt(assoc - 1)
NotFound == -1
NoInsert == [addr |-> Empty, lineId |-> NotFound, wb |-> Empty]
NoSweep  == [set |-> NotFound, way |-> 0]

VARIABLES
    hf,       \* hf[i][a] = hf_i->hash(0, a) & setMask: the two hash families
    current,  \* i when hf_current = hf_i (hf_target is the other one)
    array,    \* array[lineId]
    switch,   \* switch_array[set]
    insert,   \* Cache::access locals between preinsert and postinsert
    sweep     \* the remap driver: the set being moved and the next way

vars == <<hf, current, array, switch, insert, sweep>>

\* hf_current->hash(0, a) & setMask and hf_target->hash(0, a) & setMask.
hcur == hf[current]
htgt == hf[3 - current]

\* The set lookup and preinsert use for address a.
SetOf(a) == IF switch[hcur[a]] = 1 THEN htgt[a] ELSE hcur[a]

\* Mutant of Lookup: the switch flag is not consulted.
LookupIgnoresSwitch(a) ==
    LET first == hcur[a] * Assoc
        hits  == {id \in first .. first + Assoc - 1 : array[id] = a}
    IN  IF hits = {} THEN -1 ELSE Min(hits)

\* lookup: the lowest line of the set holding a.
Lookup(a) ==
    LET first == SetOf(a) * Assoc
        hits  == {id \in first .. first + Assoc - 1 : array[id] = a}
    IN  IF hits = {} THEN NotFound ELSE Min(hits)

\* The way a random draw r selects: randInt(assoc - 1) & (assoc - 1).
RandWay(r) == r & (Assoc - 1)

\* Mutant of GetReplSet: the current hash instead of the target one.
GetReplSetCurrent(a) == hcur[a]

\* getReplSet: the target set of a line.
GetReplSet(a) == htgt[a]

\* getReplId: a random slot of set s.
GetReplId(s, r) == s * Assoc + RandWay(r)

\* moveAddr: the line moves into slot replId, whose occupant is overwritten,
\* and its old slot is cleared (array[lineId] = 0 is written last).
MoveAddr(arr, replId, lineAddr, lineId) ==
    [[arr EXCEPT ![replId] = lineAddr] EXCEPT ![lineId] = Empty]

\* Mutant of Preinsert: the draw is randInt(assoc) and is not masked (a
\* read past the end of the array yields the address 0).
PreinsertUnmasked(a) ==
    /\ insert = NoInsert
    /\ SweepHoldsLock => sweep = NoSweep
    /\ Lookup(a) = NotFound
    /\ \E r \in 0 .. Assoc :
          LET cand == SetOf(a) * Assoc + r
          IN  insert' = [addr |-> a, lineId |-> cand,
                         wb |-> IF cand \in LineIds THEN array[cand] ELSE Empty]
    /\ UNCHANGED <<hf, current, array, switch, sweep>>

\* Mutant of Preinsert: the writeback is read from the set's first way,
\* not from the chosen line.
PreinsertWbFirstWay(a) ==
    /\ insert = NoInsert
    /\ SweepHoldsLock => sweep = NoSweep
    /\ Lookup(a) = NotFound
    /\ \E r \in Draws :
          LET cand == SetOf(a) * Assoc + RandWay(r)
          IN  insert' = [addr |-> a, lineId |-> cand, wb |-> array[SetOf(a) * Assoc]]
    /\ UNCHANGED <<hf, current, array, switch, sweep>>

\* preinsert after lookup missed: a random way of the set is the victim.
Preinsert(a) ==
    /\ insert = NoInsert
    /\ SweepHoldsLock => sweep = NoSweep
    /\ Lookup(a) = NotFound
    /\ \E r \in Draws :
          LET cand == SetOf(a) * Assoc + RandWay(r)
          IN  insert' = [addr |-> a, lineId |-> cand, wb |-> array[cand]]
    /\ UNCHANGED <<hf, current, array, switch, sweep>>

\* postinsert: array[candidate] = lineAddr.
Postinsert ==
    /\ insert # NoInsert
    /\ SweepHoldsLock => sweep = NoSweep
    /\ array' = [array EXCEPT ![insert.lineId] = insert.addr]
    /\ insert' = NoInsert
    /\ UNCHANGED <<hf, current, switch, sweep>>

\* One iteration of the sweep of set s at way w: the line getAddr(s, w), if
\* any, moves to a random slot r of its target set.
MoveLine(arr, s, w, r) ==
    LET id == s * Assoc + w
        x  == arr[id]
    IN  IF x = Empty THEN arr
        ELSE MoveAddr(arr, GetReplId(GetReplSet(x), r), x, id)

\* The driver starts the remap of an unswitched set s.
SweepBegin(s) ==
    /\ sweep = NoSweep
    /\ SweepWaitsInsert => insert = NoInsert
    /\ switch[s] = 0
    /\ sweep' = [set |-> s, way |-> 0]
    /\ UNCHANGED <<hf, current, array, switch, insert>>

\* getAddr(set, way), getReplSet, getReplId and moveAddr for one way.
SweepMove ==
    /\ sweep # NoSweep
    /\ sweep.way < Assoc
    /\ SweepWaitsInsert => insert = NoInsert
    /\ \E r \in Draws : array' = MoveLine(array, sweep.set, sweep.way, r)
    /\ sweep' = [sweep EXCEPT !.way = @ + 1]
    /\ UNCHANGED <<hf, current, switch, insert>>

\* setSwitch once every way of the set has been moved.
SweepFinish ==
    /\ sweep # NoSweep
    /\ sweep.way = Assoc
    /\ switch' = [switch EXCEPT ![sweep.set] = 1]
    /\ sweep' = NoSweep
    /\ UNCHANGED <<hf, current, array, insert>>

\* Every set remapped: switchHash, then resetSwitches.
Rekey ==
    /\ sweep = NoSweep
    /\ SweepWaitsInsert => insert = NoInsert
    /\ \A s \in Sets : switch[s] = 1
    /\ current' = 3 - current
    /\ switch' = [s \in Sets |-> 0]
    /\ UNCHANGED <<hf, array, insert, sweep>>

Init ==
    /\ hf \in [{1, 2} -> [Addr -> Sets]]
    /\ current = 1
    /\ array = [l \in LineIds |-> Empty]
    /\ switch = [s \in Sets |-> 0]
    /\ insert = NoInsert
    /\ sweep = NoSweep

Next ==
    \/ \E a \in Addr : Preinsert(a)
    \/ Postinsert
    \/ \E s \in Sets : SweepBegin(s)
    \/ SweepMove
    \/ SweepFinish
    \/ Rekey

Spec == Init /\ [][Next]_vars

-----------------------------------------------------------------------------

TypeOK ==
    /\ hf \in [{1, 2} -> [Addr -> Sets]] /\ current \in {1, 2}
    /\ array \in [LineIds -> Addr \cup {Empty}]
    /\ switch \in [Sets -> {0, 1}]
    /\ insert \in [addr : Addr \cup {Empty}, lineId : LineIds \cup {NotFound},
                   wb : Addr \cup {Empty}]
    /\ sweep \in [set : Sets \cup {NotFound}, way : 0 .. Assoc]

\* An address is resident in at most one line (spec, sections 3 and 7):
\* lookup, which probes only the target set of a switched set, never misses
\* a line that the remap moved, so Cache::access never inserts it twice.
NoDuplicateResidency ==
    \A l, m \in LineIds : l # m /\ array[l] # Empty => array[l] # array[m]

\* Between the remaps of two sets, every valid line is found by lookup at its
\* own lineId: through any number of set remaps, switchHash and
\* resetSwitches, each line sits in the set its address selects.
LinesReachable ==
    sweep = NoSweep =>
        \A l \in LineIds : array[l] # Empty => Lookup(array[l]) = l

\* Every line of the set an access maps to can be preinsert's random victim
\* (spec, section 4.3: uniform among the ways of the set); getReplId draws
\* its slot the same way.
VictimCoversSet ==
    \A a \in Addr :
        {SetOf(a) * Assoc + RandWay(r) : r \in Draws} = {SetOf(a) * Assoc + w : w \in Ways}

\* The refinement mapping to the abstract array contract.
Abstract == INSTANCE CacheArray
    WITH resident  <- {array[l] : l \in LineIds} \ {Empty},
         insert    <- [addr |-> insert.addr, wb |-> insert.wb],
         NumLines  <- NumSets * Assoc,
         Relocates <- TRUE

\* The CEASER array implements the CacheArray contract with relocations:
\* preinsert names the line postinsert overwrites (or an invalid one only
\* when there is room), an address is inserted only when it is not
\* resident, and each moveAddr of the remap sweep loses at most the one
\* line it overwrites, whatever the interleaving of sweeps and accesses.
ImplementsCacheArray == Abstract!Spec

====
