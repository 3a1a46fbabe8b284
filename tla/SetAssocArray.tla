--------------------------- MODULE SetAssocArray ---------------------------
(***************************************************************************)
(* SetAssocArray of src/src/cache_arrays.cpp (lines 31-129).  A line's set *)
(* is hash(0, a) & setMask and it may sit in any of the assoc lines of the *)
(* set.  When the array is the LLC and zinfo->setPartition or              *)
(* zinfo->wayPartition is on, lookup and preinsert restrict the search to  *)
(* the sets, or the ways, of the caller's partition proc_partition.  The   *)
(* partition geometry is computed once, in the constructor, in uint32      *)
(* arithmetic.  The hash family is a table fixed at construction and the   *)
(* replacement policy an oracle that may return any candidate.             *)
(***************************************************************************)
EXTENDS Naturals, FiniteSets, FiniteSetsExt, Bitwise

CONSTANTS
    NumLines,   \* numLines
    Assoc,      \* assoc
    NumCores,   \* zinfo->numCores: the number of partitions
    Modes,      \* partition modes the LLC may be configured with
    HashValues, \* the values hf->hash(0, a) may take (a small range)
    Addr,       \* line addresses (model values)
    Empty,      \* the address 0 of an invalid line
    NoOwner     \* history: no partition inserted the line

ASSUME /\ Assoc \in Nat \ {0} /\ NumCores \in Nat \ {0}
       /\ NumLines \in Nat /\ NumLines % Assoc = 0
       /\ Modes \subseteq {"plain", "setPartition", "wayPartition"}
       /\ HashValues \subseteq Nat

NumSets == NumLines \div Assoc
SetMask == NumSets - 1
\* The constructor's partition geometry (lines 38-41).
PartitionSetCount == NumSets \div NumCores
\* hash & partitionMask.  partitionMask = partitionSetCount - 1 in uint32:
\* when numCores > numSets it wraps to 0xFFFFFFFF, which keeps every bit of
\* the (small) hash values modelled here.
MaskPartition(h) ==
    IF PartitionSetCount = 0 THEN h ELSE h & (PartitionSetCount - 1)
PartitionAssoc    == IF Assoc \div NumCores = 0 THEN 1 ELSE Assoc \div NumCores

LineIds    == 0 .. NumLines - 1
Partitions == 0 .. NumCores - 1
NotFound   == -1

NoInsert == [addr |-> Empty, lineId |-> NotFound, wb |-> Empty, part |-> NoOwner]

VARIABLES
    mode,     \* the configuration: plain, setPartition or wayPartition
    hash,     \* hash[a] = hf->hash(0, a), fixed at construction
    array,    \* array[lineId]: the address held, Empty if invalid
    insert,   \* Cache::access locals between preinsert and postinsert
    owner     \* history: the partition whose access inserted each line

vars == <<mode, hash, array, insert, owner>>

\* Mutant of Candidates: the way range ignores proc_partition.
CandidatesNoPartitionOffset(a, p) ==
    CASE mode = "setPartition" ->
            LET first == (MaskPartition(hash[a]) + PartitionSetCount * p) * Assoc
            IN  first .. first + Assoc - 1
      [] mode = "wayPartition" ->
            LET low == (hash[a] & SetMask) * Assoc
            IN  low .. low + PartitionAssoc - 1
      [] OTHER ->
            LET first == (hash[a] & SetMask) * Assoc
            IN  first .. first + Assoc - 1

\* The candidate lines searched for address a on behalf of partition p:
\* [first, first + assoc) of its set, or [low, high) of its ways.
Candidates(a, p) ==
    CASE mode = "setPartition" ->
            LET set   == MaskPartition(hash[a]) + PartitionSetCount * p
                first == set * Assoc
            IN  first .. first + Assoc - 1
      [] mode = "wayPartition" ->
            LET set == hash[a] & SetMask
                low == set * Assoc + ((p * PartitionAssoc) & (Assoc - 1))
            IN  low .. low + PartitionAssoc - 1
      [] OTHER ->
            LET first == (hash[a] & SetMask) * Assoc
            IN  first .. first + Assoc - 1

\* Mutant of Lookup: the scan stops one line before the end of the range.
LookupShortScan(a, p) ==
    LET r    == Candidates(a, p)
        hits == {id \in r : id < Max(r) /\ array[id] = a}
    IN  IF hits = {} THEN -1 ELSE Min(hits)

\* lookup: the lowest line of the range holding a.
Lookup(a, p) ==
    LET hits == {id \in Candidates(a, p) : array[id] = a}
    IN  IF hits = {} THEN NotFound ELSE Min(hits)

\* Mutant of Preinsert: reports the victim's lineId as the writeback address.
PreinsertWbIsLineId(a, p) ==
    /\ insert = NoInsert
    /\ Lookup(a, p) = NotFound
    /\ \E cand \in Candidates(a, p) :
          insert' = [addr |-> a, lineId |-> cand, wb |-> cand, part |-> p]
    /\ UNCHANGED <<mode, hash, array, owner>>

\* preinsert for partition p after its lookup missed: rankCands picks any
\* line of the range; its address is the writeback.
Preinsert(a, p) ==
    /\ insert = NoInsert
    /\ Lookup(a, p) = NotFound
    /\ \E cand \in Candidates(a, p) :
          insert' = [addr |-> a, lineId |-> cand, wb |-> array[cand], part |-> p]
    /\ UNCHANGED <<mode, hash, array, owner>>

\* postinsert: array[candidate] = lineAddr.
Postinsert ==
    /\ insert # NoInsert
    /\ array' = [array EXCEPT ![insert.lineId] = insert.addr]
    /\ owner' = [owner EXCEPT ![insert.lineId] = insert.part]
    /\ insert' = NoInsert
    /\ UNCHANGED <<mode, hash>>

Init ==
    /\ mode \in Modes
    /\ hash \in [Addr -> HashValues]
    /\ array = [l \in LineIds |-> Empty]
    /\ insert = NoInsert
    /\ owner = [l \in LineIds |-> NoOwner]

Next ==
    \/ \E a \in Addr, p \in Partitions : Preinsert(a, p)
    \/ Postinsert

Spec == Init /\ [][Next]_vars

-----------------------------------------------------------------------------

TypeOK ==
    /\ mode \in Modes
    /\ hash \in [Addr -> HashValues]
    /\ array \in [LineIds -> Addr \cup {Empty}]
    /\ insert \in [addr : Addr \cup {Empty}, lineId : LineIds \cup {NotFound},
                   wb : Addr \cup {Empty}, part : Partitions \cup {NoOwner}]
    /\ owner \in [LineIds -> Partitions \cup {NoOwner}]

\* A line address is resident in at most one line of the array (spec,
\* section 3; section 7 makes duplicate residency an integrity violation):
\* lookup of one partition must not miss a line another partition holds.
NoDuplicateResidency ==
    \A l, m \in LineIds : l # m /\ array[l] # Empty => array[l] # array[m]

\* Every valid line is found by lookup on behalf of the partition that
\* inserted it, at its own lineId.
LinesReachable ==
    \A l \in LineIds : array[l] # Empty => Lookup(array[l], owner[l]) = l

\* Partition isolation: in a partitioned LLC an insertion on behalf of
\* partition p never evicts a line that another partition's access brought in.
PartitionIsolation ==
    [][mode # "plain" /\ insert # NoInsert /\ insert' = NoInsert =>
          owner[insert.lineId] \in {NoOwner, insert.part}]_vars

Abstract == INSTANCE CacheArray
    WITH resident <- {array[l] : l \in LineIds} \ {Empty},
         insert   <- [addr |-> insert.addr, wb |-> insert.wb],
         Relocates <- FALSE

\* Unpartitioned, the array implements the CacheArray contract.  (With
\* set partitioning one line address can sit in two partitions' sets, so
\* the resident set no longer follows the contract.)
ImplementsCacheArray ==
    Abstract!Init /\ [][mode = "plain" => Abstract!Next]_Abstract!vars

=============================================================================
