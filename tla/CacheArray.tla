----------------------------- MODULE CacheArray -----------------------------
(***************************************************************************)
(* What every cache array of src/src/cache_arrays.cpp promises to         *)
(* Cache::access (src/src/cache.cpp): it holds a set of resident line      *)
(* addresses, never more than NumLines of them; an insertion is split into *)
(* preinsert, which names a victim (the writeback address, or Empty when   *)
(* the victim line is invalid) without changing the contents, and          *)
(* postinsert, which replaces exactly that victim by the new address and   *)
(* leaves every other resident line where lookup can find it.  An array    *)
(* that Relocates (the remapped array, whose remap sweep calls moveAddr)   *)
(* may also move one line while no insertion is pending; the line it       *)
(* overwrites, if any, leaves the array.                                   *)
(***************************************************************************)
EXTENDS Naturals, FiniteSets

CONSTANTS
    Addr,       \* line addresses that may be inserted (model values)
    Empty,      \* the address 0 of an invalid line
    NumLines,   \* capacity of the array
    Relocates   \* the array moves lines outside insertions

VARIABLES
    resident,   \* set of addresses currently held by the array
    insert      \* the preinsert awaiting its postinsert: [addr, wb], or NoInsert

NoInsert == [addr |-> Empty, wb |-> Empty]

vars == <<resident, insert>>

TypeOK ==
    /\ resident \subseteq Addr
    /\ insert \in [addr : Addr \cup {Empty}, wb : Addr \cup {Empty}]

Init ==
    /\ resident = {}
    /\ insert = NoInsert

\* preinsert of an address the array does not hold: the victim is a resident
\* line, or an invalid one while the array still has room.
Preinsert(a) ==
    /\ insert = NoInsert
    /\ a \notin resident
    /\ \E wb \in resident \cup (IF Cardinality(resident) < NumLines THEN {Empty} ELSE {}) :
          insert' = [addr |-> a, wb |-> wb]
    /\ UNCHANGED resident

\* postinsert: the victim leaves, the new address arrives, nothing else moves.
Postinsert ==
    /\ insert # NoInsert
    /\ resident' = (resident \ {insert.wb}) \cup {insert.addr}
    /\ insert' = NoInsert

\* A relocation: one line moves; the occupant of its new slot, if any,
\* leaves the array.
Relocate ==
    /\ Relocates
    /\ insert = NoInsert
    /\ \E y \in resident : resident' = resident \ {y}
    /\ UNCHANGED insert

Next ==
    \/ \E a \in Addr : Preinsert(a)
    \/ Postinsert
    \/ Relocate

Spec == Init /\ [][Next]_vars

=============================================================================
