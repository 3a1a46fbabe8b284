---------------------------- MODULE FilterCache ----------------------------
(***************************************************************************)
(* FilterCache of src/src/filter_cache.h: an L1 cache that keeps, per set, *)
(* the virtual line last accessed (rdAddr, wrAddr), written under          *)
(* filterLock by replace and cleared by invalidate.  Two threads:          *)
(*                                                                         *)
(*  - the core: load/store call replace(vLineAddr), which translates the   *)
(*    address under global_lock (procMask | vLineAddr, or checkSharedLib's *)
(*    line for a shared library region of the process map, ProcessMap),    *)
(*    takes filterLock, runs Cache::access with                            *)
(*    childLock = &filterLock, then writes the filter entry and unlocks;   *)
(*  - another core's access in the parent cache, which invalidates one of  *)
(*    this cache's lines: invalidate takes the cache's down lock           *)
(*    (startInvalidate), then filterLock, clears the entry if it names the *)
(*    line, and finishInvalidate (processInv releases the down lock).      *)
(*                                                                         *)
(* The coherence controller is not in src/; its locking is the             *)
(* environment, as the comments of filter_cache.h and cache.cpp state:     *)
(* startAccess releases req.childLock and then takes the cache's lock,     *)
(* endAccess retakes req.childLock before releasing it, and a nested       *)
(* access to the parent (a writeback PUT in processEviction, a fetch in    *)
(* processAccess) does the same one level up with the cache's lock as its  *)
(* childLock.  The L1 array is direct-mapped with as many sets as the      *)
(* filter, so the victim of a miss is the line in the set of the access.   *)
(* contextSwitch clears every entry under filterLock.  A third thread, the *)
(* process's application thread, makes the syscalls whose hooks rebuild    *)
(* the process map under global_lock (ProcessMap).                         *)
(***************************************************************************)
EXTENDS Integers, FiniteSets, Bitwise, ProcessMap

CONSTANTS
    NumSets,       \* numSets of the filter and of the L1 array
    ProcMask,      \* procMask: the process bits of a physical line address
    MaxInv         \* bound on the invalidations the parent sends

ASSUME /\ VAddrs \subseteq Nat \ {0} /\ NumSets \in Nat \ {0}
       /\ ProcMask \in Nat /\ MaxInv \in Nat

SetMask  == NumSets - 1
Sets     == 0 .. SetMask
AllOnes  == -1                      \* (Address)-1L
Core     == "core"
Inv      == "inv"
NoOne    == "none"
Locks    == {"filter", "l1", "parent"}
Unlocked == [l \in Locks |-> NoOne]

\* rdAddr | procMask (-1L keeps every bit set).
WithProcMask(x) == IF x = AllOnes THEN AllOnes ELSE x | ProcMask

\* The lines replace can access: procMask | vLineAddr, or a library's line
\* plus an offset within the address space.
PLines == {WithProcMask(v) : v \in VAddrs}
          \cup {LibAddr[n] + (v - u) : n \in Libs, v, u \in VAddrs}
EntryVals == VAddrs \cup {0, AllOnes}
NoAccess == [v |-> 0, p |-> 0, load |-> TRUE, victim |-> 0]

VARIABLES
    pc,          \* pc[t]: where thread t is
    holder,      \* holder[l]: the thread holding lock l (filterLock, the L1's
                 \* lock, the parent's lock), NoOne if free
    filter,      \* filterArray[idx]: [rd |-> rdAddr, wr |-> wrAddr]
    l1,          \* l1[set]: the address of the L1 array's line (0 if none)
    valid,       \* lines of the L1 whose coherence state is not I
    parentHolds, \* lines the parent records the L1 as holding
    acc,         \* replace's locals: vLineAddr, pLineAddr, isLoad, victim
    invAddr,     \* the InvReq's lineAddr
    invCount,    \* invalidations sent so far
    entryLine    \* history: entryLine[idx] is the pLineAddr of the access
                 \* that last wrote filterArray[idx]

fcVars == <<pc, holder, filter, l1, valid, parentHolds, acc, invAddr, invCount,
            entryLine>>
vars == <<fcVars, pmVars>>

Idx(x) == x & SetMask
Free(l) == holder[l] = NoOne
Take(l, t) == holder' = [holder EXCEPT ![l] = t]
Swap(take, give, t) == holder' = [holder EXCEPT ![take] = t, ![give] = NoOne]
Goto(t, s) == pc' = [pc EXCEPT ![t] = s]

(***************************************************************************)
(* The core thread.                                                        *)
(***************************************************************************)

\* load / store of a mapped line: replace(vLineAddr, idx, isLoad) sets
\* pLineAddr = procMask | vLineAddr; in the first phase with sharing it is
\* translated, otherwise filterLock is next.
ReplaceBegin(v, isLoad) ==
    /\ pc[Core] = "idle" /\ kmap[v] # NoRow
    /\ acc' = [v |-> v, p |-> WithProcMask(v), load |-> isLoad, victim |-> 0]
    /\ Goto(Core, IF FirstPhase /\ ~NoSharing THEN "translate" ELSE "lockFilter")
    /\ UNCHANGED <<holder, filter, l1, valid, parentHolds, invAddr, invCount, entryLine>>

\* futex_lock(&zinfo->global_lock), protection() and checkSharedLib() on
\* the process map, futex_unlock: one step, as nothing changes the tables
\* while the lock is held.  A failed assert_msg aborts the simulation.
ReplaceTranslate ==
    /\ pc[Core] = "translate" /\ globalHolder = Nobody
    /\ LET n == Translate(acc.v, acc.p) IN
       IF n = LibMissing THEN Goto(Core, "aborted") /\ UNCHANGED acc
       ELSE acc' = [acc EXCEPT !.p = n] /\ Goto(Core, "lockFilter")
    /\ UNCHANGED <<holder, filter, l1, valid, parentHolds, invAddr, invCount, entryLine>>

\* futex_lock(&filterLock).
LockFilter ==
    /\ pc[Core] = "lockFilter"
    /\ Free("filter")
    /\ Take("filter", Core)
    /\ Goto(Core, "startAccess")
    /\ UNCHANGED <<filter, l1, valid, parentHolds, acc, invAddr, invCount, entryLine>>

\* cc->startAccess releases the child lock (filterLock) ...
StartAccess ==
    /\ pc[Core] = "startAccess"
    /\ holder' = [holder EXCEPT !["filter"] = NoOne]
    /\ Goto(Core, "lockL1")
    /\ UNCHANGED <<filter, l1, valid, parentHolds, acc, invAddr, invCount, entryLine>>

\* Where processAccess goes after a lookup hit (MESI states are not
\* modelled beyond I): to the parent for a line in state I, maybe for a
\* store (an upgrade from S), never for a load of a valid line.
HitNext ==
    IF acc.p \notin valid THEN {"up"}
    ELSE IF acc.load THEN {"endAccess"} ELSE {"up", "endAccess"}

\* ... and takes the cache's lock; then lookup, and preinsert on a miss.  A
\* hit in state I, or a store hit (an upgrade), goes to the parent; a
\* victim whose state is not I is written back first.
LockL1 ==
    /\ pc[Core] = "lockL1"
    /\ Free("l1")
    /\ Take("l1", Core)
    /\ LET s == Idx(acc.p) IN
       \/ /\ l1[s] = acc.p
          /\ \E n \in HitNext : Goto(Core, n)
          /\ UNCHANGED acc
       \/ /\ l1[s] # acc.p
          /\ acc' = [acc EXCEPT !.victim = l1[s]]
          /\ Goto(Core, IF l1[s] \in valid THEN "evict" ELSE "post")
    /\ UNCHANGED <<filter, l1, valid, parentHolds, invAddr, invCount, entryLine>>

\* processEviction: the PUT's startAccess at the parent releases the L1's
\* lock and takes the parent's; the parent drops the L1 as holder.
EvictRelease ==
    /\ pc[Core] = "evict"
    /\ holder' = [holder EXCEPT !["l1"] = NoOne]
    /\ Goto(Core, "evictParent")
    /\ UNCHANGED <<filter, l1, valid, parentHolds, acc, invAddr, invCount, entryLine>>

EvictParent ==
    /\ pc[Core] = "evictParent"
    /\ Free("parent")
    /\ Take("parent", Core)
    /\ parentHolds' = parentHolds \ {acc.victim}
    /\ valid' = valid \ {acc.victim}
    /\ Goto(Core, "evictEnd")
    /\ UNCHANGED <<filter, l1, acc, invAddr, invCount, entryLine>>

\* The parent's endAccess retakes the L1's lock, then releases its own.
EvictEnd ==
    /\ pc[Core] = "evictEnd"
    /\ Free("l1")
    /\ Swap("l1", "parent", Core)
    /\ Goto(Core, "post")
    /\ UNCHANGED <<filter, l1, valid, parentHolds, acc, invAddr, invCount, entryLine>>

\* postinsert; processAccess of a miss then fetches from the parent.
Post ==
    /\ pc[Core] = "post"
    /\ l1' = [l1 EXCEPT ![Idx(acc.p)] = acc.p]
    /\ Goto(Core, "up")
    /\ UNCHANGED <<holder, filter, valid, parentHolds, acc, invAddr, invCount, entryLine>>

\* processAccess: the GETS/GETX's startAccess at the parent releases the
\* L1's lock; the parent grants the line and records the L1 as holder.
UpRelease ==
    /\ pc[Core] = "up"
    /\ holder' = [holder EXCEPT !["l1"] = NoOne]
    /\ Goto(Core, "upParent")
    /\ UNCHANGED <<filter, l1, valid, parentHolds, acc, invAddr, invCount, entryLine>>

UpParent ==
    /\ pc[Core] = "upParent"
    /\ Free("parent")
    /\ Take("parent", Core)
    /\ parentHolds' = parentHolds \cup {acc.p}
    /\ valid' = valid \cup {acc.p}
    /\ Goto(Core, "upEnd")
    /\ UNCHANGED <<filter, l1, acc, invAddr, invCount, entryLine>>

UpEnd ==
    /\ pc[Core] = "upEnd"
    /\ Free("l1")
    /\ Swap("l1", "parent", Core)
    /\ Goto(Core, "endAccess")
    /\ UNCHANGED <<filter, l1, valid, parentHolds, acc, invAddr, invCount, entryLine>>

\* Mutant of EndAccess: the L1's lock is not released.
EndAccessKeepsLock ==
    /\ pc[Core] = "endAccess"
    /\ Free("filter")
    /\ Take("filter", Core)
    /\ Goto(Core, "fill")
    /\ UNCHANGED <<filter, l1, valid, parentHolds, acc, invAddr, invCount, entryLine>>

\* cc->endAccess retakes the child lock (filterLock), then releases the
\* L1's lock.
EndAccess ==
    /\ pc[Core] = "endAccess"
    /\ Free("filter")
    /\ Swap("filter", "l1", Core)
    /\ Goto(Core, "fill")
    /\ UNCHANGED <<filter, l1, valid, parentHolds, acc, invAddr, invCount, entryLine>>

\* Mutant of Fill: the entry records the physical line address.
FillPhysical ==
    /\ pc[Core] = "fill"
    /\ filter' = [filter EXCEPT ![Idx(acc.v)] =
                     [rd |-> acc.p, wr |-> IF acc.load THEN AllOnes ELSE acc.p]]
    /\ entryLine' = [entryLine EXCEPT ![Idx(acc.v)] = acc.p]
    /\ holder' = [holder EXCEPT !["filter"] = NoOne]
    /\ Goto(Core, "idle")
    /\ UNCHANGED <<l1, valid, parentHolds, acc, invAddr, invCount>>

\* After access returns: wrAddr = isLoad ? -1L : vLineAddr, rdAddr =
\* vLineAddr, futex_unlock(&filterLock).  (availCycle is a cycle and is not
\* modelled.)
Fill ==
    /\ pc[Core] = "fill"
    /\ filter' = [filter EXCEPT ![Idx(acc.v)] =
                     [rd |-> acc.v, wr |-> IF acc.load THEN AllOnes ELSE acc.v]]
    /\ entryLine' = [entryLine EXCEPT ![Idx(acc.v)] = acc.p]
    /\ holder' = [holder EXCEPT !["filter"] = NoOne]
    /\ Goto(Core, "idle")
    /\ UNCHANGED <<l1, valid, parentHolds, acc, invAddr, invCount>>

\* contextSwitch: every entry cleared under filterLock.
ContextSwitch ==
    /\ Free("filter")
    /\ filter' = [i \in Sets |-> [rd |-> 0, wr |-> 0]]
    /\ UNCHANGED <<pc, holder, l1, valid, parentHolds, acc, invAddr, invCount, entryLine>>

(***************************************************************************)
(* The invalidating thread: an access of another core holding the parent's *)
(* lock invalidates a line the parent records the L1 as holding.           *)
(***************************************************************************)

\* Mutant of InvLockOrder: filterLock before the cache's down lock.
InvLockOrderSwapped == <<"filter", "l1">>

\* invalidate: Cache::startInvalidate (the down lock), then filterLock.
InvLockOrder == <<"l1", "filter">>

InvBegin(a) ==
    /\ pc[Inv] = "idle"
    /\ invCount < MaxInv
    /\ a \in parentHolds
    /\ Free("parent")
    /\ Take("parent", Inv)
    /\ invAddr' = a
    /\ Goto(Inv, "lock1")
    /\ UNCHANGED <<filter, l1, valid, parentHolds, acc, invCount, entryLine>>

InvLock1 ==
    /\ pc[Inv] = "lock1"
    /\ Free(InvLockOrder[1])
    /\ Take(InvLockOrder[1], Inv)
    /\ Goto(Inv, "lock2")
    /\ UNCHANGED <<filter, l1, valid, parentHolds, acc, invAddr, invCount, entryLine>>

\* Mutant of NamesLine: the entry is compared without procMask.
NamesLineNoMask(e, a) == e.rd = a

\* (filterArray[idx].rdAddr | procMask) == req.lineAddr.
NamesLine(e, a) == WithProcMask(e.rd) = a

\* The second lock; the entry at lineAddr & setMask is cleared (-1L) if it
\* names the line.
InvLock2 ==
    /\ pc[Inv] = "lock2"
    /\ Free(InvLockOrder[2])
    /\ Take(InvLockOrder[2], Inv)
    /\ LET i == Idx(invAddr) IN
         filter' = IF NamesLine(filter[i], invAddr)
                   THEN [filter EXCEPT ![i] = [rd |-> AllOnes, wr |-> AllOnes]]
                   ELSE filter
    /\ Goto(Inv, "finish")
    /\ UNCHANGED <<l1, valid, parentHolds, acc, invAddr, invCount, entryLine>>

\* finishInvalidate: lookup, then processInv sets the line's state to I and
\* releases the down lock; the parent no longer records the L1 as holder.
FinishInvalidate ==
    /\ pc[Inv] = "finish"
    /\ valid' = valid \ {invAddr}
    /\ parentHolds' = parentHolds \ {invAddr}
    /\ holder' = [holder EXCEPT !["l1"] = NoOne]
    /\ Goto(Inv, "unlock")
    /\ UNCHANGED <<filter, l1, acc, invAddr, invCount, entryLine>>

\* futex_unlock(&filterLock); the parent's access then releases its lock.
InvUnlock ==
    /\ pc[Inv] = "unlock"
    /\ holder' = [holder EXCEPT !["filter"] = NoOne]
    /\ Goto(Inv, "done")
    /\ UNCHANGED <<filter, l1, valid, parentHolds, acc, invAddr, invCount, entryLine>>

InvEnd ==
    /\ pc[Inv] = "done"
    /\ holder' = [holder EXCEPT !["parent"] = NoOne]
    /\ invCount' = invCount + 1
    /\ Goto(Inv, "idle")
    /\ UNCHANGED <<filter, l1, valid, parentHolds, acc, invAddr, entryLine>>

\* The constructor clears every entry; the caches start empty.
Init ==
    /\ pc = [t \in {Core, Inv} |-> "idle"]
    /\ holder = Unlocked
    /\ filter = [i \in Sets |-> [rd |-> 0, wr |-> 0]]
    /\ l1 = [i \in Sets |-> 0]
    /\ valid = {}
    /\ parentHolds = {}
    /\ acc = NoAccess
    /\ invAddr = 0
    /\ invCount = 0
    /\ entryLine = [i \in Sets |-> 0]
    /\ PMInit

\* The core's steps once replace has started.
CoreStep ==
    \/ ReplaceTranslate \/ LockFilter \/ StartAccess \/ LockL1 \/ EvictRelease \/ EvictParent
    \/ EvictEnd \/ Post \/ UpRelease \/ UpParent \/ UpEnd \/ EndAccess \/ Fill

\* The invalidating thread's steps once it holds the parent's lock.
InvStep == InvLock1 \/ InvLock2 \/ FinishInvalidate \/ InvUnlock \/ InvEnd

\* The filter cache's threads leave the process map alone; the
\* application thread leaves the caches alone.
Next ==
    \/ /\ \/ \E v \in VAddrs, isLoad \in BOOLEAN : ReplaceBegin(v, isLoad)
          \/ CoreStep
          \/ \E a \in PLines : InvBegin(a)
          \/ InvStep
          \/ ContextSwitch
       /\ UNCHANGED pmVars
    \/ (SysCall \/ HookStep) /\ UNCHANGED fcVars

Spec == Init /\ [][Next]_vars

\* Each thread keeps running once it has started an operation: a blocked
\* futex_lock returns once the lock is free and stays free, and a syscall
\* hook runs to its return.  No fairness for starting a replace, an
\* invalidation or a syscall, or for contextSwitch.
FairSpec == Spec /\ WF_vars(CoreStep /\ UNCHANGED pmVars)
                 /\ WF_vars(InvStep /\ UNCHANGED pmVars)
                 /\ WF_vars(HookStep /\ UNCHANGED fcVars)

-----------------------------------------------------------------------------

TypeOK ==
    /\ PMTypeOK
    /\ pc[Core] \in {"idle", "translate", "aborted", "lockFilter", "startAccess", "lockL1", "evict",
                     "evictParent", "evictEnd", "post", "up", "upParent",
                     "upEnd", "endAccess", "fill"}
    /\ pc[Inv] \in {"idle", "lock1", "lock2", "finish", "unlock", "done"}
    /\ holder \in [Locks -> {Core, Inv, NoOne}]
    /\ filter \in [Sets -> [rd : EntryVals, wr : EntryVals]]
    /\ l1 \in [Sets -> PLines \cup {0}]
    /\ valid \subseteq PLines /\ parentHolds \subseteq PLines
    /\ invAddr \in PLines \cup {0} /\ invCount \in 0 .. MaxInv
    /\ entryLine \in [Sets -> PLines \cup {0}]

\* The lock a thread is blocked on at its current step.
WaitsOn(t) ==
    CASE t = Core /\ pc[Core] \in {"lockFilter", "endAccess"} -> "filter"
      [] t = Core /\ pc[Core] \in {"lockL1", "evictEnd", "upEnd"} -> "l1"
      [] t = Core /\ pc[Core] \in {"evictParent", "upParent"} -> "parent"
      [] t = Inv /\ pc[Inv] = "lock1" -> InvLockOrder[1]
      [] t = Inv /\ pc[Inv] = "lock2" -> InvLockOrder[2]
      [] OTHER -> NoOne

\* No two threads each wait for a lock the other holds: replace holds the
\* cache's lock when endAccess retakes filterLock, and invalidate holds
\* filterLock while it runs finishInvalidate, so the hand-over-hand order
\* of startAccess/endAccess and the order of invalidate must agree.
NoWaitCycle ==
    ~ /\ WaitsOn(Core) # NoOne /\ holder[WaitsOn(Core)] = Inv
      /\ WaitsOn(Inv) # NoOne /\ holder[WaitsOn(Inv)] = Core

\* The entry at idx names a line its access made valid, and that line is
\* still valid.
EntryResident(i) ==
    filter[i].rd \notin {0, AllOnes} => entryLine[i] \in valid

\* Whenever the core is outside replace (when its load/store could read the
\* filter without a lock), every entry of an untranslated access names a
\* line that is valid in the cache: the entry written before filterLock is
\* released is not invalidated in between, and invalidate clears the entry
\* of the line it invalidates.
FilterEntryResident ==
    pc[Core] = "idle" =>
        \A i \in Sets :
            entryLine[i] = WithProcMask(filter[i].rd) => EntryResident(i)

\* The same for every entry, those of accesses checkSharedLib translated
\* included.
SharedEntryResident ==
    pc[Core] = "idle" => \A i \in Sets : EntryResident(i)

\* checkSharedLib's assert_msg(idx_1 != -1) never fails: every library
\* region replace translates has its entry in sharedLibInfo, because the
\* mmap/mprotect patch runs populateProcessMaps and addSharedLib as one
\* critical section of global_lock, the lock replace translates under.
TranslationFindsLib == pc[Core] # "aborted"

\* Every replace that has started returns: no lock is held forever.
ReplaceCompletes == pc[Core] # "idle" ~> pc[Core] = "idle"

====
