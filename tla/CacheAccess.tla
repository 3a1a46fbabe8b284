---------------------------- MODULE CacheAccess ----------------------------
(***************************************************************************)
(* Cache::access and Cache::finishInvalidate of src/src/cache.cpp, run by  *)
(* one requester down a hierarchy of NumLevels caches above memory.        *)
(*                                                                         *)
(* Each level executes access as a sequence of steps (pc): startAccess,    *)
(* lookup and preinsert; processEviction; postinsert; the drain of the     *)
(* requester's event recorder; processAccess; the merge of the two timing  *)
(* records; endAccess.  The coherence controller (outside src/) is the     *)
(* environment: processEviction writes a valid victim back to the parent   *)
(* (a nested access of type PUT), processAccess fetches a line that is not *)
(* valid from the parent (a nested GET), and the memory below the last     *)
(* level may or may not push a timing record for each access.  The parent *)
(* keeps, per child, the set of lines it believes the child holds          *)
(* (dirHolds); it may invalidate any of them whenever the child's lock is  *)
(* free, and Cache::finishInvalidate asserts that the line is present.     *)
(*                                                                         *)
(* Each array is the abstract CacheArray: a set of resident addresses, a   *)
(* victim chosen among them (or an empty line while there is room).        *)
(* Cycles are not modelled: a timing record is the set of memory events    *)
(* its start event reaches and its end event.                              *)
(*                                                                         *)
(* The last level (the LLC) is entered through Cache::accessSkew: the same *)
(* steps, plus the first-time-miss (FTM) bookkeeping.  Its locals hit and  *)
(* sameOwner are set at lookup, and after endSkewAccess a GETS/GETX hit on *)
(* a line another core owns is counted by updateFTMStats and, with request *)
(* flag bit 11, answered 200 cycles late.  The request flags are those     *)
(* FilterCache::replace sets from protection()'s row and the cache's name; *)
(* the controller forwards a fetch with its requester's type and flags.    *)
(***************************************************************************)
EXTENDS Naturals, Sequences, FiniteSets

CONSTANTS
    NumLevels,   \* caches between the requester and memory
    Addr,        \* line addresses (model values)
    Empty,       \* the address of an invalid line
    Cap,         \* lines per array
    MaxRecords,  \* bound on the memory events of one top-level access
    FTMEnable,   \* zinfo->ftmEnable
    FTMTypes,    \* the request types whose ftmTypeFlag bit is set
    FirstPhase, NoSharing, ScatterCache,  \* the zinfo flags replace reads
    Regions      \* the rows protection() may return: [perm, region]

ASSUME /\ NumLevels \in Nat \ {0} /\ Cap \in Nat \ {0}
       /\ MaxRecords \in Nat /\ Empty \notin Addr
       /\ FTMTypes \subseteq {"GETS", "GETX"}
       /\ Regions \subseteq [perm : {"r-xp", "r--p", "rw-p", "rwxp", "10"},
                             region : SUBSET (0 .. 7)]

Lv       == 1 .. NumLevels
Children == 1 .. NumLevels - 1      \* levels whose parent is a cache
Ids      == 1 .. MaxRecords
NoEvent  == 0
\* TimingRecord: the memory events reachable from startEvent, and endEvent.
Records  == [evs : SUBSET Ids, end : Ids \cup {NoEvent}]
NoRecord == [evs |-> {}, end |-> NoEvent]
IsValid(r) == r.evs # {}
NoInsert == [addr |-> Empty, wb |-> Empty]
NoReq    == [addr |-> Empty, type |-> "none"]
LLC      == NumLevels
L1Names  == {"l1i", "l1d"}          \* the name prefixes replace tests
PCs == {"idle", "start", "evict", "evictWait", "post", "drain", "process",
        "processWait", "merge", "end", "done"}

VARIABLES
    pc,        \* pc[k]: where level k's access is
    req,       \* req[k]: the MemReq level k serves, [addr, type]
    pend,      \* pend[k]: preinsert's victim awaiting postinsert
    resident,  \* resident[k]: the addresses in level k's array
    valid,     \* valid[k]: resident lines whose coherence state is not I
    dirHolds,  \* dirHolds[k]: lines level k+1 records level k as holding
    wbAcc,     \* wbAcc[k]: the writeback record drained by level k
    evRec,     \* the requester's EventRecorder (pushRecord appends)
    kind,      \* kind[i]: the request type of memory event i
    top,       \* the requester's request: its type (GETS/GETX) and flags
    ftm        \* accessSkew's locals hit and sameOwner at the LLC, and, for
               \* checking only: whether its lookup found the line, whether
               \* it answered with the FTM delay, and the updateFTMStats
               \* counters bumped during the current top-level access

ftmVars == <<top, ftm>>
vars == <<pc, req, pend, resident, valid, dirHolds, wbAcc, evRec, kind, ftmVars>>

(***************************************************************************)
(* The request flags and the FTM path of accessSkew.                       *)
(***************************************************************************)

FirstTimeMiss == 0      \* the counter incrementFirstTimeMiss bumps
DelayBit      == 11     \* the r--p flag the FTM delay tests
NoFTM == [found |-> FALSE, hit |-> TRUE, same |-> TRUE, delayed |-> FALSE,
          counted |-> {}]

\* replace's permission and region_type: protection()'s row in the first
\* phase with sharing and without scatterCache, otherwise their initial
\* values 1 and 0.
Protected(r) ==
    IF FirstPhase /\ ~NoSharing /\ ~ScatterCache THEN r
    ELSE [perm |-> "1", region |-> {}]

\* The FTM flags replace ORs into req.flags: region_type << 13, bit 8 for
\* r-xp, one of bits 7, 11, 12 for rw-p, r--p, rwxp, and bit 9 or 10 for
\* an l1i or l1d cache unless scatterCache.
ReqFlags(r, name) ==
    LET p == Protected(r).perm IN
    {13 + b : b \in Protected(r).region}
    \cup (IF p = "r-xp" THEN {8} ELSE {})
    \cup (CASE p = "rw-p" -> {7} [] p = "r--p" -> {11} [] p = "rwxp" -> {12}
            [] OTHER -> {})
    \cup (IF ScatterCache THEN {} ELSE IF name = "l1i" THEN {9} ELSE {10})

\* updateFTMStats: incrementFirstTimeMiss, and the counter of every flag
\* bit it tests (bits 7 to 20) that is set.
UpdateFTMStats(f) == {FirstTimeMiss} \cup (f \cap 7 .. 20)

\* Mutant of SkewLookup: hit is not cleared on the allocating path.
SkewLookupHitKept(a, t, skip, fill) ==
    \E same \in IF ~skip /\ t = "GET" THEN BOOLEAN ELSE {TRUE} :
        ftm' = [ftm EXCEPT !.found = ~skip /\ a \in resident[LLC],
                           !.hit = TRUE, !.same = same]

\* accessSkew's locals after lookup: hit stays TRUE unless the miss
\* allocates (and on a skipped access); on a hit of a GETS/GETX
\* checkSameOwner, state of the controller, decides sameOwner.
SkewLookup(a, t, skip, fill) ==
    LET hit == ~fill IN
    \E same \in IF ~skip /\ hit /\ t = "GET" THEN BOOLEAN ELSE {TRUE} :
        ftm' = [ftm EXCEPT !.found = ~skip /\ a \in resident[LLC],
                           !.hit = hit, !.same = same]

\* After endSkewAccess, with ftmEnable at the LLC: a GETS or GETX whose
\* ftmTypeFlag bit is set and whose line another core owns is counted,
\* and answered 200 cycles late if it carries bit 11.
FTMResponse(t) ==
    LET ftmMiss == FTMEnable /\ t = "GET" /\ top.op \in FTMTypes /\ ~ftm.same
    IN  ftm' = [ftm EXCEPT
                  !.counted = IF ftmMiss THEN @ \cup UpdateFTMStats(top.flags) ELSE @,
                  !.delayed = ftmMiss /\ DelayBit \in top.flags]

\* Level j's lock is free: it is idle, or it waits on its parent's access,
\* which released it (req.childLock) in startAccess and retakes it in
\* endAccess.
LockFree(j) ==
    \/ pc[j] = "idle"
    \/ pc[j] \in {"evictWait", "processWait"} /\ pc[j + 1] \notin {"start", "done"}

\* Call the parent of level k with request [a, t]; level k waits in w.
CallParent(k, a, t, w) ==
    /\ pc' = [pc EXCEPT ![k] = w, ![k + 1] = "start"]
    /\ req' = [req EXCEPT ![k + 1] = [addr |-> a, type |-> t]]

\* An access to memory: it may push a timing record with a fresh event.
MemAccess(t) ==
    \/ /\ Len(kind) < MaxRecords
       /\ kind' = Append(kind, t)
       /\ evRec' = Append(evRec, [evs |-> {Len(kind) + 1}, end |-> Len(kind) + 1])
    \/ UNCHANGED <<kind, evRec>>

\* preinsert's victims: a resident line, or an empty one while there is room.
Victims(k) ==
    resident[k] \cup (IF Cardinality(resident[k]) < Cap THEN {Empty} ELSE {})

\* The requester (a FilterCache's replace) issues a load (GETS) or store
\* (GETX) of a line of region r to the first level, from its cache name.
Issue(a, op, r, name) ==
    /\ pc[1] = "idle"
    /\ pc' = [pc EXCEPT ![1] = "start"]
    /\ req' = [req EXCEPT ![1] = [addr |-> a, type |-> "GET"]]
    /\ kind' = << >>
    /\ top' = [op |-> op, flags |-> ReqFlags(r, name)]
    /\ ftm' = NoFTM
    /\ UNCHANGED <<pend, resident, valid, dirHolds, wbAcc, evRec>>

\* The requester takes the access's timing record and is ready again.
Complete ==
    /\ pc[1] = "done"
    /\ pc' = [pc EXCEPT ![1] = "idle"]
    /\ req' = [req EXCEPT ![1] = NoReq]
    /\ evRec' = << >>
    /\ UNCHANGED <<pend, resident, valid, dirHolds, wbAcc, kind>>

\* startAccess, lookup and, on a miss the controller allocates, preinsert.
\* A PUT whose line the parent already invalidated is skipped (the race
\* startAccess detects).  shouldAllocate holds for every GET.  At the LLC
\* (startSkewAccess) accessSkew also sets its FTM locals.
Start(k) ==
    LET a    == req[k].addr
        t    == req[k].type
        skip == k > 1 /\ t = "PUT" /\ a \notin dirHolds[k - 1]
    IN
    /\ pc[k] = "start"
    /\ \E alloc \in IF t = "GET" THEN {TRUE} ELSE BOOLEAN :
         LET fill == ~skip /\ a \notin resident[k] /\ alloc IN
         /\ IF skip
            THEN /\ pc' = [pc EXCEPT ![k] = "end"]
                 /\ UNCHANGED pend
            ELSE IF fill
            THEN /\ \E wb \in Victims(k) :
                      pend' = [pend EXCEPT ![k] = [addr |-> a, wb |-> wb]]
                 /\ pc' = [pc EXCEPT ![k] = "evict"]
            ELSE /\ pc' = [pc EXCEPT ![k] = "drain"]
                 /\ UNCHANGED pend
         /\ IF k = LLC THEN SkewLookup(a, t, skip, fill) ELSE UNCHANGED ftm
    /\ UNCHANGED <<req, resident, valid, dirHolds, wbAcc, evRec, kind, top>>

\* Mutant of Evict: the writeback names the incoming line, not the victim.
EvictWritesBackNewLine(k) ==
    LET v == pend[k].wb
    IN
    /\ pc[k] = "evict"
    /\ IF v # Empty /\ v \in valid[k]
       THEN /\ valid' = [valid EXCEPT ![k] = @ \ {v}]
            /\ IF k < NumLevels
               THEN /\ CallParent(k, pend[k].addr, "PUT", "evictWait")
                    /\ UNCHANGED <<kind, evRec>>
               ELSE /\ MemAccess("PUT")
                    /\ pc' = [pc EXCEPT ![k] = "post"]
                    /\ UNCHANGED req
       ELSE /\ pc' = [pc EXCEPT ![k] = "post"]
            /\ UNCHANGED <<req, valid, kind, evRec>>
    /\ UNCHANGED <<pend, resident, dirHolds, wbAcc>>

\* processEviction: a valid victim is written back to the parent.
Evict(k) ==
    LET v == pend[k].wb
    IN
    /\ pc[k] = "evict"
    /\ IF v # Empty /\ v \in valid[k]
       THEN /\ valid' = [valid EXCEPT ![k] = @ \ {v}]
            /\ IF k < NumLevels
               THEN /\ CallParent(k, v, "PUT", "evictWait")
                    /\ UNCHANGED <<kind, evRec>>
               ELSE /\ MemAccess("PUT")
                    /\ pc' = [pc EXCEPT ![k] = "post"]
                    /\ UNCHANGED req
       ELSE /\ pc' = [pc EXCEPT ![k] = "post"]
            /\ UNCHANGED <<req, valid, kind, evRec>>
    /\ UNCHANGED <<pend, resident, dirHolds, wbAcc>>

\* The parent's access for the writeback returned (endAccess retook k's lock).
EvictReturn(k) ==
    /\ pc[k] = "evictWait"
    /\ pc[k + 1] = "done"
    /\ pc' = [pc EXCEPT ![k] = "post", ![k + 1] = "idle"]
    /\ req' = [req EXCEPT ![k + 1] = NoReq]
    /\ UNCHANGED <<pend, resident, valid, dirHolds, wbAcc, evRec, kind>>

\* Mutant of Post: the victim is not removed.
PostKeepsVictim(k) ==
    /\ pc[k] = "post"
    /\ resident' = [resident EXCEPT ![k] = @ \cup {pend[k].addr}]
    /\ pend' = [pend EXCEPT ![k] = NoInsert]
    /\ pc' = [pc EXCEPT ![k] = "drain"]
    /\ UNCHANGED <<req, valid, dirHolds, wbAcc, evRec, kind>>

\* postinsert: the victim leaves the array and the new address enters.
Post(k) ==
    /\ pc[k] = "post"
    /\ resident' = [resident EXCEPT ![k] = (@ \ {pend[k].wb}) \cup {pend[k].addr}]
    /\ pend' = [pend EXCEPT ![k] = NoInsert]
    /\ pc' = [pc EXCEPT ![k] = "drain"]
    /\ UNCHANGED <<req, valid, dirHolds, wbAcc, evRec, kind>>

\* Mutant of Drain: the pending record is read but not popped.
DrainPeek(k) ==
    /\ pc[k] = "drain"
    /\ wbAcc' = [wbAcc EXCEPT ![k] = IF evRec # << >> THEN Head(evRec) ELSE NoRecord]
    /\ pc' = [pc EXCEPT ![k] = "process"]
    /\ UNCHANGED <<req, pend, resident, valid, dirHolds, evRec, kind>>

\* The single-record invariant: pop a pending writeback record into wbAcc.
Drain(k) ==
    /\ pc[k] = "drain"
    /\ IF evRec # << >>
       THEN /\ wbAcc' = [wbAcc EXCEPT ![k] = Head(evRec)]
            /\ evRec' = Tail(evRec)
       ELSE /\ wbAcc' = [wbAcc EXCEPT ![k] = NoRecord]
            /\ UNCHANGED evRec
    /\ pc' = [pc EXCEPT ![k] = "process"]
    /\ UNCHANGED <<req, pend, resident, valid, dirHolds, kind>>

\* processAccess.  As the parent of level k - 1, the controller records a
\* GET's requester as a holder and drops a PUT's.  A GET of a line that is
\* not valid here is fetched from the parent (or memory).
Process(k) ==
    LET a == req[k].addr
        t == req[k].type
    IN
    /\ pc[k] = "process"
    /\ IF k > 1
       THEN dirHolds' = [dirHolds EXCEPT ![k - 1] =
                           IF t = "GET" THEN @ \cup {a} ELSE @ \ {a}]
       ELSE UNCHANGED dirHolds
    /\ IF t = "GET" /\ a \notin valid[k]
       THEN IF k < NumLevels
            THEN /\ CallParent(k, a, "GET", "processWait")
                 /\ UNCHANGED <<valid, kind, evRec>>
            ELSE /\ MemAccess("GET")
                 /\ valid' = [valid EXCEPT ![k] = @ \cup ({a} \cap resident[k])]
                 /\ pc' = [pc EXCEPT ![k] = "merge"]
                 /\ UNCHANGED req
       ELSE /\ pc' = [pc EXCEPT ![k] = "merge"]
            /\ UNCHANGED <<req, valid, kind, evRec>>
    /\ UNCHANGED <<pend, resident, wbAcc>>

\* The parent's access for the fetch returned; the line is now valid.
ProcessReturn(k) ==
    /\ pc[k] = "processWait"
    /\ pc[k + 1] = "done"
    /\ pc' = [pc EXCEPT ![k] = "merge", ![k + 1] = "idle"]
    /\ req' = [req EXCEPT ![k + 1] = NoReq]
    /\ valid' = [valid EXCEPT ![k] = @ \cup ({req[k].addr} \cap resident[k])]
    /\ UNCHANGED <<pend, resident, dirHolds, wbAcc, evRec, kind>>

\* Mutant of Merge: a lone writeback record is not pushed back.
MergeDropsLoneWb(k) ==
    LET wb == wbAcc[k]
    IN
    /\ pc[k] = "merge"
    /\ IF IsValid(wb) /\ evRec # << >>
       THEN LET acc == Head(evRec)
            IN  evRec' = Append(Tail(evRec), [evs |-> wb.evs \cup acc.evs, end |-> acc.end])
       ELSE UNCHANGED evRec
    /\ wbAcc' = [wbAcc EXCEPT ![k] = NoRecord]
    /\ pc' = [pc EXCEPT ![k] = "end"]
    /\ UNCHANGED <<req, pend, resident, valid, dirHolds, kind>>

\* Mutant of Merge: a lone writeback record keeps its endEvent.
MergeKeepsWbEnd(k) ==
    LET wb == wbAcc[k]
    IN
    /\ pc[k] = "merge"
    /\ IF ~IsValid(wb) THEN UNCHANGED evRec
       ELSE IF evRec = << >>
       THEN evRec' = << wb >>
       ELSE LET acc == Head(evRec)
            IN  evRec' = Append(Tail(evRec), [evs |-> wb.evs \cup acc.evs, end |-> acc.end])
    /\ wbAcc' = [wbAcc EXCEPT ![k] = NoRecord]
    /\ pc' = [pc EXCEPT ![k] = "end"]
    /\ UNCHANGED <<req, pend, resident, valid, dirHolds, kind>>

\* The merge: with no access record the writeback record is pushed back
\* with its endEvent cleared; with both, one record whose start event
\* reaches both sub-records and whose end is the access's.
Merge(k) ==
    LET wb == wbAcc[k]
    IN
    /\ pc[k] = "merge"
    /\ IF ~IsValid(wb) THEN UNCHANGED evRec
       ELSE IF evRec = << >>
       THEN evRec' = << [wb EXCEPT !.end = NoEvent] >>
       ELSE LET acc == Head(evRec)
            IN  evRec' = Append(Tail(evRec), [evs |-> wb.evs \cup acc.evs, end |-> acc.end])
    /\ wbAcc' = [wbAcc EXCEPT ![k] = NoRecord]
    /\ pc' = [pc EXCEPT ![k] = "end"]
    /\ UNCHANGED <<req, pend, resident, valid, dirHolds, kind>>

\* endAccess: the access returns to its caller; at the LLC, endSkewAccess
\* and the FTM response.
End(k) ==
    /\ pc[k] = "end"
    /\ pc' = [pc EXCEPT ![k] = "done"]
    /\ IF k = LLC THEN FTMResponse(req[k].type) ELSE UNCHANGED ftm
    /\ UNCHANGED <<req, pend, resident, valid, dirHolds, wbAcc, evRec, kind, top>>

\* The parent invalidates line a of level j (Cache::finishInvalidate, then
\* processInv): from its own processEviction, or from above or another
\* requester while its own lock is free too.
Invalidate(j, a) ==
    /\ a \in dirHolds[j]
    /\ LockFree(j)
    /\ pc[j + 1] = "evict" \/ LockFree(j + 1)
    /\ valid' = [valid EXCEPT ![j] = @ \ {a}]
    /\ dirHolds' = [dirHolds EXCEPT ![j] = @ \ {a}]
    /\ UNCHANGED <<pc, req, pend, resident, wbAcc, evRec, kind>>

Init ==
    /\ pc = [k \in Lv |-> "idle"]
    /\ req = [k \in Lv |-> NoReq]
    /\ pend = [k \in Lv |-> NoInsert]
    /\ resident = [k \in Lv |-> {}]
    /\ valid = [k \in Lv |-> {}]
    /\ dirHolds = [k \in Children |-> {}]
    /\ wbAcc = [k \in Lv |-> NoRecord]
    /\ evRec = << >>
    /\ kind = << >>
    /\ top = [op |-> "GETS", flags |-> {}]
    /\ ftm = NoFTM

\* Only Issue, startAccess and endAccess touch the request's flags and
\* accessSkew's FTM locals.
Next ==
    \/ \E a \in Addr, op \in {"GETS", "GETX"}, r \in Regions, n \in L1Names :
          Issue(a, op, r, n)
    \/ \E k \in Lv : Start(k) \/ End(k)
    \/ /\ \/ Complete
          \/ \E k \in Lv : Evict(k) \/ Post(k) \/ Drain(k) \/ Process(k) \/ Merge(k)
          \/ \E k \in Children : EvictReturn(k) \/ ProcessReturn(k)
          \/ \E j \in Children, a \in Addr : Invalidate(j, a)
       /\ UNCHANGED ftmVars

Spec == Init /\ [][Next]_vars

-----------------------------------------------------------------------------

TypeOK ==
    /\ pc \in [Lv -> PCs]
    /\ req \in [Lv -> [addr : Addr \cup {Empty}, type : {"GET", "PUT", "none"}]]
    /\ pend \in [Lv -> [addr : Addr \cup {Empty}, wb : Addr \cup {Empty}]]
    /\ \A k \in Lv : resident[k] \subseteq Addr /\ Cardinality(resident[k]) <= Cap
    /\ valid \in [Lv -> SUBSET Addr]
    /\ dirHolds \in [Children -> SUBSET Addr]
    /\ wbAcc \in [Lv -> Records]
    /\ evRec \in Seq(Records)
    /\ kind \in Seq({"GET", "PUT"}) /\ Len(kind) <= MaxRecords
    /\ top \in [op : {"GETS", "GETX"}, flags : SUBSET (7 .. 20)]
    /\ ftm \in [found : BOOLEAN, hit : BOOLEAN, same : BOOLEAN,
                delayed : BOOLEAN, counted : SUBSET ({FirstTimeMiss} \cup 7 .. 20)]

\* The single-record invariant (cache.cpp:299-306 and the EventRecorder's
\* one slot): however the writebacks and fetches of the levels nest, the
\* requester's recorder never holds two timing records.
SingleRecord == Len(evRec) <= 1

\* No timing record is lost: when the top-level access returns, the record
\* it leaves reaches every memory event any level's writeback or fetch
\* produced during it (the drain, push-back and merge of Cache::access).
NoRecordLost ==
    pc[1] = "done" =>
        \A i \in 1 .. Len(kind) : \E j \in DOMAIN evRec : i \in evRec[j].evs

\* When the access of any level returns, the record it leaves ends at the
\* completion of a fetch, never of a writeback: a writeback record pushed
\* back alone has its endEvent cleared, and a merged record keeps the
\* access's end (cache.cpp:309-335).
RecordEndsAtFetch ==
    \A k \in Lv : pc[k] = "done" =>
        \A j \in DOMAIN evRec : evRec[j].end # NoEvent => kind[evRec[j].end] = "GET"

\* Whenever the parent could invalidate a line of level j, the line is in
\* j's array: Cache::finishInvalidate's lookup never returns -1.  Relies on
\* processEviction's writeback completing before postinsert replaces it.
InvalidationFindsLine ==
    \A j \in Children : LockFree(j) => dirHolds[j] \subseteq resident[j]

\* The FTM delay goes only to a hit: whenever the LLC's accessSkew answers
\* with the 200 extra cycles, its lookup found the line, so a line it
\* has just allocated, and fetched from memory, is never padded as if
\* another core's copy had been hit (hit is cleared on the allocating
\* path of accessSkew, and checkSameOwner runs only on a hit).
FTMDelayOnlyOnHit == ftm.delayed => ftm.found

====
