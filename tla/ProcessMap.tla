----------------------------- MODULE ProcessMap -----------------------------
(***************************************************************************)
(* The process map a FilterCache translates through, and the syscall hooks *)
(* of src/src/virt/cpu.cpp that rebuild it.                                *)
(*                                                                         *)
(* zinfo keeps, per process, the table of its memory regions (start, end,  *)
(* name, permissions, region bits), and a table of the shared libraries    *)
(* met so far with the line each is given (sharedLibInfo_idx/_info).  The  *)
(* table is a function from line to the row of its region (NoRow where     *)
(* nothing is mapped), sorted by address as /proc maps is; a region starts *)
(* at a page boundary (PageLines lines).  kmap is what the kernel has      *)
(* mapped, pmap the table zinfo holds.                                     *)
(*                                                                         *)
(* An application thread of the process makes mmap, mprotect and munmap    *)
(* calls.  The kernel changes kmap; the post-syscall hook then sets        *)
(* zinfo->flag and zinfo->remakePmap and, for mmap and (in the first       *)
(* phase) mprotect, takes global_lock, calls populateProcessMaps and       *)
(* addSharedLib, and unlocks.  Those two functions are not in the          *)
(* repository: populateProcessMaps copies kmap into pmap, addSharedLib     *)
(* gives every shared library of pmap not yet in the table its entry, the  *)
(* contract checkSharedLib's lookups rely on.                              *)
(***************************************************************************)
EXTENDS Integers, FiniteSetsExt

CONSTANTS
    VAddrs,       \* the lines of the address space
    Libs,         \* names of shared libraries
    LibAddr,      \* sharedLibInfo_info[.].libAddr, as a line: [Libs -> Nat]
    PageLines,    \* lines per page
    MmapRows,     \* the regions an mmap may create: [name, perm, sl, mmap]
    InitMap,      \* the regions mapped when the process starts
    SysLines,     \* lines the application's syscalls name
    FirstPhase,   \* zinfo->firstPhase
    NoSharing,    \* zinfo->noSharing
    ScatterCache, \* zinfo->scatterCache
    MaxSys        \* bound on the syscalls the application makes

NoRow   == [name |-> "none", perm |-> "none", sl |-> FALSE, mmap |-> FALSE]
TableMiss == "10"    \* the permission protection() returns on a miss
Perms   == {"r-xp", "r--p", "rw-p"}
PermRXP == "r-xp"     \* zinfo->perm_rxp
PermRP  == "r--p"     \* zinfo->perm_rp
Anon    == "anon"     \* the name of an anonymous region
Sys     == "sys"
Nobody  == "none"

\* A row: the region's name, its permissions, the sl and mmap bits.
Rows == [name : Libs \cup {Anon}, perm : Perms, sl : BOOLEAN, mmap : BOOLEAN]

ASSUME /\ InitMap \in [VAddrs -> Rows \cup {NoRow}] /\ MmapRows \subseteq Rows
       /\ SysLines \subseteq VAddrs /\ MaxSys \in Nat
       /\ LibAddr \in [Libs -> Nat \ {0}] /\ PageLines \in Nat \ {0}

VARIABLES
    kmap,         \* the kernel's mappings of the process
    pmap,         \* perProcessInfo_info of the process
    libTable,     \* the names in sharedLibInfo_idx
    globalHolder, \* the thread holding zinfo->global_lock, Nobody if free
    flag,         \* zinfo->flag
    remakePmap,   \* zinfo->remakePmap
    sysPc,        \* where the application thread is
    sysCount      \* syscalls made so far

pmVars == <<kmap, pmap, libTable, globalHolder, flag, remakePmap,
            sysPc, sysCount>>

\* The names addSharedLib enters for a table.
LibsOf(m) == {m[u].name : u \in {x \in VAddrs : m[x] # NoRow /\ m[x].sl}}

(***************************************************************************)
(* The translation replace computes under global_lock.                     *)
(***************************************************************************)

\* protection(): the row of the first region containing the line, or
\* permission 10 (a table miss) with no region bits.
Protection(v) ==
    IF pmap[v] = NoRow THEN [NoRow EXCEPT !.perm = TableMiss] ELSE pmap[v]

\* What checkSharedLib() yields when assert_msg(idx_1 != -1) fails: the
\* library has no entry (a value no line address takes).
LibMissing == -2

\* The start_range of the region of line u: its page's first line.
PageStart(u) == u - (u % PageLines)

\* checkSharedLib(): the offset from the start of the first region of the
\* same name (the library's base), added to the library's line.
CheckSharedLib(v) ==
    LET name     == pmap[v].name
        first    == Min({u \in VAddrs : pmap[u] # NoRow /\ pmap[u].name = name})
        baseline == PageStart(first)
    IN  IF name \notin libTable THEN LibMissing ELSE (v - baseline) + LibAddr[name]

\* Whether replace calls checkSharedLib: no mmap bit, a hit in the table,
\* the sl bit, and r-xp or r--p.
Shareable(r) ==
    ~r.mmap /\ r.perm # TableMiss /\ r.sl /\ r.perm \in {PermRXP, PermRP}

\* replace's new_pLineAddr for line v, given pLineAddr = procMask | v.
NewPLine(v, pLine) ==
    IF ~ScatterCache /\ Shareable(Protection(v)) THEN CheckSharedLib(v) ELSE pLine

\* pLineAddr after the translation: new_pLineAddr unless it is 0 or -1.
Translate(v, pLine) ==
    LET n == NewPLine(v, pLine) IN IF n \in {0, -1} THEN pLine ELSE n

(***************************************************************************)
(* The application thread.                                                 *)
(***************************************************************************)

\* Whether the post-syscall patch rebuilds the map: mmap always, mprotect
\* in the first phase ("update it immediately"), munmap never.
Rebuilds(op) == op = "mmap" \/ (op = "mprotect" /\ FirstPhase)

\* The syscall op changes the kernel's mappings to m; its patch sets
\* zinfo->flag = 1 and zinfo->remakePmap = 1 and returns, or goes on to
\* futex_lock(&zinfo->global_lock).  (Nothing in src/ reads the flags.)
SyscallReturns(op, m) ==
    /\ sysPc = "idle" /\ sysCount < MaxSys
    /\ kmap' = m
    /\ flag' = 1 /\ remakePmap' = 1
    /\ sysPc' = IF Rebuilds(op) THEN "lock" ELSE "idle"
    /\ sysCount' = sysCount + 1
    /\ UNCHANGED <<pmap, libTable, globalHolder>>

Mmap(v, r) ==
    /\ kmap[v] = NoRow
    /\ SyscallReturns("mmap", [kmap EXCEPT ![v] = r])

Mprotect(v, p) ==
    /\ kmap[v] # NoRow
    /\ SyscallReturns("mprotect", [kmap EXCEPT ![v].perm = p])

Munmap(v) ==
    /\ kmap[v] # NoRow
    /\ SyscallReturns("munmap", [kmap EXCEPT ![v] = NoRow])

\* Mutant of HookPopulate: the patch rebuilds the map without the lock.
HookPopulateUnlocked ==
    /\ sysPc = "lock"
    /\ pmap' = kmap /\ sysPc' = "addLib"
    /\ UNCHANGED <<kmap, libTable, globalHolder, flag, remakePmap, sysCount>>

\* futex_lock(&zinfo->global_lock), then populateProcessMaps().
HookPopulate ==
    /\ sysPc = "lock" /\ globalHolder = Nobody
    /\ globalHolder' = Sys
    /\ pmap' = kmap /\ sysPc' = "addLib"
    /\ UNCHANGED <<kmap, libTable, flag, remakePmap, sysCount>>

\* addSharedLib(), then futex_unlock(&zinfo->global_lock); the patch
\* returns.
HookAddSharedLib ==
    /\ sysPc = "addLib"
    /\ libTable' = libTable \cup LibsOf(pmap)
    /\ globalHolder' = Nobody /\ sysPc' = "idle"
    /\ UNCHANGED <<kmap, pmap, flag, remakePmap, sysCount>>

\* The process starts with its map populated and its libraries entered.
PMInit ==
    /\ kmap = InitMap /\ pmap = InitMap /\ libTable = LibsOf(InitMap)
    /\ globalHolder = Nobody /\ flag = 0 /\ remakePmap = 0
    /\ sysPc = "idle" /\ sysCount = 0

\* A syscall of the application.
SysCall ==
    \/ \E v \in SysLines, r \in MmapRows : Mmap(v, r)
    \/ \E v \in SysLines, p \in Perms : Mprotect(v, p)
    \/ \E v \in SysLines : Munmap(v)

\* The hook's steps once the syscall has returned.
HookStep == HookPopulate \/ HookAddSharedLib

-----------------------------------------------------------------------------

PMTypeOK ==
    /\ kmap \in [VAddrs -> Rows \cup {NoRow}]
    /\ pmap \in [VAddrs -> Rows \cup {NoRow}]
    /\ libTable \subseteq Libs
    /\ globalHolder \in {Sys, Nobody} /\ flag \in {0, 1} /\ remakePmap \in {0, 1}
    /\ sysPc \in {"idle", "lock", "addLib"} /\ sysCount \in 0 .. MaxSys

====
