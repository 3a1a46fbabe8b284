# TLA+ models of the FTM cache layer (zsim cache arrays, hashing, access path)

This directory holds TLA+ models of the cache layer in `src/src/`. The code is
zsim's cache layer, extended for first-time-miss (FTM) tracking and cache
partitioning. The models are checked with TLC. `PROJECT.json` lists every
component, run, mutant, source mapping and hazard. This file explains them.

## 1. Inventory

### Components

| Component | Source | State | Operations |
|---|---|---|---|
| HashFamily: H3 | `hash.cpp:32-124` | `hMatrix` (random rows), `resShift`; read-only after construction | `hash(id, val)`: an 8-way unrolled XOR-and-rotate fold over `64>>resShift` rows, then an output fold |
| HashFamily: Feistel | `hash.cpp:127-215` | four S tables, four P tables, four round keys | `hash(id, val)`: four Feistel rounds. `bitXor` is a parity. **`id` is ignored** |
| HashFamily: SHA1 | `hash.cpp:217-268` | memoized last value and its digests | `hash`. Without PolarSSL, construction panics |
| HashFamily: Id | `hash.h:97-100` | none | `hash(id, val) = val` |
| SetAssocArray | `cache_arrays.cpp:31-129` | `array[numLines]`, `numSets`, `setMask`, partition geometry (`partitionSetCount`, `partitionMask`, `partitionAssoc`), `isLLC`, `proc_partition` | `lookup`, `preinsert`, `postinsert`, each in three modes: plain, set-partitioned and way-partitioned |
| CEASERArray | `cache_arrays.cpp:131-243` | `array`, `switch_array[numSets]`, `hf_current`/`hf_target`, `rng` | `lookup`, `preinsert` (random victim), `postinsert`, `getAddr`, `getSwitch`/`setSwitch`, `getReplSet`/`getReplAddr`/`getReplId`, `switchHash`, `resetSwitches`, `moveAddr` |
| ZArray | `cache_arrays.cpp:246-395` | `array[numLines]`, the indirection table `lookupArray[numLines]`, `swapArray`/`swapArrayLen`, `lastCandIdx` | `lookup`, `preinsert` (BFS candidate walk, oracle, swap chain), `postinsert` (chain replay) |
| Cache (orchestration) | `cache.cpp:33-369` | `accLat`, `invLat`. Per access, the locals `respCycle`, `lineId`, `wbAcc` | `access`, `accessSkew` (FTM variant), `finishInvalidate`, `finishRefresh`, `checkSkew`, `updateFTMStats` |
| FilterCache (L0) | `filter_cache.h:45-422` | `filterArray[numSets]` of {rdAddr, wrAddr, availCycle}, `filterLock` | `load`/`store` (the fast hit path is commented out, so both always call `replace`), `replace`, `invalidate`, `contextSwitch`, `protection`/`checkSharedLib` (process-map translation) |
| Syscall patches | `virt/cpu.cpp` | `zinfo->flag`, `remakePmap` | `getcpu`, affinity, and the `mmap`/`mprotect`/`munmap` hooks that rebuild process maps |

External collaborators are not in `src/`. They appear only at their boundary:
- the coherence controller: `startAccess`/`endAccess`, `shouldAllocate`,
  `processEviction`, `processAccess`, `processInv`;
- the replacement policy: `rankCands`, `replaced`, `update`;
- the event recorder: `hasRecord`, `popRecord`, `pushRecord`;
- the driver of the CEASER remap sweep.

### How the parts interact

`FilterCache::replace` builds a `MemReq`, takes `filterLock` and calls
`Cache::access`. The coherence controller's `startAccess` releases the child
lock (`req.childLock == &filterLock`) and takes the cache's own locks.
`endAccess` retakes the child lock before it releases its own (hand-over-hand
locking). An invalidation coming down from the parent enters through
`FilterCache::invalidate`. It takes the cache's down lock, then `filterLock`,
then calls `Cache::finishInvalidate`, which looks up the line (it must be
present) and calls `processInv`.

`Cache::access` works through these steps in order:
1. lookup;
2. on a miss that the controller allocates, `preinsert`;
3. `processEviction`, which may record a writeback timing record;
4. `postinsert`;
5. drain the single pending timing record;
6. `processAccess`;
7. merge the two timing records.

The arrays call the hash family (a pure function) and the replacement policy
(an opaque oracle).

### What is hard

- **The ZArray swap chain.** A relocation chain built from a BFS tree of
  candidates must leave every resident line reachable by one of its hashes.
  The walk can loop back to a line it already holds. The code relies on the
  *minimum* index to keep the chain simple, and on a branch-free self-loop skip.
- **The split insertion.** `preinsert` and `postinsert` are separate because
  the coherence controller unlocks the cache between them. Invalidations
  (lookups) interleave there.
- **The single-record timing protocol.** It has two sub-records, and its
  unsigned offsets are only safe because of assertions.
- **The partition geometry.** It is computed with masks that are only correct
  for powers of two and for `numCores` that divides `assoc` or `numSets`. The
  code silently raises `partitionAssoc` from 0 to 1.
- **The CEASER remap.** A set is switched to the target hash only by an
  external sweep. A lookup probes *only* the target set once the flag is set.
- **The FilterCache hand-over-hand locking.** It opens the L0 entry to
  invalidation races in the middle of an access.
- **The process map.** `replace` translates shared-library lines through a
  table that the application's mmap/mprotect patches rebuild in two calls
  (`populateProcessMaps`, `addSharedLib`) under `global_lock`. munmap, and
  mprotect after the first phase, do not rebuild it at all. `replace`
  translates only in the first phase, and never for a line the kernel no
  longer maps, so those stale rows are not read. One window is left
  unchecked: a `replace` that translates between a syscall's return and
  its hook taking `global_lock` reads the old map.

### Properties that make each component correct

- **Arrays:**
  - an address is resident in at most one line;
  - every resident line is found by `lookup`;
  - the ZArray indirection table stays a permutation;
  - the swap chain is a valid, simple relocation path;
  - `postinsert` removes exactly the writeback victim and adds exactly the new
    address (the `CacheArray` contract);
  - partitions do not share lines.
- **Cache:**
  - at most one timing record is pending per requester;
  - the merged record keeps the access's end, and its start is the request cycle;
  - `respCycle >= req.cycle`;
  - an invalidation only targets a resident line;
  - the LLC's FTM delay goes only to a hit, and only to an access its FTM
    statistics count.
- **Hashes:**
  - the unrolled H3 computes the function its reference loop describes;
  - H3 is linear over XOR;
  - each function id gives an independent function.
- **FilterCache:**
  - no deadlock between `replace` and `invalidate`;
  - `filterArray` is written only under `filterLock`;
  - after `replace`, the entry names a line the cache holds.

## 2. Plan

Modules, in the order they are built (most important behaviour first):

1. `CacheArray`: the abstract array contract. It is a set of resident
   addresses, and an insertion is split into preinsert (names a victim) and
   postinsert (replaces it). An array that `Relocates` may also move a line
   outside an insertion, losing at most the line it overwrites. Every array
   variant is shown to refine it.
2. `ZArray` with `MC_ZArray`: the skewed-associative array. Every hash table
   over a small geometry is enumerated. *(done)*
3. `SetAssocArray` with `MC_SetAssoc*`: the set-associative array in plain,
   set-partitioned and way-partitioned modes, with `proc_partition` as an input
   of each call. It refines `CacheArray` in plain mode. A violation run shows a
   shared address resident twice under partitioning. Another shows that both
   partition modes overlap when there are more cores than sets or ways.
   *(done)*
4. `CacheAccess`: `Cache::access` and `finishInvalidate` as a step machine
   over abstract arrays with the `CacheArray` contract. *(done)* It covers the
   event-recorder single-record protocol and the merge. The coherence
   controller is an environment that may or may not record a writeback or an
   access record, and may or may not allocate. Invalidations interleave at the
   points where the controller releases the lock. The LLC runs `accessSkew`
   with its first-time-miss (FTM) path, on the request flags that
   `FilterCache::replace` computes. *(done)*
5. `CEASERArray`: the remap protocol (`switchHash`, `resetSwitches`,
   `setSwitch`, `moveAddr`) driven by an arbitrary external sweep. The checks
   are reachability of every resident line, and that the random victim can be
   every way (it cannot for an `assoc` that is not a power of two). *(done)*
   The array refines `CacheArray` with relocations. A sweep that runs
   between an access's preinsert and postinsert breaks it. *(done)*
6. `FilterCache`: `replace` and `invalidate` as two threads with `filterLock`
   and the cache lock taken hand-over-hand. The checks are freedom from
   deadlock and the entry/residency relation. *(done)*
7. *(done)* `H3Hash`, `FeistelHash` and `SHA1Hash`: the hash functions as operators over bit
   vectors of reduced width, checked against reference definitions. These are
   the reference loop in the H3 comment, XOR-linearity, and the dependence of
   the Feistel output on `id`.
8. *(done)* `ProcessMap`: the process map, the shared-library table and the
   mmap/mprotect/munmap patches of `virt/cpu.cpp`, composed with
   `FilterCache` so that `replace` translates through them.

The modules were built in this order. Bounds are kept so that each run finishes
in well under five minutes.

## 3. Modules and runs so far

### `CacheArray` (abstract)

Its variables:
- `resident`: a set of addresses;
- `insert`: the pending preinsert, as `[addr, wb]`.

`Preinsert(a)` needs `a` not resident. It picks a victim `wb`: a resident
address, or `Empty` while the array has room. `Postinsert` removes `wb` and
adds `a`.

The constant `Relocates` enables one more step, `Relocate`. It is taken only
while no insertion is pending, and removes at most one resident address.
This is what the CEASER sweep's `moveAddr` does: the moved line overwrites
the occupant of its target slot. `ZArray` and `SetAssocArray` instantiate
the contract with `Relocates <- FALSE`, and `CEASERArray` with `TRUE`.

### `ZArray`

Variables and what they stand for in the code:

| Variable | Code (`cache_arrays.cpp`) |
|---|---|
| `hash` | `hf->hash(w, a) & setMask`. It is chosen in `Init` from *every* table `[ways -> [Addr -> sets]]` and is fixed afterwards, like the hash family built at construction |
| `array` | `array[]` |
| `lookupArray` | `lookupArray[]` |
| `swapArray` | `swapArray[0..swapArrayLen-1]` |
| `insert` | the locals of `Cache::access` between the two calls: the address, the returned `lineId`, `wbLineAddr` |

Definitions and what they model:
- `Lookup` is the probe loop, where the first way that matches wins.
- `Walk` (`Displaced`, `AllValid`, `Expand`) is the BFS of `preinsert`. It
  includes the branch-free self-loop skip (a self candidate still enters
  `all_valid`) and the cut of the candidate list to `cands`.
- `rankCands` is an opaque oracle: `Preinsert` takes any candidate line.
- `FirstIdx` is the minimum-index search.
- `ChainFrom` is the parent walk that fills `swapArray`.
- `ShiftChain` replays the sequential shifting loop of `postinsert`, so a
  repeated position behaves as it would in the code.

What the properties of run `zarray` (MC_ZArray.cfg) say:
- `LinesReachable`: every valid line is found by `lookup` of its own address,
  at its own `lineId`.
- `IndirectionIsPermutation`: `lookupArray` is a permutation.
- `SwapChainValid`: while an insertion is pending, the chain is all of these:
  - it starts at the victim;
  - it ends at a seed of the incoming address;
  - it has no repeated position;
  - every shifted line moves to one of its own hash positions.
- `ImplementsCacheArray`: the refinement mapping is
  `resident = {array[l]} \ {Empty}`, and the abstract `CacheArray!Spec` holds
  as a property.

Bounds: 2 ways × 2 sets (4 lines), 5 addresses (so that every access after
the fourth evicts), and a candidate budget of 6. With this budget the walk
reaches loops that revisit a line it already holds. A mutant that takes the
*last* occurrence of the winner instead of the first yields a chain with a
repeated position, and TLC finds it. Symmetry over the addresses is sound
because the hash table is part of the state.

A 3-way geometry with a budget large enough for a harmful loop (one that
moves a line to a position that is not its hash) needs a full array of at
least 6 lines and 7 addresses. That is out of TLC's reach when every hash
table is enumerated. With 3 ways, 2 sets and 4 addresses the invariants hold
(168,330 states), and that run is not kept.

### `SetAssocArray`

Variables and what they stand for in `cache_arrays.cpp:31-129`:

| Variable | Code |
|---|---|
| `mode` | `zinfo->setPartition` / `zinfo->wayPartition` of the LLC (`isLLC`), or neither (`plain`); chosen in `Init` from `Modes` |
| `hash` | `hf->hash(0, a)` for every address, chosen in `Init` from every table into `HashValues` |
| `array` | `array[]` |
| `insert` | the `Cache::access` locals between the two calls, plus the caller's `proc_partition` |
| `owner` | a history variable, not in the code: the partition whose access inserted each line |

The constructor's geometry is a set of definitions: `PartitionSetCount`,
`MaskPartition` (the `uint32` mask `partitionSetCount - 1`, which wraps to all
ones when `numCores > numSets`) and `PartitionAssoc` (raised from 0 to 1).
`Candidates(a, p)` is the range that both `lookup` and `preinsert` compute
for each mode. The two functions repeat the same arithmetic, so one operator
stands for both. `Lookup` returns the first hit in the range, `Preinsert`
asks the oracle for any line of the range, and `Postinsert` writes the line.
`proc_partition` is an input of every call, `\E p \in Partitions`.

Runs:
- `setassoc` (`MC_SetAssoc.cfg`): 2 sets of 2 ways, five addresses, two
  cores. `mode` ranges over plain, set-partitioned and way-partitioned, so
  each mode's behaviours are explored. `LinesReachable` says a line is found
  by the partition that inserted it. `PartitionIsolation` is an action
  property of the partitioned modes: the `postinsert` of partition `p` only
  overwrites an empty line or one that `p` inserted. `ImplementsCacheArray`
  is refinement, stated as `Abstract!Init /\ [][mode = "plain" =>
  Abstract!Next]_Abstract!vars` because it only holds unpartitioned (see the
  shared-line run).
- `setassoc_shared_line` (violation, `NoDuplicateResidency`): both cores
  access one address. Each partition misses in its own sets and inserts it,
  so the address ends up in two slots. The spec calls that a fatal integrity
  violation, and the code does not detect it.
- `setassoc_partition_overlap` (violation, `PartitionIsolation`): three cores
  on an LLC of 2 sets of 2 ways, in both partition modes.
  - Set partitioning: `partitionSetCount` is `2/3 = 0`, so `partitionMask`
    wraps to `0xFFFFFFFF`. Every core then indexes every set by the unmasked
    hash. TLC's counterexample is this case.
  - Way partitioning: `partitionAssoc` is coerced to 1, and the offsets
    `p & 1` give cores 0 and 2 the same way.

  The spec says an inconsistent configuration is fatal at construction.

Bounds: with two cores, each set partition is one set of 2 ways and each
way partition is one way of both sets. That is the smallest setting where a
partition's lines can evict one another and the partitions could interfere.
Five addresses over four lines keep a miss possible in every state, so the
model never stops. The shared-line run uses 4 sets of 2 ways and two cores,
so each core has two sets. The overlap run keeps 2 sets of 2 ways and has
three cores, more than there are sets or ways. Symmetry over the addresses
is sound because the hash is part of the state.

### `CacheAccess`

The module covers `Cache::access` and `Cache::finishInvalidate` (`cache.cpp`).
One requester's access runs down `NumLevels` caches to memory. Each level is
a step machine (`pc[k]`), with one action per stretch of code between two
calls into the coherence controller:

| Action | Code |
|---|---|
| `Start` | `startAccess` (a PUT the parent already invalidated is skipped), `lookup`, `shouldAllocate` (always true for a GET), `preinsert` (a victim as in `CacheArray`) |
| `Evict` | `processEviction`: a valid victim is written back to the parent, as a nested access of type PUT. At the last level it goes to memory |
| `Post` | `postinsert` |
| `Drain` | the single-record drain: `popRecord` into `wbAcc` |
| `Process` | `processAccess`: the parent side records or drops the child as a holder, and a GET of a line that is not valid is fetched from the parent |
| `Merge` | the stitching of `wbAcc` and the access record |
| `End` | `endAccess`; at the LLC `endSkewAccess` and the FTM response (`FTMResponse`, `UpdateFTMStats`) |
| `Invalidate` | `finishInvalidate` and `processInv` on a child, whenever the child's lock is free |

The coherence controller and memory are not in `src/`. They are the
environment:
- writebacks and fetches go to the parent (`CallParent`);
- memory may push a timing record for each access (`MemAccess`);
- the parent's view of its child (`dirHolds`) is kept as MESI keeps it.

A child's lock is free while it is idle, and while it waits on its parent
between the parent's `startAccess` (which releases `req.childLock`) and its
`endAccess` (which retakes it). A record is abstracted to the set of memory
events its start event reaches and its end event. Cycles are not modelled.

The last level is the LLC and runs `Cache::accessSkew` (`cache.cpp:71-264`).
Its steps are those of `access`, and the module adds the FTM state:
- `top` is the requester's request: GETS or GETX, and the flags that
  `FilterCache::replace` ORs into `req.flags` (`filter_cache.h:286-383`).
  `Protected` gives `protection()`'s row in the first phase with sharing,
  and otherwise the initial permission 1 with no region bits. `ReqFlags`
  turns it into flag bits: the region bits at 13 and up, 8 for `r-xp`,
  7, 11 or 12 for `rw-p`, `r--p` or `rwxp`, and 9 or 10 for an `l1i` or
  `l1d` cache. The controller forwards a fetch with its requester's type
  and flags (an environment assumption: the controller is not in `src/`).
- `ftm` holds `accessSkew`'s locals `hit` and `sameOwner` (`SkewLookup`,
  in `Start`). `hit` is cleared only on the allocating path, and
  `checkSameOwner` is controller state, so on a hit of a GET it is any
  boolean. For checking, `ftm` also records whether the lookup found the
  line, whether the response carried the delay, and the `updateFTMStats`
  counters bumped during the access. Bit 0 stands for
  `incrementFirstTimeMiss`.

Properties of run `cache_access` (three levels, two lines each, three
addresses):
- `SingleRecord`: the recorder never holds two records.
- `NoRecordLost`: the record left by the top-level access reaches every
  memory event of it.
- `RecordEndsAtFetch`: when any level's access returns, its record ends at
  a fetch and never at a writeback.
- `InvalidationFindsLine`: whenever an invalidation can reach a level, every
  line its parent thinks it holds is in its array. This holds because the
  writeback in `processEviction` completes before `postinsert` replaces the
  victim.
- `FTMDelayOnlyOnHit`: the 200-cycle delay goes only to an LLC access whose
  lookup found the line. A line just allocated and fetched from memory is
  never padded, which relies on `hit = false` on the allocating path.

The delay tests flag bit 11 (`r--p`) twice (`cache.cpp:178`), so shared
`r-xp` lines are counted by `updateFTMStats` but never delayed. The spec
leaves the intended flag set open (section 9), so no property checks the
flag choice.

The FTM configuration enables loads only (`ftmTypeFlag = 1`). The regions
are a library's `r--p` data and `r-xp` text and the heap, in `l1i` and
`l1d` caches. So the delayed case, the counted-but-not-delayed case and
the untouched case all occur (605,701 distinct states).

A top-level access makes at most four memory accesses, so `MaxRecords = 4`
never cuts one off: with 6 the state count is the same.

### `CEASERArray`

Variables and what they stand for in `cache_arrays.cpp:131-243`:

| Variable | Code |
|---|---|
| `hf` | the two hash families `hf_1`, `hf_2` given to the constructor, as tables `hash(0, a) & setMask`. Every pair is enumerated in `Init` |
| `current` | which family `hf_current` points to (`hf_target` is the other) |
| `array` | `array[]` |
| `switch` | `switch_array[]` |
| `insert` | the `Cache::access` locals between `preinsert` and `postinsert` |
| `sweep` | the remap driver: the set being remapped and its next way |

`Lookup` and `Preinsert` translate the code directly. Both use the target
set once the current set's flag is set. The victim is
`randInt(assoc-1) & (assoc-1)`: MTRand's `randInt(n)` draws from `[0, n]`, so
the draws are `0 .. Assoc-1`. The sweep primitives `getAddr`, `getReplSet`,
`getReplId` and `moveAddr` are operators (`MoveLine`, `GetReplSet`,
`GetReplId`, `MoveAddr`). `SweepFinish` is `setSwitch`, and `Rekey` is
`switchHash` followed by `resetSwitches`.

The code that calls these primitives is not under `src/`. It is modelled
from spec section 4.3:
- `SweepBegin` picks an unswitched set.
- `SweepMove` moves the line of each way to a random slot of its target set,
  overwriting the occupant there.
- `SweepFinish` sets the set's flag.
- `Rekey` runs once every set is switched.

Two constants describe how the sweep synchronises with accesses:
- `SweepHoldsLock`: accesses are kept out while a set is being remapped.
  Neither `preinsert` nor `postinsert` runs then.
- `SweepWaitsInsert`: the sweep does not start or move a line while an
  insertion is pending.

`Cache::access` holds no lock between `preinsert` and `postinsert`, because
`processEviction` releases it (`cache.cpp:283-297`). Holding the lock is
therefore not enough to keep the sweep out of that window.

`ImplementsCacheArray` maps `resident = {array[l]} \ {Empty}` and `insert` to
`[addr, wb]`, and checks the abstract `CacheArray!Spec` with `Relocates`.
It states three things:
- the writeback that `preinsert` reports is the line `postinsert`
  overwrites;
- an address is inserted only when it is not resident anywhere;
- each `moveAddr` loses at most the one line it overwrites.

A `moveAddr` whose target is the line's own slot writes the line and then
clears it. This happens when the target set equals the current set and the
random way is the line's own. The moved line itself is then lost, which the
contract allows. It is listed as a hazard at `cache_arrays.cpp:235`.

Runs (2 sets, three addresses):
- `ceaser` (2 ways, `SweepHoldsLock` and `SweepWaitsInsert`):
  `NoDuplicateResidency`, `LinesReachable` between set remaps, and
  `ImplementsCacheArray`. They hold through any number of remaps and
  re-keys. The mutant has `preinsert` report the first way's line as the
  writeback instead of the chosen line's.
- `ceaser_inflight` (violation, `NoDuplicateResidency`): the sweep holds the
  lock but does not wait for a pending insertion.
  - An access runs `preinsert` in set 0.
  - The sweep then remaps set 0 and sets its flag.
  - `postinsert` writes the new line into set 0, where lookup no longer
    looks.
  - The next access to that address misses and inserts it again.
- `ceaser_victim` (violation, `VictimCoversSet`): with 3 ways the mask is 2,
  so way 1 is never a victim or a remap target.

Bounds: two sets of two ways is the smallest geometry in which a set switch
moves lines between sets and a victim has a choice. Three addresses overfill
a set. Symmetry over the addresses is sound because the hash tables are part
of the state.

### `FilterCache`

The module covers `FilterCache::replace`, `invalidate` and `contextSwitch`
(`filter_cache.h`), and the lock steps of `Cache::access` they run through.
It extends `ProcessMap` (below) and has three threads:
- the core, which runs `replace` (`load` and `store` call it; their hit paths
  are commented out); it accesses only lines the process has mapped;
- another core's access in the parent, which invalidates a line this cache
  holds;
- an application thread of the same process, whose mmap, mprotect and munmap
  calls run the patches of `virt/cpu.cpp`.

There are three locks: `filterLock`, this cache's lock and the parent's.
The coherence controller's lock handling is the environment, as the source
comments describe it:
- `startAccess` releases `req.childLock` and then takes the cache's lock;
- `endAccess` retakes `req.childLock` before releasing the cache's lock;
- a nested access to the parent does the same one level up;
- `processInv` releases the down lock.

| Action | Code |
|---|---|
| `ReplaceBegin` | `load`/`store`; `pLineAddr = procMask \| vLineAddr` |
| `ReplaceTranslate` | the `global_lock` section of `replace`: `protection`, `checkSharedLib`, the `new_pLineAddr` test; a failed `assert_msg` goes to `"aborted"` |
| `LockFilter` | `futex_lock(&filterLock)` |
| `StartAccess`, `LockL1` | `cc->startAccess`, `lookup`, `preinsert` |
| `EvictRelease`, `EvictParent`, `EvictEnd` | `processEviction`: the writeback to the parent |
| `Post` | `postinsert` |
| `UpRelease`, `UpParent`, `UpEnd` | `processAccess` going to the parent |
| `EndAccess` | `cc->endAccess` |
| `Fill` | the `rdAddr`/`wrAddr` writes and `futex_unlock` |
| `InvBegin` ... `InvEnd` | the parent sends an invalidation; `invalidate`; `finishInvalidate` |
| `ContextSwitch` | `contextSwitch` |

The L1 array is direct-mapped with as many sets as the filter, so the
victim is forced and no replacement policy is involved. `valid` holds the
lines whose MESI state is not I. `parentHolds` is the parent's record of
this cache's lines. `entryLine` is a history variable: the `pLineAddr`
of the access that last wrote each entry.

### `ProcessMap`

The process map (`perProcessInfo_info`) is a function from line to the row
of its region: name, permissions, and the `sl` and `mmap` bits. A region
starts at a page boundary (`PageLines`), as the kernel's do. `kmap` is what
the kernel has mapped and `pmap` is zinfo's copy. `libTable` is the set of
names in `sharedLibInfo_idx`, and `LibAddr` gives each library's line.

| Definition | Code |
|---|---|
| `Protection` | `protection`: the row of the line, or permission 10 on a miss |
| `CheckSharedLib`, `PageStart` | `checkSharedLib`: the offset from the start of the first region with the name, plus `libAddr`; `LibMissing` when `assert_msg(idx_1 != -1)` fails |
| `Shareable`, `NewPLine`, `Translate` | the branch of `replace` on the `mmap` bit, permission 10, the `sl` bit and r-xp/r--p, and the test against 0 and -1 |
| `Mmap`, `Mprotect`, `Munmap`, `SyscallReturns`, `Rebuilds` | the kernel's change to the mappings and the patch up to `futex_lock`: `flag` and `remakePmap` set; mmap always rebuilds, mprotect only in the first phase, munmap never |
| `HookPopulate` | `futex_lock(&global_lock)`; `populateProcessMaps()` |
| `HookAddSharedLib` | `addSharedLib()`; `futex_unlock(&global_lock)` |

`populateProcessMaps` and `addSharedLib` are declared in `cpu.cpp` but are
not in the repository. The model takes their effect as copying the kernel's
map, and entering every library of the map that the table lacks: the
contract `checkSharedLib`'s lookups rely on. Three reductions are used:
- `replace`'s translation is one step, because nothing changes the tables
  while it holds `global_lock`;
- the flag writes are part of the syscall step, because nothing in `src/`
  reads them;
- lock acquisition is merged with the first critical-section call, and the
  release with the last.

Runs: `MC_FilterCache` has three virtual lines and 2 sets. Pages are two
lines, and library L has its text on line 1 and its data on line 2. Line 3
starts unmapped. The application makes one syscall on line 2 or 3: an mmap
of library M or of an anonymous region, an mprotect to any permission, or
an munmap. The parent sends at most two invalidations.
- `filter_cache` (408k states, about a minute):
  - `NoWaitCycle`: no two threads each wait on a lock the other holds.
  - `FilterEntryResident`: while the core is outside `replace`, when its
    lock-free hit path would read the filter, every entry of an
    untranslated access names a valid line.
  - `TranslationFindsLib`: `checkSharedLib`'s `assert_msg(idx_1 != -1)`
    never fails. If the patch ran `populateProcessMaps` without the lock,
    a translation between the two calls would abort.
  - `ReplaceCompletes`: every `replace` returns.
- `filter_cache_shared` (violation, `SharedEntryResident`), with no
  syscalls. `checkSharedLib` translates line 1 to line 9: L's line 8 plus
  the offset of line 1 in its page. `invalidate` compares
  `rdAddr | procMask` (17) with 9 and never clears the entry. The entry
  then names a line the cache no longer holds.

`LibAddr` is page-aligned: L gets line 8 and M line 12. With pages of at
least as many lines as the filter has sets, a translated line then falls in
the same set as its virtual line. An earlier configuration used unaligned
library lines, and TLC found `FilterEntryResident` violated without any
invalidation:
1. `replace` translates a line into another L1 set than the filter index
   of its virtual line.
2. The fill evicts the line of a different filter entry, and leaves that
   entry in place.

`addSharedLib` chooses `libAddr`, so the alignment is an assumption. It is
listed as a hazard.

Fairness: `FairSpec` assumes weak fairness of each thread's steps after it
has started an operation: the core's `replace`, the invalidation, and the
syscall patch. A thread of the simulator keeps running, and a `futex_lock`
returns once the lock is free and stays free. Starting a
`replace`, sending an invalidation and `contextSwitch` get no fairness.
Futexes are not fair among waiters, so the parent's invalidations are
bounded (`MaxInv`). The liveness property says that `replace` returns once
the invalidations stop.

### Hash families: `H3Hash`, `FeistelHash`, `SHA1Hash`, composed in `MC_HashFamily`

A 64-bit word is the set of its 1 bits:
- `&` is `\cap`;
- `^` is symmetric difference (`Xor`);
- a shift or a rotation moves every position.

Each family module has the variables of its object, plus `call` and `out`,
the arguments and result of the last `hash(id, val)`. It has a `Construct`
action for the constructor (H3, Feistel) and a `HashCall` action for
`hash`. The seeded MTRand streams are constants: `MC_HashFamily` stands for
two seeds with a linear congruential generator.

| Module | Code | Model |
|---|---|---|
| `H3Hash` | `H3HashFamily` (`hash.cpp:32-124`) | `ResShift` is the constructor's width choice, and `Construct` has no step for `outputBits > 64` (the panic). `Block` is one iteration of the 8-way unrolled loop, `Unrolled` the loop (RECURSIVE, 8 levels at most), `Fold` the output switch. `Reference` is the comment's "original, simpler code" |
| `FeistelHash` | `FeistelFamily` (`hash.cpp:127-215`) | `Construct` draws the tables in the constructor's order. The two `randInt()` calls of one `sMat` row are operands of `\|`, whose evaluation order C++ leaves unspecified, so `lowFirst` lets the build take either. `BitXor` is `bitXor`, the parity of the `val` bits where `row` is 0. `Round` is one loop iteration, `Hash` the four rounds |
| `SHA1Hash` | `SHA1HashFamily` (`hash.cpp:221-255`, PolarSSL build) | `sha1` is an injective function of the buffer: word `j` of the digest of `buf` is `<<buf, j>>`. `Passes` is the loop that chains each digest into the buffer, and `HashCall` is the memo hit or miss |

`MC_HashFamily` chooses one family in `Init`, as a cache array is
constructed with one. Only that family's instance moves afterwards, so the
state space is the sum of the three, not their product. Calls repeat without
bound over a finite set of arguments. The state is the last call and the
memo, so the model never stops.

Runs:
- `hash` (`MC_HashFamily.cfg`, 319 states, about 20 s):
  - `H3UnrolledIsReference`: at 64-bit output, the unrolled loop computes the
    comment's reference loop over the function's rows permuted by
    `UnrolledRow` (row `8b+k` plays reference row `(8b-k) mod 64`). Every row
    is used exactly once, so the result is still an H3 hash of a random
    matrix. On the *same* matrix the two loops differ. That is a divergence
    from the comment, and a harmless one.
  - `H3HashIsLinear`: the hash is linear at every width (8, 16, 32, 64 bits).
    Linear means `hash(0) = 0` and `hash(a ^ b) = hash(a) ^ hash(b)` over the
    keys checked.
  - `H3IdsDiffer`: two ids are two functions.
  - `FeistelEveryBitMatters`: flipping any one of the 64 key bits changes the
    32-bit value `hash()` returns. This holds for both seeds and both draw
    orders. It is not checked for a set index: which output bits a key bit
    flips depends on the MTRand draws, and the model's LCG stand-in streams
    are not MTRand's.
  - `SHA1MemoTransparent`: for non-zero keys, a call returns the key's digest
    word whatever keys came before, on both the hit and the miss path.
  - `SHA1IdsDiffer`: the six ids (two passes) of the memoized key name six
    different words.
- `sha1_zero` (violation, `SHA1HashIsDigest`): the constructor's
  `memoizedVal = 0` sits beside zero-filled `memoizedHashes`. A first
  `hash(id, 0)` hits that memo and returns 0.

Bounds:
- H3 has two functions, output widths 6, 8, 12, 32, 64 and 65, and ten keys
  with bits at 0, 1, 7, 31/32 and 63 plus denser patterns.
- Feistel has three ids.
- SHA1 has six functions (the smallest count with a second pass) and keys
  0, 1 and 2.

Observed while modelling, and not a run (the project keeps 12):
- `FeistelFamily::hash` never reads `id` (hazard at `hash.cpp:181`).
- It returns `stage_output`, the 32-bit up half, so output bits 32..63 are
  always 0. A one-bit key change then flips about 16 of the 64 bits, a
  quarter rather than the spec's 40-60%, measured with TLC on the same
  streams and keys.
- Every bit of the Feistel round function is a parity, so the cipher is
  affine over GF(2).

## 4. Fairness

Only `filter_cache` assumes fairness (see `FilterCache`). Every other run checks safety only.

## 5. Not modelled, and why

- Replacement policy internals: an external, opaque oracle.
- Statistics: `statSwaps`, `initStats`, and the FTM counters as numbers
  (`CacheAccess` records which counters an access bumps).
- SHA1 without PolarSSL: both members only panic. `IdHashFamily`
  (`hash` returns `val`) has no state.
- The `FeistelFamily` destructor, which calls `gm_free(p)` and `gm_free(s)`
  inside its loop (a double free) and never frees `keys` or `rng`. Any
  test that destroys a family shows it.
- `VirtGetcpu`, `PatchGetcpu`, `PatchSchedGetaffinity` and
  `PatchSchedSetaffinity` (`virt/cpu.cpp`): they copy a core number or a CPU
  mask into the application's memory, or squash the syscall. They keep no
  simulator state that any other component reads.
- The bodies of `populateProcessMaps` and `addSharedLib`: not in the
  repository. The model states their effect as an assumption.
- Several mappings of one library, offsets near `0x100000000`, and the
  "Process not found" panic (a process whose map was never populated).
  These need more lines or processes than TLC can explore next to the
  cache.
- Cycles (`accLat`, `respCycle`, the records' `reqCycle`) and the
  assertions on them in `Cache::access` (`cache.cpp:320-321, 344`). Every
  step of `access` only adds to `respCycle`, and each nested request starts
  at its caller's `respCycle`. A cycle can therefore precede `req.cycle`
  only through the coherence controller or the core, and neither is under
  `src/`. No change to the access steps could break these checks.
- `checkSkew` and `finishRefresh`: only the controller's refresh sweep
  calls them (the call in `accessSkew` is commented out), and that sweep
  is not under `src/`.
- The FTM delay as a number of cycles: `CacheAccess` records only whether
  the LLC answered with the delay.
