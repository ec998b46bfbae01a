# A TLA+ verification project for DedupBlockFS

DedupBlockFS is a FUSE file system that stores every 4 KiB block once. Files keep
their names in a backend directory; their blocks live in one *master file*, and an
in-memory index maps (path, block number) to a slot of the master file. Blocks with
equal SHA-512 share a slot and a reference count. FUSE runs the handlers on several
threads, so the write path, the clean-up of unreferenced blocks and the reuse of
slots all run concurrently.

The project models that core (the deduplication layer, the index it changes, the
FUSE handlers that call it), the life of the index across mounts, crashes and
failing saves, what users see beside the handlers that bypass the index, and the two
eBPF tools with which the repository measures itself. It checks them with TLC on
small instances, and proves, for every instance: of the core, type safety, the locking
discipline, exact reference counts, one owner per slot, the right content in every
slot, stable lock-free reads, and that the whole implements a file system without
deduplication; of the life across mounts, that a remount shows what the unmount left and
which of these survive it; of the handlers beside the index, that files they do not name
stay what POSIX says; of the tools, what their counters may miss. The batched reads and
the buffered table files have proofs of their own. Every safety property that a run
shows to hold is stated by a theorem; where its hypotheses leave something to the runs,
section 5 says so.

## 1. Inventory

| Component | State | Operations | Modelled |
|---|---|---|---|
| Deduplication layer, `dedup.c` | per call: the plan, the local list of slots to release, the block pairs of a read | `write_dedup`, `read_dedup`, `remove_blocks_dedup_batch`, `rollback_allocations`, `allocate_batch_storage_first`, `flush_plan` | `Dedup`, `ReadBatch`; promise in `FlatFS` |
| Index, `metaindex.c` | `hash_to_master`, `file_to_master`, `file_to_sizes`, `free_block_list`, `nextBlockIndex`, the `MasterInfo` heap, `metadata_rwlock`, `freelist_mutex` | lookups, inserts, removals; load at mount, save at unmount; encoders | `Dedup`, `Mount`; encoders abstracted |
| FUSE handlers, `passthrough.c` | the backend directory, the master file descriptor, seven call counters | read, write, unlink, truncate, create; rename, link, mknod, open, release, getattr; init, destroy; plain pass-through calls | `Dedup`, `Passthrough`, `Mount` |
| Persistence, `persistence.c` | five table files, read/write buffers | buffered I/O; save and load of tables, lists and the shared `MasterInfo` array | `Mount`, `BufferedIO` |
| Hashing, `hashing.c` | none | SHA-512 of a block | constant `HashOf` |
| syscounter (eBPF) | maps of traced pids, entry stamps and counters | programs on entry and exit of seven syscalls and on fork; attach, read, print | `SysCounter` |
| cachestat (eBPF) | three counters, the traced pids, the totals | choice of programs, programs on page cache functions, interval loop, JSON file | `CacheStat` |
| libbpf helpers, benchmarks, test scripts | | | no |

### How the parts interact

`xmp_write` calls `write_dedup`, which

1. under the read lock, hashes each block and decides HIT (the hash is published, or
   an earlier block of the same batch has it; the refcount is incremented
   atomically) or MISS (a private `MasterInfo` is allocated);
2. (pass 1.5) takes slots for the MISSes from the free list under `freelist_mutex`,
   and the rest by a `fetch_add` on `nextBlockIndex`;
3. (pass 2) writes the MISSes with one `pwrite` per contiguous run, holding no lock;
   if one fails, `rollback_allocations` undoes the plan;
4. (pass 3) under the write lock, publishes each MISS unless another thread
   published the same hash meanwhile (the *double check*), maps the blocks, drops
   the references of overwritten blocks, and updates the size;
5. puts freed slots on the free list, under `freelist_mutex`, after the write lock
   was dropped.

`xmp_unlink` and `xmp_truncate` read the size under the read lock, drop it, remove a
range of blocks under the write lock, and then update the size under the write lock
once more. `xmp_read` looks slots up under the read lock and reads them from the
master file with no lock at all.

`xmp_init` calls `index_init`, which loads the tables, and takes the point of append
from the size of the master file; `xmp_destroy` calls `index_destroy`, which writes
the values array, the two tables that refer to it by position, the sizes and the free
list, each through a buffer. `xmp_rename`, `xmp_link`, `xmp_mknod` and `xmp_open`
reach the backend and never the index, which is keyed by path.

The eBPF tools run beside the file system. Their kernel side runs on every CPU at
once and shares hash maps or plain counters; their user side reads these while the
kernel side goes on.

### What is hard

* **Interleavings.** A write takes and drops the index lock three times. Between
  passes the index may change arbitrarily: the content of a MISS is published by
  somebody else, the file behind a HIT is unlinked, freed slots come and go.
* **Ownership without a lock.** Between passes a slot or a `MasterInfo` is known only
  to a thread's stack frame. It must end up in exactly one place.
* **Partial failure.** A `pwrite` may fail, or write part of a run, after other runs
  succeeded; duplicates inside the batch hold references to pending entries.
* **Lock-free reads** use slot numbers that may be stale.
* **Boundaries.** Sizes and offsets are bytes in the requests and blocks in the
  tables; only sizes are checked for alignment.
* **Persistence** happens only at a clean unmount, into files that are truncated and
  rewritten in place, one after the other, with results that nobody checks.
* **Two views of a file.** The backend knows names and inodes, the index paths.
* **Tools that watch a moving system.** Attaching, first insertions, deletions and the
  final read of the counters all race with the events they count.

`PROJECT.json` lists the hazards at their lines with the property that would catch
each; those without a property say why.

## 2. Modules

| Module | What it is |
|---|---|
| `Dedup` | the specification: variables, types, actions, `Spec` and `FairSpec` |
| `DedupProperties` | invariants, action properties, liveness |
| `DedupHistory` | `Dedup` with history variables, for reads in flight and for storage-first |
| `DedupProofs` | proofs about `Dedup`: types, locks, reference counts, owners and contents of slots |
| `DedupFiles` | proofs about what files show: ranges, sizes, removals, lock-free reads, the refinement; the growth of the master file |
| `FlatFS` | the abstract file system: every file has blocks of its own, requests are atomic |
| `DedupRefinement` | the refinement mapping from `Dedup` to `FlatFS` |
| `ReadBatch`, `ReadBatchProofs` | phases 2 to 5 of `read_dedup`: sort, group, read, copy; proofs about them |
| `Mount`, `MountProofs` | `Dedup` inside mounts: load, save in five files, crash, failing saves; proofs |
| `BufferedIO`, `BufferedIOProofs` | the buffered writer and reader under every table file; proofs about them |
| `Passthrough`, `PassthroughProofs` | `Dedup` beside the handlers that bypass the index, and a POSIX history; proofs |
| `SysCounter`, `SysCounterProofs` | the counter of syscalls; proofs |
| `CacheStat`, `CacheStatProofs` | the page cache monitor; proofs |
| `MC...` | instances for TLC: model values, request sets, symmetry |

`DedupProperties` extends `Dedup`; `DedupHistory`, `DedupRefinement`, `Mount` and
`Passthrough` extend that, so they add state and steps around the same handlers and
never restate them. A module of proofs extends what it proves about. `DedupFiles` and
`MountProofs` build on `DedupProofs`, and `PassthroughProofs` on `DedupFiles`: the lemmas
about a handler are stated for one step of it, so they serve whatever runs around it.
The other modules stand alone. An operator marked
`Mutant` in a comment is no part of a specification: it is a plausible wrong form of
the definition below it, put in its place to see that the property fails then.

### State

The tables of the index are total functions with `NULL` for "absent". A `MasterInfo*`
is a member of `Infos`; `heap` holds the ones `malloc` returned and `free` did not
take back, `info` their contents. `free()` leaves the bytes as they are, and a freed
address may be returned again by a later allocation, as in C. The master file is a
function from slots to payloads; `NULL` is a slot never written, or one that a failed
`pwrite` left torn. The `pthread` locks are the variables `readers`, `writer` and
`freelist_mutex`. Each thread has a location `pc`, its request, a loop index `k` and
its local data: `plan` (the `PlanEntry` array), `rel` (the local `GSList`), `lim`
(`end_block` of a removal) and `rd` (the pairs and the buffer of a read).
`pending_hashes`, the table of the hashes of the batch itself, is derived from the
plan (`Pending`) because it has an entry exactly for the MISSes planned so far.

Payloads are members of `Contents`, digests members of `Hashes`; only the theorem
`UntouchedShow` assumes that the hash is injective. `refcount` keeps its width: it wraps
at `RefcountLimit`.

### Actions

| Code | Actions |
|---|---|
| dispatch, early returns of the handlers | `Dispatch`, `Entry` |
| `write_dedup` pass 1 | `PlanLock`, `PlanHit`, `CountHit`, `PlanMiss`, `PlanUnlock` |
| pass 1.5 | `Drain`, `AppendSlots` |
| pass 2 | `FlushRun`, `FlushFail`, `FlushDone` |
| pass 3 | `WriteLock`, `PublishSkip`, `PublishOurs`, `UseWinner`, `PublishDone`, `MapBlock`, `Commit` |
| release of slots | `ReleaseAfterWrite`, `ReleaseAndGo` |
| `rollback_allocations` | `RbHit`, `RbUnlock`, `RbMutex`, `RbMiss`, `RbDone` |
| `xmp_unlink`, `xmp_truncate`, `remove_blocks_dedup_batch` | `UnlinkReadSize`, `TruncateReadSize`, `RemoveBlock`, `RemoveUnlock`, `UnlinkDropSize`, `UnlinkBackend`, `TruncateSetSize` |
| `xmp_create` | `Create` |
| `read_dedup` | `ReadLookup`, `ReadBlock`, `ReadReturn` |

An iteration of a loop under a lock is a step, so a missing lock would show. A
section that only reads, only edits the free list, or touches one size entry is one
step: it holds its lock throughout, and no other section of the code touches that
state without the same lock. The read look-up and the atomic increment of a HIT are
separate steps, as are the `fetch_add` on `nextBlockIndex`, each `pwrite`, and the
read of each block, since a `pread` is not atomic against a `pwrite`. The order of a
read's blocks is the ascending slot order that the insertion sort establishes;
grouping neighbours into one `pread` only merges steps that the model keeps apart.
That these phases put each block where it belongs is shown in `ReadBatch`.

### `FlatFS` and `DedupRefinement`

In `FlatFS` a write puts all its blocks and the new size in one step (`Put`), a
removal takes its blocks away in one step (`Remove`) and sets the size in a second
(`Resize`), and a removal may return (`Reply`) only when nothing is left to remove. A
write that returns without `Put` has failed and left no trace. There are no slots,
refcounts, hashes of other files, locks or plans. The mapping takes what a path shows
(`View`), except while a thread holds the write lock in the middle of its loop over
the blocks: then the blocks it has still to map or unmap count as done, and the size
of a batch as grown. The effect of a batch thus falls on `PublishDone`, that of a
removal on the step that takes the write lock.

### `Mount`

`disk` holds the five files, `phase` says whether the file system is mounted, down, or
at which file `index_destroy` is. `Session` is any step of `Dedup`, with the growth of
the master file beside each `pwrite`. `Unmount` collects the values array (in any
order the hash tables may enumerate) and truncates the first table, `OpenSecond` the
second, before `SaveInfos`, `SaveHash`, `SaveFile`, `SaveSizes` and `SaveFree` write one
file each. With `SaveFails` each open or write may fail and leave the old file or any
prefix, and the code goes on; with `Crashes` the daemon may be killed in any state,
leaving a prefix of the file being written. Files are opened with `O_SYNC`; a crash of the
machine that loses data of the master file is not modelled. `Load` resolves positions
against the values that could be read and sets `nextBlockIndex` to the size of the
master file. Three variables are history: `shown`, what readers saw when the file system
went down; `stale`, that the last save could not open the values file and left an older
one beside new tables; `damaged`, that a mount loaded such tables beside the older values,
or found a slot at or beyond its append point on the saved free list. An entry carries, as
history, the `MasterInfo` it was saved with.
What an element is encoded to is abstracted: it decodes to what was encoded.

### `BufferedIO`

A byte is its position in the stream that a save produces, so any byte lost, doubled
or moved shows. A step is an iteration of the loop in `buffered_write` or
`buffered_read`. When `memcpy` leaves the buffer, behaviour is undefined and the model
stops there (`Finished`). This is reachable (section 4).

### `Passthrough`

`ino` is the backend directory, `bsize` the size the backend would report; `psize` and
`pdata` are what POSIX says of the inode, updated when a handler returns success.
`touched` collects the paths that calls outside the index have named, and
`UntouchedShowPosix` is about the others. A hole is `NULL` on both sides: that
`read_dedup` stops at the first hole (a short read), where POSIX returns zeros, is not
compared. libfuse's hiding of an open file that is unlinked is external.

### `SysCounter`

A time is the number of the call in which the clock was read, and `time_sum` is the set
of intervals added to it, so an interval whose ends lie in two calls shows a wrong
measure. The exit program is `Exit`, `Lookup`, then `Insert` or `AddTime` and
`AddCount`: between two of them a program on another CPU may run. What the program that
looks at the descriptor finds there is a regular file, something else or, for a failed
openat, nothing (`Found`). `main()` reads a counter in one step (`ReadKey`) or, as the
kernel promises no order between the two fields, in two (`CopyRest`), and `ReadEnd` fills
the array of labels: beyond `MAX_PIDS` of them the phase is `overrun`, and the model stops
following the program there. A machine has
a number of CPUs, and at most that many threads are inside a program; `early` says whether
threads make calls during the attach. The element that a deletion frees may be handed to the next
insertion while the deleting program still holds a pointer to it, as the preallocated
hash maps of BPF do. `Attach` attaches one program at a time.

### `CacheStat`

A kernel is the set of functions and tracepoints it has and whether fentry works.
`Select` is the choice of programs in `main()`, an event runs every loaded program on
the functions it calls, one atomic add per step (`todo` has those still to come; the
programs of one event may run in any order), and `TakeTotal`, `TakeMisses` and
`TakeMbd` are the exchanges of an interval.

### `ReadBatch`

`ReadBatch` takes every sequence of slots as input; a block of the master file is its
slot number. `qsort`, used above 32 blocks, is taken to sort as `insertion_sort` does.

### External behaviour

`MayDispatch` stands for the kernel and libfuse, modelled from how the handlers rely
on them: a path is looked up before an operation on it, and with `SerializePaths`
the operations that modify one file come one at a time (the inode lock of the VFS
and the path lock of the high-level libfuse API). Runs that do not need that order
leave it off, so they show that the index needs no help from the kernel there.
`RdLockFree` and `WrLockFree` are the two sides of a `pthread_rwlock_t`.

## 3. Runs

Model values: blocks of two bytes (so odd numbers are unaligned), two files, two
contents, at most two blocks per file.

| Run | Instance | Shows |
|---|---|---|
| `race` | 2 threads, 4 requests, paths not serialised; writes that share contents, unlink, truncate | `TypeOK`, `NoDanglingInfo`, `RefcountExact`, `SlotPartition`, `ContentMatchesHash`, `MappedIsPublished`, `LockDiscipline`, `ChangesInRange`, `SnapshotWhileReading` |
| `refinement` | 2 threads, 4 requests, paths serialised, with the history variables; files grow, share, shrink, vanish, return | `SizeCoversBlocks`, `UnlinkLeavesNothing`, `StableRead`, `StorageFirst`, `ImplementsFlatFS` |
| `liveness` | 2 threads, 3 requests, every operation, `FairSpec` | `RequestsReturn` |
| `remount` | 1 thread, 5 requests over 3 mounts; duplicates in a batch, overwrites, rejected sizes, every operation, failing `pwrite`s | `NoDanglingInfo`, `RefcountExact`, `SlotsOwned`, `BlocksMatchHash`, `KeepsContents` |
| `save_faults` | 3 requests, 3 mounts, crash anywhere, any save and any `pwrite` failing | `MountTypeOK`, `ResolvesAsSaved`, `KnownBelowAppend` |
| `buffered` | buffers of 3 and 4 bytes, up to 3 elements of 1, 3 or 5 | `FileIsPrefix`, `LoadsCompleteElements`, `SaveAndLoadEnd` |
| `namespace` | 3 paths, 3 inodes, 3 requests, any number of other calls | `PassTypeOK`, `UntouchedShowPosix` |
| `read_batch` | up to 5 blocks in 6 slots | `BlocksInPlace`, `OnePreadPerRun`, `ReadEnds` |
| `syscounter` | 3 threads or processes; 2 syscalls and 2 calls on 1 CPU, with and without calls during the attach, and on 2 CPUs; 1 syscall and 3 calls on 2 CPUs | `LostOnlyAtFirst`, `IgnoredNotCounted`, `OwnIntervals`, `RowsConsistent`, `TableIsRight` |
| `cachestat` | 80 kernels, 2 processes, 3 events, 2 intervals | `AccessesConserved`, `MissesConserved`, `ShownWithinAccesses` |
| `duplicate_race` | 2 threads, 2 requests | violation of `NoDanglingInfo` |
| `rollback_remount` | 3 requests, 2 mounts, failing `pwrite`s | violation of `SlotPartition` |

In the runs of `Dedup` every `pwrite` may fail, after any number of whole blocks and
with or without a torn one. Deadlock is checked everywhere but in `syscounter`
and `cachestat`, where the program ends or the bound on calls is used up; a
behaviour of the others that is over ends in a self-loop (`Quiet`, `PassQuiet`, `Over`,
`Finished`, `Ended`).

**Properties.** `RefcountExact` is the central one: a refcount equals the number of
mapped blocks plus the plan entries in flight that hold a reference, where `HoldsRef`
says, per location, which entries do. `SlotPartition` says that each slot below
`nextBlockIndex` has exactly one owner among the free list, the published `MasterInfo`s,
the pending MISSes and the local release lists, which excludes leaks and double
allocation at once. `ContentMatchesHash` and `MappedIsPublished` connect index and
master file. `ChangesInRange` is the user's view: what a file shows at a block changes
only under a request that covers the block, whatever happens to the blocks it shares.
`StableRead` is the strongest statement the lock-free read allows: a read that no writer
of its own blocks overtook returns the mapped contents (`docs/ARQUITETURA.md` accepts
torn reads otherwise). `StorageFirst` is what the two steps of the allocator keep of its
name with several handlers: `since` remembers the slots that came free after a batch had
drained the list, and the file grows past no others. `SnapshotWhileReading` is what pass
1 relies on between its look-ups and its increments.

`KeepsContents` compares what every block reads as before a clean unmount and after the
next mount. `SlotsOwned` and `BlocksMatchHash` carry `SlotPartition` and
`ContentMatchesHash` over mounts; their hypothesis says that finding 2 is the only way to
lose them. `ResolvesAsSaved` is why the two tables are truncated before the values are
written: whatever step a crash or a failing write cuts off, a position never meets an
array of another save, but when the values file could not be opened at all.
`KnownBelowAppend` is why appends never overwrite what a table knows. It excepts the two
kinds of damage: a slot that was rolled back beyond the end of the file, and tables loaded
beside the values of another save. The second matters only when a `pwrite` fails too: the
wrong refcounts free a `MasterInfo` that is still mapped, a later batch gets its memory and
a slot by append, and the rollback of that batch leaves the file too short (the invariant
behind `KnownStaysBelow` makes no exception for damage, so without failing `pwrite`s it
does no such harm).
`LoadsCompleteElements` says exactly what a load
returns from a file that was cut off anywhere. `ImplementsFlatFS` hides the whole of
deduplication: it fails if half a batch or half a removal ever shows, or if a failed write
leaves anything behind. `UntouchedShowPosix` confines what rename, link, `O_TRUNC` and
failing backend calls do to the files they name.

`LostOnlyAtFirst` says that a counter of syscounter misses fewer calls than there are
CPUs. `IgnoredNotCounted` and `OwnIntervals` make a count and a time right, without calls
during the attach, and the second only on one CPU; what `IgnoredNotCounted` leaves to be
counted are calls on regular files, failed openats and every unlink. `RowsConsistent` says
what a row keeps of count and time although the programs add to them while it is copied,
and `TableIsRight` that a column of the table lies between the counts at Ctrl-C and those
when it is printed, and its total is the sum of its cells. `AccessesConserved`,
`MissesConserved` and `ShownWithinAccesses` are the same for cachestat, over kernels and
over the cuts of an interval.

**Bounds.** Two threads are enough for every pairwise race: lost double check, unlink
between pass 1 and pass 3, release between drain and append. All properties
of these runs but liveness are also proved, for any number of threads (section 5). Two
contents and two blocks give contiguous and scattered runs, partly shared batches and
duplicates inside a batch. `MaxSlots` and `Infos` are so large that no action is
blocked by them (otherwise the run would report a deadlock). `MaxRequests` bounds the
depth: four requests let a slot be allocated, shared, freed and reused. `RefcountLimit`
is above what the requests can reach, as 2^32 is in practice; what happens beyond it
is listed as a hazard and not claimed. The symmetry sets permute thread names and
`MasterInfo` addresses; both are interchangeable in the specification and the
properties, and the run with a liveness property uses none.

Mounts: three, so that a file of the first save may meet one of the second in the third.
The mount runs use one thread, since the races of a session are those of the runs above
and nothing runs during a save. In `save_faults` three requests on one-block files make
tables that differ between saves in length and order; failures multiply the states of
each save. Buffers of 3 and 4 bytes against elements of 1 to 5 make headers and bodies
straddle flushes in every way. In `namespace` three inodes allow a replaced file, a
hidden one and a new one at once. Two CPUs and three threads give every pairwise race of
two programs; three calls create a counter and then add to it twice at the same time,
two let a stamp be left during the attach and misused. The two syscalls are one whose
descriptor is filtered on exit and one on entry. The maps of `syscounter` are as large
as `MapsFit` (section 5) wants them. The kernels of `cachestat` have each name for what
dirties a page, with fentry or without: one of the functions beside the tracepoint of
its generation, or none and at most one tracepoint; the two other renamed functions,
between which `main()` chooses independently, are of the same generation. `U64` is far
above any sum that does not wrap. The symmetry sets of these runs permute `MasterInfo`
addresses and inodes.

**Batches with duplicates.** The code has an error when a batch with two equal blocks
loses the double check (below). The concurrent runs that pass use batches whose blocks
are pairwise distinct; `remount`, with one thread, where the race cannot happen, has
duplicates, and `duplicate_race` shows the error.

**Fairness.** `FairSpec` has weak fairness for the steps of each thread: a runnable
thread is eventually scheduled, and the handlers wait for nothing but the two locks.
There is none for `Dispatch`, as nobody has to send requests. Default `pthread`
rwlocks prefer readers, so an endless stream of readers may starve a writer; the
property is checked for a bounded number of requests, where the stream ends. It then
says that no lock is left held, no lock order deadlocks, and every loop ends.
`BioSpec` and `BatchSpec` have weak fairness of the whole step relation (for `BioSpec`
without the closing self-loop): both are sequential code that runs on until it returns.
`SaveAndLoadEnd` allows a behaviour to stop after an overrun, where the code's behaviour
is undefined.

## 4. Findings

Two runs show a violation of what the code or its documentation says:

1. **`dedup.c:612`, run `duplicate_race`.** A batch contains the same new content
   twice: the first block is a MISS with a pending `MasterInfo`, the second a HIT on
   it. If another thread publishes that content before pass 3, the double check frees
   the pending `MasterInfo` and repoints the first entry only; the second is mapped to
   freed memory. The comment at line 590 says "sem corrupção".
2. **`passthrough.c:113`, run `rollback_remount`.** A failed append leaves its slots on the
   free list and the master file shorter than `nextBlockIndex`. After a remount the point
   of append is the file's size, at or below those slots: the double allocation that
   `dedup.c:400-402` says rollback avoids.

Further disagreements between the code and its documentation were met while
modelling. The models contain the behaviour; the properties that pass name the
condition that keeps clear of it:

| Code | What happens | What is said | Where the models keep clear of it |
|---|---|---|---|
| `metaindex.c:193` | only a clean unmount writes the tables; a crash loses completed writes | `docs/ARQUITETURA.md:264-265`: returns with the data on disk | `KeepsContents` is checked without crashes |
| `persistence.c:373` | a crash between two tables leaves mapped blocks that `hash_to_master` does not have | `metaindex.c:162-163`: owned by `hash_to_master` | `MappedIsPublished` is checked within a mount |
| `persistence.c:84` | after a flush that fails or is short `available` is the whole buffer, and `memcpy` leaves it | `persistence.c:77` | second disjunct of `SaveAndLoadEnd` |
| `dedup.c:317` | the list is drained and the file extended in two steps: slots that another handler releases in between are passed over, and the file grows while the list is not empty | `docs/ARQUITETURA.md:217`: only when it is exhausted; `:276`: multi-threaded by default | `since` in `StorageFirst`; `refinement` reaches such steps |
| `dedup.c:477` | a write of whole blocks at an unaligned offset replaces the whole blocks from the one its offset lies in | `docs/ARQUITETURA.md:44-46`: rejected | requests have aligned offsets (`ChangesInRange`) |
| `passthrough.c:344` | a renamed file appears empty, or with the blocks of the file it replaced | `passthrough.c:12-15`: mirrors the hierarchy | `touched` in `UntouchedShowPosix` |
| `passthrough.c:484` | `O_TRUNC` leaves size and blocks in the index | `passthrough.c:384-385` | `touched` in `UntouchedShowPosix` |
| `syscounter.bpf.c:161` | a failed openat has no file, the filter asks for one that is not regular, and the call is counted | line 159: what is not a regular file is ignored | `Wanted` in `IgnoredNotCounted` |
| `syscounter.bpf.c:115` | the stamp is read after its element was deleted, when that of another thread may be in its place | line 109: deleted to avoid erroneous calculations | `OwnIntervals` is about one CPU |
| `syscounter.c:276` | an entry program that is attached before the exit program leaves a stamp, which the exit of a later call takes for its own: it measures from there, and counts calls on something else than a file | `syscounter.bpf.c:97`: no time measuring errors | `OwnIntervals` and `IgnoredNotCounted` are about `~early` |
| `syscounter.bpf.c:350` | the fork tracepoint's thread id is looked up among process ids: a process forked by another thread than the first is not traced | line 352 | no property |
| `syscounter.c:93` | there is a label for each command name of a process, in an array with room for `MAX_PIDS` (line 294): it is written beyond its end | line 75: unique pid values | phase `overrun`; `TableIsRight` is about the tables whose labels fit |
| `cachestat.c:253` | with fentry on `folio_account_dirtied` the kprobe on it stays loaded, and a dirtied page is subtracted twice | line 252: kprobes are a fallback | `FolioDirtiedTwice` in `MissesConserved` |
| `syscounter.bpf.c:120` | of two CPUs that insert a new counter at once one loses its call | line 117 | `LostOnlyAtFirst` allows it |

## 5. Proofs

Every theorem holds for every value of the constants that satisfies the named
assumptions of its component (`Dedup`: `NULL` is distinct from the values it stands
beside, the bounds are naturals, `HashOf` is a function, a request covers blocks within
the bound and brings one payload per block of a write; `Mount`: `Infos` is
finite and a file's entry is not `NULL`; `ReadBatch` and `BufferedIO`: sizes and
slots are naturals, element sizes positive; `SysCounter` and `CacheStat`: the kinds of
syscalls, machines and kernels there are), and under the hypotheses of the third column.

| Module | Theorem | Hypotheses |
|---|---|---|
| `DedupProofs` | `TypeCorrect`: `Spec => []TypeOK` | |
| | `LocksHeld`: `Spec => []LockDiscipline` | |
| | `SnapshotReads`: `Spec => SnapshotWhileReading` | |
| | `RefcountsExact`: `Spec => []RefcountExact` | `RefcountsFit`, `DistinctBatches` |
| | `NothingDangles`: `Spec => []NoDanglingInfo` | the same |
| | `MappedBlocksShared`: `Spec => []MappedIsPublished` | the same |
| | `SlotsPartitioned`: `Spec => []SlotPartition` | the same |
| | `ContentsMatch`: `Spec => []ContentMatchesHash` | the same |
| `DedupFiles` | `ReadsAreStable`: `HistorySpec => []StableRead` | the same |
| | `ExtendsLast`: `HistorySpec => StorageFirst` | |
| | `OnlyInRange`: `Spec => ChangesInRange` | the same and `AlignedWrites` |
| | `SizesCover`: `Spec => []SizeCoversBlocks` | `SerializePaths` |
| | `UnlinkIsComplete`: `Spec => []UnlinkLeavesNothing` | `SerializePaths` |
| | `ImplementsFlat`: `Spec => ImplementsFlatFS` | `RefcountsFit`, `DistinctBatches`, `SerializePaths` |
| `MountProofs` | `MountTypes`: `MountSpec => []MountTypeOK` | |
| | `EntriesResolve`: `MountSpec => []ResolvesAsSaved` | |
| | `RemountKeepsContents`: `MountSpec => KeepsContents` | `CleanSaves` |
| | `SlotsSurvive`: `MountSpec => []SlotsOwned` | `RefcountsFit`, `DistinctBatches`, `CleanSaves` |
| | `BlocksSurvive`: `MountSpec => []BlocksMatchHash` | the same |
| | `RefcountsSurvive`: `MountSpec => [](RefcountExact /\ NoDanglingInfo)` | the same |
| | `KnownBelowWhenClean`: `MountSpec => []KnownBelowAppend` | the same |
| | `KnownStaysBelow`: `MountSpec => []KnownBelowAppend` | `~PwriteFails` |
| `PassthroughProofs` | `PassTypes`: `PassSpec => []PassTypeOK` | `RefcountsFit`, `DistinctBatches`, `SerializePaths` |
| | `UntouchedShow`: `PassSpec => []UntouchedShowPosix` | the same and `HashesTellApart` |
| `SysCounterProofs` | `RowsAreConsistent`: `SysSpec => []RowsConsistent` | |
| | `IgnoredAreNotCounted`: `SysSpec => []IgnoredNotCounted` | |
| | `IntervalsAreOwn`: `SysSpec => []OwnIntervals` | |
| | `LostAtFirstOnly`: `SysSpec => []LostOnlyAtFirst` | `MapsFit` |
| | `TableShowsAll`: `SysSpec => []TableIsRight` | |
| `CacheStatProofs` | `AccessesAreConserved`: `CacheSpec => []AccessesConserved` | |
| | `MissesAreConserved`: `CacheSpec => []MissesConserved` | |
| | `TotalsWithinAccesses`: `CacheSpec => []ShownWithinAccesses` | |
| `ReadBatchProofs` | `ReadsInPlace`: `BatchSpec => []BlocksInPlace` | |
| | `PreadsPerRun`: `BatchSpec => []OnePreadPerRun` | |
| `BufferedIOProofs` | `FilesArePrefixes`: `BioSpec => []FileIsPrefix` | |
| | `LoadsWhatIsComplete`: `BioSpec => []LoadsCompleteElements` | |

**Hypotheses.** They are definitions over constants, cited where they are needed. The
instances of `race`, `refinement`, `namespace` and `syscounter` satisfy those of the theorems
about the same properties. `remount` saves cleanly; its duplicates go
beyond `DistinctBatches`, so there run and theorem each cover what the other does not.

* `DistinctBatches`: no write request carries two blocks with the same hash. Without it
  the accounting is false: that is finding 1, and `duplicate_race` shows it. `remount`
  checks batches with duplicates where no second thread can win the double check.
* `RefcountsFit`: all blocks of all files and all plan entries in flight are fewer than
  the values of `refcount`. The code has nothing that keeps a `uint32_t` from wrapping
  (`dedup.c:523`), so the claim is about file systems below that size: 2^32 references
  to blocks of 4 KiB are 16 TiB of file contents.
* `AlignedWrites`: a write starts at a block. An unaligned offset is rounded down
  (section 4), and then the block that changes is not the one the request names.
* `SerializePaths`: the inode lock of the kernel and the path lock of libfuse order the
  modifications of one file (section 2, external behaviour). Without it a write that
  overtakes an unlink between its three locks leaves blocks behind.
* `CleanSaves`: no save fails and the daemon is not killed. What a crash or a failing save
  loses is section 4; `EntriesResolve`, `MountTypes` and `KnownStaysBelow` hold with both.
* `~PwriteFails`: every `pwrite` to the master file succeeds. With failing ones a known
  slot may be rolled back beyond the end of the file, but for the mounts that follow clean
  unmounts `KnownBelowWhenClean` has the same conclusion.
* `HashesTellApart`: SHA-512 maps different payloads to different digests. The rest of the
  project speaks of digests; that a user reads back his own bytes needs it.
* `MapsFit`: the stamps and the counters of all threads fit the BPF maps. A full map drops
  insertions, and then calls are lost on one CPU too.

**Type correctness** is not inductive alone. A step that publishes, maps, drops or
releases reads a pointer or a slot from a plan, and `TypeOK` allows `NULL` there. The
invariant is `TypeInv == TypeOK /\ FramesOK /\ PlansOK /\ PublishedOK /\ MappedOK`:

* `FramesOK`: a running handler has a request, a location of the write path runs a
  write, and the loop index stays inside the range of that loop;
* `PlansOK`: a plan entry that is a HIT or a MISS points at a `MasterInfo`, that of a
  MISS carries a digest, and after `AppendSlots` each MISS has a slot;
* `PublishedOK`: a `MasterInfo` found through `hash_to_master` carries a digest;
* `MappedOK`: so does one that a block is mapped to.

The proof has one lemma per action and per part that it can disturb, and lemmas about
the helpers (`Rank`, `Taken`, `Pwrite`, `DropRef`, `Entry`).

**Locks.** `LockDiscipline` is inductive together with the lock and control parts of
the type invariant; each action changes `pc` and the lock variables together.
`SnapshotReads` follows from it: an action that changes a table either needs the write
lock, and then there are no readers, or takes it for its own step and is disabled
while there are readers.

**Refcounts.** `RefInv` adds to the invariants above the shape of a plan during pass 1
(`ShapeOK`, `LoopsOK`); that the `MasterInfo` behind an entry that holds a reference is
allocated and carries the hash of its block, private with refcount 1 as long as the
entry is pending and published afterwards (`EntriesOK`); that the hash of a HIT stays
published from the look-up to the increment (`HitsOK`, which is where the read lock is
used); and what the tables point at (`TablesOK`). `RefcountExact` alone says nothing of
a step that frees: that a count that drops to zero has no holder left, and that
`remove_hash` then removes the entry of this `MasterInfo` and no other, come from these
parts. The references to a `MasterInfo` are a set (blocks, and pairs of thread and
index); each action adds or removes at most one member for each, and lemmas about
cardinalities turn that into the arithmetic of the counter, which does not wrap because
of `RefcountsFit`.

**Slots.** `SlotPartition` counts owners. `SlotInv` states the same without counting
(`OwnersOK`: one owner of four kinds, or none above `nextBlockIndex`) and adds that lists
have no repetitions (`ListsOK`), that a local list is empty outside the sections that
fill and release it (`ReleasesOK`), and that a pending `MasterInfo` names the slot of
its plan entry (`PendingOK`). Each action moves slots from one owner to another; the
count is taken once, at the end.

**Contents.** `ContentInv` adds that the blocks of a batch below the flush index are on
disk (`FlushedOK`) and that what is published has its payload (`ContentsOK`). A `pwrite`
touches only slots of its own pending entries, which by `SlotInv` belong to nobody else.
`ReadInv` adds, for a read in flight that nobody overtook, that each slot still to be
fetched is the one its block maps to, and each block fetched has that content.

**Storage first.** `Drain` leaves the list empty or no MISS of its batch without a slot
(`DrainEmpties`, from the ranks of the MISSes). Until that batch appends, only steps of
others add to the list, and `since` takes in what they add (`LateOK`). No other step
moves the point of append.

**Files.** `OnlyInRange` needs `RefInv`, since a block could change what it shows by a
`MasterInfo` freed under it. `FileInv` is what the removal relies on: handlers that
modify files work on different ones (`Exclusive`), a mapped block lies below the size or
was mapped by a batch that is about to set it (`CoverOK`), and a removal has left only
what it keeps or has still to remove (`RemovalsOK`).

**Refinement.** `ImplementsFlat` shows for each action, under `ImplInv == RefInv /\
FileInv`, that it is a step of `FlatFS` through the mapping or changes nothing `FlatFS`
speaks of. The effect of a batch falls on `PublishDone`: from there on the write lock
keeps every other handler away, and the entries still to be mapped are held references,
so the mapped view is settled. For a removal it is the step that takes the lock, and
`RemovalsOK` shows that a removal that returns has nothing left to remove.

**Reading in batches.** `BatchInv` carries the insertion sort (the hole at `j`, the pair
in `tmp`, the order on both sides: `NoneLost`, `SortOK`), the run at hand (`GroupOK`) and
what has been copied (`PlacedOK`). `PreadsOK` counts groups by their first positions; a
bijection between the positions that begin a run and the maximal runs, and one between
first occurrences and the distinct slots, give the number in `OnePreadPerRun`.

**Buffers.** `BioInv` says where file, buffer and reader stand in the stream
(`WriterOK`, `ReaderOK`) and what has been loaded (`GotOK`). It needs where each call of
`buffered_write` starts (`CallStart`), a sum defined by a recursive function. That this
function exists, adds up and grows is shown by the least counterexample, from the
well-foundedness of the naturals, as the induction theorems of the library cannot be
instantiated. The theorem needs no bound on the buffer: when the code copies beyond the
end of it, the model stops, and up to there the file is a prefix.

**Mounts.** `MountInv` carries `TypeInv` through saves, crashes and loads: what is on disk
has the type of what a save can write, whole or cut off, so what a load builds from it is
well typed again. `ResolveInv` follows the order of the save: while the values are written
both tables are empty on disk, and while the tables are written the values are those that
their positions count, so an entry that resolves always finds its own record. `SaveInv` and
`ShownInv` say that after a clean save the three files image the tables, from which
`RemountKeepsContents` follows without any hypothesis on batches or failing `pwrite`s.
`CleanInv` takes `RefInv`, `SlotInv` and `ContentInv` across a remount: the files state the
same about positions as the tables did about addresses (`FilesSound`, `FilesOwn`), and a
load chooses new addresses for them. The slots between the end of the file and the old
point of append are then owned by nobody; a free slot among them is the damage of finding 2.
`BelowInv` needs none of that. It bounds every number that can become a slot (in the lists,
the plans, every `MasterInfo`, freed ones too) by the point of append, and says that what
has been appended is in the file or about to be flushed. This survives loads of files of
different ages, as each number is bounded on its own.

**Beside the index.** `PassInv` has `ContentInv` and `FileInv`, now under handlers that add
and remove names, and `Agrees`: seen through the refinement mapping, a block of a path that
nobody has named beside the index shows what POSIX has in its inode, or what a write that
is about to return has put there, or nothing while a removal of it is in flight; sizes
likewise. Each step of `FlatFS` (`Put`, `Remove`, `Resize`, `Reply`) is followed by what it
does to the history and to the backend, so the proof never looks at slots or plans again:
it reuses the lemmas of `ImplementsFlat`. `OwnInode` (no second name) and `AbsentOK` (a
name that is gone has left nothing) are what unlink and create rely on.

**The tools.** `RowsInv` has, for each counter, that its count and the programs between
their two adds make up its intervals, and at most `cpus` programs run. `StampsOK` in
`FilesInv` says that a stamp belongs to the call its thread is in and that the program on
the exit of that call will see it; `OwnInv` that on one CPU nothing is inserted between the
deletion of a stamp and its last read. In `LostInv` the calls that a key in the map has
lost and those still waiting to insert it are together fewer than the CPUs: nothing is lost
before the first insertion, which leaves only the others that had looked the key up by
then; each of them may be lost, and whoever looks later finds the key. `TableInv` says that
no counter is read twice, so a cell stands for at most one row, and that neither a counter
nor its row falls below the count at Ctrl-C, also when the row is copied in two parts;
`SumsMatch` pairs the rows of a column with its cells, and `SumsBelow` the counters at
Ctrl-C with rows, and rows with the counters of now. What a table with more labels than its
array holds would show is undefined, and `TableIsRight` does not speak of it. The sums are
folds of the library, in an order that nobody knows; that such a fold exists and does not
depend on the order is proved by taking a smallest set for which it fails (`MinimalSet`),
in place of an induction. `CountInv` proves the two conservation laws of cachestat as they
stand, from what each choice of programs adds for each event (`ChosenOK`); `ShownOK` is the
strengthening of `ShownWithinAccesses`: what is shown, taken, in the counter and still to
be added.

Before they were proved the invariants were checked by TLC on the instances of the runs:
`RefInv` on `race` (580 213 states), `FileInv`, `LateOK` and `ReadInv`, with `ContentInv`
and `SlotInv` in it, on `refinement` (586 347), `PassInv` on `namespace` (601 004), those of
`SysCounter` on `syscounter` (1 908 976), those of `CacheStat` with two events (630 324),
`BatchInv` and `PreadsOK` on `read_batch` (233 675), `BioInv` on `buffered` (64 254).

**Checked by TLC only.**

* Liveness (`RequestsReturn`, `ReadEnds`, `SaveAndLoadEnd`) is outside what the prover
  supports.
* The accounting with duplicates in a batch is false in general and is checked for one
  thread (`remount`).
* `KnownBelowAppend` with failing `pwrite`s and failing saves or crashes together
  (`save_faults`): the theorems exclude one or the other. Without `CleanSaves` the
  refcounts of a table that was cut off are not exact, and a free list of an older save may
  hold slots in use: the partition of slots, on which the case of failing `pwrite`s rests,
  is lost.

## 6. Not modelled

* `remove_block_dedup` and the unbuffered `write_elem` and `read_elem` have no callers.
* Failure of `malloc`, except the one of `read_dedup` (part of `ReadReturn`): the
  other results are used unchecked, or come from `g_new`, which aborts the process.
  The results of the lock calls are ignored by the code.
* Handlers that only forward a call to the backend (`readlink`, `readdir`, `mkdir`,
  `rmdir`, `symlink`, `chmod`, `chown`, `access`, `statfs`, `fsync`) keep no state of the
  system. Those under `HAVE_*` are compiled out by this repository's build, and `lseek`
  and `copy_file_range` are not in the operation table.
* The formats of elements (`encode_*`, `decode_*`, the hash and equality of keys): an
  element decodes to what was encoded.
* The call counters of the handlers, which are printed at unmount and read by nothing.
* Reads of holes: the code returns a short read at the first unmapped block.
* A machine crash that loses the page cache of the master file (it is not opened with
  `O_SYNC`): the crash modelled is that of the daemon.
* syscounter: names of syscalls, parsing of arguments, number formatting, failure of the
  attach. cachestat: parsing of arguments and printing.
* `trace_helpers.c` and `uprobe_helpers.c` are vendored from libbpf-tools; three
  predicates of theirs are external operators of `CacheStat`. `syscalls_table.h` is data.
  The benchmarks and test scripts drive the system from outside.

## 7. What is left

1. `KnownBelowAppend` for failing `pwrite`s and crashes together. It needs an invariant
   between `BelowInv` and `CleanInv`: over tables that were cut off, refcounts are (where
   nothing is damaged) too high and never too low, so no `MasterInfo` that a table knows is
   freed and handed to a batch that is rolled back.
2. The accounting of one handler with duplicates in a batch: `RefInv` with a count of the
   entries behind a pending `MasterInfo` instead of one.
