------------------------------- MODULE Dedup -------------------------------
(***************************************************************************)
(* The deduplication layer of DedupBlockFS (src/src/dedup.c) under the     *)
(* FUSE handlers that call it (src/src/passthrough.c), run by a pool of    *)
(* FUSE threads over one shared Index (src/src/metaindex.c).               *)
(*                                                                         *)
(* Grain.  Both locks are explicit.  An iteration of a loop that runs      *)
(* under a lock is one step; a whole section is one step when it only      *)
(* reads, or only drains or extends the free list, or touches one entry    *)
(* of file_to_sizes.  The fetch_add of a HIT, the fetch_add on             *)
(* nextBlockIndex, each pwrite and the pread of each block are steps of    *)
(* their own.                                                              *)
(*                                                                         *)
(* A block's payload is a member of Contents, its SHA-512 a member of      *)
(* Hashes.  Request offsets and sizes are in bytes; stored file sizes are  *)
(* in blocks, because every size the code stores is a multiple of          *)
(* BLOCK_SIZE (truncate rejects the others, writes end on a boundary).     *)
(***************************************************************************)
EXTENDS Integers, Sequences, FiniteSets

CONSTANTS
    Threads,        \* FUSE worker threads
    Paths,          \* file paths, the keys of file_to_master / file_to_sizes
    Contents,       \* payloads a block can carry
    Hashes,         \* SHA-512 digests
    HashOf,         \* hash(): Contents -> Hashes
    Infos,          \* addresses malloc can return for a MasterInfo
    NULL,           \* the null pointer, and every other "no value"
    BLOCK_SIZE,     \* bytes per block (4096 in the code)
    RefcountLimit,  \* 2^32 in the code: refcount is a uint32_t
    Requests,       \* requests the kernel may send
    SerializePaths, \* TRUE: the kernel's inode lock orders writers of one file
    MaxBlocks,      \* bound: logical blocks per file
    MaxSlots,       \* bound: blocks of the master file
    MaxRequests     \* bound: requests sent in one behaviour

Blocks == 0 .. MaxBlocks - 1
Idx    == 0 .. MaxBlocks - 1  \* positions of a block inside one request
Slots  == 0 .. MaxSlots - 1

Ops == {"write", "read", "unlink", "truncate", "create"}

NumBlocks(r)  == r.size \div BLOCK_SIZE
StartBlock(r) == r.offset \div BLOCK_SIZE

ASSUME NullAssumption ==
    NULL \notin Threads \cup Infos \cup Contents \cup Hashes \cup Nat \cup Requests

ASSUME BoundsAssumption ==
    /\ BLOCK_SIZE \in Nat \ {0}
    /\ RefcountLimit \in Nat \ {0, 1}
    /\ MaxBlocks \in Nat /\ MaxSlots \in Nat \ {0} /\ MaxRequests \in Nat
    /\ SerializePaths \in BOOLEAN

ASSUME HashAssumption == HashOf \in [Contents -> Hashes]

\* A request covers blocks the bound allows, and a write brings their payloads.
ASSUME RequestsAssumption ==
    \A r \in Requests :
        /\ r.op \in Ops /\ r.path \in Paths
        /\ StartBlock(r) \in Nat /\ NumBlocks(r) \in Nat
        /\ StartBlock(r) + NumBlocks(r) <= MaxBlocks
        /\ r.data \in Seq(Contents)
        /\ r.op = "write" => Len(r.data) = NumBlocks(r)

VARIABLES
    hash_to_master,   \* hash -> MasterInfo*
    file_to_master,   \* (path, block) -> MasterInfo*
    file_to_sizes,    \* path -> logical size in blocks
    heap,             \* MasterInfos allocated and not yet freed
    info,             \* contents of each MasterInfo
    free_block_list,  \* LIFO list of reusable slots
    nextBlockIndex,   \* next slot to append
    master,           \* the master file: slot -> payload
    names,            \* paths that exist in the backend directory
    readers, writer,  \* holders of metadata_rwlock
    freelist_mutex,   \* holder of freelist_mutex
    accepted,         \* requests dispatched so far
    pc, req, k,       \* per thread: location, request, loop index
    lim,              \* per thread: end_block of remove_blocks_dedup_batch
    plan,             \* per thread: PlanEntry array of write_dedup
    rel,              \* per thread: local GSList of slots to release
    rd                \* per thread: pairs[] and output buffer of read_dedup

indexVars == <<hash_to_master, file_to_master, file_to_sizes>>
heapVars  == <<heap, info>>
allocVars == <<free_block_list, nextBlockIndex>>
lockVars  == <<readers, writer, freelist_mutex>>
outerVars == <<names, accepted>>
dataVars  == <<indexVars, heapVars, allocVars, master, outerVars>>
frameVars == <<req, lim, plan, rel, rd>>
vars == <<dataVars, lockVars, pc, k, frameVars>>

-----------------------------------------------------------------------------
(* Types *)

Key  == Paths \X Blocks
Info == [hash : Hashes \cup {NULL}, masterBlockIndex : Slots,
         refcount : 0 .. RefcountLimit - 1]

NoInfo  == [hash |-> NULL, masterBlockIndex |-> 0, refcount |-> 0]
NoEntry == [kind |-> "NONE", master_blk |-> NULL, info |-> NULL]
NoPair  == [slot |-> NULL, data |-> NULL]

PlanEntry == [kind : {"NONE", "HIT", "MISS"}, master_blk : Slots \cup {NULL},
              info : Infos \cup {NULL}]
Pair      == [slot : Slots \cup {NULL}, data : Contents \cup {NULL}]

NoPlan  == [i \in Idx |-> NoEntry]
NoPairs == [i \in Idx |-> NoPair]

PCs == {"idle",
        "w_rdlock", "w_plan", "w_hit", "w_drain", "w_append", "w_flush",
        "w_wrlock", "w_publish", "w_map", "w_release",
        "rb_wrlock", "rb_hits", "rb_release", "rb_mutex", "rb_miss",
        "u_read", "u_size", "u_backend", "t_read", "t_size",
        "rm_wrlock", "rm_loop", "rm_release",
        "r_lookup", "r_pread", "c_open"}

IndexType ==
    /\ hash_to_master \in [Hashes -> Infos \cup {NULL}]
    /\ file_to_master \in [Key -> Infos \cup {NULL}]
    /\ file_to_sizes \in [Paths -> (0 .. MaxBlocks) \cup {NULL}]
HeapType  == heap \subseteq Infos /\ info \in [Infos -> Info]
AllocType == free_block_list \in Seq(Slots) /\ nextBlockIndex \in 0 .. MaxSlots
DiskType  == master \in [Slots -> Contents \cup {NULL}]
OuterType == names \subseteq Paths /\ accepted \in 0 .. MaxRequests
LockType  ==
    /\ readers \subseteq Threads
    /\ writer \in Threads \cup {NULL} /\ freelist_mutex \in Threads \cup {NULL}
ControlType ==
    /\ pc \in [Threads -> PCs]
    /\ req \in [Threads -> Requests \cup {NULL}]
    /\ k \in [Threads -> 0 .. MaxBlocks] /\ lim \in [Threads -> 0 .. MaxBlocks]
WorkType ==
    /\ plan \in [Threads -> [Idx -> PlanEntry]]
    /\ rel \in [Threads -> Seq(Slots)]
    /\ rd \in [Threads -> [Idx -> Pair]]

\* Every variable holds values of the C type it models: table entries are
\* MasterInfo pointers or absent, slot numbers are below the bound, loop indices
\* stay inside the arrays they index.
TypeOK == /\ IndexType /\ HeapType /\ AllocType /\ DiskType
          /\ OuterType /\ LockType /\ ControlType /\ WorkType

\* A process that has just started over empty tables and an empty master file.
FreshInit ==
    /\ hash_to_master = [h \in Hashes |-> NULL]
    /\ file_to_master = [x \in Key |-> NULL]
    /\ file_to_sizes = [f \in Paths |-> NULL]
    /\ heap = {}
    /\ info = [p \in Infos |-> NoInfo]
    /\ free_block_list = <<>>
    /\ nextBlockIndex = 0
    /\ master = [s \in Slots |-> NULL]
    /\ readers = {} /\ writer = NULL /\ freelist_mutex = NULL
    /\ accepted = 0
    /\ pc = [t \in Threads |-> "idle"]
    /\ req = [t \in Threads |-> NULL]
    /\ k = [t \in Threads |-> 0]
    /\ lim = [t \in Threads |-> 0]
    /\ plan = [t \in Threads |-> NoPlan]
    /\ rel = [t \in Threads |-> <<>>]
    /\ rd = [t \in Threads |-> NoPairs]

Init == FreshInit /\ names = Paths   \* empty files left by an earlier session

-----------------------------------------------------------------------------
(* Helpers *)

N(t)         == NumBlocks(req[t])
KeyOf(t, i)  == <<req[t].path, StartBlock(req[t]) + i>>
Payload(t, i) == req[t].data[i + 1]
HashAt(t, i) == HashOf[Payload(t, i)]
IsMiss(t, i) == plan[t][i].kind = "MISS"
IsHit(t, i)  == plan[t][i].kind = "HIT"

Goto(t, l)   == pc' = [pc EXCEPT ![t] = l]
SetK(t, i)   == k' = [k EXCEPT ![t] = i]
NextIter(t)  == SetK(t, k[t] + 1) /\ UNCHANGED pc

\* The handler returns: its stack frame is gone.
Return(t) ==
    /\ Goto(t, "idle")
    /\ req' = [req EXCEPT ![t] = NULL]
    /\ k' = [k EXCEPT ![t] = 0]
    /\ lim' = [lim EXCEPT ![t] = 0]
    /\ plan' = [plan EXCEPT ![t] = NoPlan]
    /\ rel' = [rel EXCEPT ![t] = <<>>]
    /\ rd' = [rd EXCEPT ![t] = NoPairs]

\* Mutants: a lost increment; a clean-up one reference early; a write lock that
\* ignores readers; a read lock that ignores the writer.
IncRefLost(p)     == info[p].refcount
IsLastRefEarly(p) == info[p].refcount <= 2
WrLockNoReaders   == writer = NULL
RdLockNoWriter    == TRUE

\* refcount is a uint32_t: fetch_add and fetch_sub wrap.
IncRef(p) == IF info[p].refcount + 1 = RefcountLimit THEN 0 ELSE info[p].refcount + 1
DecRef(p) == IF info[p].refcount = 0 THEN RefcountLimit - 1 ELSE info[p].refcount - 1

\* fetch_sub returned 1: this was the last reference.
IsLastRef(p) == info[p].refcount = 1

RdLockFree == writer = NULL
WrLockFree == writer = NULL /\ readers = {}

\* fetch_sub on *p under the write lock and, when it was the last reference,
\* the clean-up: collect the slot, remove the hash, free the MasterInfo.  free()
\* takes the address out of heap and leaves the bytes as they are.
DropRef(t, p) ==
    /\ info' = [info EXCEPT ![p].refcount = DecRef(p)]
    /\ IF IsLastRef(p)
       THEN /\ rel' = [rel EXCEPT ![t] = <<info[p].masterBlockIndex>> \o @]
            /\ hash_to_master' = [hash_to_master EXCEPT ![info[p].hash] = NULL]
            /\ heap' = heap \ {p}
       ELSE UNCHANGED <<rel, hash_to_master, heap>>

-----------------------------------------------------------------------------
(* FUSE dispatch.  The handler's early returns are taken here.             *)

Aligned(n) == n % BLOCK_SIZE = 0

\* xmp_write and xmp_read pass the request on; write_dedup and read_dedup return
\* at once for a size that is 0 or not a multiple of a block.
WriteEntry(r)    == IF NumBlocks(r) = 0 \/ ~Aligned(r.size) THEN "idle" ELSE "w_rdlock"
ReadEntry(r)     == IF NumBlocks(r) = 0 \/ ~Aligned(r.size) THEN "idle" ELSE "r_lookup"
TruncateEntry(r) == IF Aligned(r.size) THEN "t_read" ELSE "idle"

Entry(r) ==
    CASE r.op = "write"    -> WriteEntry(r)
      [] r.op = "read"     -> ReadEntry(r)
      [] r.op = "truncate" -> TruncateEntry(r)
      [] r.op = "unlink"   -> "u_read"
      [] r.op = "create"   -> "c_open"

\* External: the kernel and libfuse look the path up and order the operations
\* that modify one inode (inode lock, libfuse path lock).
MayDispatch(r) ==
    /\ r.path \in names \/ r.op = "create"
    /\ SerializePaths /\ r.op # "read" =>
         \A u \in Threads :
             req[u] # NULL => (req[u].path # r.path \/ req[u].op = "read")

Dispatch(t) ==
    /\ pc[t] = "idle"
    /\ accepted < MaxRequests
    /\ \E r \in Requests :
         /\ MayDispatch(r)
         /\ Goto(t, Entry(r))
         /\ req' = [req EXCEPT ![t] = IF Entry(r) = "idle" THEN NULL ELSE r]
    /\ accepted' = accepted + 1
    /\ UNCHANGED <<indexVars, heapVars, allocVars, master, names, lockVars, k,
                   lim, plan, rel, rd>>

-----------------------------------------------------------------------------
(* write_dedup, pass 1: decide HIT or MISS under the read lock.            *)

PlanLock(t) ==
    /\ pc[t] = "w_rdlock" /\ RdLockFree
    /\ readers' = readers \cup {t}
    /\ Goto(t, "w_plan")
    /\ UNCHANGED <<dataVars, writer, freelist_mutex, frameVars, k>>

\* lookup_by_hash, then pending_hashes: the MISSes already planned by t.
Pending(t, h) ==
    {plan[t][i].info : i \in {j \in Idx : IsMiss(t, j) /\ info[plan[t][j].info].hash = h}}
Existing(t, h) ==
    IF hash_to_master[h] # NULL THEN {hash_to_master[h]} ELSE Pending(t, h)

PlanHit(t) ==
    /\ pc[t] = "w_plan" /\ k[t] < N(t)
    /\ \E p \in Existing(t, HashAt(t, k[t])) :
         plan' = [plan EXCEPT ![t][k[t]] =
                      [kind |-> "HIT", master_blk |-> NULL, info |-> p]]
    /\ Goto(t, "w_hit")
    /\ UNCHANGED <<dataVars, lockVars, req, k, lim, rel, rd>>

CountHit(t) ==
    /\ pc[t] = "w_hit"
    /\ LET p == plan[t][k[t]].info
       IN info' = [info EXCEPT ![p].refcount = IncRef(p)]
    /\ SetK(t, k[t] + 1)
    /\ Goto(t, "w_plan")
    /\ UNCHANGED <<indexVars, heap, allocVars, master, outerVars, lockVars,
                   frameVars>>

PlanMiss(t) ==
    /\ pc[t] = "w_plan" /\ k[t] < N(t)
    /\ Existing(t, HashAt(t, k[t])) = {}
    /\ \E p \in Infos \ heap :
         /\ heap' = heap \cup {p}
         /\ info' = [info EXCEPT ![p] = [hash |-> HashAt(t, k[t]),
                                         masterBlockIndex |-> 0, refcount |-> 1]]
         /\ plan' = [plan EXCEPT ![t][k[t]] =
                         [kind |-> "MISS", master_blk |-> NULL, info |-> p]]
    /\ NextIter(t)
    /\ UNCHANGED <<indexVars, allocVars, master, outerVars, lockVars, req, lim,
                   rel, rd>>

\* Passes 1.5 and 2 are skipped when the batch has no MISS.
PlanUnlock(t) ==
    /\ pc[t] = "w_plan" /\ k[t] = N(t)
    /\ readers' = readers \ {t}
    /\ Goto(t, IF \E i \in Idx : IsMiss(t, i) THEN "w_drain" ELSE "w_wrlock")
    /\ SetK(t, 0)
    /\ UNCHANGED <<dataVars, writer, freelist_mutex, frameVars>>

-----------------------------------------------------------------------------
(* write_dedup, pass 1.5: allocate_batch_storage_first.                    *)

\* MISSes of t that have no slot yet, and how many of them precede entry i.
Unassigned(t) == {i \in Idx : IsMiss(t, i) /\ plan[t][i].master_blk = NULL}
Rank(t, i)    == Cardinality({j \in Unassigned(t) : j < i})

\* Mutant: the free list is only used when it covers the whole batch.
TakenAllOrNone(t) == LET need == Cardinality(Unassigned(t))
                     IN IF need <= Len(free_block_list) THEN need ELSE 0

Taken(t) == LET need == Cardinality(Unassigned(t))
            IN IF need <= Len(free_block_list) THEN need ELSE Len(free_block_list)

Drain(t) ==
    /\ pc[t] = "w_drain" /\ freelist_mutex = NULL
    /\ plan' = [plan EXCEPT ![t] = [i \in Idx |->
           IF i \in Unassigned(t) /\ Rank(t, i) < Taken(t)
           THEN [plan[t][i] EXCEPT !.master_blk = free_block_list[Rank(t, i) + 1]]
           ELSE plan[t][i]]]
    /\ free_block_list' = SubSeq(free_block_list, Taken(t) + 1, Len(free_block_list))
    /\ Goto(t, "w_append")
    /\ UNCHANGED <<indexVars, heapVars, nextBlockIndex, master, outerVars,
                   lockVars, req, k, lim, rel, rd>>

\* fetch_add on nextBlockIndex for the remainder, then the loop that copies
\* each slot into its plan entry and its pending MasterInfo.
AppendSlots(t) ==
    LET SlotFor(i) == IF i \in Unassigned(t) THEN nextBlockIndex + Rank(t, i)
                      ELSE plan[t][i].master_blk
        MissOf(p)  == {i \in Idx : IsMiss(t, i) /\ plan[t][i].info = p}
    IN
    /\ pc[t] = "w_append"
    /\ nextBlockIndex + Cardinality(Unassigned(t)) <= MaxSlots
    /\ nextBlockIndex' = nextBlockIndex + Cardinality(Unassigned(t))
    /\ plan' = [plan EXCEPT ![t] =
                    [i \in Idx |-> [plan[t][i] EXCEPT !.master_blk = SlotFor(i)]]]
    /\ info' = [p \in Infos |->
                    IF MissOf(p) = {} THEN info[p]
                    ELSE [info[p] EXCEPT !.masterBlockIndex =
                              SlotFor(CHOOSE i \in MissOf(p) : TRUE)]]
    /\ Goto(t, "w_flush")
    /\ UNCHANGED <<indexVars, heap, free_block_list, master, outerVars,
                   lockVars, req, k, lim, rel, rd>>

-----------------------------------------------------------------------------
(* write_dedup, pass 2: flush_plan, without any lock.                      *)

\* Mutants: runs that ignore the slot numbers; a pwrite from the start of the
\* caller's buffer instead of the run's payload.
JoinsAnyMiss(t, i) == IsMiss(t, i)
PwriteFromStart(t, i, len) ==
    [s \in Slots |-> IF plan[t][i].master_blk <= s /\ s < plan[t][i].master_blk + len
                     THEN Payload(t, s - plan[t][i].master_blk) ELSE master[s]]

\* The run flush_plan builds from position k: it starts at the first MISS and
\* goes on while the next entry is a MISS on the next slot.
RunStart(t, i) ==
    /\ IsMiss(t, i) /\ i >= k[t]
    /\ \A j \in k[t] .. i - 1 : ~IsMiss(t, j)
Joins(t, i) == IsMiss(t, i) /\ plan[t][i].master_blk = plan[t][i - 1].master_blk + 1
RunEnd(t, i, e) ==
    /\ e > i /\ e <= N(t)
    /\ \A j \in i + 1 .. e - 1 : Joins(t, j)
    /\ e < N(t) => ~Joins(t, e)

\* One pwrite of `len' blocks: payloads contiguous in the caller's buffer go to
\* contiguous slots starting at the slot of the run's first entry.
Pwrite(t, i, len) ==
    [s \in Slots |-> IF plan[t][i].master_blk <= s /\ s < plan[t][i].master_blk + len
                     THEN Payload(t, i + (s - plan[t][i].master_blk))
                     ELSE master[s]]

FlushRunAt(t, i, e) ==
    /\ pc[t] = "w_flush"
    /\ RunStart(t, i) /\ RunEnd(t, i, e)
    /\ master' = Pwrite(t, i, e - i)
    /\ SetK(t, e)
    /\ UNCHANGED <<indexVars, heapVars, allocVars, outerVars, lockVars, pc,
                   frameVars>>

FlushRun(t) == \E i \in Idx, e \in 1 .. MaxBlocks : FlushRunAt(t, i, e)

\* pwrite fails, or is short after `done' whole blocks; the block it stopped in
\* may hold a mixture of old and new bytes (NULL).
FlushFailAt(t, i, e, done, torn) ==
    /\ pc[t] = "w_flush"
    /\ RunStart(t, i) /\ RunEnd(t, i, e) /\ done < e - i
    /\ master' = IF torn
                 THEN [Pwrite(t, i, done) EXCEPT ![plan[t][i].master_blk + done] = NULL]
                 ELSE Pwrite(t, i, done)
    /\ Goto(t, "rb_wrlock")
    /\ SetK(t, 0)
    /\ UNCHANGED <<indexVars, heapVars, allocVars, outerVars, lockVars, frameVars>>

FlushFail(t) ==
    \E i \in Idx, e \in 1 .. MaxBlocks, done \in 0 .. MaxBlocks - 1, torn \in BOOLEAN :
        FlushFailAt(t, i, e, done, torn)

FlushDone(t) ==
    /\ pc[t] = "w_flush"
    /\ \A i \in Idx : ~RunStart(t, i)
    /\ Goto(t, "w_wrlock")
    /\ SetK(t, 0)
    /\ UNCHANGED <<dataVars, lockVars, frameVars>>

-----------------------------------------------------------------------------
(* Write lock: taken for pass 3, for the rollback and for the removals.    *)

WriteLock(t) ==
    /\ WrLockFree
    /\ writer' = t
    /\ \/ pc[t] = "w_wrlock"  /\ Goto(t, "w_publish")
       \/ pc[t] = "rb_wrlock" /\ Goto(t, "rb_hits")
       \/ pc[t] = "rm_wrlock" /\ Goto(t, "rm_loop")
    /\ UNCHANGED <<dataVars, readers, freelist_mutex, frameVars, k>>

-----------------------------------------------------------------------------
(* write_dedup, pass 3: publish, map, update the size.                     *)

\* Mutants: no double check; a loop that does not advance past a HIT.
WinnerUnchecked(t, i) == NULL
PublishSkipStuck(t) ==
    pc[t] = "w_publish" /\ k[t] < N(t) /\ ~IsMiss(t, k[t]) /\ UNCHANGED vars

\* The double check: the MasterInfo another thread published meanwhile.
Winner(t, i) == hash_to_master[info[plan[t][i].info].hash]

PublishSkip(t) ==
    /\ pc[t] = "w_publish" /\ k[t] < N(t) /\ ~IsMiss(t, k[t])
    /\ NextIter(t)
    /\ UNCHANGED <<dataVars, lockVars, frameVars>>

PublishOurs(t) ==
    LET p == plan[t][k[t]].info
    IN
    /\ pc[t] = "w_publish" /\ k[t] < N(t) /\ IsMiss(t, k[t])
    /\ Winner(t, k[t]) = NULL
    /\ hash_to_master' = [hash_to_master EXCEPT ![info[p].hash] = p]
    /\ NextIter(t)
    /\ UNCHANGED <<file_to_master, file_to_sizes, heapVars, allocVars, master,
                   outerVars, lockVars, frameVars>>

\* Another thread won: give the slot back, free our MasterInfo, use theirs.
UseWinner(t) ==
    LET i == k[t]
        w == Winner(t, i)
    IN
    /\ pc[t] = "w_publish" /\ i < N(t) /\ IsMiss(t, i) /\ w # NULL
    /\ rel' = [rel EXCEPT ![t] = <<plan[t][i].master_blk>> \o @]
    /\ heap' = heap \ {plan[t][i].info}
    /\ info' = [info EXCEPT ![w].refcount = IncRef(w)]
    /\ plan' = [plan EXCEPT ![t][i].info = w]
    /\ NextIter(t)
    /\ UNCHANGED <<indexVars, allocVars, master, outerVars, lockVars, req, lim, rd>>

PublishDone(t) ==
    /\ pc[t] = "w_publish" /\ k[t] = N(t)
    /\ Goto(t, "w_map")
    /\ SetK(t, 0)
    /\ UNCHANGED <<dataVars, lockVars, frameVars>>

\* One iteration of the mapping loop; an overwrite drops the old reference.
MapBlock(t) ==
    LET x == KeyOf(t, k[t])
    IN
    /\ pc[t] = "w_map" /\ k[t] < N(t)
    /\ \/ file_to_master[x] # NULL /\ DropRef(t, file_to_master[x])
       \/ file_to_master[x] = NULL /\ UNCHANGED <<rel, hash_to_master, heapVars>>
    /\ file_to_master' = [file_to_master EXCEPT ![x] = plan[t][k[t]].info]
    /\ NextIter(t)
    /\ UNCHANGED <<file_to_sizes, allocVars, master, outerVars, lockVars, req,
                   lim, plan, rd>>

\* Mutants: the size always set to the end of the write; one block too many.
GrownSizeShrinks(t) == StartBlock(req[t]) + N(t)
GrownSizeOff(t)     == StartBlock(req[t]) + N(t) + 1

\* The logical size grows, never shrinks; then the lock is dropped.
GrownSize(t) ==
    LET end == StartBlock(req[t]) + N(t)
        old == file_to_sizes[req[t].path]
    IN IF old = NULL THEN end ELSE IF end > old THEN end ELSE old

Commit(t) ==
    /\ pc[t] = "w_map" /\ k[t] = N(t)
    /\ file_to_sizes' = [file_to_sizes EXCEPT ![req[t].path] = GrownSize(t)]
    /\ writer' = NULL
    /\ Goto(t, "w_release")
    /\ UNCHANGED <<hash_to_master, file_to_master, heapVars, allocVars, master,
                   outerVars, readers, freelist_mutex, frameVars, k>>

-----------------------------------------------------------------------------
(* The local list of released slots is put in front of the free list, after *)
(* the write lock was dropped.                                              *)

Released(t) == rel[t] \o free_block_list

ReleaseAfterWrite(t) ==
    /\ pc[t] = "w_release" /\ freelist_mutex = NULL
    /\ free_block_list' = Released(t)
    /\ Return(t)
    /\ UNCHANGED <<indexVars, heapVars, nextBlockIndex, master, outerVars,
                   lockVars>>

\* The end of remove_blocks_dedup_batch, or of the HIT half of the rollback.
ReleaseAndGo(t) ==
    /\ freelist_mutex = NULL
    /\ \/ pc[t] = "rm_release" /\ req[t].op = "unlink" /\ Goto(t, "u_size")
       \/ pc[t] = "rm_release" /\ req[t].op = "truncate" /\ Goto(t, "t_size")
       \/ pc[t] = "rb_release" /\ Goto(t, "rb_mutex")
    /\ free_block_list' = Released(t)
    /\ rel' = [rel EXCEPT ![t] = <<>>]
    /\ UNCHANGED <<indexVars, heapVars, nextBlockIndex, master, outerVars,
                   lockVars, req, k, lim, plan, rd>>

-----------------------------------------------------------------------------
(* rollback_allocations                                                    *)

RbHit(t) ==
    /\ pc[t] = "rb_hits" /\ k[t] < N(t)
    /\ \/ IsHit(t, k[t]) /\ DropRef(t, plan[t][k[t]].info)
       \/ ~IsHit(t, k[t]) /\ UNCHANGED <<rel, hash_to_master, heapVars>>
    /\ NextIter(t)
    /\ UNCHANGED <<file_to_master, file_to_sizes, allocVars, master, outerVars,
                   lockVars, req, lim, plan, rd>>

RbUnlock(t) ==
    /\ pc[t] = "rb_hits" /\ k[t] = N(t)
    /\ writer' = NULL
    /\ Goto(t, "rb_release")
    /\ SetK(t, 0)
    /\ UNCHANGED <<dataVars, readers, freelist_mutex, frameVars>>

RbMutex(t) ==
    /\ pc[t] = "rb_mutex" /\ freelist_mutex = NULL
    /\ freelist_mutex' = t
    /\ Goto(t, "rb_miss")
    /\ UNCHANGED <<dataVars, readers, writer, frameVars, k>>

\* Every MISS gives its slot back, drained or appended, and its MasterInfo.
RbMiss(t) ==
    /\ pc[t] = "rb_miss" /\ k[t] < N(t)
    /\ \/ /\ IsMiss(t, k[t])
          /\ free_block_list' = <<plan[t][k[t]].master_blk>> \o free_block_list
          /\ heap' = heap \ {plan[t][k[t]].info}
       \/ ~IsMiss(t, k[t]) /\ UNCHANGED <<free_block_list, heap>>
    /\ NextIter(t)
    /\ UNCHANGED <<indexVars, info, nextBlockIndex, master, outerVars, lockVars,
                   frameVars>>

\* Mutant: the rollback also restores nextBlockIndex.
RbDoneRestore(t) ==
    /\ pc[t] = "rb_miss" /\ k[t] = N(t)
    /\ freelist_mutex' = NULL
    /\ nextBlockIndex' = nextBlockIndex - Cardinality({i \in Idx : IsMiss(t, i)})
    /\ Return(t)
    /\ UNCHANGED <<indexVars, heapVars, free_block_list, master, outerVars, readers, writer>>

RbDone(t) ==
    /\ pc[t] = "rb_miss" /\ k[t] = N(t)
    /\ freelist_mutex' = NULL
    /\ Return(t)
    /\ UNCHANGED <<dataVars, readers, writer>>

-----------------------------------------------------------------------------
(* xmp_unlink, xmp_truncate and remove_blocks_dedup_batch                  *)

\* Mutant: the last block of the range is forgotten.
BeginRemovalShort(t, start, end, after) ==
    /\ k' = [k EXCEPT ![t] = start]
    /\ lim' = [lim EXCEPT ![t] = end - 1]
    /\ Goto(t, IF start >= end - 1 THEN after ELSE "rm_wrlock")

\* remove_blocks_dedup_batch(start, end) returns at once on an empty range.
BeginRemoval(t, start, end, after) ==
    /\ k' = [k EXCEPT ![t] = start]
    /\ lim' = [lim EXCEPT ![t] = end]
    /\ Goto(t, IF start >= end THEN after ELSE "rm_wrlock")

UnlinkReadSize(t) ==
    LET size == file_to_sizes[req[t].path]
    IN
    /\ pc[t] = "u_read" /\ RdLockFree
    /\ \/ size = NULL /\ Goto(t, "u_backend") /\ UNCHANGED <<k, lim>>
       \/ size # NULL /\ BeginRemoval(t, 0, size, "u_size")
    /\ UNCHANGED <<dataVars, lockVars, req, plan, rel, rd>>

\* Only a truncate below the logical size touches the index.  Whatever the
\* backend's truncate then returns, nothing here depends on it.
Shrinks(t) == LET size == file_to_sizes[req[t].path] IN size # NULL /\ N(t) < size

TruncateReadSize(t) ==
    /\ pc[t] = "t_read" /\ RdLockFree
    /\ \/ /\ Shrinks(t)
          /\ BeginRemoval(t, N(t), file_to_sizes[req[t].path], "t_size")
          /\ UNCHANGED <<req, plan, rel, rd>>
       \/ ~Shrinks(t) /\ Return(t)
    /\ UNCHANGED <<dataVars, lockVars>>

RemoveBlock(t) ==
    LET x == <<req[t].path, k[t]>>
    IN
    /\ pc[t] = "rm_loop" /\ k[t] < lim[t]
    /\ \/ file_to_master[x] # NULL /\ DropRef(t, file_to_master[x])
       \/ file_to_master[x] = NULL /\ UNCHANGED <<rel, hash_to_master, heapVars>>
    /\ file_to_master' = [file_to_master EXCEPT ![x] = NULL]
    /\ NextIter(t)
    /\ UNCHANGED <<file_to_sizes, allocVars, master, outerVars, lockVars, req,
                   lim, plan, rd>>

RemoveUnlock(t) ==
    /\ pc[t] = "rm_loop" /\ k[t] = lim[t]
    /\ writer' = NULL
    /\ Goto(t, "rm_release")
    /\ UNCHANGED <<dataVars, readers, freelist_mutex, frameVars, k>>

UnlinkDropSize(t) ==
    /\ pc[t] = "u_size" /\ WrLockFree
    /\ file_to_sizes' = [file_to_sizes EXCEPT ![req[t].path] = NULL]
    /\ Goto(t, "u_backend")
    /\ UNCHANGED <<hash_to_master, file_to_master, heapVars, allocVars, master,
                   outerVars, lockVars, frameVars, k>>

UnlinkBackend(t) ==
    /\ pc[t] = "u_backend"
    /\ names' = names \ {req[t].path}
    /\ Return(t)
    /\ UNCHANGED <<indexVars, heapVars, allocVars, master, accepted, lockVars>>

\* The size is looked up again: it may be gone, or already smaller.
TruncateSetSize(t) ==
    /\ pc[t] = "t_size" /\ WrLockFree
    /\ file_to_sizes' = IF Shrinks(t) THEN [file_to_sizes EXCEPT ![req[t].path] = N(t)]
                        ELSE file_to_sizes
    /\ Return(t)
    /\ UNCHANGED <<hash_to_master, file_to_master, heapVars, allocVars, master, outerVars,
                   lockVars>>

Create(t) ==
    /\ pc[t] = "c_open"
    /\ names' = names \cup {req[t].path}
    /\ Return(t)
    /\ UNCHANGED <<indexVars, heapVars, allocVars, master, accepted, lockVars>>

-----------------------------------------------------------------------------
(* read_dedup                                                              *)

\* Phase 1, under the read lock: the slots of the longest mapped prefix of the
\* range.  Only the slot number survives the unlock, not the MasterInfo.
Mapped(t, i) == i < N(t) /\ \A j \in 0 .. i : file_to_master[KeyOf(t, j)] # NULL

ReadLookup(t) ==
    /\ pc[t] = "r_lookup" /\ RdLockFree
    /\ \/ /\ Mapped(t, 0)
          /\ rd' = [rd EXCEPT ![t] = [i \in Idx |->
                 IF Mapped(t, i)
                 THEN [slot |-> info[file_to_master[KeyOf(t, i)]].masterBlockIndex,
                       data |-> NULL]
                 ELSE NoPair]]
          /\ Goto(t, "r_pread")
          /\ UNCHANGED <<req, k, lim, plan, rel>>
       \/ ~Mapped(t, 0) /\ Return(t)
    /\ UNCHANGED <<dataVars, lockVars>>

\* Phases 2-5, without any lock: blocks are read in ascending slot order.  The
\* blocks of one pread are separate steps: pread is not atomic against pwrite.
ToRead(t) == {i \in Idx : rd[t][i].slot # NULL}

ReadBlock(t) ==
    /\ pc[t] = "r_pread"
    /\ \E i \in ToRead(t) :
         /\ \A j \in ToRead(t) : rd[t][i].slot <= rd[t][j].slot
         /\ rd' = [rd EXCEPT ![t][i] = [slot |-> NULL, data |-> master[rd[t][i].slot]]]
    /\ UNCHANGED <<dataVars, lockVars, pc, req, k, lim, plan, rel>>

\* All blocks copied; or -EIO or -ENOMEM before that.
ReadReturn(t) ==
    /\ pc[t] = "r_pread"
    /\ Return(t)
    /\ UNCHANGED <<dataVars, lockVars>>

-----------------------------------------------------------------------------
(* The specification                                                       *)

\* A step of a handler that is running.
Step(t) ==
    \/ PlanLock(t) \/ PlanHit(t) \/ CountHit(t) \/ PlanMiss(t) \/ PlanUnlock(t)
    \/ Drain(t) \/ AppendSlots(t) \/ FlushRun(t) \/ FlushFail(t) \/ FlushDone(t)
    \/ WriteLock(t) \/ PublishSkip(t) \/ PublishOurs(t) \/ UseWinner(t)
    \/ PublishDone(t) \/ MapBlock(t) \/ Commit(t)
    \/ ReleaseAfterWrite(t) \/ ReleaseAndGo(t)
    \/ RbHit(t) \/ RbUnlock(t) \/ RbMutex(t) \/ RbMiss(t) \/ RbDone(t)
    \/ UnlinkReadSize(t) \/ TruncateReadSize(t) \/ RemoveBlock(t) \/ RemoveUnlock(t)
    \/ UnlinkDropSize(t) \/ UnlinkBackend(t) \/ TruncateSetSize(t) \/ Create(t)
    \/ ReadLookup(t) \/ ReadBlock(t) \/ ReadReturn(t)

\* The bound on requests is used up and every handler has returned.
Quiet ==
    /\ \A t \in Threads : pc[t] = "idle"
    /\ accepted = MaxRequests
    /\ UNCHANGED vars

Next == (\E t \in Threads : Dispatch(t) \/ Step(t)) \/ Quiet

Spec == Init /\ [][Next]_vars

\* A runnable thread is scheduled again; no handler waits on the outside world.
FairSpec == Spec /\ \A t \in Threads : WF_vars(Step(t))

=============================================================================
