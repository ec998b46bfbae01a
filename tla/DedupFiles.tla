----------------------------- MODULE DedupFiles -----------------------------
(***************************************************************************)
(* What a file shows: only the requests that name a block change it; when  *)
(* the kernel orders the modifications of one file, its size covers its    *)
(* blocks and a removed path has left nothing behind; a read that holds no *)
(* lock meets no foreign bytes; the master file grows only past slots      *)
(* released after the free list was drained; and the whole implements the  *)
(* flat file system.                                                       *)
(***************************************************************************)
EXTENDS DedupProofs, DedupHistory, DedupRefinement

\* Byte offsets and sizes are off_t and size_t, and a write starts at a block.
\* (An unaligned offset is rounded down to its block, dedup.c:477.)
AlignedWrites ==
    \A r \in Requests : /\ r.offset \in Nat /\ r.size \in Nat
                        /\ r.op = "write" => Aligned(r.offset)

-----------------------------------------------------------------------------
(* The inductive invariant *)

\* Each handler runs its own kind of request.
OpOK(t) ==
    /\ pc[t] = "idle" => req[t] = NULL
    /\ pc[t] \in PlannedPCs => req[t].op = "write"
    /\ pc[t] \in {"u_read", "u_size", "u_backend"} => req[t].op = "unlink"
    /\ pc[t] \in {"t_read", "t_size"} => req[t].op = "truncate"
    /\ pc[t] \in {"rm_wrlock", "rm_loop", "rm_release"} => req[t].op \in {"unlink", "truncate"}
    /\ pc[t] \in {"r_lookup", "r_pread"} => req[t].op = "read"
    /\ pc[t] = "c_open" => req[t].op = "create"
    /\ pc[t] # "idle" /\ req[t].op = "truncate" => Aligned(req[t].size)
    /\ pc[t] \in {"rm_wrlock", "rm_loop"} /\ req[t].op = "truncate" => N(t) <= k[t]

OpsOK == \A t \in Threads : OpOK(t)

\* A handler that may modify the file of its request.
Modifies(t) == req[t] # NULL /\ req[t].op # "read"

\* The inode lock: two handlers that modify files work on different ones.
Exclusive ==
    \A t, u \in Threads :
        t # u /\ Modifies(t) /\ Modifies(u) => req[t].path # req[u].path

Shows(f, b)   == file_to_master[<<f, b>>] # NULL
Covered(f, b) == file_to_sizes[f] # NULL /\ b < file_to_sizes[f]

\* Block b of f has just been mapped by a batch that has not set the size yet.
Mapping(t, f, b) ==
    /\ pc[t] = "w_map" /\ req[t].path = f
    /\ StartBlock(req[t]) <= b /\ b < StartBlock(req[t]) + k[t]

CoverOK ==
    \A f \in Paths, b \in Blocks : Shows(f, b) =>
        Covered(f, b) \/ \E t \in Threads : Mapping(t, f, b)

\* What a removal leaves of its file, and what it still has to remove.
Survives(t, b)  == req[t].op = "truncate" /\ b < N(t)
Remaining(t, b) == pc[t] \in {"rm_wrlock", "rm_loop"} /\ k[t] <= b /\ b < lim[t]
RemovalPCs == {"rm_wrlock", "rm_loop", "rm_release", "u_size", "t_size", "u_backend"}

RemovalOK(t) ==
    /\ pc[t] \in RemovalPCs =>
         \A b \in Blocks : Shows(req[t].path, b) => Survives(t, b) \/ Remaining(t, b)
    /\ pc[t] = "u_backend" => file_to_sizes[req[t].path] = NULL

RemovalsOK == \A t \in Threads : RemovalOK(t)

\* A file stays in the directory while a handler modifies it.
NamesOK == \A t \in Threads : Modifies(t) /\ req[t].op # "create" => req[t].path \in names

FileInv == /\ TypeInv /\ LockDiscipline /\ OpsOK
           /\ Exclusive /\ CoverOK /\ RemovalsOK /\ NamesOK

-----------------------------------------------------------------------------
(* What the steps change                                                   *)

\* A handler keeps its request until it returns.
LEMMA ReqStep ==
    ASSUME TypeOK, NEW t \in Threads, Step(t)
    PROVE  req'[t] = req[t] \/ (req'[t] = NULL /\ pc'[t] = "idle")
<1>a. pc \in [Threads -> PCs] /\ req \in [Threads -> Requests \cup {NULL}]
  BY DEF TypeOK, ControlType
<1> USE <1>a DEF frameVars, Return, Goto
<1>2. CASE PlanLock(t) \/ PlanHit(t) \/ CountHit(t) \/ PlanMiss(t) \/ PlanUnlock(t)
  BY <1>2 DEF PlanLock, PlanHit, CountHit, PlanMiss, PlanUnlock
<1>3. CASE Drain(t) \/ AppendSlots(t) \/ FlushRun(t) \/ FlushFail(t) \/ FlushDone(t)
  BY SMTT(30), <1>3 DEF Drain, AppendSlots, FlushRun, FlushRunAt, FlushFail, FlushFailAt, FlushDone
<1>4. CASE WriteLock(t) \/ PublishSkip(t) \/ PublishOurs(t) \/ UseWinner(t) \/ PublishDone(t)
  BY <1>4 DEF WriteLock, PublishSkip, PublishOurs, UseWinner, PublishDone
<1>5. CASE MapBlock(t) \/ Commit(t) \/ ReleaseAfterWrite(t) \/ ReleaseAndGo(t)
  BY <1>5 DEF MapBlock, Commit, ReleaseAfterWrite, ReleaseAndGo
<1>6. CASE RbHit(t) \/ RbUnlock(t) \/ RbMutex(t) \/ RbMiss(t) \/ RbDone(t)
  BY <1>6 DEF RbHit, RbUnlock, RbMutex, RbMiss, RbDone
<1>7. CASE UnlinkReadSize(t) \/ TruncateReadSize(t) \/ RemoveBlock(t) \/ RemoveUnlock(t)
  BY <1>7 DEF UnlinkReadSize, TruncateReadSize, RemoveBlock, RemoveUnlock
<1>8. CASE UnlinkDropSize(t) \/ UnlinkBackend(t) \/ TruncateSetSize(t) \/ Create(t)
  BY <1>8 DEF UnlinkDropSize, UnlinkBackend, TruncateSetSize, Create
<1>9. CASE ReadLookup(t) \/ ReadBlock(t) \/ ReadReturn(t)
  BY <1>9 DEF ReadLookup, ReadBlock, ReadReturn
<1> QED
  BY <1>2, <1>3, <1>4, <1>5, <1>6, <1>7, <1>8, <1>9 DEF Step

-----------------------------------------------------------------------------
(* Each handler runs its own kind of request                               *)

LEMMA EntryOp ==
    ASSUME NEW r \in Requests
    PROVE  /\ Entry(r) = "w_rdlock" => r.op = "write"
           /\ Entry(r) = "u_read" => r.op = "unlink"
           /\ Entry(r) = "t_read" => r.op = "truncate"
           /\ Entry(r) # "idle" /\ r.op = "truncate" => Aligned(r.size)
           /\ Entry(r) = "r_lookup" => r.op = "read"
           /\ Entry(r) = "c_open" => r.op = "create"
  BY RequestsAssumption DEF Entry, WriteEntry, ReadEntry, TruncateEntry, Ops

LEMMA OpsStep ==
    ASSUME TypeInv, OpsOK, NEW t \in Threads, Dispatch(t) \/ Step(t)
    PROVE  OpsOK'
<1>1. ASSUME NEW u \in Threads, u # t PROVE OpOK(u)'
  <2>1. SameFrame(u) /\ OpOK(u)
    BY <1>1, OthersUnchanged DEF TypeInv, OpsOK
  <2> QED  BY <2>1 DEF SameFrame, OpOK, N
<1>a. /\ pc \in [Threads -> PCs] /\ req \in [Threads -> Requests \cup {NULL}]
      /\ k \in [Threads -> 0 .. MaxBlocks] /\ OpOK(t) /\ MaxBlocks \in Nat
  BY BoundsAssumption DEF TypeInv, TypeOK, ControlType, OpsOK
<1>b. pc[t] # "idle" => N(t) \in Nat /\ req[t] \in Requests
  BY RequestFacts, BoundsAssumption DEF TypeInv, FramesOK, FrameOK, N
<1>c. pc[t] \in WritePCs => req[t].op = "write"
  BY DEF TypeInv, FramesOK, FrameOK
<1>2. OpOK(t)'
  <2>1. CASE Dispatch(t)
    <3>1. PICK r \in Requests : /\ pc' = [pc EXCEPT ![t] = Entry(r)]
                                /\ req' = [req EXCEPT ![t] = IF Entry(r) = "idle" THEN NULL
                                                             ELSE r]
      BY <2>1 DEF Dispatch, Goto
    <3>2. pc'[t] = Entry(r) /\ req'[t] = IF Entry(r) = "idle" THEN NULL ELSE r
      BY <1>a, <3>1
    <3> QED  BY <3>2, EntryRange, EntryOp DEF OpOK, PlannedPCs, WritePCs
  <2> USE <1>a DEF OpOK, PlannedPCs, WritePCs, Goto, SetK, NextIter, frameVars, Return, N
  <2>2. CASE PlanLock(t) \/ PlanHit(t) \/ CountHit(t) \/ PlanMiss(t) \/ PlanUnlock(t)
    BY <1>c, <2>2 DEF PlanLock, PlanHit, CountHit, PlanMiss, PlanUnlock
  <2>3. CASE Drain(t) \/ AppendSlots(t) \/ FlushRun(t) \/ FlushFail(t) \/ FlushDone(t)
    BY <2>3 DEF Drain, AppendSlots, FlushRun, FlushRunAt, FlushFail, FlushFailAt, FlushDone
  <2>4. CASE WriteLock(t)
    BY <2>4 DEF WriteLock
  <2>5. CASE PublishSkip(t) \/ PublishOurs(t) \/ PublishDone(t)
    BY <2>5 DEF PublishSkip, PublishOurs, PublishDone
  <2>6. CASE UseWinner(t)
    BY <2>6 DEF UseWinner
  <2>7. CASE MapBlock(t) \/ Commit(t)
    BY <2>7 DEF MapBlock, Commit
  <2>8. CASE ReleaseAfterWrite(t) \/ ReleaseAndGo(t)
    BY <2>8 DEF ReleaseAfterWrite, ReleaseAndGo
  <2>9. CASE RbHit(t) \/ RbUnlock(t) \/ RbMutex(t) \/ RbMiss(t) \/ RbDone(t)
    BY <2>9 DEF RbHit, RbUnlock, RbMutex, RbMiss, RbDone
  <2>10. CASE UnlinkReadSize(t)
    BY <2>10 DEF UnlinkReadSize, BeginRemoval
  <2>11. CASE TruncateReadSize(t)
    BY <1>b, <2>11 DEF TruncateReadSize, BeginRemoval
  <2>12. CASE RemoveBlock(t)
    BY <1>b, <2>12 DEF RemoveBlock
  <2>13. CASE RemoveUnlock(t)
    BY <2>13 DEF RemoveUnlock
  <2>14. CASE UnlinkDropSize(t) \/ UnlinkBackend(t) \/ TruncateSetSize(t) \/ Create(t)
    BY <2>14 DEF UnlinkDropSize, UnlinkBackend, TruncateSetSize, Create
  <2>15. CASE ReadLookup(t) \/ ReadBlock(t) \/ ReadReturn(t)
    BY <2>15 DEF ReadLookup, ReadBlock, ReadReturn
  <2> HIDE DEF OpOK
  <2> QED
    BY <2>1, <2>2, <2>3, <2>4, <2>5, <2>6, <2>7, <2>8, <2>9, <2>10, <2>11, <2>12, <2>13,
       <2>14, <2>15 DEF Step
<1> QED  BY <1>1, <1>2 DEF OpsOK

-----------------------------------------------------------------------------
(* Only the requests that name a block change what it shows                *)

LEMMA BlockBytes ==
    ASSUME NEW n \in Nat
    PROVE  /\ n = BLOCK_SIZE * (n \div BLOCK_SIZE) + (n % BLOCK_SIZE)
           /\ n % BLOCK_SIZE >= 0 /\ n \div BLOCK_SIZE \in Nat
  BY BoundsAssumption

LEMMA BlockOrder ==
    ASSUME NEW m \in Nat, NEW n \in Nat
    PROVE  /\ m * BLOCK_SIZE \in Nat /\ BLOCK_SIZE * m = m * BLOCK_SIZE
           /\ (m + n) * BLOCK_SIZE = m * BLOCK_SIZE + n * BLOCK_SIZE
           /\ m <= n => m * BLOCK_SIZE <= n * BLOCK_SIZE
  BY BoundsAssumption

LEMMA WriteInRange ==
    ASSUME AlignedWrites, NEW r \in Requests, r.op = "write",
           NEW i \in 0 .. NumBlocks(r) - 1
    PROVE  InRange(r, StartBlock(r) + i)
<1> DEFINE s == StartBlock(r)
           n == NumBlocks(r)
           B == BLOCK_SIZE
<1>1. /\ r.offset \in Nat /\ r.size \in Nat /\ r.offset % B = 0
      /\ s \in Nat /\ n \in Nat /\ i \in Nat /\ i + 1 <= n
  BY RequestsAssumption DEF AlignedWrites, Aligned
<1>2. r.offset = B * s + (r.offset % B) /\ r.size = B * n + (r.size % B) /\ r.size % B >= 0
  BY <1>1, BlockBytes DEF StartBlock, NumBlocks
<1> HIDE DEF s, n, B
<1>3. /\ (s + i) * B = s * B + i * B /\ ((s + i) + 1) * B = s * B + (i + 1) * B
      /\ B * s = s * B /\ B * n = n * B /\ (i + 1) * B <= n * B
      /\ i * B \in Nat /\ s * B \in Nat /\ n * B \in Nat /\ (i + 1) * B \in Nat
  <2>1. (s + i) * B = s * B + i * B /\ i * B \in Nat /\ s * B \in Nat /\ n * B \in Nat
    BY <1>1, BlockOrder DEF B
  <2>2. i + 1 \in Nat /\ (s + i) + 1 = s + (i + 1)
    BY <1>1
  <2>3. (s + (i + 1)) * B = s * B + (i + 1) * B /\ (i + 1) * B \in Nat
    BY <1>1, <2>2, BlockOrder DEF B
  <2>4. B * s = s * B /\ B * n = n * B /\ (i + 1) * B <= n * B
    BY <1>1, <2>2, BlockOrder DEF B
  <2> QED  BY <2>1, <2>2, <2>3, <2>4
<1>4. r.offset = s * B
  BY <1>1, <1>2, <1>3
<1>5. r.size % B \in Int
  BY <1>1, BoundsAssumption DEF B
<1>6. n * B <= r.size
  BY <1>1, <1>2, <1>3, <1>5
<1>7. r.offset <= (s + i) * B /\ ((s + i) + 1) * B <= r.offset + r.size
  BY <1>1, <1>3, <1>4, <1>6
<1> QED  BY <1>7 DEF InRange, s, B

LEMMA TruncateInRange ==
    ASSUME AlignedWrites, NEW r \in Requests, r.op = "truncate", Aligned(r.size),
           NEW b \in Nat, NumBlocks(r) <= b
    PROVE  InRange(r, b)
<1>1. /\ r.size \in Nat /\ NumBlocks(r) \in Nat
      /\ r.size = BLOCK_SIZE * NumBlocks(r) + (r.size % BLOCK_SIZE)
      /\ r.size % BLOCK_SIZE = 0
  BY RequestsAssumption, BlockBytes DEF AlignedWrites, NumBlocks, Aligned
<1>2. /\ NumBlocks(r) * BLOCK_SIZE <= b * BLOCK_SIZE
      /\ BLOCK_SIZE * NumBlocks(r) = NumBlocks(r) * BLOCK_SIZE
      /\ b * BLOCK_SIZE \in Nat /\ NumBlocks(r) * BLOCK_SIZE \in Nat
  BY <1>1, BlockOrder
<1> QED  BY <1>1, <1>2 DEF InRange

LEMMA ViewStep ==
    ASSUME RefInv, OpsOK, AlignedWrites, NEW t \in Threads, Dispatch(t) \/ Step(t),
           NEW x \in Key, View(x)' # View(x)
    PROVE  writer # NULL /\ req[writer].path = x[1] /\ InRange(req[writer], x[2])
<1>1. file_to_master'[x] # file_to_master[x]
  <2> SUFFICES ASSUME file_to_master'[x] = file_to_master[x] PROVE FALSE
    OBVIOUS
  <2>1. file_to_master[x] = NULL \/ file_to_master[x] \in heap
    BY DEF RefInv, TablesOK
  <2> QED  BY <2>1, HashKept DEF View
<1>2. MapBlock(t) \/ RemoveBlock(t)
  BY <1>1, FileChanges
<1>3. writer = t /\ t # NULL
  <2>1. pc[t] \in WriteLocked
    BY <1>2 DEF MapBlock, RemoveBlock, WriteLocked
  <2> QED  BY <2>1, NullAssumption DEF RefInv, LockDiscipline
<1>4. CASE MapBlock(t)
  <2>1. pc[t] = "w_map" /\ k[t] < N(t) /\ k[t] \in Nat
    BY <1>4, IterFacts DEF MapBlock, RefInv, WritePCs, Idx
  <2>2. x = KeyOf(t, k[t])
    <3>1. file_to_master' = [file_to_master EXCEPT ![KeyOf(t, k[t])] = plan[t][k[t]].info]
      BY <1>4 DEF MapBlock
    <3> QED  BY <1>1, <3>1, HeapFacts DEF RefInv
  <2>3. req[t] \in Requests /\ req[t].op = "write"
    BY <2>1 DEF RefInv, TypeInv, FramesOK, FrameOK, WritePCs
  <2>4. k[t] \in 0 .. NumBlocks(req[t]) - 1
    BY <2>1, <2>3, RequestsAssumption DEF N
  <2>5. x[1] = req[t].path /\ x[2] = StartBlock(req[t]) + k[t]
    BY <2>2 DEF KeyOf
  <2> QED  BY <1>3, <2>3, <2>4, <2>5, WriteInRange
<1>5. CASE RemoveBlock(t)
  <2>1. pc[t] = "rm_loop" /\ k[t] \in Nat
    BY <1>5, BoundsAssumption DEF RemoveBlock, RefInv, TypeInv, TypeOK, ControlType
  <2>2. x = <<req[t].path, k[t]>>
    BY <1>1, <1>5, HeapFacts DEF RemoveBlock, RefInv
  <2>3. req[t] \in Requests
    BY <2>1 DEF RefInv, TypeInv, FramesOK, FrameOK
  <2>4. /\ req[t].op \in {"unlink", "truncate"}
        /\ req[t].op = "truncate" => Aligned(req[t].size) /\ NumBlocks(req[t]) <= k[t]
    BY <2>1 DEF OpsOK, OpOK, N
  <2>5. InRange(req[t], k[t])
    <3>1. CASE req[t].op = "unlink"
      BY <3>1 DEF InRange
    <3>2. CASE req[t].op = "truncate"
      BY <2>1, <2>3, <2>4, <3>2, TruncateInRange
    <3> QED  BY <2>4, <3>1, <3>2
  <2> QED  BY <1>3, <2>2, <2>5
<1> QED  BY <1>2, <1>4, <1>5

LEMMA OpsInit == Fresh => OpsOK
  BY DEF Fresh, FreshInit, OpsOK, OpOK, PlannedPCs, WritePCs

LEMMA OpsAlways == Spec => []OpsOK
<1>1. TypeInv /\ OpsOK /\ [Next]_vars => OpsOK'
  <2> SUFFICES ASSUME TypeInv, OpsOK, [Next]_vars PROVE OpsOK'
    OBVIOUS
  <2>1. CASE UNCHANGED vars
    BY <2>1 DEF vars, frameVars, OpsOK, OpOK, N
  <2>2. ASSUME NEW t \in Threads, Dispatch(t) \/ Step(t) PROVE OpsOK'
    BY <2>2, OpsStep
  <2> QED  BY <2>1, <2>2 DEF Next, Quiet
<1> QED  BY InitFresh, TypeInvInit, TypeInvStep, OpsInit, <1>1, PTL DEF Spec

\* Writes, removals and rollbacks on other files, and the freeing and reuse of
\* shared blocks, never change what a file shows; a request changes only the blocks
\* inside its range, under the write lock (dedup.c:230-248, 595-668).
THEOREM OnlyInRange ==
    ASSUME RefcountsFit, DistinctBatches, AlignedWrites
    PROVE  Spec => ChangesInRange
<1> DEFINE Confined == \A x \in Key : View(x)' # View(x) =>
                           /\ writer # NULL
                           /\ req[writer].path = x[1]
                           /\ InRange(req[writer], x[2])
<1>1. RefInv /\ OpsOK /\ [Next]_vars => [Confined]_vars
  <2> SUFFICES ASSUME RefInv, OpsOK, [Next]_vars PROVE UNCHANGED vars \/ Confined
    OBVIOUS
  <2>1. ASSUME NEW t \in Threads, Dispatch(t) \/ Step(t) PROVE Confined
    BY <2>1, ViewStep
  <2> QED  BY <2>1 DEF Next, Quiet
<1> QED  BY RefAlways, OpsAlways, <1>1, PTL DEF Spec, ChangesInRange

-----------------------------------------------------------------------------
(* Sizes, blocks and names, when the kernel orders the modifications of    *)
(* one file                                                                *)

LEMMA ExclusiveStep ==
    ASSUME SerializePaths, FileInv, NEW t \in Threads, Dispatch(t) \/ Step(t)
    PROVE  Exclusive' /\ (Modifies(t)' => \A u \in Threads \ {t} :
                              Modifies(u) => req[u].path # req'[t].path)
<1>a. \A u \in Threads \ {t} : req'[u] = req[u]
  BY OthersUnchanged DEF FileInv, TypeInv, SameFrame
<1>1. CASE Dispatch(t)
  <2>1. PICK r \in Requests : MayDispatch(r) /\ req'[t] \in {NULL, r}
    BY <1>1 DEF Dispatch, FileInv, TypeInv, TypeOK, ControlType
  <2>2. Modifies(t)' => \A u \in Threads \ {t} : Modifies(u) => req[u].path # req'[t].path
    BY <2>1 DEF Modifies, MayDispatch
  <2> QED  BY <1>a, <2>2 DEF FileInv, Exclusive, Modifies
<1>2. CASE Step(t)
  <2>1. req'[t] = req[t] \/ req'[t] = NULL
    BY <1>2, ReqStep DEF FileInv, TypeInv
  <2> QED  BY <1>a, <2>1 DEF FileInv, Exclusive, Modifies
<1> QED  BY <1>1, <1>2

LEMMA NamesStep ==
    ASSUME SerializePaths, FileInv, NEW t \in Threads, Dispatch(t) \/ Step(t)
    PROVE  NamesOK'
<1>a. \A u \in Threads \ {t} : req'[u] = req[u]
  BY OthersUnchanged DEF FileInv, TypeInv, SameFrame
<1> DEFINE Named(u) == Modifies(u) /\ req[u].op # "create" => req[u].path \in names
<1>b. \A u \in Threads : Named(u)
  BY DEF FileInv, NamesOK
<1>1. CASE Dispatch(t)
  <2>1. PICK r \in Requests : MayDispatch(r) /\ req'[t] \in {NULL, r}
    BY <1>1 DEF Dispatch, FileInv, TypeInv, TypeOK, ControlType
  <2>2. names' = names
    BY <1>1 DEF Dispatch
  <2> QED  BY <1>a, <1>b, <2>1, <2>2 DEF NamesOK, Modifies, MayDispatch
<1>2. CASE UnlinkBackend(t)
  <2>1. /\ req'[t] = NULL /\ names' = names \ {req[t].path}
        /\ pc[t] = "u_backend"
    BY <1>2 DEF UnlinkBackend, Return, FileInv, TypeInv, TypeOK, ControlType
  <2>2. Modifies(t)
    BY <2>1, RequestFacts DEF FileInv, OpsOK, OpOK, Modifies, TypeInv, FramesOK, FrameOK
  <2>3. \A u \in Threads \ {t} : Modifies(u) => req[u].path # req[t].path
    BY <2>2 DEF FileInv, Exclusive
  <2> QED  BY <1>a, <1>b, <2>1, <2>3 DEF NamesOK, Modifies
<1>3. CASE Create(t)
  BY <1>3, <1>a, <1>b DEF Create, Return, FileInv, TypeInv, TypeOK, ControlType, NamesOK,
     Modifies
<1>4. CASE Step(t) /\ ~UnlinkBackend(t) /\ ~Create(t)
  <2>1. names' = names /\ (req'[t] = req[t] \/ req'[t] = NULL)
    BY <1>4, FileChanges, ReqStep DEF FileInv, TypeInv
  <2> QED  BY <1>a, <1>b, <2>1 DEF NamesOK, Modifies
<1> QED  BY <1>1, <1>2, <1>3, <1>4

\* A handler that changes the blocks or the size of a file changes its own file.
LEMMA OwnFile ==
    ASSUME FileInv, NEW t \in Threads, Dispatch(t) \/ Step(t)
    PROVE  /\ \A x \in Key : file_to_master'[x] # file_to_master[x] =>
                  x[1] = req[t].path /\ Modifies(t)
           /\ \A f \in Paths : file_to_sizes'[f] # file_to_sizes[f] =>
                  f = req[t].path /\ Modifies(t)
<1>t. /\ file_to_master \in [Key -> Infos \cup {NULL}]
      /\ file_to_sizes \in [Paths -> (0 .. MaxBlocks) \cup {NULL}]
  BY DEF FileInv, TypeInv, TypeOK, IndexType
<1>m. pc[t] \in {"w_map", "rm_loop", "u_size", "t_size"} => Modifies(t)
  <2>1. pc[t] # "idle" => req[t] # NULL
    BY RequestFacts DEF FileInv, TypeInv, FramesOK, FrameOK
  <2> QED  BY <2>1 DEF FileInv, OpsOK, OpOK, Modifies, PlannedPCs, WritePCs
<1>1. ASSUME NEW x \in Key, file_to_master'[x] # file_to_master[x]
      PROVE  x[1] = req[t].path /\ Modifies(t)
  <2>1. CASE MapBlock(t)
    <3>1. x = KeyOf(t, k[t])
      BY <1>1, <1>t, <2>1 DEF MapBlock
    <3> QED  BY <1>m, <2>1, <3>1 DEF KeyOf, MapBlock
  <2>2. CASE RemoveBlock(t)
    BY <1>1, <1>t, <1>m, <2>2 DEF RemoveBlock
  <2> QED  BY <1>1, <2>1, <2>2, FileChanges
<1>2. ASSUME NEW f \in Paths, file_to_sizes'[f] # file_to_sizes[f]
      PROVE  f = req[t].path /\ Modifies(t)
  <2>1. CASE Commit(t) \/ UnlinkDropSize(t)
    BY <1>2, <1>t, <1>m, <2>1 DEF Commit, UnlinkDropSize
  <2>2. CASE TruncateSetSize(t)
    BY <1>2, <1>t, <1>m, <2>2 DEF TruncateSetSize
  <2> QED  BY <1>2, <2>1, <2>2, FileChanges
<1> QED  BY <1>1, <1>2

LEMMA LeavesNothingStep ==
    ASSUME SerializePaths, FileInv, UnlinkLeavesNothing,
           NEW t \in Threads, Dispatch(t) \/ Step(t)
    PROVE  UnlinkLeavesNothing'
<1>1. ASSUME NEW f \in Paths \ names'
      PROVE  /\ file_to_sizes'[f] = NULL
             /\ \A b \in Blocks : file_to_master'[<<f, b>>] = NULL
  <2>1. CASE f \notin names
    <3>1. /\ file_to_sizes[f] = NULL
          /\ \A b \in Blocks : file_to_master[<<f, b>>] = NULL
      BY <1>1, <2>1 DEF UnlinkLeavesNothing
    <3>2. CASE Modifies(t) /\ req[t].op # "create"
      <4>1. req[t].path # f
        BY <2>1, <3>2 DEF FileInv, NamesOK
      <4> QED  BY <1>1, <3>1, <4>1, OwnFile DEF Key
    <3>3. CASE ~(Modifies(t) /\ req[t].op # "create")
      <4>1. pc[t] \notin {"w_map", "rm_loop", "u_size", "t_size"}
        <5>1. pc[t] # "idle" => req[t] # NULL
          BY RequestFacts DEF FileInv, TypeInv, FramesOK, FrameOK
        <5> QED  BY <3>3, <5>1 DEF FileInv, OpsOK, OpOK, Modifies, PlannedPCs, WritePCs
      <4>2. file_to_master' = file_to_master /\ file_to_sizes' = file_to_sizes
        BY <4>1, FileChanges DEF MapBlock, RemoveBlock, Commit, UnlinkDropSize, TruncateSetSize
      <4> QED  BY <3>1, <4>2
    <3> QED  BY <3>2, <3>3
  <2>2. CASE f \in names
    <3>1. UnlinkBackend(t) /\ f = req[t].path
      <4>1. UnlinkBackend(t) \/ Create(t)
        BY <1>1, <2>2, FileChanges
      <4> QED  BY <1>1, <2>2, <4>1 DEF UnlinkBackend, Create
    <3>2. pc[t] = "u_backend" /\ req[t].op = "unlink"
      BY <3>1 DEF UnlinkBackend, FileInv, OpsOK, OpOK
    <3>3. file_to_master' = file_to_master /\ file_to_sizes' = file_to_sizes
      BY <3>1 DEF UnlinkBackend, indexVars
    <3> QED
      BY <3>1, <3>2, <3>3 DEF FileInv, RemovalsOK, RemovalOK, RemovalPCs, Shows, Survives,
         Remaining
  <2> QED  BY <2>1, <2>2
<1> QED  BY <1>1 DEF UnlinkLeavesNothing

\* The handlers at the locations of a removal, and of the mapping loop.
LEMMA RemovalActions ==
    ASSUME TypeOK, NEW t \in Threads, Dispatch(t) \/ Step(t)
    PROVE  /\ pc'[t] \in RemovalPCs =>
                \/ UnlinkReadSize(t) \/ TruncateReadSize(t) \/ WriteLock(t) \/ RemoveBlock(t)
                \/ RemoveUnlock(t) \/ ReleaseAndGo(t) \/ UnlinkDropSize(t)
           /\ pc[t] = "w_map" => MapBlock(t) \/ Commit(t)
<1>a. pc \in [Threads -> PCs]
  BY DEF TypeOK, ControlType
<1> USE <1>a DEF RemovalPCs, Goto, NextIter, Return
<1>1. CASE Dispatch(t)
  BY <1>1, EntryRange DEF Dispatch
<1>2. CASE PlanLock(t) \/ PlanHit(t) \/ CountHit(t) \/ PlanMiss(t) \/ PlanUnlock(t)
  BY <1>2 DEF PlanLock, PlanHit, CountHit, PlanMiss, PlanUnlock
<1>3. CASE Drain(t) \/ AppendSlots(t) \/ FlushRun(t) \/ FlushFail(t) \/ FlushDone(t)
  BY SMTT(30), <1>3 DEF Drain, AppendSlots, FlushRun, FlushRunAt, FlushFail, FlushFailAt, FlushDone
<1>4. CASE PublishSkip(t) \/ PublishOurs(t) \/ PublishDone(t)
  BY <1>4 DEF PublishSkip, PublishOurs, PublishDone
<1>5. CASE UseWinner(t)
  BY <1>5 DEF UseWinner
<1>6. CASE MapBlock(t) \/ Commit(t) \/ ReleaseAfterWrite(t)
  BY <1>6 DEF MapBlock, Commit, ReleaseAfterWrite
<1>7. CASE RbHit(t) \/ RbUnlock(t) \/ RbMutex(t) \/ RbMiss(t) \/ RbDone(t)
  BY <1>7 DEF RbHit, RbUnlock, RbMutex, RbMiss, RbDone
<1>8. CASE UnlinkBackend(t) \/ TruncateSetSize(t) \/ Create(t)
  BY <1>8 DEF UnlinkBackend, TruncateSetSize, Create
<1>9. CASE ReadLookup(t) \/ ReadBlock(t) \/ ReadReturn(t)
  BY <1>9 DEF ReadLookup, ReadBlock, ReadReturn
<1>10. CASE UnlinkReadSize(t) \/ TruncateReadSize(t) \/ WriteLock(t) \/ RemoveBlock(t)
  BY <1>10 DEF UnlinkReadSize, TruncateReadSize, WriteLock, RemoveBlock
<1>11. CASE RemoveUnlock(t) \/ ReleaseAndGo(t) \/ UnlinkDropSize(t)
  BY <1>11 DEF RemoveUnlock, ReleaseAndGo, UnlinkDropSize
<1> QED
  BY <1>1, <1>2, <1>3, <1>4, <1>5, <1>6, <1>7, <1>8, <1>9, <1>10, <1>11 DEF Step

\* Without a batch of its own under way, a file is covered by its size.
LEMMA CoveredNow ==
    ASSUME FileInv, NEW t \in Threads, Modifies(t), pc[t] # "w_map",
           NEW f, f = req[t].path, NEW b \in Blocks, Shows(f, b)
    PROVE  Covered(f, b)
<1>1. f \in Paths
  BY RequestFacts DEF FileInv, TypeInv, TypeOK, ControlType, Modifies
<1>2. ASSUME NEW u \in Threads, Mapping(u, f, b) PROVE FALSE
  <2>1. u # t /\ req[u].path = f
    BY <1>2 DEF Mapping
  <2>2. Modifies(u)
    BY <1>2, RequestFacts DEF Mapping, FileInv, OpsOK, OpOK, Modifies, PlannedPCs, WritePCs,
       TypeInv, FramesOK, FrameOK
  <2> QED  BY <2>1, <2>2 DEF FileInv, Exclusive
<1> QED  BY <1>1, <1>2 DEF FileInv, CoverOK

LEMMA RemovalsStep ==
    ASSUME SerializePaths, FileInv, NEW t \in Threads, Dispatch(t) \/ Step(t)
    PROVE  RemovalsOK'
<1>k. \A u \in Threads : pc[u] \in RemovalPCs \cup {"u_read", "t_read"} =>
           /\ Modifies(u) /\ req[u] \in Requests /\ req[u].path \in Paths
           /\ N(u) \in Nat
  BY RequestFacts, BoundsAssumption DEF FileInv, OpsOK, OpOK, Modifies, TypeInv, FramesOK,
     FrameOK, RemovalPCs, N
<1>1. ASSUME NEW u \in Threads, u # t PROVE RemovalOK(u)'
  <2>1. SameFrame(u) /\ RemovalOK(u)
    BY <1>1, OthersUnchanged DEF FileInv, TypeInv, RemovalsOK
  <2>2. CASE pc[u] \in RemovalPCs
    <3>f. PICK f : f = req[u].path
      OBVIOUS
    <3>1. f \in Paths /\ Modifies(u)
      BY <1>k, <2>2, <3>f
    <3>2. Modifies(t) => req[t].path # f
      BY <1>1, <3>1, <3>f DEF FileInv, Exclusive
    <3>3. file_to_sizes'[f] = file_to_sizes[f]
      BY <3>1, <3>2, OwnFile
    <3>4. \A b \in Blocks : file_to_master'[<<f, b>>] = file_to_master[<<f, b>>]
      BY <3>1, <3>2, OwnFile DEF Key
    <3> QED
      BY <2>1, <3>f, <3>3, <3>4 DEF SameFrame, RemovalOK, Shows, Survives, Remaining, N
  <2>3. CASE pc[u] \notin RemovalPCs
    BY <2>1, <2>3 DEF SameFrame, RemovalOK, RemovalPCs
  <2> QED  BY <2>2, <2>3
<1>t. /\ pc \in [Threads -> PCs] /\ k \in [Threads -> 0 .. MaxBlocks]
      /\ lim \in [Threads -> 0 .. MaxBlocks] /\ MaxBlocks \in Nat /\ Blocks \subseteq Nat
      /\ file_to_master \in [Key -> Infos \cup {NULL}]
      /\ file_to_sizes \in [Paths -> (0 .. MaxBlocks) \cup {NULL}]
  BY BoundsAssumption DEF FileInv, TypeInv, TypeOK, ControlType, IndexType, Blocks
<1>2. RemovalOK(t)'
  <2>0. RemovalOK(t)
    BY DEF FileInv, RemovalsOK
  <2>1. CASE pc'[t] \notin RemovalPCs
    BY <2>1 DEF RemovalOK, RemovalPCs
  <2>f. PICK f : f = req[t].path
    OBVIOUS
  <2>2. CASE UnlinkReadSize(t)
    <3>1. /\ pc[t] = "u_read" /\ req' = req /\ file_to_master' = file_to_master
          /\ file_to_sizes' = file_to_sizes
      BY <2>2 DEF UnlinkReadSize, dataVars, indexVars
    <3>2. f \in Paths /\ \A b \in Blocks : Shows(f, b) => Covered(f, b)
      BY <1>k, <2>f, <3>1, CoveredNow
    <3>3. CASE file_to_sizes[f] = NULL
      BY <1>t, <2>2, <2>f, <3>1, <3>2, <3>3 DEF UnlinkReadSize, Goto, RemovalOK, Shows,
         Covered
    <3>4. CASE file_to_sizes[f] # NULL
      <4>1. /\ k'[t] = 0 /\ lim'[t] = file_to_sizes[f]
            /\ pc'[t] = IF 0 >= file_to_sizes[f] THEN "u_size" ELSE "rm_wrlock"
        BY <1>t, <2>2, <2>f, <3>4 DEF UnlinkReadSize, BeginRemoval, Goto
      <4>2. file_to_sizes[f] \in Nat
        BY <1>t, <3>2, <3>4
      <4>3. ASSUME NEW b \in Blocks, Shows(f, b)'
            PROVE  Remaining(t, b)'
        <5>1. b < file_to_sizes[f] /\ b \in Nat
          BY <1>t, <3>1, <3>2, <4>3 DEF Shows, Covered
        <5> QED  BY <4>1, <4>2, <5>1 DEF Remaining
      <4> QED  BY <2>f, <3>1, <4>1, <4>3 DEF RemovalOK, Shows
    <3> QED  BY <3>3, <3>4
  <2>3. CASE TruncateReadSize(t) /\ pc'[t] \in RemovalPCs
    <3>1. /\ pc[t] = "t_read" /\ file_to_master' = file_to_master
          /\ file_to_sizes' = file_to_sizes
      BY <2>3 DEF TruncateReadSize, dataVars, indexVars
    <3>2. f \in Paths /\ \A b \in Blocks : Shows(f, b) => Covered(f, b)
      BY <1>k, <2>f, <3>1, CoveredNow
    <3>3. Shrinks(t) /\ BeginRemoval(t, N(t), file_to_sizes[f], "t_size") /\ req' = req
      BY <1>t, <2>3, <2>f DEF TruncateReadSize, Return, Goto, RemovalPCs
    <3>4. /\ file_to_sizes[f] \in Nat /\ N(t) < file_to_sizes[f] /\ N(t) \in Nat
      BY <1>t, <1>k, <2>f, <3>1, <3>2, <3>3 DEF Shrinks
    <3>5. k'[t] = N(t) /\ lim'[t] = file_to_sizes[f] /\ pc'[t] = "rm_wrlock"
      BY <1>t, <3>3, <3>4 DEF BeginRemoval, Goto
    <3>6. req[t].op = "truncate"
      BY <3>1 DEF FileInv, OpsOK, OpOK
    <3>7. ASSUME NEW b \in Blocks, Shows(f, b)'
          PROVE  Survives(t, b)' \/ Remaining(t, b)'
      <4>1. b < file_to_sizes[f] /\ b \in Nat
        BY <1>t, <3>1, <3>2, <3>7 DEF Shows, Covered
      <4> QED  BY <3>3, <3>4, <3>5, <3>6, <4>1 DEF Survives, Remaining, N
    <3> QED  BY <2>f, <3>3, <3>5, <3>7 DEF RemovalOK, Shows
  <2>4. CASE WriteLock(t) /\ pc'[t] \in RemovalPCs
    <3>1. /\ pc[t] = "rm_wrlock" /\ pc'[t] = "rm_loop" /\ k' = k /\ lim' = lim /\ req' = req
          /\ file_to_master' = file_to_master
      BY <1>t, <2>4 DEF WriteLock, Goto, RemovalPCs, frameVars, dataVars, indexVars
    <3> QED
      BY <2>0, <3>1 DEF RemovalOK, RemovalPCs, Shows, Survives, Remaining, N
  <2>5. CASE RemoveBlock(t)
    <3>1. /\ pc[t] = "rm_loop" /\ pc' = pc /\ k'[t] = k[t] + 1 /\ lim' = lim /\ req' = req
          /\ file_to_master' = [file_to_master EXCEPT ![<<f, k[t]>>] = NULL]
      BY <1>t, <2>5, <2>f DEF RemoveBlock, NextIter, SetK
    <3>2. ASSUME NEW b \in Blocks, Shows(f, b)'
          PROVE  Survives(t, b)' \/ Remaining(t, b)'
      <4>0. f \in Paths
        BY <1>k, <2>f, <3>1 DEF RemovalPCs
      <4>1. b # k[t] /\ Shows(f, b)
        BY <1>t, <3>1, <3>2, <4>0 DEF Shows, Key
      <4>2. Survives(t, b) \/ Remaining(t, b)
        BY <2>0, <2>f, <3>1, <4>1 DEF RemovalOK, RemovalPCs
      <4> QED  BY <1>t, <3>1, <4>1, <4>2 DEF Survives, Remaining, N
    <3> QED  BY <2>f, <3>1, <3>2 DEF RemovalOK, Shows
  <2>6. CASE RemoveUnlock(t)
    <3>1. /\ pc[t] = "rm_loop" /\ pc'[t] = "rm_release" /\ k[t] = lim[t] /\ req' = req
          /\ file_to_master' = file_to_master
      BY <1>t, <2>6 DEF RemoveUnlock, Goto, frameVars, dataVars, indexVars
    <3> QED
      BY <1>t, <2>0, <3>1 DEF RemovalOK, RemovalPCs, Shows, Survives, Remaining, N
  <2>7. CASE ReleaseAndGo(t) /\ pc'[t] \in RemovalPCs
    <3>1. /\ pc[t] = "rm_release" /\ pc'[t] \in {"u_size", "t_size"} /\ req' = req
          /\ file_to_master' = file_to_master
      BY <1>t, <2>7 DEF ReleaseAndGo, Goto, RemovalPCs, indexVars
    <3> QED
      BY <2>0, <3>1 DEF RemovalOK, RemovalPCs, Shows, Survives, Remaining, N
  <2>8. CASE UnlinkDropSize(t)
    <3>1. /\ pc[t] = "u_size" /\ pc'[t] = "u_backend" /\ req' = req
          /\ file_to_master' = file_to_master
          /\ file_to_sizes' = [file_to_sizes EXCEPT ![f] = NULL]
      BY <1>t, <2>8, <2>f DEF UnlinkDropSize, Goto, frameVars
    <3>2. file_to_sizes'[f] = NULL
      BY <1>t, <1>k, <2>f, <3>1 DEF RemovalPCs
    <3> QED
      BY <2>0, <2>f, <3>1, <3>2 DEF RemovalOK, RemovalPCs, Shows, Survives, Remaining, N
  <2> QED
    BY <2>1, <2>2, <2>3, <2>4, <2>5, <2>6, <2>7, <2>8, RemovalActions DEF FileInv, TypeInv
<1> QED  BY <1>1, <1>2 DEF RemovalsOK

LEMMA CoverStep ==
    ASSUME SerializePaths, FileInv, NEW t \in Threads, Dispatch(t) \/ Step(t)
    PROVE  CoverOK'
<1>t. /\ pc \in [Threads -> PCs] /\ k \in [Threads -> 0 .. MaxBlocks]
      /\ MaxBlocks \in Nat /\ Blocks \subseteq Nat
      /\ file_to_master \in [Key -> Infos \cup {NULL}]
      /\ file_to_sizes \in [Paths -> (0 .. MaxBlocks) \cup {NULL}]
  BY BoundsAssumption DEF FileInv, TypeInv, TypeOK, ControlType, IndexType, Blocks
<1>r. pc[t] # "idle" =>
          /\ req[t] \in Requests /\ req[t].path \in Paths
          /\ N(t) \in Nat /\ StartBlock(req[t]) \in Nat
  BY RequestFacts, BoundsAssumption DEF FileInv, TypeInv, FramesOK, FrameOK, N
<1> SUFFICES ASSUME NEW f \in Paths, NEW b \in Blocks, Shows(f, b)'
             PROVE  Covered(f, b)' \/ \E u \in Threads : Mapping(u, f, b)'
  BY DEF CoverOK
<1>1. CASE ~Shows(f, b)
  <2>1. <<f, b>> \in Key /\ file_to_master'[<<f, b>>] # file_to_master[<<f, b>>]
    BY <1>1 DEF Shows, Key
  <2>2. MapBlock(t)
    <3>1. ~RemoveBlock(t)
      BY <1>1, <1>t, <2>1 DEF RemoveBlock, Shows
    <3> QED  BY <2>1, <3>1, FileChanges
  <2>3. <<f, b>> = KeyOf(t, k[t])
    BY <1>t, <2>1, <2>2 DEF MapBlock
  <2>4. pc[t] = "w_map" /\ pc' = pc /\ k'[t] = k[t] + 1 /\ req' = req
    BY <1>t, <2>2 DEF MapBlock, NextIter, SetK
  <2>5. f = req[t].path /\ b = StartBlock(req[t]) + k[t]
    BY <2>3 DEF KeyOf
  <2>6. Mapping(t, f, b)'
    BY <1>t, <1>r, <2>4, <2>5 DEF Mapping
  <2> QED  BY <2>6
<1>2. CASE Covered(f, b) /\ Shows(f, b)
  <2>0. file_to_sizes[f] \in Nat /\ b < file_to_sizes[f] /\ b \in Nat
    BY <1>2, <1>t DEF Covered
  <2>1. CASE file_to_sizes'[f] = file_to_sizes[f]
    BY <1>2, <2>1 DEF Covered
  <2>2. CASE file_to_sizes'[f] # file_to_sizes[f]
    <3>1. f = req[t].path /\ (Commit(t) \/ UnlinkDropSize(t) \/ TruncateSetSize(t))
      BY <2>2, OwnFile, FileChanges
    <3>2. CASE Commit(t)
      <4>1. file_to_sizes'[f] = GrownSize(t) /\ pc[t] = "w_map"
        BY <1>t, <3>1, <3>2 DEF Commit
      <4>2. GrownSize(t) \in Nat /\ file_to_sizes[f] <= GrownSize(t)
        BY <1>r, <2>0, <3>1, <4>1, NullAssumption DEF GrownSize
      <4> QED  BY <2>0, <4>1, <4>2, NullAssumption DEF Covered
    <3>3. CASE UnlinkDropSize(t)
      <4>1. pc[t] = "u_size" /\ req[t].op = "unlink"
        BY <3>3 DEF UnlinkDropSize, FileInv, OpsOK, OpOK
      <4> QED
        BY <1>2, <3>1, <4>1 DEF FileInv, RemovalsOK, RemovalOK, RemovalPCs, Survives, Remaining
    <3>4. CASE TruncateSetSize(t)
      <4>1. pc[t] = "t_size" /\ file_to_sizes'[f] = N(t)
        BY <1>t, <2>2, <3>1, <3>4 DEF TruncateSetSize
      <4>2. b < N(t)
        BY <1>2, <3>1, <4>1 DEF FileInv, RemovalsOK, RemovalOK, RemovalPCs, Survives, Remaining
      <4> QED  BY <1>r, <4>1, <4>2, NullAssumption DEF Covered
    <3> QED  BY <3>1, <3>2, <3>3, <3>4
  <2> QED  BY <2>1, <2>2
<1>3. ASSUME NEW u \in Threads, Mapping(u, f, b)
      PROVE  Covered(f, b)' \/ \E v \in Threads : Mapping(v, f, b)'
  <2>1. CASE u # t
    <3>1. SameFrame(u)
      BY <2>1, OthersUnchanged DEF FileInv, TypeInv
    <3>2. Mapping(u, f, b)'
      BY <1>3, <3>1 DEF SameFrame, Mapping
    <3> QED  BY <3>2
  <2>2. CASE u = t
    <3>0. /\ pc[t] = "w_map" /\ req[t].path = f /\ b \in Nat
          /\ StartBlock(req[t]) <= b /\ b < StartBlock(req[t]) + k[t]
          /\ StartBlock(req[t]) \in Nat /\ N(t) \in Nat /\ k[t] \in Nat
      BY <1>3, <1>t, <1>r, <2>2 DEF Mapping
    <3>1. CASE MapBlock(t)
      <4>1. pc' = pc /\ k'[t] = k[t] + 1 /\ req' = req
        BY <1>t, <3>1 DEF MapBlock, NextIter, SetK
      <4>2. Mapping(t, f, b)'
        BY <3>0, <4>1 DEF Mapping
      <4> QED  BY <4>2
    <3>2. CASE Commit(t)
      <4>1. file_to_sizes'[f] = GrownSize(t) /\ k[t] = N(t)
        BY <1>t, <3>0, <3>2 DEF Commit
      <4>2. GrownSize(t) \in Nat /\ StartBlock(req[t]) + N(t) <= GrownSize(t)
        BY <1>t, <3>0 DEF GrownSize
      <4> QED  BY <3>0, <4>1, <4>2, NullAssumption DEF Covered
    <3> QED  BY <3>0, <3>1, <3>2, RemovalActions DEF FileInv, TypeInv
  <2> QED  BY <2>1, <2>2
<1> QED  BY <1>1, <1>2, <1>3 DEF FileInv, CoverOK

LEMMA FileInit == Fresh => FileInv
<1> SUFFICES ASSUME Fresh PROVE FileInv
  OBVIOUS
<1>1. TypeInv /\ LockDiscipline /\ OpsOK
  BY TypeInvInit, LockInit, OpsInit
<1>2. Exclusive /\ NamesOK
  BY DEF Fresh, FreshInit, Exclusive, NamesOK, Modifies
<1>3. CoverOK /\ RemovalsOK
  BY DEF Fresh, FreshInit, CoverOK, Shows, RemovalsOK, RemovalOK, RemovalPCs, Key
<1> QED  BY <1>1, <1>2, <1>3 DEF FileInv

LEMMA FileStep ==
    ASSUME SerializePaths, FileInv, NEW t \in Threads, Dispatch(t) \/ Step(t)
    PROVE  FileInv'
<1>1. TypeInv'
  BY TypeInvStep DEF FileInv, Next
<1>2. LockDiscipline'
  BY LockStep DEF FileInv, TypeInv, TypeOK, ControlType, LockType
<1>3. OpsOK' /\ Exclusive'
  BY OpsStep, ExclusiveStep DEF FileInv
<1>4. CoverOK' /\ RemovalsOK' /\ NamesOK'
  BY CoverStep, RemovalsStep, NamesStep
<1> QED  BY <1>1, <1>2, <1>3, <1>4 DEF FileInv

LEMMA FileAlways ==
    ASSUME SerializePaths
    PROVE  Spec => [](FileInv /\ UnlinkLeavesNothing)
<1>1. FileInv /\ UnlinkLeavesNothing /\ [Next]_vars => (FileInv /\ UnlinkLeavesNothing)'
  <2> SUFFICES ASSUME FileInv, UnlinkLeavesNothing, [Next]_vars
               PROVE  FileInv' /\ UnlinkLeavesNothing'
    OBVIOUS
  <2>1. CASE UNCHANGED vars
    <3>1. TypeInv'
      BY TypeInvStep DEF FileInv
    <3> QED
      BY <2>1, <3>1 DEF vars, dataVars, indexVars, outerVars, lockVars, frameVars, FileInv,
         LockDiscipline, OpsOK, OpOK, N, Exclusive, Modifies, CoverOK, Shows, Covered, Mapping,
         RemovalsOK, RemovalOK, Survives, Remaining, NamesOK, UnlinkLeavesNothing
  <2>2. ASSUME NEW t \in Threads, Dispatch(t) \/ Step(t) PROVE FileInv' /\ UnlinkLeavesNothing'
    BY <2>2, FileStep, LeavesNothingStep
  <2> QED  BY <2>1, <2>2 DEF Next, Quiet
<1>2. Init => FileInv /\ UnlinkLeavesNothing
  BY InitFresh, FileInit DEF Init, FreshInit, UnlinkLeavesNothing
<1> QED  BY <1>1, <1>2, PTL DEF Spec

\* The range that unlink and truncate compute from the logical size contains every
\* mapped block of the file (dedup.c:658-666, passthrough.c:281-285, 406-409).
THEOREM SizesCover ==
    ASSUME SerializePaths
    PROVE  Spec => []SizeCoversBlocks
<1>1. FileInv => SizeCoversBlocks
  <2> SUFFICES ASSUME FileInv, writer = NULL, NEW x \in Key, file_to_master[x] # NULL
               PROVE  file_to_sizes[x[1]] # NULL /\ x[2] < file_to_sizes[x[1]]
    BY DEF SizeCoversBlocks
  <2>1. x[1] \in Paths /\ x[2] \in Blocks /\ x = <<x[1], x[2]>>
    BY DEF Key
  <2>2. \A t \in Threads : pc[t] # "w_map"
    BY NullAssumption DEF FileInv, LockDiscipline, WriteLocked
  <2> QED  BY <2>1, <2>2 DEF FileInv, CoverOK, Shows, Covered, Mapping
<1> QED  BY FileAlways, <1>1, PTL

\* An unlinked path keeps neither a size nor a block, and a file created later
\* under that name starts empty.
THEOREM UnlinkIsComplete ==
    ASSUME SerializePaths
    PROVE  Spec => []UnlinkLeavesNothing
  BY FileAlways, PTL

-----------------------------------------------------------------------------
(* Reads without a lock                                                    *)

\* The slot a read still has to fetch is the slot of the block it covers; what
\* it has fetched is the content of that block.
PairOK(t, i) ==
    LET p == file_to_master[KeyOf(t, i)]
    IN IF rd[t][i].slot # NULL
       THEN rd[t][i].slot = info[p].masterBlockIndex
       ELSE rd[t][i].data # NULL /\ HashOf[rd[t][i].data] = info[p].hash

ReadsOK ==
    \A t \in Threads \ overtaken : pc[t] = "r_pread" =>
        \A i \in 0 .. N(t) - 1 : Mapped(t, i) => PairOK(t, i)

ReadInv == ContentInv /\ ReadsOK

\* What a block shows does not move while its mapping stands.
LEMMA MappedKept ==
    ASSUME ContentInv, RefcountsFit, NEW t \in Threads, Dispatch(t) \/ Step(t),
           NEW x \in Key, file_to_master[x] # NULL, file_to_master'[x] = file_to_master[x],
           NEW p, p = file_to_master[x]
    PROVE  /\ info'[p].masterBlockIndex = info[p].masterBlockIndex
           /\ info'[p].hash = info[p].hash
<1>1. p \in heap /\ Published(p)
  BY DEF ContentInv, SlotInv, RefInv, TablesOK
<1> QED  BY <1>1, SlotKept, HashKept DEF ContentInv, SlotInv

LEMMA ReaderKeys ==
    ASSUME TypeInv, NEW t \in Threads, pc[t] \in {"r_lookup", "r_pread"}
    PROVE  /\ N(t) \in Nat /\ N(t) <= MaxBlocks /\ MaxBlocks \in Nat /\ req[t] \in Requests
           /\ \A i \in 0 .. N(t) - 1 : i \in Idx /\ KeyOf(t, i) \in Key /\ Covers(t, KeyOf(t, i))
<1>1. req[t] \in Requests
  BY DEF TypeInv, FramesOK, FrameOK
<1>2. /\ N(t) \in Nat /\ N(t) <= MaxBlocks /\ MaxBlocks \in Nat /\ StartBlock(req[t]) \in Nat
      /\ \A i \in 0 .. N(t) - 1 : KeyOf(t, i) \in Key
  BY <1>1, RequestFacts, BoundsAssumption DEF N, KeyOf
<1>3. ASSUME NEW i \in 0 .. N(t) - 1 PROVE i \in Idx /\ Covers(t, KeyOf(t, i))
  BY <1>2 DEF Idx, Covers, KeyOf
<1> QED  BY <1>1, <1>2, <1>3

\* A read in flight, when another handler moves and does not remap its blocks.
LEMMA OtherReader ==
    ASSUME ReadInv, RefcountsFit, NEW t \in Threads, Dispatch(t) \/ Step(t),
           NEW u \in Threads \ overtaken, pc[u] = "r_pread",
           req'[u] = req[u],
           \A x \in Key : Covers(u, x) => file_to_master'[x] = file_to_master[x],
           NEW i \in 0 .. N(u) - 1, Mapped(u, i)', rd'[u][i] = rd[u][i]
    PROVE  PairOK(u, i)'
<1>1. /\ N(u) \in Nat
      /\ \A j \in 0 .. N(u) - 1 : j \in Idx /\ KeyOf(u, j) \in Key /\ Covers(u, KeyOf(u, j))
  BY ReaderKeys DEF ReadInv, ContentInv, SlotInv, RefInv
<1>2. N(u)' = N(u) /\ \A j : KeyOf(u, j)' = KeyOf(u, j)
  BY DEF N, KeyOf
<1>3. \A j \in 0 .. N(u) - 1 : file_to_master'[KeyOf(u, j)] = file_to_master[KeyOf(u, j)]
  BY <1>1
<1>4. Mapped(u, i)
  BY <1>1, <1>2, <1>3 DEF Mapped
<1>5. PairOK(u, i)
  BY <1>4 DEF ReadInv, ReadsOK
<1>x. PICK x : x = KeyOf(u, i)
  OBVIOUS
<1>p. PICK p : p = file_to_master[x]
  OBVIOUS
<1>6. x \in Key /\ file_to_master[x] # NULL /\ file_to_master'[x] = p /\ KeyOf(u, i)' = x
  BY <1>1, <1>2, <1>3, <1>4, <1>x, <1>p DEF Mapped
<1>7. info'[p].masterBlockIndex = info[p].masterBlockIndex /\ info'[p].hash = info[p].hash
  BY <1>6, <1>p, MappedKept DEF ReadInv
<1> QED  BY <1>5, <1>6, <1>7, <1>x, <1>p DEF PairOK

\* The reader's own steps.
LEMMA LookupReads ==
    ASSUME ReadInv, NEW t \in Threads, ReadLookup(t), pc'[t] = "r_pread",
           NEW i \in 0 .. N(t) - 1, Mapped(t, i)'
    PROVE  PairOK(t, i)'
<1>1. /\ pc[t] = "r_lookup" /\ file_to_master' = file_to_master /\ info' = info /\ req' = req
      /\ rd' = [rd EXCEPT ![t] = [m \in Idx |->
                 IF Mapped(t, m)
                 THEN [slot |-> info[file_to_master[KeyOf(t, m)]].masterBlockIndex,
                       data |-> NULL]
                 ELSE NoPair]]
  BY DEF ReadLookup, dataVars, indexVars, heapVars, Return, Goto, ReadInv, ContentInv, SlotInv,
     RefInv, TypeInv, TypeOK, ControlType
<1>2. i \in Idx /\ KeyOf(t, i) \in Key /\ Mapped(t, i) /\ KeyOf(t, i)' = KeyOf(t, i)
  BY <1>1, ReaderKeys DEF Mapped, KeyOf, N, ReadInv, ContentInv, SlotInv, RefInv
<1>p. PICK p : p = file_to_master[KeyOf(t, i)]
  OBVIOUS
<1>3. p \in heap /\ file_to_master'[KeyOf(t, i)'] = p
  <2>1. file_to_master[KeyOf(t, i)] # NULL
    BY <1>2, ReaderKeys, <1>1 DEF Mapped, ReadInv, ContentInv, SlotInv, RefInv
  <2> QED  BY <1>1, <1>2, <1>p, <2>1 DEF ReadInv, ContentInv, SlotInv, RefInv, TablesOK
<1>4. info[p].masterBlockIndex # NULL
  BY <1>3, HeapFacts, SlotTypes DEF ReadInv, ContentInv, SlotInv, RefInv
<1>5. rd'[t][i].slot = info[p].masterBlockIndex
  BY <1>1, <1>2, <1>p DEF ReadInv, ContentInv, SlotInv, RefInv, TypeInv, TypeOK, WorkType
<1> QED  BY <1>1, <1>3, <1>4, <1>5 DEF PairOK

LEMMA BlockReads ==
    ASSUME ReadInv, NEW t \in Threads \ overtaken, ReadBlock(t),
           NEW i \in 0 .. N(t) - 1, Mapped(t, i)'
    PROVE  PairOK(t, i)'
<1>1. /\ pc[t] = "r_pread" /\ file_to_master' = file_to_master /\ info' = info /\ req' = req
  BY DEF ReadBlock, dataVars, indexVars, heapVars
<1>2. i \in Idx /\ KeyOf(t, i) \in Key /\ Mapped(t, i) /\ KeyOf(t, i)' = KeyOf(t, i)
  BY <1>1, ReaderKeys DEF Mapped, KeyOf, N, ReadInv, ContentInv, SlotInv, RefInv
<1>3. PairOK(t, i)
  BY <1>1, <1>2 DEF ReadInv, ReadsOK
<1>4. PICK m \in ToRead(t) :
          rd' = [rd EXCEPT ![t][m] = [slot |-> NULL, data |-> master[rd[t][m].slot]]]
  BY DEF ReadBlock
<1>5. rd \in [Threads -> [Idx -> Pair]]
  BY DEF ReadInv, ContentInv, SlotInv, RefInv, TypeInv, TypeOK, WorkType
<1>6. CASE i # m
  <2>1. rd'[t][i] = rd[t][i]
    BY <1>4, <1>5, <1>6
  <2> QED  BY <1>1, <1>2, <1>3, <2>1 DEF PairOK
<1>7. CASE i = m
  <2>p. PICK p : p = file_to_master[KeyOf(t, i)]
    OBVIOUS
  <2>1. p \in heap /\ Published(p) /\ file_to_master'[KeyOf(t, i)'] = p
    <3>1. file_to_master[KeyOf(t, i)] # NULL
      BY <1>1, <1>2, ReaderKeys DEF Mapped, ReadInv, ContentInv, SlotInv, RefInv
    <3> QED  BY <1>1, <1>2, <2>p, <3>1 DEF ReadInv, ContentInv, SlotInv, RefInv, TablesOK
  <2>2. rd[t][i].slot = info[p].masterBlockIndex
    BY <1>3, <1>7, <2>p DEF PairOK, ToRead
  <2>3. rd'[t][i] = [slot |-> NULL, data |-> master[info[p].masterBlockIndex]]
    BY <1>2, <1>4, <1>5, <1>7, <2>2
  <2>4. /\ master[info[p].masterBlockIndex] # NULL
        /\ HashOf[master[info[p].masterBlockIndex]] = info[p].hash
    BY <2>1 DEF ReadInv, ContentInv, ContentsOK
  <2> QED  BY <1>1, <2>1, <2>3, <2>4 DEF PairOK
<1> QED  BY <1>6, <1>7

\* The buffers of a read are its own.
LEMMA OtherRd ==
    ASSUME TypeInv, NEW t \in Threads, Dispatch(t) \/ Step(t), NEW u \in Threads, u # t
    PROVE  rd'[u] = rd[u]
<1>a. rd \in [Threads -> [Idx -> Pair]]
  BY SMTT(30) DEF TypeInv, TypeOK, WorkType
<1> USE <1>a DEF frameVars, Return
<1>1. CASE \/ Dispatch(t) \/ PlanLock(t) \/ PlanHit(t) \/ PlanUnlock(t) \/ CountHit(t)
           \/ PlanMiss(t) \/ Drain(t) \/ AppendSlots(t)
  BY <1>1 DEF Dispatch, PlanLock, PlanHit, PlanUnlock, CountHit, PlanMiss, Drain, AppendSlots
<1>2. CASE FlushRun(t) \/ FlushFail(t) \/ FlushDone(t) \/ WriteLock(t) \/ PublishSkip(t)
  BY <1>2 DEF FlushRun, FlushRunAt, FlushFail, FlushFailAt, FlushDone, WriteLock, PublishSkip
<1>3. CASE MapBlock(t) \/ Commit(t) \/ RbHit(t) \/ RbUnlock(t) \/ RbMutex(t) \/ RbMiss(t)
  BY <1>3 DEF MapBlock, Commit, RbHit, RbUnlock, RbMutex, RbMiss
<1>4. CASE RbDone(t) \/ ReleaseAfterWrite(t) \/ ReleaseAndGo(t)
  BY <1>4 DEF RbDone, ReleaseAfterWrite, ReleaseAndGo
<1>5. CASE UnlinkReadSize(t) \/ RemoveBlock(t) \/ RemoveUnlock(t) \/ UnlinkDropSize(t)
  BY <1>5 DEF UnlinkReadSize, RemoveBlock, RemoveUnlock, UnlinkDropSize
<1>6. CASE TruncateReadSize(t) \/ UnlinkBackend(t) \/ TruncateSetSize(t) \/ Create(t)
  BY <1>6 DEF TruncateReadSize, UnlinkBackend, TruncateSetSize, Create
<1>7. CASE ReadLookup(t) \/ ReadReturn(t)
  BY <1>7 DEF ReadLookup, ReadReturn
<1>8. CASE PublishDone(t) \/ PublishOurs(t) \/ UseWinner(t)
  <2>1. rd' = rd
    <3>1. CASE PublishDone(t) \/ PublishOurs(t)
      BY <3>1 DEF PublishDone, PublishOurs
    <3>2. CASE UseWinner(t)
      BY <3>2 DEF UseWinner
    <3> QED  BY SMTT(30), <1>8, <3>1, <3>2
  <2> QED  BY <2>1
<1>9. CASE ReadBlock(t)
  <2>1. PICK m \in ToRead(t) :
            rd' = [rd EXCEPT ![t][m] = [slot |-> NULL, data |-> master[rd[t][m].slot]]]
    BY <1>9 DEF ReadBlock
  <2> QED  BY <2>1
<1> QED
  BY SMTT(30), <1>1, <1>2, <1>3, <1>4, <1>5, <1>6, <1>7, <1>8, <1>9 DEF Step

\* A handler is reading only after its look-up.
LEMMA ReaderPC ==
    ASSUME TypeInv, NEW t \in Threads, Dispatch(t) \/ Step(t), pc'[t] = "r_pread"
    PROVE  ReadLookup(t) \/ ReadBlock(t)
<1> USE DEF TypeInv, TypeOK, ControlType, Goto, NextIter, Return
<1>1. ~Dispatch(t)
  BY EntryRange DEF Dispatch
<1>2. /\ ~PlanLock(t) /\ ~PlanHit(t) /\ ~CountHit(t) /\ ~PlanMiss(t) /\ ~PlanUnlock(t)
      /\ ~Drain(t) /\ ~AppendSlots(t) /\ ~FlushRun(t) /\ ~FlushFail(t) /\ ~FlushDone(t)
  BY DEF PlanLock, PlanHit, CountHit, PlanMiss, PlanUnlock, Drain, AppendSlots, FlushRun,
     FlushRunAt, FlushFail, FlushFailAt, FlushDone
<1>3. /\ ~WriteLock(t) /\ ~PublishSkip(t) /\ ~PublishOurs(t) /\ ~UseWinner(t)
      /\ ~PublishDone(t) /\ ~MapBlock(t) /\ ~Commit(t)
  BY DEF WriteLock, PublishSkip, PublishOurs, UseWinner, PublishDone, MapBlock, Commit
<1>4. /\ ~ReleaseAfterWrite(t) /\ ~ReleaseAndGo(t) /\ ~RbHit(t) /\ ~RbUnlock(t) /\ ~RbMutex(t)
      /\ ~RbMiss(t) /\ ~RbDone(t)
  BY DEF ReleaseAfterWrite, ReleaseAndGo, RbHit, RbUnlock, RbMutex, RbMiss, RbDone
<1>5. ~UnlinkReadSize(t) /\ ~TruncateReadSize(t)
  <2>1. ASSUME NEW a, NEW b, NEW c, BeginRemoval(t, a, b, c), c \in {"u_size", "t_size"}
        PROVE  FALSE
    BY <2>1 DEF BeginRemoval
  <2> QED  BY <2>1 DEF UnlinkReadSize, TruncateReadSize
<1>6. /\ ~RemoveBlock(t) /\ ~RemoveUnlock(t) /\ ~UnlinkDropSize(t) /\ ~UnlinkBackend(t)
      /\ ~TruncateSetSize(t) /\ ~Create(t) /\ ~ReadReturn(t)
  BY DEF RemoveBlock, RemoveUnlock, UnlinkDropSize, UnlinkBackend, TruncateSetSize, Create,
     ReadReturn
<1> QED  BY <1>1, <1>2, <1>3, <1>4, <1>5, <1>6 DEF Step

LEMMA ReadsStep ==
    ASSUME RefcountsFit, ReadInv, [HistoryNext]_historyVars
    PROVE  ReadsOK'
<1>1. CASE UNCHANGED historyVars
  BY <1>1 DEF historyVars, vars, dataVars, indexVars, heapVars, frameVars, ReadInv, ReadsOK,
     PairOK, Mapped, KeyOf, N
<1>2. CASE Quiet /\ HistoryNext
  <2>1. /\ \A t \in Threads : pc'[t] # "r_pread"
    BY <1>2 DEF Quiet, vars
  <2> QED  BY <2>1 DEF ReadsOK
<1>3. ASSUME NEW t \in Threads, Dispatch(t) \/ Step(t), HistoryNext PROVE ReadsOK'
  <2> SUFFICES ASSUME NEW u \in Threads, u \notin overtaken', pc'[u] = "r_pread",
                      NEW i \in 0 .. N(u)' - 1, Mapped(u, i)'
               PROVE  PairOK(u, i)'
    BY DEF ReadsOK
  <2>a. TypeInv
    BY DEF ReadInv, ContentInv, SlotInv, RefInv
  <2>1. ASSUME pc[u] = "r_pread"
        PROVE  /\ u \notin overtaken
               /\ \A x \in Key : Covers(u, x) => file_to_master'[x] = file_to_master[x]
    BY <1>3, <2>1 DEF HistoryNext
  <2>2. CASE u # t
    <3>1. pc[u] = "r_pread" /\ req'[u] = req[u] /\ rd'[u] = rd[u]
      BY <1>3, <2>a, <2>2, OthersUnchanged, OtherRd DEF TypeInv, SameFrame
    <3>2. i \in 0 .. N(u) - 1
      BY <3>1 DEF N
    <3> QED  BY <1>3, <2>1, <3>1, <3>2, OtherReader
  <2>3. CASE u = t /\ ReadLookup(t)
    <3>1. req' = req
      BY <2>3, <2>a DEF ReadLookup, Return, Goto, TypeInv, TypeOK, ControlType
    <3>2. i \in 0 .. N(t) - 1
      BY <2>3, <3>1 DEF N
    <3> QED  BY <2>3, <3>2, LookupReads
  <2>4. CASE u = t /\ ReadBlock(t)
    <3>1. req' = req /\ pc[t] = "r_pread"
      BY <2>4 DEF ReadBlock
    <3>2. i \in 0 .. N(t) - 1
      BY <2>4, <3>1 DEF N
    <3> QED  BY <2>1, <2>4, <3>1, <3>2, BlockReads
  <2> QED  BY <1>3, <2>a, <2>2, <2>3, <2>4, ReaderPC
<1> QED  BY <1>1, <1>2, <1>3 DEF HistoryNext, Next

\* A read that no writer of the same blocks overtakes returns the blocks the file
\* maps, although it holds no lock while it reads (dedup.c:111-168) and others
\* free, recycle and rewrite slots meanwhile.
THEOREM ReadsAreStable ==
    ASSUME RefcountsFit, DistinctBatches
    PROVE  HistorySpec => []StableRead
<1>1. HistoryInit => ReadInv
  BY InitFresh, ContentInit DEF HistoryInit, ReadInv, ReadsOK, Init, FreshInit
<1>2. ReadInv /\ [HistoryNext]_historyVars => ReadInv'
  <2> SUFFICES ASSUME ReadInv, [HistoryNext]_historyVars PROVE ReadInv'
    OBVIOUS
  <2>1. [Next]_vars
    BY DEF HistoryNext, historyVars
  <2>2. ContentInv'
    BY <2>1, ContentStep DEF ReadInv
  <2>3. ReadsOK'
    BY ReadsStep
  <2> QED  BY <2>2, <2>3 DEF ReadInv
<1>3. ReadInv => StableRead
  BY DEF ReadInv, ReadsOK, PairOK, StableRead
<1> QED  BY <1>1, <1>2, <1>3, PTL DEF HistorySpec

-----------------------------------------------------------------------------
(* Storage first                                                           *)

\* Only allocate_batch_storage_first moves the point of append, and it drains first.
LEMMA AllocateOnly ==
    ASSUME TypeInv, NEW t \in Threads, Dispatch(t) \/ Step(t), ~Drain(t)
    PROVE  /\ pc'[t] # "w_append"
           /\ ~AppendSlots(t) => nextBlockIndex' = nextBlockIndex
<1>a. pc \in [Threads -> PCs]
  BY DEF TypeInv, TypeOK, ControlType
<1> USE DEF dataVars, allocVars, Goto, NextIter
<1>1. CASE Dispatch(t)
  <2>1. PICK r \in Requests : Goto(t, Entry(r))
    BY <1>1 DEF Dispatch
  <2> QED  BY <1>1, <1>a, <2>1, EntryRange DEF Dispatch
<1>2. CASE PlanLock(t) \/ PlanHit(t) \/ CountHit(t) \/ PlanUnlock(t)
  BY <1>2, <1>a DEF PlanLock, PlanHit, CountHit, PlanUnlock
<1>3. CASE PlanMiss(t)
  BY SMTT(30), <1>3, <1>a DEF PlanMiss
<1>4. CASE AppendSlots(t)
  <2>1. Goto(t, "w_flush")
    BY <1>4 DEF AppendSlots
  <2> QED  BY <1>4, <1>a, <2>1
<1>5. CASE FlushRun(t) \/ FlushFail(t) \/ FlushDone(t)
  BY <1>5, <1>a DEF FlushRun, FlushRunAt, FlushFail, FlushFailAt, FlushDone
<1>6. CASE WriteLock(t) \/ PublishSkip(t) \/ PublishDone(t)
  BY <1>6, <1>a DEF WriteLock, PublishSkip, PublishDone
<1>11. CASE PublishOurs(t) \/ UseWinner(t)
  <2>1. pc[t] = "w_publish" /\ pc' = pc /\ nextBlockIndex' = nextBlockIndex
    BY <1>11 DEF PublishOurs, UseWinner
  <2> QED  BY <1>11, <2>1 DEF PublishOurs, UseWinner, AppendSlots
<1>7. CASE MapBlock(t) \/ Commit(t) \/ ReleaseAfterWrite(t) \/ ReleaseAndGo(t)
  BY SMTT(30), <1>7, <1>a DEF MapBlock, Commit, ReleaseAfterWrite, ReleaseAndGo, Return
<1>8. CASE RbHit(t) \/ RbUnlock(t) \/ RbMutex(t) \/ RbMiss(t) \/ RbDone(t)
  BY SMTT(30), <1>8, <1>a DEF RbHit, RbUnlock, RbMutex, RbMiss, RbDone, Return
<1>9. CASE QuietOther(t)
  <2>1. CASE UnlinkReadSize(t) \/ TruncateReadSize(t) \/ RemoveUnlock(t)
    BY <2>1, <1>a DEF UnlinkReadSize, TruncateReadSize, RemoveUnlock, BeginRemoval, Return
  <2>2. CASE UnlinkDropSize(t) \/ UnlinkBackend(t) \/ TruncateSetSize(t) \/ Create(t)
    BY <2>2, <1>a DEF UnlinkDropSize, UnlinkBackend, TruncateSetSize, Create, Return
  <2>3. CASE ReadLookup(t) \/ ReadBlock(t) \/ ReadReturn(t)
    BY <2>3, <1>a DEF ReadLookup, ReadBlock, ReadReturn, Return
  <2> QED  BY <1>9, <2>1, <2>2, <2>3 DEF QuietOther
<1>10. CASE RemoveBlock(t)
  BY SMTT(30), <1>10, <1>a DEF RemoveBlock
<1> QED  BY <1>1, <1>2, <1>3, <1>4, <1>5, <1>6, <1>7, <1>8, <1>9, <1>10, <1>11
   DEF Step, QuietOther

\* What drains either has all its slots or has left none.
LEMMA DrainEmpties ==
    ASSUME TypeInv, NEW t \in Threads, Drain(t)
    PROVE  Unassigned(t)' = {} \/ free_block_list' = <<>>
<1>q. PICK q, c, n : q = free_block_list /\ c = Cardinality(Unassigned(t)) /\ n = Taken(t)
  OBVIOUS
<1>a. q \in Seq(Slots) /\ NULL \notin Slots /\ c \in Nat
  BY <1>q, SlotTypes, UnassignedFinite
<1>1. n = IF c <= Len(q) THEN c ELSE Len(q)
  BY <1>q DEF Taken
<1>2. CASE n = Len(q)
  <2>1. free_block_list' = SubSeq(q, n + 1, Len(q))
    BY <1>q DEF Drain
  <2>2. SubSeq(q, Len(q) + 1, Len(q)) = <<>>
    BY <1>a
  <2> QED  BY <1>2, <2>1, <2>2
<1>3. CASE n = c /\ c <= Len(q)
  <2> SUFFICES ASSUME NEW i \in Idx, IsMiss(t, i)', plan'[t][i].master_blk = NULL
               PROVE  FALSE
    BY DEF Unassigned
  <2>1. plan'[t][i] = IF i \in Unassigned(t) /\ Rank(t, i) < n
                      THEN [plan[t][i] EXCEPT !.master_blk = q[Rank(t, i) + 1]]
                      ELSE plan[t][i]
    BY <1>q, SlotTypes DEF Drain
  <2>2. CASE i \in Unassigned(t)
    <3>1. PICK r : r = Rank(t, i)
      OBVIOUS
    <3>0. r \in Nat /\ r < c
      BY <2>2, <1>q, <3>1, UnassignedFinite
    <3>2. r \in Nat /\ r < n /\ r + 1 \in 1 .. Len(q)
      BY <1>3, <1>a, <3>0
    <3>3. q[r + 1] \in Slots
      BY <1>a, <3>2
    <3>4. plan[t][i] \in PlanEntry
      BY PlanFacts
    <3>5. plan'[t][i].master_blk = q[r + 1]
      BY <2>1, <2>2, <3>1, <3>2, <3>4 DEF PlanEntry
    <3> QED  BY <1>a, <3>3, <3>5
  <2>3. CASE i \notin Unassigned(t)
    BY <2>1, <2>3 DEF Unassigned, IsMiss
  <2> QED  BY <2>2, <2>3
<1> QED  BY <1>a, <1>1, <1>2, <1>3

\* A batch that is about to extend the file has its slots, or what is listed came
\* in after its draining.
LateOK == \A t \in Threads : pc[t] = "w_append" =>
              Unassigned(t) = {} \/ Listed \subseteq since[t]
StorageInv == TypeInv /\ LateOK

LEMMA StorageStep ==
    ASSUME StorageInv, [HistoryNext]_historyVars
    PROVE  StorageInv'
<1>a. TypeInv /\ [Next]_vars /\ pc \in [Threads -> PCs]
  BY DEF StorageInv, HistoryNext, historyVars, TypeInv, TypeOK, ControlType
<1>b. TypeInv'
  BY <1>a, TypeInvStep
<1>1. CASE UNCHANGED historyVars
  <2>1. LateOK'
    BY <1>1 DEF StorageInv, LateOK, Unassigned, IsMiss, Listed, historyVars, vars, dataVars,
       allocVars, frameVars
  <2> QED  BY <1>b, <2>1 DEF StorageInv
<1>2. CASE Quiet /\ HistoryNext
  <2>1. \A t \in Threads : pc'[t] # "w_append"
    BY <1>2 DEF Quiet, vars
  <2> QED  BY <1>b, <2>1 DEF StorageInv, LateOK
<1>3. ASSUME NEW t \in Threads, Dispatch(t) \/ Step(t), HistoryNext PROVE StorageInv'
  <2> SUFFICES ASSUME NEW u \in Threads, pc'[u] = "w_append"
               PROVE  Unassigned(u)' = {} \/ Listed' \subseteq since'[u]
    BY <1>b DEF StorageInv, LateOK
  <2>1. CASE u = t
    <3>1. Drain(t)
      BY <1>3, <1>a, <2>1, AllocateOnly
    <3>2. Unassigned(t)' = {} \/ free_block_list' = <<>>
      BY <1>a, <3>1, DrainEmpties
    <3>3. free_block_list' = <<>> => Listed' = {}
      BY DEF Listed
    <3> QED  BY <2>1, <3>2, <3>3
  <2>2. CASE u # t
    <3>1. SameFrame(u)
      BY <1>3, <1>a, <2>2, OthersUnchanged DEF TypeInv
    <3>2. pc[u] = "w_append" /\ Unassigned(u)' = Unassigned(u)
      BY <3>1 DEF SameFrame, Unassigned, IsMiss
    <3>3. since'[u] = since[u] \cup (Listed' \ Listed)
      BY <1>3, <3>2 DEF HistoryNext
    <3>4. Unassigned(u) = {} \/ Listed \subseteq since[u]
      BY <3>2 DEF StorageInv, LateOK
    <3> QED  BY <3>2, <3>3, <3>4
  <2> QED  BY <2>1, <2>2
<1> QED  BY <1>1, <1>2, <1>3 DEF HistoryNext, Next

\* Whatever the number of handlers and the interleaving of their draining,
\* appending and releasing, a batch extends the master file only past slots that
\* were released after it drained the free list (dedup.c:307-317).
THEOREM ExtendsLast == HistorySpec => StorageFirst
<1>1. HistoryInit => StorageInv
  <2> SUFFICES ASSUME HistoryInit PROVE StorageInv
    OBVIOUS
  <2>1. Fresh /\ \A t \in Threads : pc[t] = "idle"
    BY InitFresh DEF HistoryInit, Init, FreshInit
  <2> QED  BY <2>1, TypeInvInit DEF StorageInv, LateOK
<1>2. StorageInv /\ [HistoryNext]_historyVars => StorageInv'
  BY StorageStep
<1>3. ASSUME StorageInv, [HistoryNext]_historyVars, nextBlockIndex' > nextBlockIndex
      PROVE  \E t \in Threads :
                 pc[t] = "w_append" /\ pc'[t] # "w_append" /\ Listed \subseteq since[t]
  <2>a. TypeInv /\ nextBlockIndex \in Nat /\ pc \in [Threads -> PCs]
    BY <1>3, SlotTypes DEF StorageInv, TypeInv, TypeOK, ControlType
  <2>b. nextBlockIndex' # nextBlockIndex
    BY <1>3, <2>a
  <2>1. PICK t \in Threads : Dispatch(t) \/ Step(t)
    <3>1. ~UNCHANGED vars
      BY <2>b DEF vars, dataVars, allocVars
    <3>2. Next
      BY <1>3, <3>1 DEF HistoryNext, historyVars
    <3> QED  BY <3>1, <3>2 DEF Next, Quiet
  <2>2. AppendSlots(t)
    <3>1. ~Drain(t)
      BY <2>b DEF Drain
    <3> QED  BY <2>a, <2>b, <2>1, <3>1, AllocateOnly
  <2>3. /\ pc[t] = "w_append" /\ pc'[t] = "w_flush"
        /\ nextBlockIndex' = nextBlockIndex + Cardinality(Unassigned(t))
    BY <2>a, <2>2 DEF AppendSlots, Goto
  <2>4. Unassigned(t) # {}
    <3>1. Unassigned(t) = {} => Cardinality(Unassigned(t)) = 0
      BY FS_EmptySet
    <3> QED  BY <2>a, <2>b, <2>3, <3>1
  <2>5. Listed \subseteq since[t]
    BY <1>3, <2>3, <2>4 DEF StorageInv, LateOK
  <2> QED  BY <2>3, <2>5
<1> QED  BY <1>1, <1>2, <1>3, PTL DEF HistorySpec, StorageFirst

-----------------------------------------------------------------------------
(* The deduplicating file system implements the flat one, step by step:    *)
(* every step of a handler is, through the mapping of DedupRefinement, a   *)
(* step of FlatFS or leaves everything FlatFS speaks of as it is.          *)

ImplInv == RefInv /\ FileInv

\* Locations at which the thread with the write lock shows more, or less, than
\* the tables.
AheadPCs == {"w_map", "rm_loop"}
WrotePCs == {"w_map", "w_release"}
Wrote    == {t \in Threads : pc[t] \in WrotePCs}

At(x) ==
    IF writer = NULL THEN View(x)
    ELSE IF ToMap(writer, x) THEN HashAt(writer, x[2] - StartBlock(req[writer]))
    ELSE IF ToUnmap(writer, x) THEN NULL
    ELSE View(x)
SizeAt(f) ==
    IF writer # NULL /\ pc[writer] = "w_map" /\ req[writer].path = f
    THEN GrownSize(writer) ELSE file_to_sizes[f]

SameFlat == FlatContent' = FlatContent /\ FlatSize' = FlatSize
Unseen   == SameFlat /\ req' = req /\ Wrote' = Wrote

-----------------------------------------------------------------------------
(* What a step shows                                                       *)

LEMMA FlatAt ==
    /\ DOMAIN FlatContent = Key /\ DOMAIN FlatSize = Paths
    /\ \A x \in Key : FlatContent[x] = At(x)
    /\ \A f \in Paths : FlatSize[f] = SizeAt(f)
  BY DEF FlatContent, FlatSize, At, SizeAt

LEMMA SameAt ==
    ASSUME \A x \in Key : At(x)' = At(x), \A f \in Paths : SizeAt(f)' = SizeAt(f)
    PROVE  SameFlat
<1>1. FlatContent = [x \in Key |-> At(x)] /\ FlatSize = [f \in Paths |-> SizeAt(f)]
  BY DEF FlatContent, FlatSize, At, SizeAt
<1>2. FlatContent' = [x \in Key |-> At(x)'] /\ FlatSize' = [f \in Paths |-> SizeAt(f)']
  BY DEF FlatContent, FlatSize, At, SizeAt
<1> QED  BY <1>1, <1>2 DEF SameFlat

LEMMA UnseenStep == ASSUME Unseen PROVE UNCHANGED Flat!flatVars
  BY DEF Unseen, SameFlat, Wrote, WrotePCs, Flat!flatVars

\* A mapping that stands goes on showing the same content.
LEMMA ViewKept ==
    ASSUME ImplInv, NEW t \in Threads, Dispatch(t) \/ Step(t), NEW x \in Key,
           file_to_master'[x] = file_to_master[x]
    PROVE  View(x)' = View(x)
<1>1. CASE file_to_master[x] = NULL
  BY <1>1 DEF View
<1>2. CASE file_to_master[x] # NULL
  <2>1. file_to_master[x] \in heap
    BY <1>2 DEF ImplInv, RefInv, TablesOK
  <2>2. info'[file_to_master[x]].hash = info[file_to_master[x]].hash
    BY <2>1, HashKept DEF ImplInv
  <2> QED  BY <1>2, <2>2 DEF View
<1> QED  BY <1>1, <1>2

\* A handler without the write lock leaves what is shown alone.
Beside(t) ==
    /\ writer' = writer /\ pc[t] \notin WriteLocked
    /\ file_to_master' = file_to_master /\ file_to_sizes' = file_to_sizes

LEMMA BesideSame ==
    ASSUME ImplInv, NEW t \in Threads, Dispatch(t) \/ Step(t),
           \A u \in Threads \ {t} : SameFrame(u), Beside(t)
    PROVE  SameFlat
<1>1. \A x \in Key : View(x)' = View(x)
  BY ViewKept DEF Beside
<1>2. writer = NULL \/ (writer \in Threads /\ writer # t)
  BY DEF ImplInv, RefInv, LockDiscipline, TypeInv, TypeOK, LockType, Beside
<1>3. CASE writer = NULL
  BY <1>1, <1>3, SameAt DEF Beside, At, SizeAt
<1>4. ASSUME NEW u \in Threads, u = writer, u # t PROVE SameFlat
  <2>1. pc'[u] = pc[u] /\ req'[u] = req[u] /\ k'[u] = k[u] /\ lim'[u] = lim[u] /\ writer' = u
    BY <1>4 DEF SameFrame, Beside
  <2>2. u # NULL
    BY NullAssumption
  <2>3. ASSUME NEW x \in Key PROVE At(x)' = At(x)
    BY <1>1, <1>4, <2>1, <2>2 DEF At, ToMap, ToUnmap, HashAt, Payload, N
  <2>4. ASSUME NEW f \in Paths PROVE SizeAt(f)' = SizeAt(f)
    BY <1>4, <2>1, <2>2 DEF SizeAt, GrownSize, N, Beside
  <2> QED  BY <2>3, <2>4, SameAt
<1> QED  BY <1>2, <1>3, <1>4

\* Nor does one that holds it, or takes or drops it, away from those two loops.
LEMMA InertSame ==
    ASSUME ImplInv, NEW t \in Threads, Dispatch(t) \/ Step(t),
           file_to_master' = file_to_master, file_to_sizes' = file_to_sizes,
           writer = NULL \/ pc[writer] \notin AheadPCs,
           writer' = NULL \/ pc'[writer'] \notin AheadPCs
    PROVE  SameFlat
<1>1. \A x \in Key : View(x)' = View(x)
  BY ViewKept
<1>2. ASSUME NEW x \in Key PROVE At(x)' = At(x)
  <2>1. At(x) = View(x)
    BY DEF At, ToMap, ToUnmap, AheadPCs
  <2>2. At(x)' = View(x)'
    BY DEF At, ToMap, ToUnmap, AheadPCs
  <2> QED  BY <1>1, <2>1, <2>2
<1>3. ASSUME NEW f \in Paths PROVE SizeAt(f)' = SizeAt(f)
  BY DEF SizeAt, AheadPCs
<1> QED  BY <1>2, <1>3, SameAt

LEMMA WroteStep ==
    ASSUME NEW t \in Threads, \A u \in Threads \ {t} : SameFrame(u)
    PROVE  /\ (pc'[t] \in WrotePCs <=> pc[t] \in WrotePCs) => Wrote' = Wrote
           /\ pc'[t] \notin WrotePCs => Wrote' = Wrote \ {t}
           /\ pc'[t] \in WrotePCs => Wrote' = Wrote \cup {t}
  BY DEF SameFrame, Wrote

-----------------------------------------------------------------------------
(* Steps that do not show                                                  *)

LEMMA BesideUnseen ==
    ASSUME ImplInv, NEW t \in Threads, \A u \in Threads \ {t} : SameFrame(u),
           \/ PlanLock(t) \/ PlanHit(t) \/ CountHit(t) \/ PlanMiss(t) \/ PlanUnlock(t)
           \/ Drain(t) \/ AppendSlots(t) \/ FlushRun(t) \/ FlushFail(t) \/ FlushDone(t)
           \/ ReleaseAndGo(t) \/ RbMutex(t) \/ RbMiss(t) \/ UnlinkReadSize(t) \/ ReadBlock(t)
    PROVE  Unseen
<1>a. pc \in [Threads -> PCs]
  BY SMTT(30) DEF ImplInv, RefInv, TypeInv, TypeOK, ControlType
<1> DEFINE Out == /\ Beside(t) /\ req' = req
                  /\ pc[t] \notin WrotePCs /\ pc'[t] \notin WrotePCs
<1>1. Out
  <2> USE <1>a DEF Beside, WriteLocked, WrotePCs, Goto, NextIter, lockVars, dataVars, indexVars,
            frameVars
  <2>1. CASE PlanLock(t) \/ PlanHit(t) \/ CountHit(t) \/ PlanMiss(t) \/ PlanUnlock(t)
    BY SMTT(30), <2>1 DEF PlanLock, PlanHit, CountHit, PlanMiss, PlanUnlock
  <2>2. CASE Drain(t) \/ AppendSlots(t)
    BY <2>2 DEF Drain, AppendSlots
  <2>3. CASE FlushRun(t) \/ FlushFail(t) \/ FlushDone(t)
    BY SMTT(30), <2>3 DEF FlushRun, FlushRunAt, FlushFail, FlushFailAt, FlushDone
  <2>4. CASE ReleaseAndGo(t) \/ RbMutex(t) \/ RbMiss(t) \/ ReadBlock(t)
    BY <2>4 DEF ReleaseAndGo, RbMutex, RbMiss, ReadBlock
  <2>5. CASE UnlinkReadSize(t)
    BY <2>5 DEF UnlinkReadSize, BeginRemoval
  <2> HIDE DEF Out
  <2> QED  BY SMTT(30), <2>1, <2>2, <2>3, <2>4, <2>5
<1>2. Dispatch(t) \/ Step(t)
  BY DEF Step
<1> QED  BY <1>1, <1>2, BesideSame, WroteStep DEF Unseen

LEMMA InertUnseen ==
    ASSUME ImplInv, NEW t \in Threads, \A u \in Threads \ {t} : SameFrame(u),
           \/ WriteLock(t) /\ pc[t] # "rm_wrlock"
           \/ PublishSkip(t) \/ PublishOurs(t) \/ UseWinner(t) \/ RbHit(t) \/ RbUnlock(t)
    PROVE  Unseen
<1>a. pc \in [Threads -> PCs] /\ (pc[t] \in WriteLocked => writer = t)
  BY DEF ImplInv, RefInv, TypeInv, TypeOK, ControlType, LockDiscipline
<1> DEFINE Out == /\ file_to_master' = file_to_master /\ file_to_sizes' = file_to_sizes
                  /\ writer = NULL \/ pc[writer] \notin AheadPCs
                  /\ writer' = NULL \/ pc'[writer'] \notin AheadPCs
                  /\ req' = req /\ pc[t] \notin WrotePCs /\ pc'[t] \notin WrotePCs
<1>1. Out
  <2> USE <1>a DEF WriteLocked, AheadPCs, WrotePCs, Goto, NextIter, lockVars, dataVars, indexVars,
            frameVars
  <2>1. CASE WriteLock(t) /\ pc[t] # "rm_wrlock"
    BY <2>1 DEF WriteLock, WrLockFree
  <2>2. CASE PublishSkip(t)
    BY <2>2 DEF PublishSkip
  <2>3. CASE PublishOurs(t)
    BY <2>3 DEF PublishOurs
  <2>4. CASE UseWinner(t)
    <3>1. /\ pc[t] = "w_publish" /\ pc' = pc /\ req' = req /\ writer' = writer
          /\ file_to_master' = file_to_master /\ file_to_sizes' = file_to_sizes
      BY <2>4 DEF UseWinner
    <3> QED  BY <3>1
  <2>5. CASE RbHit(t) \/ RbUnlock(t)
    BY <2>5 DEF RbHit, RbUnlock
  <2> HIDE DEF Out
  <2> QED  BY <2>1, <2>2, <2>3, <2>4, <2>5
<1>2. Dispatch(t) \/ Step(t)
  BY DEF Step
<1> QED  BY <1>1, <1>2, InertSame, WroteStep DEF Unseen

\* A block changes from promised to mapped.
LEMMA MapUnseen ==
    ASSUME ImplInv, NEW t \in Threads, \A u \in Threads \ {t} : SameFrame(u), MapBlock(t)
    PROVE  Unseen
<1>j. PICK j : j = k[t]
  OBVIOUS
<1>x. PICK y : y = KeyOf(t, j)
  OBVIOUS
<1>p. PICK p : p = plan[t][j].info
  OBVIOUS
<1>s. PICK s : s = StartBlock(req[t])
  OBVIOUS
<1>1. /\ pc[t] = "w_map" /\ j < N(t) /\ pc' = pc /\ k'[t] = j + 1 /\ req' = req
      /\ file_to_master' = [file_to_master EXCEPT ![y] = p]
      /\ writer' = writer /\ file_to_sizes' = file_to_sizes
  BY <1>j, <1>x, <1>p DEF MapBlock, NextIter, SetK, lockVars, ImplInv, RefInv, TypeInv, TypeOK,
     ControlType
<1>2. /\ j \in Idx /\ j \in Nat /\ y \in Key /\ s \in Nat /\ N(t) \in Nat
      /\ y = <<req[t].path, s + j>>
  <2>1. j \in Idx /\ y \in Key
    BY <1>1, <1>j, <1>x, IterFacts DEF ImplInv, RefInv, WritePCs
  <2>2. req[t] \in Requests
    BY <1>1 DEF ImplInv, RefInv, TypeInv, FramesOK, FrameOK
  <2> QED  BY <2>1, <2>2, <1>s, <1>x, RequestFacts, BoundsAssumption DEF Idx, N, KeyOf
<1>3. writer = t /\ t # NULL
  BY <1>1, NullAssumption DEF ImplInv, RefInv, LockDiscipline, WriteLocked
<1>4. p \in heap /\ info[p].hash = HashAt(t, j) /\ p # NULL
  <2>1. Holds(t, j)
    <3>1. PlanEnd(t) = N(t)
      BY <1>1 DEF PlanEnd, PlannedPCs, WritePCs
    <3>2. Planned(t, j)
      BY <1>1, <1>2, <3>1 DEF ImplInv, RefInv, ShapeOK
    <3> QED  BY <1>1, <1>2, <1>j, <3>2 DEF Holds, HoldsRef
  <2> QED  BY <1>2, <1>p, <2>1, HeapFacts DEF ImplInv, RefInv, EntriesOK, EntryOK
<1>5. Dispatch(t) \/ Step(t)
  BY DEF Step
<1>6. info'[p].hash = HashAt(t, j)
  BY <1>4, <1>5, HashKept DEF ImplInv
<1>7. file_to_master \in [Key -> Infos \cup {NULL}]
  BY HeapFacts DEF ImplInv, RefInv
<1>8. ASSUME NEW x \in Key PROVE At(x)' = At(x)
  <2>1. x[2] \in Nat /\ x = <<x[1], x[2]>>
    BY BoundsAssumption DEF Key, Blocks
  <2>2. CASE x = y
    <3>1. ToMap(t, x) /\ x[2] - s = j
      BY <1>1, <1>2, <1>j, <1>s, <2>2 DEF ToMap
    <3>2. At(x) = HashAt(t, j)
      BY <1>3, <1>s, <3>1 DEF At
    <3>3. ~ToMap(t, x)' /\ ~ToUnmap(t, x)'
      BY <1>1, <1>2, <1>s, <2>2 DEF ToMap, ToUnmap, N
    <3>4. View(x)' = HashAt(t, j)
      BY <1>1, <1>2, <1>4, <1>6, <1>7, <2>2 DEF View
    <3> QED  BY <1>1, <1>3, <3>2, <3>3, <3>4 DEF At
  <2>3. CASE x # y
    <3>1. View(x)' = View(x)
      BY <1>1, <1>2, <1>5, <1>7, <2>3, ViewKept
    <3>2. ToMap(t, x)' <=> ToMap(t, x)
      <4>1. ~(x[1] = req[t].path /\ x[2] - s = j)
        BY <1>2, <2>1, <2>3
      <4>2. x[2] - s \in j + 1 .. N(t) - 1 <=> x[2] - s \in j .. N(t) - 1 /\ x[2] - s # j
        BY <1>2, <2>1
      <4> QED  BY <1>1, <1>j, <1>s, <4>1, <4>2 DEF ToMap, N
    <3>3. ~ToUnmap(t, x) /\ ~ToUnmap(t, x)'
      BY <1>1 DEF ToUnmap
    <3> QED  BY <1>1, <1>3, <3>1, <3>2, <3>3 DEF At, HashAt, Payload
  <2> QED  BY <2>2, <2>3
<1>9. \A f \in Paths : SizeAt(f)' = SizeAt(f)
  BY <1>1, <1>3 DEF SizeAt, GrownSize, N
<1> QED  BY <1>1, <1>8, <1>9, SameAt, WroteStep DEF Unseen

\* A block changes from doomed to unmapped.
LEMMA RemoveUnseen ==
    ASSUME ImplInv, NEW t \in Threads, \A u \in Threads \ {t} : SameFrame(u), RemoveBlock(t)
    PROVE  Unseen
<1>j. PICK j : j = k[t]
  OBVIOUS
<1>x. PICK y : y = <<req[t].path, j>>
  OBVIOUS
<1>1. /\ pc[t] = "rm_loop" /\ j < lim[t] /\ pc' = pc /\ k'[t] = j + 1 /\ req' = req /\ lim' = lim
      /\ file_to_master' = [file_to_master EXCEPT ![y] = NULL]
      /\ writer' = writer /\ file_to_sizes' = file_to_sizes
  BY <1>j, <1>x DEF RemoveBlock, NextIter, SetK, lockVars, ImplInv, RefInv, TypeInv, TypeOK,
     ControlType
<1>2. j \in Nat /\ y \in Key /\ lim[t] \in Nat
  <2>1. k[t] \in 0 .. MaxBlocks /\ lim[t] \in 0 .. MaxBlocks /\ MaxBlocks \in Nat
    BY BoundsAssumption DEF ImplInv, RefInv, TypeInv, TypeOK, ControlType
  <2>2. req[t].path \in Paths
    BY <1>1, RequestFacts DEF ImplInv, RefInv, TypeInv, FramesOK, FrameOK
  <2> QED  BY <1>1, <1>j, <1>x, <2>1, <2>2 DEF Key, Blocks
<1>3. writer = t /\ t # NULL
  BY <1>1, NullAssumption DEF ImplInv, RefInv, LockDiscipline, WriteLocked
<1>4. Dispatch(t) \/ Step(t)
  BY DEF Step
<1>5. file_to_master \in [Key -> Infos \cup {NULL}]
  BY HeapFacts DEF ImplInv, RefInv
<1>6. ASSUME NEW x \in Key PROVE At(x)' = At(x)
  <2>1. x[2] \in Nat /\ x = <<x[1], x[2]>>
    BY BoundsAssumption DEF Key, Blocks
  <2>2. ~ToMap(t, x) /\ ~ToMap(t, x)'
    BY <1>1 DEF ToMap
  <2>3. CASE x = y
    <3>1. ToUnmap(t, x)
      BY <1>1, <1>2, <1>j, <1>x, <2>3 DEF ToUnmap
    <3>2. View(x)' = NULL
      BY <1>1, <1>2, <1>5, <2>3 DEF View
    <3> QED  BY <1>1, <1>3, <2>2, <3>1, <3>2 DEF At
  <2>4. CASE x # y
    <3>1. View(x)' = View(x)
      BY <1>1, <1>2, <1>4, <1>5, <2>4, ViewKept
    <3>2. ToUnmap(t, x)' <=> ToUnmap(t, x)
      <4>1. ~(x[1] = req[t].path /\ x[2] = j)
        BY <1>x, <2>1, <2>4
      <4>2. x[2] \in j + 1 .. lim[t] - 1 <=> x[2] \in j .. lim[t] - 1 /\ x[2] # j
        BY <1>2, <2>1
      <4> QED  BY <1>1, <1>j, <4>1, <4>2 DEF ToUnmap
    <3> QED  BY <1>1, <1>3, <2>2, <3>1, <3>2 DEF At
  <2> QED  BY <2>3, <2>4
<1>7. \A f \in Paths : SizeAt(f)' = SizeAt(f)
  BY <1>1, <1>3 DEF SizeAt
<1> QED  BY <1>1, <1>6, <1>7, SameAt, WroteStep DEF Unseen

\* The loops are over when the lock is dropped, and the size is the promised one.
LEMMA UnlockUnseen ==
    ASSUME ImplInv, NEW t \in Threads, \A u \in Threads \ {t} : SameFrame(u),
           Commit(t) \/ RemoveUnlock(t)
    PROVE  Unseen
<1>a. /\ pc \in [Threads -> PCs]
      /\ file_to_sizes \in [Paths -> (0 .. MaxBlocks) \cup {NULL}]
  BY DEF ImplInv, RefInv, TypeInv, TypeOK, ControlType, IndexType
<1>1. Dispatch(t) \/ Step(t)
  BY DEF Step
<1>2. /\ pc[t] \in {"w_map", "rm_loop"} /\ writer' = NULL /\ req' = req
      /\ file_to_master' = file_to_master
  BY DEF Commit, RemoveUnlock, frameVars, dataVars, indexVars
<1>3. writer = t /\ t # NULL
  BY <1>2, NullAssumption DEF ImplInv, RefInv, LockDiscipline, WriteLocked
<1>4. \A x \in Key : View(x)' = View(x)
  BY <1>1, <1>2, ViewKept
<1>b. k[t] \in Nat /\ lim[t] \in Nat
  BY BoundsAssumption DEF ImplInv, RefInv, TypeInv, TypeOK, ControlType
<1>5. ASSUME NEW x \in Key PROVE At(x)' = At(x)
  <2>1. ~ToMap(t, x) /\ ~ToUnmap(t, x)
    BY <1>b DEF Commit, RemoveUnlock, ToMap, ToUnmap
  <2> QED  BY <1>2, <1>3, <1>4, <2>1 DEF At
<1>6. CASE Commit(t)
  <2>1. /\ pc[t] = "w_map" /\ pc'[t] = "w_release"
        /\ file_to_sizes' = [file_to_sizes EXCEPT ![req[t].path] = GrownSize(t)]
    BY <1>6, <1>a DEF Commit, Goto
  <2>2. req[t].path \in Paths
    BY <2>1, RequestFacts DEF ImplInv, RefInv, TypeInv, FramesOK, FrameOK
  <2>3. \A f \in Paths : SizeAt(f)' = SizeAt(f)
    BY <1>2, <1>3, <1>a, <2>1, <2>2 DEF SizeAt
  <2> QED  BY <1>2, <1>5, <2>1, <2>3, SameAt, WroteStep DEF Unseen, WrotePCs
<1>7. CASE RemoveUnlock(t)
  <2>1. pc[t] = "rm_loop" /\ pc'[t] = "rm_release" /\ file_to_sizes' = file_to_sizes
    BY <1>7, <1>a DEF RemoveUnlock, Goto, dataVars, indexVars
  <2>2. \A f \in Paths : SizeAt(f)' = SizeAt(f)
    BY <1>2, <1>3, <2>1 DEF SizeAt
  <2> QED  BY <1>2, <1>5, <2>1, <2>2, SameAt, WroteStep DEF Unseen, WrotePCs
<1> QED  BY <1>6, <1>7

-----------------------------------------------------------------------------
(* Steps that show                                                         *)

LEMMA CallStep ==
    ASSUME ImplInv, NEW t \in Threads, \A u \in Threads \ {t} : SameFrame(u), Dispatch(t)
    PROVE  Unseen \/ Flat!Call(t)
<1>a. pc \in [Threads -> PCs] /\ req \in [Threads -> Requests \cup {NULL}]
  BY DEF ImplInv, RefInv, TypeInv, TypeOK, ControlType
<1>1. pc[t] = "idle" /\ req[t] = NULL
  BY DEF Dispatch, ImplInv, FileInv, OpsOK, OpOK
<1>2. PICK r \in Requests :
          /\ pc'[t] = Entry(r)
          /\ req' = [req EXCEPT ![t] = IF Entry(r) = "idle" THEN NULL ELSE r]
  BY <1>a DEF Dispatch, Goto
<1>3. Beside(t)
  BY <1>1 DEF Beside, Dispatch, indexVars, lockVars, WriteLocked
<1>4. SameFlat
  BY <1>3, BesideSame
<1>5. Wrote' = Wrote
  BY <1>1, <1>2, EntryRange, WroteStep DEF WrotePCs
<1>6. CASE Entry(r) = "idle"
  <2>1. req' = req
    BY <1>a, <1>1, <1>2, <1>6
  <2> QED  BY <1>4, <1>5, <2>1 DEF Unseen
<1>7. CASE Entry(r) # "idle"
  <2>1. req' = [req EXCEPT ![t] = r]
    BY <1>2, <1>7
  <2> QED  BY <1>1, <1>4, <1>5, <2>1 DEF Flat!Call, SameFlat, Wrote, WrotePCs
<1> QED  BY <1>6, <1>7

\* The batch takes effect.
LEMMA PutStep ==
    ASSUME ImplInv, NEW t \in Threads, \A u \in Threads \ {t} : SameFrame(u), PublishDone(t)
    PROVE  Flat!Put(t)
<1>r. PICK r : r = req[t]
  OBVIOUS
<1>1. /\ pc[t] = "w_publish" /\ pc'[t] = "w_map" /\ k'[t] = 0 /\ req' = req
      /\ file_to_master' = file_to_master /\ file_to_sizes' = file_to_sizes
      /\ writer' = writer
  BY DEF PublishDone, Goto, SetK, dataVars, indexVars, lockVars, frameVars, ImplInv, RefInv,
     TypeInv, TypeOK, ControlType
<1>2. r \in Requests /\ r.op = "write" /\ r # NULL
  BY <1>1, <1>r, RequestFacts DEF ImplInv, RefInv, TypeInv, FramesOK, FrameOK, WritePCs
<1>3. /\ N(t) = NumBlocks(r) /\ NumBlocks(r) \in Nat /\ StartBlock(r) \in Nat /\ r.path \in Paths
  BY <1>2, <1>r, RequestFacts, BoundsAssumption DEF N
<1>4. writer = t /\ t # NULL
  BY <1>1, NullAssumption DEF ImplInv, RefInv, LockDiscipline, WriteLocked
<1>5. Dispatch(t) \/ Step(t)
  BY DEF Step
<1>6. \A x \in Key : View(x)' = View(x)
  BY <1>1, <1>5, ViewKept
<1> DEFINE In(x) == x[1] = r.path /\ StartBlock(r) <= x[2] /\ x[2] < StartBlock(r) + NumBlocks(r)
<1>7. ASSUME NEW x \in Key
      PROVE  At(x)' = IF In(x) THEN DatumOf(r, x[2] - StartBlock(r)) ELSE At(x)
  <2>1. x[2] \in Nat
    BY BoundsAssumption DEF Key, Blocks
  <2>2. ToMap(t, x)' <=> In(x)
    BY <1>1, <1>3, <1>r, <2>1 DEF ToMap, N
  <2>3. ~ToUnmap(t, x)' /\ ~ToMap(t, x) /\ ~ToUnmap(t, x)
    BY <1>1 DEF ToMap, ToUnmap
  <2>4. At(x) = View(x)
    BY <2>3, <1>4 DEF At
  <2>5. HashAt(t, x[2] - StartBlock(r))' = DatumOf(r, x[2] - StartBlock(r))
    BY <1>1, <1>r DEF HashAt, Payload, DatumOf
  <2> QED  BY <1>1, <1>4, <1>6, <1>r, <2>2, <2>3, <2>4, <2>5 DEF At
<1>8. FlatContent' = [x \in DOMAIN FlatContent |->
                         IF In(x) THEN DatumOf(r, x[2] - StartBlock(r)) ELSE FlatContent[x]]
  <2>1. FlatContent' = [x \in Key |-> At(x)']
    BY DEF FlatContent, At
  <2>2. FlatContent = [x \in Key |-> At(x)]
    BY DEF FlatContent, At
  <2> HIDE DEF In
  <2> QED  BY <1>7, <2>1, <2>2
<1>9. FlatSize' = [FlatSize EXCEPT ![r.path] =
                       IF @ # NULL /\ @ > StartBlock(r) + NumBlocks(r) THEN @
                       ELSE StartBlock(r) + NumBlocks(r)]
  <2>s. file_to_sizes \in [Paths -> (0 .. MaxBlocks) \cup {NULL}] /\ MaxBlocks \in Nat
    BY BoundsAssumption DEF ImplInv, RefInv, TypeInv, TypeOK, IndexType
  <2>1. FlatSize = file_to_sizes
    BY <1>1, <1>4, <2>s DEF FlatSize
  <2>2. FlatSize' = [f \in Paths |-> IF r.path = f THEN GrownSize(t)' ELSE file_to_sizes[f]]
    BY <1>1, <1>4, <1>r DEF FlatSize
  <2>3. GrownSize(t)' = LET end == StartBlock(r) + NumBlocks(r)
                            old == file_to_sizes[r.path]
                        IN IF old = NULL THEN end ELSE IF end > old THEN end ELSE old
    BY <1>1, <1>r DEF GrownSize, N
  <2>4. GrownSize(t)' = IF file_to_sizes[r.path] # NULL
                           /\ file_to_sizes[r.path] > StartBlock(r) + NumBlocks(r)
                        THEN file_to_sizes[r.path] ELSE StartBlock(r) + NumBlocks(r)
    BY <1>3, <2>s, <2>3
  <2> QED  BY <1>3, <2>s, <2>1, <2>2, <2>4
<1>10. Wrote' = Wrote \cup {t} /\ t \notin Wrote
  BY <1>1, WroteStep DEF Wrote, WrotePCs
<1> QED
  BY <1>1, <1>2, <1>8, <1>9, <1>10, <1>r DEF Flat!Put, Wrote, WrotePCs

\* The removal takes effect.
LEMMA RemoveStep ==
    ASSUME ImplInv, NEW t \in Threads, \A u \in Threads \ {t} : SameFrame(u), WriteLock(t),
           pc[t] = "rm_wrlock"
    PROVE  Flat!Remove(t)
<1>r. PICK r : r = req[t]
  OBVIOUS
<1>1. /\ pc'[t] = "rm_loop" /\ k' = k /\ lim' = lim /\ req' = req /\ writer = NULL /\ writer' = t
      /\ file_to_master' = file_to_master /\ file_to_sizes' = file_to_sizes
  BY DEF WriteLock, WrLockFree, Goto, dataVars, indexVars, frameVars, ImplInv, RefInv,
     TypeInv, TypeOK, ControlType
<1>2. /\ r \in Requests /\ r.op \in {"unlink", "truncate"} /\ r # NULL
      /\ r.op = "truncate" => N(t) <= k[t]
  BY <1>r, RequestFacts DEF ImplInv, RefInv, TypeInv, FramesOK, FrameOK, FileInv, OpsOK, OpOK
<1>3. N(t) = NumBlocks(r) /\ NumBlocks(r) \in Nat /\ k[t] \in Nat /\ lim[t] \in Nat /\ t # NULL
  BY <1>2, <1>r, RequestFacts, BoundsAssumption, NullAssumption DEF N, ImplInv, RefInv, TypeInv,
     TypeOK, ControlType
<1>4. Dispatch(t) \/ Step(t)
  BY DEF Step
<1>5. \A x \in Key : View(x)' = View(x)
  BY <1>1, <1>4, ViewKept
<1>6. \A b \in Blocks : Shows(r.path, b) => Survives(t, b) \/ Remaining(t, b)
  BY <1>r DEF ImplInv, FileInv, RemovalsOK, RemovalOK, RemovalPCs
<1>7. ASSUME NEW x \in Key
      PROVE  At(x)' = IF Flat!Doomed(r, x) THEN NULL ELSE At(x)
  <2>1. x[2] \in Nat /\ x[2] \in Blocks /\ x = <<x[1], x[2]>>
    BY BoundsAssumption DEF Key, Blocks
  <2>2. At(x) = View(x) /\ ~ToMap(t, x)'
    BY <1>1 DEF At, ToMap
  <2>3. At(x)' = IF ToUnmap(t, x)' THEN NULL ELSE View(x)
    BY <1>1, <1>3, <1>5, <2>2 DEF At
  <2>4. ToUnmap(t, x)' <=> x[1] = r.path /\ k[t] <= x[2] /\ x[2] < lim[t]
    BY <1>1, <1>3, <1>r, <2>1 DEF ToUnmap
  <2>5. ToUnmap(t, x)' => Flat!Doomed(r, x)
    BY <1>2, <1>3, <2>1, <2>4 DEF Flat!Doomed
  <2>6. ASSUME Flat!Doomed(r, x), ~ToUnmap(t, x)' PROVE View(x) = NULL
    <3>1. x[1] = r.path /\ ~Survives(t, x[2])
      BY <1>2, <1>3, <1>r, <2>1, <2>6 DEF Flat!Doomed, Survives
    <3>2. ~Remaining(t, x[2])
      BY <2>4, <2>6, <3>1 DEF Remaining
    <3>3. ~Shows(x[1], x[2])
      BY <1>6, <2>1, <3>1, <3>2
    <3> QED  BY <2>1, <3>3 DEF Shows, View
  <2> QED  BY <2>2, <2>3, <2>5, <2>6
<1>8. FlatContent' = [x \in DOMAIN FlatContent |->
                         IF Flat!Doomed(r, x) THEN NULL ELSE FlatContent[x]]
  <2>1. FlatContent' = [x \in Key |-> At(x)']
    BY DEF FlatContent, At
  <2>2. FlatContent = [x \in Key |-> At(x)]
    BY DEF FlatContent, At
  <2> QED  BY <1>7, <2>1, <2>2
<1>9. FlatSize' = FlatSize
  <2>1. \A f \in Paths : SizeAt(f)' = SizeAt(f)
    BY <1>1 DEF SizeAt
  <2> QED  BY <2>1 DEF FlatSize, SizeAt
<1>10. Wrote' = Wrote
  BY <1>1, WroteStep DEF WrotePCs
<1> QED
  BY <1>1, <1>2, <1>8, <1>9, <1>10, <1>r DEF Flat!Remove, Wrote, WrotePCs

\* A handler away from the two loops sees its own file as the tables show it.
LEMMA OwnAt ==
    ASSUME ImplInv, NEW t \in Threads, Modifies(t), pc[t] \notin AheadPCs
    PROVE  /\ \A x \in Key : x[1] = req[t].path => FlatContent[x] = View(x)
           /\ FlatSize[req[t].path] = file_to_sizes[req[t].path]
<1>1. ASSUME writer # NULL, pc[writer] \in AheadPCs PROVE req[writer].path # req[t].path
  <2>1. writer \in Threads /\ writer # t
    BY <1>1 DEF ImplInv, RefInv, TypeInv, TypeOK, LockType
  <2>2. Modifies(writer)
    BY <1>1, <2>1, RequestFacts DEF AheadPCs, Modifies, ImplInv, FileInv, OpsOK, OpOK,
       PlannedPCs, WritePCs, TypeInv, FramesOK, FrameOK
  <2> QED  BY <2>1, <2>2 DEF ImplInv, FileInv, Exclusive
<1>2. req[t].path \in Paths
  BY RequestFacts DEF Modifies, ImplInv, RefInv, TypeInv, TypeOK, ControlType
<1>3. \A x \in Key : x[1] = req[t].path => At(x) = View(x)
  BY <1>1 DEF At, ToMap, ToUnmap, AheadPCs
<1>4. SizeAt(req[t].path) = file_to_sizes[req[t].path]
  BY <1>1 DEF SizeAt, AheadPCs
<1> QED  BY <1>2, <1>3, <1>4, FlatAt

\* A removal is over: nothing it has to take away is left.
LEMMA NothingLeft ==
    ASSUME ImplInv, NEW t \in Threads,
           \/ pc[t] \in {"u_size", "t_size", "u_backend"}
           \/ pc[t] = "t_read" /\ ~Shrinks(t)
    PROVE  Flat!Left(req[t]) = {} /\ Modifies(t) /\ req[t] \in Requests
<1>1. req[t] \in Requests /\ req[t] # NULL /\ N(t) \in Nat
  BY RequestFacts, BoundsAssumption DEF ImplInv, RefInv, TypeInv, FramesOK, FrameOK, N
<1>2. /\ Modifies(t)
      /\ pc[t] \in {"t_read", "t_size"} => req[t].op = "truncate"
  BY <1>1 DEF Modifies, ImplInv, FileInv, OpsOK, OpOK
<1>3. ASSUME NEW x \in Key, Flat!Doomed(req[t], x), FlatContent[x] # NULL PROVE FALSE
  <2>1. x[2] \in Nat /\ x[2] \in Blocks /\ x = <<x[1], x[2]>> /\ x[1] = req[t].path
    BY <1>3, BoundsAssumption DEF Key, Blocks, Flat!Doomed
  <2>2. View(x) # NULL
    BY <1>2, <1>3, <2>1, OwnAt DEF AheadPCs
  <2>3. Shows(x[1], x[2])
    BY <2>1, <2>2 DEF View, Shows
  <2>4. ~Survives(t, x[2])
    BY <1>1, <1>3, <2>1 DEF Flat!Doomed, Survives, N
  <2>5. CASE pc[t] \in {"u_size", "t_size", "u_backend"}
    BY <2>1, <2>3, <2>4, <2>5 DEF ImplInv, FileInv, RemovalsOK, RemovalOK, RemovalPCs, Remaining
  <2>6. CASE pc[t] = "t_read" /\ ~Shrinks(t)
    <3>1. Covered(x[1], x[2])
      BY <1>2, <2>1, <2>3, <2>6, CoveredNow DEF ImplInv
    <3>2. file_to_sizes[req[t].path] \in 0 .. MaxBlocks
      BY <1>1, <2>1, <3>1, RequestFacts DEF Covered, ImplInv, RefInv, TypeInv, TypeOK, IndexType
    <3>3. x[2] < N(t)
      BY <1>1, <2>1, <2>6, <3>1, <3>2, BoundsAssumption DEF Covered, Shrinks
    <3> QED  BY <1>2, <2>4, <2>6, <3>3 DEF Survives
  <2> QED  BY <2>5, <2>6
<1>4. Flat!Left(req[t]) = {x \in Key : Flat!Doomed(req[t], x) /\ FlatContent[x] # NULL}
  BY FlatAt DEF Flat!Left
<1> QED  BY <1>1, <1>2, <1>3, <1>4

\* A handler that returns without touching the tables.
LEMMA ReplyStep ==
    ASSUME ImplInv, NEW t \in Threads, \A u \in Threads \ {t} : SameFrame(u),
           Dispatch(t) \/ Step(t), Beside(t), Return(t), pc[t] # "idle",
           req[t].op \in {"unlink", "truncate"} =>
               /\ Flat!Left(req[t]) = {}
               /\ \/ FlatSize[req[t].path] = NULL
                  \/ req[t].op = "truncate" /\ FlatSize[req[t].path] <= NumBlocks(req[t])
    PROVE  Flat!Reply(t)
<1>1. SameFlat
  BY BesideSame
<1>2. req' = [req EXCEPT ![t] = NULL] /\ pc'[t] = "idle"
  BY DEF Return, Goto, ImplInv, RefInv, TypeInv, TypeOK, ControlType
<1>3. Wrote' = Wrote \ {t}
  BY <1>2, WroteStep DEF WrotePCs
<1>4. req[t] # NULL
  BY RequestFacts DEF ImplInv, RefInv, TypeInv, FramesOK, FrameOK
<1>5. Flat!Hangup(t)
  BY <1>2, <1>3 DEF Flat!Hangup, Wrote, WrotePCs
<1> QED  BY <1>1, <1>4, <1>5 DEF Flat!Reply, SameFlat

\* Writes that return, done or failed, reads and creations.
LEMMA PlainReplies ==
    ASSUME ImplInv, NEW t \in Threads, \A u \in Threads \ {t} : SameFrame(u),
           ReleaseAfterWrite(t) \/ RbDone(t) \/ Create(t) \/ ReadLookup(t) \/ ReadReturn(t)
    PROVE  Unseen \/ Flat!Reply(t)
<1>1. Dispatch(t) \/ Step(t)
  BY DEF Step
<1>2. /\ Beside(t)
      /\ pc[t] \in {"w_release", "rb_miss", "c_open", "r_lookup", "r_pread"}
  BY DEF ReleaseAfterWrite, RbDone, Create, ReadLookup, ReadReturn, Beside, WriteLocked, lockVars,
     dataVars, indexVars
<1>3. req[t].op \in {"write", "create", "read"}
  BY <1>2 DEF ImplInv, FileInv, OpsOK, OpOK, PlannedPCs, WritePCs
<1>4. CASE Return(t)
  BY <1>1, <1>2, <1>3, <1>4, ReplyStep
<1>5. CASE ~Return(t)
  <2>1. pc'[t] = "r_pread" /\ pc[t] = "r_lookup" /\ req' = req
    BY <1>5 DEF ReleaseAfterWrite, RbDone, Create, ReadLookup, ReadReturn, Goto, ImplInv, RefInv,
       TypeInv, TypeOK, ControlType
  <2> QED  BY <1>1, <1>2, <2>1, BesideSame, WroteStep DEF Unseen, WrotePCs
<1> QED  BY <1>4, <1>5

\* Once the look-up of the size finds nothing to cut, truncate returns.
LEMMA TruncateReadStep ==
    ASSUME ImplInv, NEW t \in Threads, \A u \in Threads \ {t} : SameFrame(u), TruncateReadSize(t)
    PROVE  Unseen \/ Flat!Reply(t)
<1>1. Dispatch(t) \/ Step(t)
  BY DEF Step
<1>2. Beside(t) /\ pc[t] = "t_read"
  BY DEF TruncateReadSize, Beside, WriteLocked, lockVars, dataVars, indexVars
<1>3. CASE Shrinks(t)
  <2>1. pc'[t] \in {"rm_wrlock", "t_size"} /\ req' = req
    BY <1>3 DEF TruncateReadSize, BeginRemoval, Goto, ImplInv, RefInv, TypeInv, TypeOK,
       ControlType
  <2> QED  BY <1>1, <1>2, <2>1, BesideSame, WroteStep DEF Unseen, WrotePCs
<1>4. CASE ~Shrinks(t)
  <2>1. Return(t)
    BY <1>4 DEF TruncateReadSize
  <2>2. Flat!Left(req[t]) = {} /\ Modifies(t) /\ req[t] \in Requests
    BY <1>2, <1>4, NothingLeft
  <2>3. FlatSize[req[t].path] = file_to_sizes[req[t].path]
    BY <1>2, <2>2, OwnAt DEF AheadPCs
  <2>4. \/ file_to_sizes[req[t].path] = NULL
        \/ file_to_sizes[req[t].path] <= NumBlocks(req[t])
    <3>1. file_to_sizes[req[t].path] \in (0 .. MaxBlocks) \cup {NULL}
      BY <2>2, RequestFacts DEF ImplInv, RefInv, TypeInv, TypeOK, IndexType
    <3>2. NumBlocks(req[t]) \in Nat /\ MaxBlocks \in Nat
      BY <2>2, RequestFacts, BoundsAssumption
    <3> QED  BY <1>4, <3>1, <3>2 DEF Shrinks, N
  <2>5. req[t].op = "truncate"
    BY <1>2 DEF ImplInv, FileInv, OpsOK, OpOK
  <2> QED  BY <1>1, <1>2, <2>1, <2>2, <2>3, <2>4, <2>5, ReplyStep
<1> QED  BY <1>3, <1>4

LEMMA UnlinkReplies ==
    ASSUME ImplInv, NEW t \in Threads, \A u \in Threads \ {t} : SameFrame(u), UnlinkBackend(t)
    PROVE  Flat!Reply(t)
<1>1. Dispatch(t) \/ Step(t)
  BY DEF Step
<1>2. Beside(t) /\ pc[t] = "u_backend" /\ Return(t)
  BY DEF UnlinkBackend, Beside, WriteLocked, lockVars, indexVars
<1>3. Flat!Left(req[t]) = {} /\ Modifies(t)
  BY <1>2, NothingLeft
<1>4. FlatSize[req[t].path] = NULL
  BY <1>2, <1>3, OwnAt DEF AheadPCs, ImplInv, FileInv, RemovalsOK, RemovalOK
<1> QED  BY <1>1, <1>2, <1>3, <1>4, ReplyStep

\* A step that sets the size while nobody holds the write lock.
LEMMA SizeOnly ==
    ASSUME ImplInv, NEW t \in Threads, Dispatch(t) \/ Step(t), writer = NULL, writer' = NULL,
           file_to_master' = file_to_master
    PROVE  /\ FlatContent' = FlatContent
           /\ FlatSize = file_to_sizes
           /\ file_to_sizes' \in [Paths -> (0 .. MaxBlocks) \cup {NULL}] =>
                  FlatSize' = file_to_sizes'
<1>1. \A x \in Key : View(x)' = View(x)
  BY ViewKept
<1>2. FlatContent' = FlatContent
  BY <1>1 DEF FlatContent
<1>3. file_to_sizes \in [Paths -> (0 .. MaxBlocks) \cup {NULL}]
  BY DEF ImplInv, RefInv, TypeInv, TypeOK, IndexType
<1> QED  BY <1>2, <1>3 DEF FlatSize

LEMMA UnlinkDropStep ==
    ASSUME ImplInv, NEW t \in Threads, \A u \in Threads \ {t} : SameFrame(u), UnlinkDropSize(t)
    PROVE  Unseen \/ Flat!Resize(t)
<1>r. PICK r : r = req[t]
  OBVIOUS
<1>1. /\ Dispatch(t) \/ Step(t)
      /\ pc[t] = "u_size" /\ pc'[t] = "u_backend" /\ req' = req
      /\ writer = NULL /\ writer' = NULL /\ file_to_master' = file_to_master
      /\ file_to_sizes' = [file_to_sizes EXCEPT ![r.path] = NULL]
  BY <1>r DEF Step, UnlinkDropSize, WrLockFree, Goto, lockVars, frameVars, ImplInv, RefInv,
     TypeInv, TypeOK, ControlType
<1>2. Flat!Left(r) = {} /\ r \in Requests /\ r # NULL /\ r.path \in Paths
  BY <1>1, <1>r, NothingLeft, RequestFacts
<1>3. file_to_sizes \in [Paths -> (0 .. MaxBlocks) \cup {NULL}]
  BY DEF ImplInv, RefInv, TypeInv, TypeOK, IndexType
<1>4. /\ FlatContent' = FlatContent /\ FlatSize = file_to_sizes /\ FlatSize' = file_to_sizes'
  BY <1>1, <1>3, SizeOnly
<1>5. Wrote' = Wrote
  BY <1>1, WroteStep DEF WrotePCs
<1>6. CASE file_to_sizes[r.path] = NULL
  <2>1. file_to_sizes' = file_to_sizes
    BY <1>1, <1>3, <1>6
  <2> QED  BY <1>1, <1>4, <1>5, <2>1 DEF Unseen, SameFlat
<1>7. CASE file_to_sizes[r.path] # NULL
  <2>1. r.op = "unlink"
    BY <1>1, <1>r DEF ImplInv, FileInv, OpsOK, OpOK
  <2> QED  BY <1>1, <1>2, <1>4, <1>5, <1>7, <1>r, <2>1 DEF Flat!Resize, Wrote, WrotePCs
<1> QED  BY <1>6, <1>7

LEMMA TruncateSetStep ==
    ASSUME ImplInv, NEW t \in Threads, \A u \in Threads \ {t} : SameFrame(u), TruncateSetSize(t)
    PROVE  Flat!Resize(t) \/ Flat!Reply(t)
<1>r. PICK r : r = req[t]
  OBVIOUS
<1>1. /\ Dispatch(t) \/ Step(t)
      /\ pc[t] = "t_size" /\ pc'[t] = "idle" /\ req' = [req EXCEPT ![t] = NULL] /\ Return(t)
      /\ writer = NULL /\ writer' = NULL /\ file_to_master' = file_to_master
  BY DEF Step, TruncateSetSize, WrLockFree, Return, Goto, lockVars, ImplInv, RefInv,
     TypeInv, TypeOK, ControlType
<1>2. Flat!Left(r) = {} /\ r \in Requests /\ r # NULL /\ r.path \in Paths /\ Modifies(t)
  BY <1>1, <1>r, NothingLeft, RequestFacts
<1>3. file_to_sizes \in [Paths -> (0 .. MaxBlocks) \cup {NULL}] /\ MaxBlocks \in Nat
  BY BoundsAssumption DEF ImplInv, RefInv, TypeInv, TypeOK, IndexType
<1>4. r.op = "truncate" /\ N(t) = NumBlocks(r) /\ NumBlocks(r) \in Nat
  BY <1>1, <1>2, <1>r, RequestFacts, BoundsAssumption DEF N, ImplInv, FileInv, OpsOK, OpOK
<1>5. CASE Shrinks(t)
  <2>1. file_to_sizes[r.path] # NULL /\ NumBlocks(r) < file_to_sizes[r.path]
    BY <1>4, <1>5, <1>r DEF Shrinks
  <2>2. file_to_sizes' = [file_to_sizes EXCEPT ![r.path] = NumBlocks(r)]
    BY <1>4, <1>5, <1>r DEF TruncateSetSize
  <2>3. file_to_sizes' \in [Paths -> (0 .. MaxBlocks) \cup {NULL}]
    BY <1>2, <1>3, <1>4, <2>1, <2>2
  <2>4. FlatContent' = FlatContent /\ FlatSize = file_to_sizes /\ FlatSize' = file_to_sizes'
    BY <1>1, <2>3, SizeOnly
  <2>5. Flat!Hangup(t)
    BY <1>1, WroteStep DEF Flat!Hangup, Wrote, WrotePCs
  <2> QED  BY <1>2, <1>4, <1>r, <2>1, <2>2, <2>4, <2>5 DEF Flat!Resize
<1>6. CASE ~Shrinks(t)
  <2>1. file_to_sizes' = file_to_sizes
    BY <1>6 DEF TruncateSetSize
  <2>2. Beside(t)
    BY <1>1, <2>1 DEF Beside, WriteLocked
  <2>3. file_to_sizes[r.path] = NULL \/ file_to_sizes[r.path] <= NumBlocks(r)
    BY <1>2, <1>3, <1>4, <1>6, <1>r DEF Shrinks
  <2>4. FlatSize = file_to_sizes
    BY <1>1, SizeOnly
  <2> QED  BY <1>1, <1>2, <1>4, <1>r, <2>2, <2>3, <2>4, ReplyStep
<1> QED  BY <1>5, <1>6

-----------------------------------------------------------------------------
(* The refinement                                                          *)

LEMMA ImplementsInit == Init => Flat!FlatInit
  BY DEF Init, FreshInit, Flat!FlatInit, FlatContent, FlatSize, View, Key

LEMMA FlatStep ==
    ASSUME ImplInv, NEW t \in Threads, Dispatch(t) \/ Step(t)
    PROVE  Unseen \/ Flat!Call(t) \/ Flat!Put(t) \/ Flat!Remove(t) \/ Flat!Resize(t)
                  \/ Flat!Reply(t)
<1>1. \A u \in Threads \ {t} : SameFrame(u)
  BY OthersUnchanged DEF ImplInv, RefInv, TypeInv
<1>2. CASE Dispatch(t)
  BY <1>1, <1>2, CallStep
<1>3. CASE \/ PlanLock(t) \/ PlanHit(t) \/ CountHit(t) \/ PlanMiss(t) \/ PlanUnlock(t)
           \/ Drain(t) \/ AppendSlots(t) \/ FlushRun(t) \/ FlushFail(t) \/ FlushDone(t)
           \/ ReleaseAndGo(t) \/ RbMutex(t) \/ RbMiss(t) \/ UnlinkReadSize(t) \/ ReadBlock(t)
  BY <1>1, <1>3, BesideUnseen
<1>4. CASE WriteLock(t)
  BY <1>1, <1>4, InertUnseen, RemoveStep
<1>5. CASE PublishSkip(t) \/ PublishOurs(t) \/ UseWinner(t) \/ RbHit(t) \/ RbUnlock(t)
  BY <1>1, <1>5, InertUnseen
<1>6. CASE PublishDone(t)
  BY <1>1, <1>6, PutStep
<1>7. CASE MapBlock(t) \/ RemoveBlock(t) \/ Commit(t) \/ RemoveUnlock(t)
  BY <1>1, <1>7, MapUnseen, RemoveUnseen, UnlockUnseen
<1>8. CASE ReleaseAfterWrite(t) \/ RbDone(t) \/ Create(t) \/ ReadLookup(t) \/ ReadReturn(t)
  BY <1>1, <1>8, PlainReplies
<1>9. CASE TruncateReadSize(t) \/ UnlinkBackend(t)
  BY <1>1, <1>9, TruncateReadStep, UnlinkReplies
<1>10. CASE UnlinkDropSize(t) \/ TruncateSetSize(t)
  BY <1>1, <1>10, UnlinkDropStep, TruncateSetStep
<1> QED  BY <1>2, <1>3, <1>4, <1>5, <1>6, <1>7, <1>8, <1>9, <1>10 DEF Step

LEMMA ImplementsStep ==
    ASSUME ImplInv, [Next]_vars
    PROVE  [Flat!FlatNext]_(Flat!flatVars)
<1>1. CASE UNCHANGED vars
  BY <1>1 DEF vars, dataVars, indexVars, heapVars, lockVars, frameVars, Flat!flatVars,
     FlatContent, FlatSize, View, ToMap, ToUnmap, HashAt, Payload, N, GrownSize
<1> QED  BY <1>1, FlatStep, UnseenStep DEF Next, Quiet, Flat!FlatNext

\* The deduplicating file system implements the flat one: with the modifications of
\* one file ordered by the kernel, every behaviour of write_dedup, the removals and
\* the reads (dedup.c:77-683) is one in which a batch appears whole and at once, a
\* failed write leaves no trace, and a removal returns only when all is gone.
THEOREM ImplementsFlat ==
    ASSUME RefcountsFit, DistinctBatches, SerializePaths
    PROVE  Spec => ImplementsFlatFS
<1>1. ImplInv /\ [Next]_vars => [Flat!FlatNext]_(Flat!flatVars)
  BY ImplementsStep
<1>2. RefInv /\ FileInv => ImplInv
  BY DEF ImplInv
<1> QED
  BY RefAlways, FileAlways, ImplementsInit, <1>1, <1>2, PTL DEF Spec, ImplementsFlatFS,
     Flat!FlatSpec
=============================================================================
