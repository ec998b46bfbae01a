---------------------------- MODULE DedupProofs ----------------------------
(***************************************************************************)
(* Dedup in memory, for any number of threads, files, blocks and requests, *)
(* in three parts.  First types and locks, duplicate batches included.     *)
(* Then the accounting of references: every refcount is the number of      *)
(* mapped blocks and plan entries that stand behind it, so no MasterInfo   *)
(* is freed while somebody can still reach it, and every mapped block is   *)
(* found by its hash.  Last the slots: every block of the master file      *)
(* below nextBlockIndex has exactly one owner, whatever handlers drain,    *)
(* append, publish, recycle and roll back at the same time, and the slot   *)
(* the index names holds the payload it is published under.                *)
(***************************************************************************)
EXTENDS DedupProperties, FiniteSetTheorems, SequenceTheorems, TLAPS

-----------------------------------------------------------------------------
(* The inductive invariant *)

WritePCs == {"w_rdlock", "w_plan", "w_hit", "w_drain", "w_append", "w_flush",
             "w_wrlock", "w_publish", "w_map", "rb_wrlock", "rb_hits",
             "rb_release", "rb_mutex", "rb_miss"}

\* Locations at which every MISS of the plan has its slot.
SlottedPCs == {"w_flush", "w_wrlock", "w_publish", "w_map",
               "rb_wrlock", "rb_hits", "rb_release", "rb_mutex", "rb_miss"}

\* What a running handler's frame holds: its request, a loop index inside the
\* request, and plan entries whose pointers and slots were really assigned.
FrameOK(t) ==
    /\ pc[t] # "idle" => req[t] \in Requests
    /\ pc[t] \in {"idle", "w_rdlock"} => k[t] = 0
    /\ pc[t] \in WritePCs => req[t].op = "write" /\ k[t] <= N(t)
    /\ pc[t] = "w_hit" => k[t] < N(t) /\ plan[t][k[t]].kind = "HIT"
    /\ pc[t] \in {"rm_wrlock", "rm_loop"} => k[t] <= lim[t]

PlanOK(t) ==
    \A i \in Idx :
        /\ plan[t][i].kind # "NONE" => plan[t][i].info \in Infos
        /\ plan[t][i].info # NULL => info[plan[t][i].info].hash \in Hashes
        /\ pc[t] \in SlottedPCs /\ plan[t][i].kind = "MISS" =>
               plan[t][i].master_blk \in Slots

\* A MasterInfo reachable through a table carries a digest.
PublishedOK ==
    \A h \in Hashes :
        hash_to_master[h] # NULL => info[hash_to_master[h]].hash \in Hashes
MappedOK ==
    \A x \in Key :
        file_to_master[x] # NULL => info[file_to_master[x]].hash \in Hashes

FramesOK == \A t \in Threads : FrameOK(t)
PlansOK  == \A t \in Threads : PlanOK(t)

TypeInv == TypeOK /\ FramesOK /\ PlansOK /\ PublishedOK /\ MappedOK

-----------------------------------------------------------------------------
(* Facts about requests *)

LEMMA RequestFacts ==
    ASSUME NEW r \in Requests
    PROVE  /\ r.path \in Paths
           /\ NumBlocks(r) \in 0 .. MaxBlocks
           /\ StartBlock(r) \in Nat
           /\ \A i \in 0 .. NumBlocks(r) - 1 : <<r.path, StartBlock(r) + i>> \in Key
           /\ r.op = "write" => \A i \in 0 .. NumBlocks(r) - 1 : r.data[i + 1] \in Contents
           /\ r # NULL
<1>1. /\ r.path \in Paths /\ StartBlock(r) \in Nat /\ NumBlocks(r) \in Nat
      /\ StartBlock(r) + NumBlocks(r) <= MaxBlocks /\ MaxBlocks \in Nat
      /\ r.data \in Seq(Contents)
      /\ r.op = "write" => Len(r.data) = NumBlocks(r)
  BY RequestsAssumption, BoundsAssumption
<1>2. \A i \in 0 .. NumBlocks(r) - 1 : <<r.path, StartBlock(r) + i>> \in Key
  BY <1>1 DEF Key, Blocks
<1>3. r.op = "write" => \A i \in 0 .. NumBlocks(r) - 1 : r.data[i + 1] \in Contents
  BY <1>1
<1>4. r # NULL
  BY NullAssumption
<1> QED  BY <1>1, <1>2, <1>3, <1>4


-----------------------------------------------------------------------------
(* Lock discipline *)

LEMMA EntryRange ==
    ASSUME NEW r \in Requests
    PROVE  Entry(r) \in {"idle", "w_rdlock", "r_lookup", "t_read", "u_read", "c_open"}
  BY RequestsAssumption DEF Entry, WriteEntry, ReadEntry, TruncateEntry, Ops

\* A process that has just started, over whatever names the backend has.
Fresh == FreshInit /\ names \subseteq Paths

LEMMA InitFresh == Init => Fresh
  BY DEF Init, Fresh

LEMMA LockInit == Fresh => LockDiscipline
  BY NullAssumption DEF Fresh, FreshInit, LockDiscipline, ReadLocked, WriteLocked

LEMMA LockStep ==
    ASSUME pc \in [Threads -> PCs], readers \subseteq Threads, LockDiscipline,
           NEW t \in Threads, Dispatch(t) \/ Step(t)
    PROVE  LockDiscipline'
<1> USE NullAssumption DEF LockDiscipline, ReadLocked, WriteLocked, Goto
<1>0. CASE Dispatch(t)
  <2>1. PICK r \in Requests : Goto(t, Entry(r))
    BY <1>0 DEF Dispatch
  <2>2. UNCHANGED lockVars /\ pc[t] = "idle"
    BY <1>0 DEF Dispatch
  <2> QED  BY <2>1, <2>2, EntryRange DEF lockVars
<1>1. CASE PlanLock(t)
  BY <1>1 DEF PlanLock, RdLockFree
<1>2. CASE PlanHit(t)
  BY <1>2 DEF PlanHit, lockVars
<1>3. CASE CountHit(t)
  BY <1>3 DEF CountHit, lockVars
<1>4. CASE PlanMiss(t)
  BY <1>4 DEF PlanMiss, lockVars, NextIter
<1>5. CASE PlanUnlock(t)
  BY <1>5 DEF PlanUnlock
<1>6. CASE Drain(t)
  BY <1>6 DEF Drain, lockVars
<1>7. CASE AppendSlots(t)
  BY <1>7 DEF AppendSlots, lockVars
<1>8. CASE FlushRun(t)
  BY <1>8 DEF FlushRun, FlushRunAt, lockVars
<1>9. CASE FlushFail(t)
  BY <1>9 DEF FlushFail, FlushFailAt, lockVars
<1>10. CASE FlushDone(t)
  BY <1>10 DEF FlushDone, lockVars
<1>11. CASE WriteLock(t)
  BY <1>11 DEF WriteLock, WrLockFree
<1>12. CASE PublishSkip(t)
  BY <1>12 DEF PublishSkip, lockVars, NextIter
<1>13. CASE PublishOurs(t)
  BY <1>13 DEF PublishOurs, lockVars, NextIter
<1>14. CASE UseWinner(t)
  BY <1>14 DEF UseWinner, lockVars, NextIter
<1>15. CASE PublishDone(t)
  BY <1>15 DEF PublishDone, lockVars
<1>16. CASE MapBlock(t)
  BY <1>16 DEF MapBlock, lockVars, NextIter
<1>17. CASE Commit(t)
  BY <1>17 DEF Commit
<1>18. CASE ReleaseAfterWrite(t)
  BY <1>18 DEF ReleaseAfterWrite, lockVars, Return
<1>19. CASE ReleaseAndGo(t)
  BY <1>19 DEF ReleaseAndGo, lockVars
<1>20. CASE RbHit(t)
  BY <1>20 DEF RbHit, lockVars, NextIter
<1>21. CASE RbUnlock(t)
  BY <1>21 DEF RbUnlock
<1>22. CASE RbMutex(t)
  BY <1>22 DEF RbMutex
<1>23. CASE RbMiss(t)
  BY <1>23 DEF RbMiss, lockVars, NextIter
<1>24. CASE RbDone(t)
  BY <1>24 DEF RbDone, Return
<1>25. CASE UnlinkReadSize(t)
  BY <1>25 DEF UnlinkReadSize, lockVars, BeginRemoval
<1>26. CASE TruncateReadSize(t)
  BY <1>26 DEF TruncateReadSize, lockVars, BeginRemoval, Return
<1>27. CASE RemoveBlock(t)
  BY <1>27 DEF RemoveBlock, lockVars, NextIter
<1>28. CASE RemoveUnlock(t)
  BY <1>28 DEF RemoveUnlock
<1>29. CASE UnlinkDropSize(t)
  BY <1>29 DEF UnlinkDropSize, lockVars
<1>30. CASE UnlinkBackend(t)
  BY <1>30 DEF UnlinkBackend, lockVars, Return
<1>31. CASE TruncateSetSize(t)
  BY <1>31 DEF TruncateSetSize, lockVars, Return
<1>32. CASE Create(t)
  BY <1>32 DEF Create, lockVars, Return
<1>33. CASE ReadLookup(t)
  BY <1>33 DEF ReadLookup, lockVars, Return
<1>34. CASE ReadBlock(t)
  BY <1>34 DEF ReadBlock, lockVars
<1>35. CASE ReadReturn(t)
  BY <1>35 DEF ReadReturn, lockVars, Return
<1> QED
  BY <1>0, <1>1, <1>2, <1>3, <1>4, <1>5, <1>6, <1>7, <1>8, <1>9, <1>10, <1>11,
       <1>12, <1>13, <1>14, <1>15, <1>16, <1>17, <1>18, <1>19, <1>20, <1>21, <1>22,
       <1>23, <1>24, <1>25, <1>26, <1>27, <1>28, <1>29, <1>30, <1>31, <1>32, <1>33,
       <1>34, <1>35 DEF Step

-----------------------------------------------------------------------------
(* Facts about one step of a loop, used by several actions *)

LEMMA IterFacts ==
    ASSUME TypeInv, NEW t \in Threads, pc[t] \in WritePCs, k[t] < N(t)
    PROVE  /\ k[t] \in Idx
           /\ k[t] + 1 \in 0 .. MaxBlocks
           /\ KeyOf(t, k[t]) \in Key
           /\ HashAt(t, k[t]) \in Hashes
<1>1. req[t] \in Requests /\ req[t].op = "write"
  BY DEF TypeInv, FramesOK, FrameOK, WritePCs
<1>2. k[t] \in 0 .. N(t) - 1 /\ N(t) \in 0 .. MaxBlocks
  BY <1>1, RequestFacts DEF TypeInv, TypeOK, ControlType, N
<1>3. k[t] \in Idx /\ k[t] + 1 \in 0 .. MaxBlocks
  BY <1>2, BoundsAssumption DEF Idx
<1>4. KeyOf(t, k[t]) \in Key
  BY <1>1, <1>2, RequestFacts DEF KeyOf, N
<1>5. HashAt(t, k[t]) \in Hashes
  BY <1>1, <1>2, RequestFacts, HashAssumption DEF HashAt, Payload, N
<1> QED  BY <1>3, <1>4, <1>5

LEMMA PlanFacts ==
    ASSUME TypeInv, NEW t \in Threads, NEW i \in Idx
    PROVE  /\ plan[t][i] \in PlanEntry
           /\ IsHit(t, i) => plan[t][i].info \in Infos
           /\ IsMiss(t, i) => /\ plan[t][i].info \in Infos
                              /\ info[plan[t][i].info].hash \in Hashes
           /\ IsMiss(t, i) /\ pc[t] \in SlottedPCs => plan[t][i].master_blk \in Slots
<1>1. PlanOK(t)
  BY DEF TypeInv, PlansOK
<1>2. plan[t][i] \in PlanEntry
  BY DEF TypeInv, TypeOK, WorkType
<1> QED  BY <1>1, <1>2, NullAssumption DEF PlanOK, IsHit, IsMiss

LEMMA RefRange ==
    ASSUME HeapType, NEW p \in Infos
    PROVE  IncRef(p) \in 0 .. RefcountLimit - 1 /\ DecRef(p) \in 0 .. RefcountLimit - 1
  BY BoundsAssumption DEF HeapType, Info, IncRef, DecRef

LEMMA SetRefType ==
    ASSUME HeapType, NEW p \in Infos, NEW n \in 0 .. RefcountLimit - 1
    PROVE  [info EXCEPT ![p].refcount = n] \in [Infos -> Info]
  BY DEF HeapType, Info

LEMMA SetSlotType ==
    ASSUME HeapType, NEW p \in Infos, NEW s \in Slots
    PROVE  [info[p] EXCEPT !.masterBlockIndex = s] \in Info
  BY DEF HeapType, Info

LEMMA ConsType ==
    ASSUME NEW s \in Slots, NEW q \in Seq(Slots)
    PROVE  <<s>> \o q \in Seq(Slots)
  OBVIOUS

LEMMA DropRefType ==
    ASSUME TypeOK, NEW t \in Threads, NEW p \in Infos, DropRef(t, p)
    PROVE  /\ HeapType'
           /\ hash_to_master' \in [Hashes -> Infos \cup {NULL}]
           /\ rel' \in [Threads -> Seq(Slots)]
<1> USE DEF TypeOK
<1>1. HeapType'
  <2>1. info' \in [Infos -> Info]
    BY RefRange, SetRefType DEF DropRef
  <2>2. heap' \subseteq Infos
    BY DEF DropRef, HeapType
  <2> QED  BY <2>1, <2>2 DEF HeapType
<1>2. hash_to_master' \in [Hashes -> Infos \cup {NULL}]
  BY DEF DropRef, IndexType
<1>3. info[p].masterBlockIndex \in Slots
  BY DEF HeapType, Info
<1>4. <<info[p].masterBlockIndex>> \o rel[t] \in Seq(Slots)
  BY <1>3, ConsType DEF WorkType
<1>5. rel' \in [Threads -> Seq(Slots)]
  BY <1>4 DEF DropRef, WorkType
<1> QED  BY <1>1, <1>2, <1>5

LEMMA ReturnType ==
    ASSUME TypeOK, NEW t \in Threads, Return(t)
    PROVE  ControlType' /\ WorkType'
<1>1. ControlType'
  BY BoundsAssumption DEF TypeOK, ControlType, Return, Goto, PCs
<1>2. WorkType'
  BY DEF TypeOK, WorkType, Return, NoPlan, NoPairs, NoEntry, NoPair, PlanEntry, Pair
<1> QED  BY <1>1, <1>2

-----------------------------------------------------------------------------
(* Type correctness *)

LEMMA UnassignedFinite ==
    ASSUME NEW t \in Threads
    PROVE  /\ Cardinality(Unassigned(t)) \in Nat
           /\ \A i \in Unassigned(t) : /\ Rank(t, i) \in Nat
                                       /\ Rank(t, i) < Cardinality(Unassigned(t))
<1>1. IsFiniteSet(Idx)
  BY BoundsAssumption, FS_Interval DEF Idx
<1>2. IsFiniteSet(Unassigned(t)) /\ Cardinality(Unassigned(t)) \in Nat
  BY <1>1, FS_Subset, FS_CardinalityType DEF Unassigned
<1>3. ASSUME NEW i \in Unassigned(t)
      PROVE  Rank(t, i) \in Nat /\ Rank(t, i) < Cardinality(Unassigned(t))
  <2> DEFINE S == {j \in Unassigned(t) : j < i}
  <2>1. S \subseteq Unassigned(t) /\ i \notin S
    BY BoundsAssumption DEF Unassigned, Idx
  <2> HIDE DEF S
  <2>2. IsFiniteSet(S) /\ Cardinality(S) \in Nat
    BY <1>2, <2>1, FS_Subset, FS_CardinalityType
  <2>3. S # Unassigned(t) /\ S \in SUBSET Unassigned(t)
    BY <1>3, <2>1
  <2>4. /\ Cardinality(S) <= Cardinality(Unassigned(t))
        /\ Cardinality(S) # Cardinality(Unassigned(t))
    BY <1>2, <2>1, <2>3, FS_Subset
  <2>5. Cardinality(S) < Cardinality(Unassigned(t))
    BY <1>2, <2>2, <2>4
  <2> QED  BY <2>2, <2>5 DEF Rank, S
<1> QED  BY <1>2, <1>3

LEMMA TailType ==
    ASSUME NEW q \in Seq(Slots), NEW n \in Nat, n <= Len(q)
    PROVE  SubSeq(q, n + 1, Len(q)) \in Seq(Slots)
  BY SubSeqProperties

LEMMA PwriteType ==
    ASSUME TypeInv, NEW t \in Threads, pc[t] = "w_flush", NEW i \in Idx, IsMiss(t, i),
           NEW len \in Nat, i + len <= N(t)
    PROVE  Pwrite(t, i, len) \in [Slots -> Contents \cup {NULL}]
<1>1. plan[t][i].master_blk \in Slots
  BY PlanFacts DEF SlottedPCs
<1>2. req[t] \in Requests /\ req[t].op = "write" /\ N(t) \in Nat
  BY RequestFacts, BoundsAssumption DEF TypeInv, FramesOK, FrameOK, WritePCs, N
<1>3. \A j \in 0 .. N(t) - 1 : Payload(t, j) \in Contents
  BY <1>2, RequestFacts DEF Payload, N
<1>4. ASSUME NEW s \in Slots, plan[t][i].master_blk <= s, s < plan[t][i].master_blk + len
      PROVE  Payload(t, i + (s - plan[t][i].master_blk)) \in Contents
  <2>1. i + (s - plan[t][i].master_blk) \in 0 .. N(t) - 1
    BY <1>1, <1>2, <1>4, BoundsAssumption DEF Slots, Idx
  <2> QED  BY <1>3, <2>1
<1> QED  BY <1>4 DEF Pwrite, TypeInv, TypeOK, DiskType

LEMMA TypeStep ==
    ASSUME TypeInv, NEW t \in Threads, Dispatch(t) \/ Step(t)
    PROVE  TypeOK'
<1> USE NullAssumption, BoundsAssumption DEF TypeInv, TypeOK
<1>0. CASE Dispatch(t)
  <2>1. PICK r \in Requests :
          /\ Goto(t, Entry(r))
          /\ req' = [req EXCEPT ![t] = IF Entry(r) = "idle" THEN NULL ELSE r]
    BY <1>0 DEF Dispatch
  <2>2. OuterType'
    BY <1>0 DEF Dispatch, OuterType
  <2>3. ControlType'
    BY <1>0, <2>1, EntryRange DEF Dispatch, Goto, PCs, ControlType
  <2>4. IndexType' /\ HeapType' /\ AllocType' /\ DiskType' /\ LockType' /\ WorkType'
    BY <1>0 DEF Dispatch, IndexType, indexVars, HeapType, heapVars, AllocType,
         allocVars, DiskType, LockType, lockVars, WorkType
  <2> QED  BY <2>2, <2>3, <2>4
<1>1. CASE PlanLock(t)
  <2>1. LockType'
    BY <1>1 DEF PlanLock, LockType
  <2>2. ControlType'
    BY <1>1 DEF PlanLock, ControlType, frameVars, Goto, PCs
  <2>3. IndexType' /\ HeapType' /\ AllocType' /\ DiskType' /\ OuterType' /\
       WorkType'
    BY <1>1 DEF PlanLock, dataVars, IndexType, indexVars, HeapType, heapVars,
         AllocType, allocVars, DiskType, OuterType, outerVars, WorkType, frameVars
  <2> QED  BY <2>1, <2>2, <2>3
<1>2. CASE PlanHit(t)
  <2>1. k[t] \in Idx /\ k[t] + 1 \in 0 .. MaxBlocks
        /\ KeyOf(t, k[t]) \in Key /\ HashAt(t, k[t]) \in Hashes
    BY <1>2, IterFacts DEF PlanHit, WritePCs
  <2>2. PICK p \in Existing(t, HashAt(t, k[t])) :
          plan' = [plan EXCEPT ![t][k[t]] =
                       [kind |-> "HIT", master_blk |-> NULL, info |-> p]]
    BY <1>2 DEF PlanHit
  <2>3. p \in Infos
    BY <1>2, <2>1, <2>2, PlanFacts DEF PlanHit, Existing, Pending, IndexType
  <2>4. ControlType'
    BY <1>2 DEF PlanHit, ControlType, frameVars, Goto, PCs
  <2>5. WorkType'
    BY <1>2, <2>2, <2>3 DEF PlanHit, WorkType, PlanEntry
  <2>6. IndexType' /\ HeapType' /\ AllocType' /\ DiskType' /\ OuterType' /\
       LockType'
    BY <1>2 DEF PlanHit, dataVars, IndexType, indexVars, HeapType, heapVars,
         AllocType, allocVars, DiskType, OuterType, outerVars, LockType, lockVars
  <2> QED  BY <2>4, <2>5, <2>6
<1>3. CASE CountHit(t)
  <2>1. /\ k[t] \in Idx /\ k[t] + 1 \in 0 .. MaxBlocks
        /\ IsHit(t, k[t])
    BY <1>3, IterFacts DEF CountHit, WritePCs, FramesOK, FrameOK, IsHit
  <2>2. plan[t][k[t]].info \in Infos
    BY <1>3, <2>1, PlanFacts DEF CountHit
  <2>3. HeapType'
    BY <1>3, <2>2, RefRange, SetRefType DEF CountHit, HeapType
  <2>4. ControlType'
    BY <1>3, <2>1 DEF CountHit, ControlType, frameVars, Goto, PCs, SetK
  <2>5. IndexType' /\ AllocType' /\ DiskType' /\ OuterType' /\ LockType' /\
       WorkType'
    BY <1>3 DEF CountHit, dataVars, IndexType, indexVars, AllocType, allocVars,
         DiskType, OuterType, outerVars, LockType, lockVars, WorkType, frameVars
  <2> QED  BY <2>3, <2>4, <2>5
<1>4. CASE PlanMiss(t)
  <2>1. k[t] \in Idx /\ k[t] + 1 \in 0 .. MaxBlocks
        /\ KeyOf(t, k[t]) \in Key /\ HashAt(t, k[t]) \in Hashes
    BY <1>4, IterFacts DEF PlanMiss, WritePCs
  <2>2. PICK p \in Infos \ heap :
          /\ heap' = heap \cup {p}
          /\ info' = [info EXCEPT ![p] = [hash |-> HashAt(t, k[t]),
                                          masterBlockIndex |-> 0, refcount |-> 1]]
    BY <1>4 DEF PlanMiss
  <2>3. [hash |-> HashAt(t, k[t]), masterBlockIndex |-> 0, refcount |-> 1] \in Info
    BY <1>4, <2>1 DEF PlanMiss, Info, Slots
  <2>4. HeapType'
    BY <1>4, <2>2, <2>3 DEF PlanMiss, HeapType
  <2>5. ControlType'
    BY <1>4, <2>1 DEF PlanMiss, ControlType, frameVars, NextIter, SetK
  <2>6. WorkType'
    BY <1>4, <2>1 DEF PlanMiss, WorkType, PlanEntry
  <2>7. IndexType' /\ AllocType' /\ DiskType' /\ OuterType' /\ LockType'
    BY <1>4 DEF PlanMiss, dataVars, IndexType, indexVars, AllocType, allocVars,
         DiskType, OuterType, outerVars, LockType, lockVars
  <2> QED  BY <2>4, <2>5, <2>6, <2>7
<1>5. CASE PlanUnlock(t)
  <2>1. LockType'
    BY <1>5 DEF PlanUnlock, LockType
  <2>2. ControlType'
    BY <1>5 DEF PlanUnlock, ControlType, frameVars, Goto, PCs, SetK
  <2>3. IndexType' /\ HeapType' /\ AllocType' /\ DiskType' /\ OuterType' /\
       WorkType'
    BY <1>5 DEF PlanUnlock, dataVars, IndexType, indexVars, HeapType, heapVars,
         AllocType, allocVars, DiskType, OuterType, outerVars, WorkType, frameVars
  <2> QED  BY <2>1, <2>2, <2>3
<1>6. CASE Drain(t)
  <2>1. Taken(t) \in Nat /\ Taken(t) <= Len(free_block_list)
    BY <1>6, UnassignedFinite DEF Drain, Taken, AllocType
  <2>2. \A i \in Unassigned(t) : Rank(t, i) \in Nat
    BY <1>6, UnassignedFinite DEF Drain
  <2>3. \A i \in Unassigned(t) : Rank(t, i) < Taken(t) =>
            free_block_list[Rank(t, i) + 1] \in Slots
    BY <1>6, <2>1, <2>2 DEF Drain, AllocType
  <2>4. \A i \in Unassigned(t) : Rank(t, i) < Taken(t) =>
            [plan[t][i] EXCEPT !.master_blk = free_block_list[Rank(t, i) + 1]]
                \in PlanEntry
    BY <1>6, <2>3, PlanFacts DEF Drain, PlanEntry, Unassigned
  <2>5. plan' \in [Threads -> [Idx -> PlanEntry]]
    BY <1>6, <2>4 DEF Drain, WorkType
  <2>6. WorkType'
    BY <1>6, <2>5 DEF Drain, WorkType
  <2>7. AllocType'
    BY <1>6, <2>1, TailType DEF Drain, AllocType
  <2>8. ControlType'
    BY <1>6 DEF Drain, ControlType, frameVars, Goto, PCs
  <2>9. IndexType' /\ HeapType' /\ DiskType' /\ OuterType' /\ LockType'
    BY <1>6 DEF Drain, dataVars, IndexType, indexVars, HeapType, heapVars, DiskType,
         OuterType, outerVars, LockType, lockVars
  <2> QED  BY <2>6, <2>7, <2>8, <2>9
<1>7. CASE AppendSlots(t)
  <2> DEFINE SlotFor(i) == IF i \in Unassigned(t) THEN nextBlockIndex + Rank(t, i)
                            ELSE plan[t][i].master_blk
  <2> DEFINE MissOf(p) == {i \in Idx : IsMiss(t, i) /\ plan[t][i].info = p}
  <2>1. Cardinality(Unassigned(t)) \in Nat
        /\ \A i \in Unassigned(t) : Rank(t, i) \in Nat
                                 /\ Rank(t, i) < Cardinality(Unassigned(t))
    BY <1>7, UnassignedFinite DEF AppendSlots
  <2>2. AllocType'
    BY <1>7, <2>1 DEF AppendSlots, AllocType
  <2>3. \A i \in Unassigned(t) : SlotFor(i) \in Slots
    BY <1>7, <2>1 DEF AppendSlots, AllocType, Slots
  <2>4. \A i \in Idx : /\ SlotFor(i) \in Slots \cup {NULL}
                       /\ IsMiss(t, i) => SlotFor(i) \in Slots
    BY <1>7, <2>3, PlanFacts DEF AppendSlots, Unassigned, PlanEntry
  <2>5. plan' = [plan EXCEPT ![t] = [i \in Idx |->
                         [plan[t][i] EXCEPT !.master_blk = SlotFor(i)]]]
    BY <1>7 DEF AppendSlots
  <2>6. \A i \in Idx : [plan[t][i] EXCEPT !.master_blk = SlotFor(i)] \in PlanEntry
    BY <1>7, <2>4, PlanFacts DEF AppendSlots, PlanEntry
  <2>7. WorkType'
    BY <1>7, <2>5, <2>6 DEF AppendSlots, WorkType
  <2>8. info' = [p \in Infos |->
                    IF MissOf(p) = {} THEN info[p]
                    ELSE [info[p] EXCEPT !.masterBlockIndex =
                              SlotFor(CHOOSE i \in MissOf(p) : TRUE)]]
    BY <1>7 DEF AppendSlots
  <2>9. \A p \in Infos : MissOf(p) # {} =>
            SlotFor(CHOOSE i \in MissOf(p) : TRUE) \in Slots
    BY <1>7, <2>4 DEF AppendSlots
  <2>10. \A p \in Infos : MissOf(p) # {} =>
            [info[p] EXCEPT !.masterBlockIndex = SlotFor(CHOOSE i \in MissOf(p) : TRUE)]
                \in Info
    BY <2>9, SetSlotType
  <2>11. info' \in [Infos -> Info]
    BY <2>8, <2>10 DEF HeapType
  <2>12. HeapType'
    BY <1>7, <2>11 DEF AppendSlots, HeapType
  <2>13. ControlType'
    BY <1>7 DEF AppendSlots, ControlType, frameVars, Goto, PCs
  <2>14. IndexType' /\ DiskType' /\ OuterType' /\ LockType'
    BY <1>7 DEF AppendSlots, dataVars, IndexType, indexVars, DiskType, OuterType,
         outerVars, LockType, lockVars
  <2> QED  BY <2>2, <2>7, <2>12, <2>13, <2>14
<1>8. CASE FlushRun(t)
  <2>1. PICK i \in Idx, e \in 1 .. MaxBlocks :
          /\ RunStart(t, i) /\ RunEnd(t, i, e)
          /\ master' = Pwrite(t, i, e - i) /\ SetK(t, e)
    BY <1>8 DEF FlushRun, FlushRunAt
  <2>2. e - i \in Nat /\ i + (e - i) <= N(t) /\ IsMiss(t, i)
    BY <1>8, <2>1 DEF FlushRun, FlushRunAt, RunStart, RunEnd, Idx
  <2>3. DiskType'
    BY <1>8, <2>1, <2>2, PwriteType DEF FlushRun, FlushRunAt, DiskType
  <2>4. ControlType'
    BY <1>8, <2>1 DEF FlushRun, FlushRunAt, ControlType, frameVars, Goto, PCs, SetK
  <2>5. IndexType' /\ HeapType' /\ AllocType' /\ OuterType' /\ LockType' /\
       WorkType'
    BY <1>8 DEF FlushRun, FlushRunAt, dataVars, IndexType, indexVars, HeapType, heapVars,
         AllocType, allocVars, OuterType, outerVars, LockType, lockVars, WorkType,
         frameVars
  <2> QED  BY <2>3, <2>4, <2>5
<1>9. CASE FlushFail(t)
  <2>1. PICK i \in Idx, e \in 1 .. MaxBlocks, done \in 0 .. MaxBlocks - 1,
             torn \in BOOLEAN : FlushFailAt(t, i, e, done, torn)
    BY <1>9 DEF FlushFail
  <2>2. N(t) \in Nat
    BY <2>1, RequestFacts DEF FlushFailAt, FramesOK, FrameOK, N
  <2>3. done \in Nat /\ i + done <= N(t)
    BY <2>1, <2>2, BoundsAssumption DEF FlushFailAt, RunEnd, Idx
  <2>4. Pwrite(t, i, done) \in [Slots -> Contents \cup {NULL}]
    BY <2>1, <2>3, PwriteType DEF FlushFailAt, RunStart
  <2>5. DiskType'
    BY <2>1, <2>4 DEF FlushFailAt, DiskType
  <2>6. ControlType'
    BY <1>9 DEF FlushFail, FlushFailAt, ControlType, frameVars, Goto, PCs, SetK
  <2>7. IndexType' /\ HeapType' /\ AllocType' /\ OuterType' /\ LockType' /\
       WorkType'
    BY <1>9 DEF FlushFail, FlushFailAt, dataVars, IndexType, indexVars, HeapType, heapVars,
         AllocType, allocVars, OuterType, outerVars, LockType, lockVars, WorkType,
         frameVars
  <2> QED  BY <2>5, <2>6, <2>7
<1>10. CASE FlushDone(t)
  <2>1. ControlType'
    BY <1>10 DEF FlushDone, ControlType, frameVars, Goto, PCs, SetK
  <2>2. IndexType' /\ HeapType' /\ AllocType' /\ DiskType' /\ OuterType' /\
       LockType' /\ WorkType'
    BY <1>10 DEF FlushDone, dataVars, IndexType, indexVars, HeapType, heapVars,
         AllocType, allocVars, DiskType, OuterType, outerVars, LockType, lockVars,
         WorkType, frameVars
  <2> QED  BY <2>1, <2>2
<1>11. CASE WriteLock(t)
  <2>1. LockType'
    BY <1>11 DEF WriteLock, LockType
  <2>2. ControlType'
    BY <1>11 DEF WriteLock, ControlType, frameVars, Goto, PCs
  <2>3. IndexType' /\ HeapType' /\ AllocType' /\ DiskType' /\ OuterType' /\
       WorkType'
    BY <1>11 DEF WriteLock, dataVars, IndexType, indexVars, HeapType, heapVars,
         AllocType, allocVars, DiskType, OuterType, outerVars, WorkType, frameVars
  <2> QED  BY <2>1, <2>2, <2>3
<1>12. CASE PublishSkip(t)
  <2>1. k[t] \in Idx /\ k[t] + 1 \in 0 .. MaxBlocks
        /\ KeyOf(t, k[t]) \in Key /\ HashAt(t, k[t]) \in Hashes
    BY <1>12, IterFacts DEF PublishSkip, WritePCs
  <2>2. ControlType'
    BY <1>12, <2>1 DEF PublishSkip, ControlType, frameVars, NextIter, SetK
  <2>3. IndexType' /\ HeapType' /\ AllocType' /\ DiskType' /\ OuterType' /\
       LockType' /\ WorkType'
    BY <1>12 DEF PublishSkip, dataVars, IndexType, indexVars, HeapType, heapVars,
         AllocType, allocVars, DiskType, OuterType, outerVars, LockType, lockVars,
         WorkType, frameVars
  <2> QED  BY <2>2, <2>3
<1>13. CASE PublishOurs(t)
  <2>1. k[t] \in Idx /\ k[t] + 1 \in 0 .. MaxBlocks
        /\ KeyOf(t, k[t]) \in Key /\ HashAt(t, k[t]) \in Hashes
    BY <1>13, IterFacts DEF PublishOurs, WritePCs
  <2>2. IndexType'
    BY <1>13, <2>1, PlanFacts DEF PublishOurs, IndexType
  <2>3. ControlType'
    BY <1>13, <2>1 DEF PublishOurs, ControlType, frameVars, NextIter, SetK
  <2>4. HeapType' /\ AllocType' /\ DiskType' /\ OuterType' /\ LockType' /\ WorkType'
    BY <1>13 DEF PublishOurs, dataVars, HeapType, heapVars, AllocType, allocVars,
         DiskType, OuterType, outerVars, LockType, lockVars, WorkType, frameVars
  <2> QED  BY <2>2, <2>3, <2>4
<1>14. CASE UseWinner(t)
  <2>1. k[t] \in Idx /\ k[t] + 1 \in 0 .. MaxBlocks
        /\ KeyOf(t, k[t]) \in Key /\ HashAt(t, k[t]) \in Hashes
    BY <1>14, IterFacts DEF UseWinner, WritePCs
  <2>2. plan[t][k[t]] \in PlanEntry /\ plan[t][k[t]].master_blk \in Slots
    BY SMTT(30), <1>14, <2>1, PlanFacts DEF UseWinner, SlottedPCs
  <2>3. Winner(t, k[t]) \in Infos
    BY <1>14, <2>1, PlanFacts DEF UseWinner, Winner, IndexType
  <2>4. info' \in [Infos -> Info]
    BY <1>14, <2>3, RefRange, SetRefType DEF UseWinner
  <2>5. HeapType'
    BY <1>14, <2>4 DEF UseWinner, HeapType
  <2>6. ControlType'
    BY <1>14, <2>1 DEF UseWinner, ControlType, frameVars, NextIter, SetK
  <2>7. <<plan[t][k[t]].master_blk>> \o rel[t] \in Seq(Slots)
    BY <1>14, <2>2, ConsType DEF UseWinner, WorkType
  <2>8. WorkType'
    BY <1>14, <2>1, <2>2, <2>3, <2>7 DEF UseWinner, WorkType, PlanEntry
  <2>9. IndexType' /\ AllocType' /\ DiskType' /\ OuterType' /\ LockType'
    BY <1>14 DEF UseWinner, dataVars, IndexType, indexVars, AllocType, allocVars,
         DiskType, OuterType, outerVars, LockType, lockVars
  <2> QED  BY <2>5, <2>6, <2>8, <2>9
<1>15. CASE PublishDone(t)
  <2>1. ControlType'
    BY <1>15 DEF PublishDone, ControlType, frameVars, Goto, PCs, SetK
  <2>2. IndexType' /\ HeapType' /\ AllocType' /\ DiskType' /\ OuterType' /\
       LockType' /\ WorkType'
    BY <1>15 DEF PublishDone, dataVars, IndexType, indexVars, HeapType, heapVars,
         AllocType, allocVars, DiskType, OuterType, outerVars, LockType, lockVars,
         WorkType, frameVars
  <2> QED  BY <2>1, <2>2
<1>16. CASE MapBlock(t)
  <2>1. k[t] \in Idx /\ k[t] + 1 \in 0 .. MaxBlocks
        /\ KeyOf(t, k[t]) \in Key /\ HashAt(t, k[t]) \in Hashes
    BY <1>16, IterFacts DEF MapBlock, WritePCs
  <2>2. file_to_master[KeyOf(t, k[t])] \in Infos \cup {NULL}
    BY <1>16, <2>1 DEF MapBlock, IndexType
  <2>3. /\ HeapType' /\ hash_to_master' \in [Hashes -> Infos \cup {NULL}]
        /\ rel' \in [Threads -> Seq(Slots)]
    BY <1>16, <2>2, DropRefType DEF MapBlock, heapVars, HeapType, IndexType,
         WorkType
  <2>4. plan[t][k[t]].info \in Infos \cup {NULL}
    BY <1>16, <2>1, PlanFacts DEF MapBlock, PlanEntry
  <2>5. IndexType'
    BY <1>16, <2>1, <2>3, <2>4 DEF MapBlock, IndexType
  <2>6. ControlType'
    BY <1>16, <2>1 DEF MapBlock, ControlType, frameVars, NextIter, SetK
  <2>7. WorkType'
    BY <1>16, <2>3 DEF MapBlock, WorkType
  <2>8. AllocType' /\ DiskType' /\ OuterType' /\ LockType'
    BY <1>16 DEF MapBlock, dataVars, AllocType, allocVars, DiskType, OuterType,
         outerVars, LockType, lockVars
  <2> QED  BY <2>3, <2>5, <2>6, <2>7, <2>8
<1>17. CASE Commit(t)
  <2>1. StartBlock(req[t]) + N(t) \in 0 .. MaxBlocks /\ req[t].path \in Paths
    BY <1>17, RequestsAssumption DEF Commit, FramesOK, FrameOK, N
  <2>2. GrownSize(t) \in 0 .. MaxBlocks
    BY <1>17, <2>1 DEF Commit, GrownSize, IndexType
  <2>3. IndexType'
    BY <1>17, <2>2 DEF Commit, IndexType
  <2>4. LockType'
    BY <1>17 DEF Commit, LockType
  <2>5. ControlType'
    BY <1>17 DEF Commit, ControlType, frameVars, Goto, PCs
  <2>6. HeapType' /\ AllocType' /\ DiskType' /\ OuterType' /\ WorkType'
    BY <1>17 DEF Commit, dataVars, HeapType, heapVars, AllocType, allocVars,
         DiskType, OuterType, outerVars, WorkType, frameVars
  <2> QED  BY <2>3, <2>4, <2>5, <2>6
<1>18. CASE ReleaseAfterWrite(t)
  <2>1. Released(t) \in Seq(Slots)
    BY <1>18 DEF ReleaseAfterWrite, Released, AllocType, WorkType
  <2>2. AllocType'
    BY <1>18, <2>1 DEF ReleaseAfterWrite, AllocType
  <2>3. ControlType' /\ WorkType'
    BY <1>18, ReturnType DEF ReleaseAfterWrite
  <2>4. IndexType' /\ HeapType' /\ DiskType' /\ OuterType' /\ LockType'
    BY <1>18 DEF ReleaseAfterWrite, dataVars, IndexType, indexVars, HeapType,
         heapVars, DiskType, OuterType, outerVars, LockType, lockVars
  <2> QED  BY <2>2, <2>3, <2>4
<1>19. CASE ReleaseAndGo(t)
  <2>1. Released(t) \in Seq(Slots)
    BY <1>19 DEF ReleaseAndGo, Released, AllocType, WorkType
  <2>2. AllocType'
    BY <1>19, <2>1 DEF ReleaseAndGo, AllocType
  <2>3. ControlType'
    BY <1>19 DEF ReleaseAndGo, ControlType, frameVars, Goto, PCs
  <2>4. WorkType'
    BY <1>19 DEF ReleaseAndGo, WorkType
  <2>5. IndexType' /\ HeapType' /\ DiskType' /\ OuterType' /\ LockType'
    BY <1>19 DEF ReleaseAndGo, dataVars, IndexType, indexVars, HeapType, heapVars,
         DiskType, OuterType, outerVars, LockType, lockVars
  <2> QED  BY <2>2, <2>3, <2>4, <2>5
<1>20. CASE RbHit(t)
  <2>1. k[t] \in Idx /\ k[t] + 1 \in 0 .. MaxBlocks
        /\ KeyOf(t, k[t]) \in Key /\ HashAt(t, k[t]) \in Hashes
    BY <1>20, IterFacts DEF RbHit, WritePCs
  <2>2. /\ HeapType' /\ hash_to_master' \in [Hashes -> Infos \cup {NULL}]
        /\ rel' \in [Threads -> Seq(Slots)]
    BY <1>20, <2>1, PlanFacts, DropRefType DEF RbHit, heapVars, HeapType, IndexType,
         WorkType
  <2>3. IndexType'
    BY <1>20, <2>2 DEF RbHit, IndexType
  <2>4. ControlType'
    BY <1>20, <2>1 DEF RbHit, ControlType, frameVars, NextIter, SetK
  <2>5. WorkType'
    BY <1>20, <2>2 DEF RbHit, WorkType
  <2>6. AllocType' /\ DiskType' /\ OuterType' /\ LockType'
    BY <1>20 DEF RbHit, dataVars, AllocType, allocVars, DiskType, OuterType,
         outerVars, LockType, lockVars
  <2> QED  BY <2>2, <2>3, <2>4, <2>5, <2>6
<1>21. CASE RbUnlock(t)
  <2>1. LockType'
    BY <1>21 DEF RbUnlock, LockType
  <2>2. ControlType'
    BY <1>21 DEF RbUnlock, ControlType, frameVars, Goto, PCs, SetK
  <2>3. IndexType' /\ HeapType' /\ AllocType' /\ DiskType' /\ OuterType' /\
       WorkType'
    BY <1>21 DEF RbUnlock, dataVars, IndexType, indexVars, HeapType, heapVars,
         AllocType, allocVars, DiskType, OuterType, outerVars, WorkType, frameVars
  <2> QED  BY <2>1, <2>2, <2>3
<1>22. CASE RbMutex(t)
  <2>1. LockType'
    BY <1>22 DEF RbMutex, LockType
  <2>2. ControlType'
    BY <1>22 DEF RbMutex, ControlType, frameVars, Goto, PCs
  <2>3. IndexType' /\ HeapType' /\ AllocType' /\ DiskType' /\ OuterType' /\
       WorkType'
    BY <1>22 DEF RbMutex, dataVars, IndexType, indexVars, HeapType, heapVars,
         AllocType, allocVars, DiskType, OuterType, outerVars, WorkType, frameVars
  <2> QED  BY <2>1, <2>2, <2>3
<1>23. CASE RbMiss(t)
  <2>1. k[t] \in Idx /\ k[t] + 1 \in 0 .. MaxBlocks
        /\ KeyOf(t, k[t]) \in Key /\ HashAt(t, k[t]) \in Hashes
    BY <1>23, IterFacts DEF RbMiss, WritePCs
  <2>2. HeapType'
    BY <1>23 DEF RbMiss, HeapType
  <2>3. IsMiss(t, k[t]) => <<plan[t][k[t]].master_blk>> \o free_block_list \in Seq(Slots)
    BY <1>23, <2>1, PlanFacts, ConsType DEF RbMiss, SlottedPCs, AllocType
  <2>4. AllocType'
    BY <1>23, <2>3 DEF RbMiss, AllocType
  <2>5. ControlType'
    BY <1>23, <2>1 DEF RbMiss, ControlType, frameVars, NextIter, SetK
  <2>6. IndexType' /\ DiskType' /\ OuterType' /\ LockType' /\ WorkType'
    BY <1>23 DEF RbMiss, dataVars, IndexType, indexVars, DiskType, OuterType,
         outerVars, LockType, lockVars, WorkType, frameVars
  <2> QED  BY <2>2, <2>4, <2>5, <2>6
<1>24. CASE RbDone(t)
  <2>1. LockType'
    BY <1>24 DEF RbDone, LockType
  <2>2. ControlType' /\ WorkType'
    BY <1>24, ReturnType DEF RbDone
  <2>3. IndexType' /\ HeapType' /\ AllocType' /\ DiskType' /\ OuterType'
    BY <1>24 DEF RbDone, dataVars, IndexType, indexVars, HeapType, heapVars,
         AllocType, allocVars, DiskType, OuterType, outerVars
  <2> QED  BY <2>1, <2>2, <2>3
<1>25. CASE UnlinkReadSize(t)
  <2>1. file_to_sizes[req[t].path] \in (0 .. MaxBlocks) \cup {NULL}
    BY <1>25, RequestFacts DEF UnlinkReadSize, IndexType, FramesOK, FrameOK
  <2>2. ControlType'
    BY <1>25, <2>1 DEF UnlinkReadSize, ControlType, frameVars, Goto, PCs,
         BeginRemoval
  <2>3. IndexType' /\ HeapType' /\ AllocType' /\ DiskType' /\ OuterType' /\
       LockType' /\ WorkType'
    BY <1>25 DEF UnlinkReadSize, dataVars, IndexType, indexVars, HeapType, heapVars,
         AllocType, allocVars, DiskType, OuterType, outerVars, LockType, lockVars,
         WorkType, frameVars
  <2> QED  BY <2>2, <2>3
<1>26. CASE TruncateReadSize(t)
  <2>1. /\ file_to_sizes[req[t].path] \in (0 .. MaxBlocks) \cup {NULL}
        /\ N(t) \in 0 .. MaxBlocks
    BY <1>26, RequestFacts DEF TruncateReadSize, IndexType, FramesOK, FrameOK, N
  <2>2. Shrinks(t) => /\ UNCHANGED <<req, plan, rel, rd>>
                      /\ BeginRemoval(t, N(t), file_to_sizes[req[t].path], "t_size")
    BY <1>26 DEF TruncateReadSize
  <2>3. Shrinks(t) => file_to_sizes[req[t].path] \in 0 .. MaxBlocks
    BY <2>1 DEF Shrinks
  <2>4. Shrinks(t) => ControlType'
    BY <2>1, <2>2, <2>3 DEF ControlType, Goto, PCs, BeginRemoval
  <2>5. Shrinks(t) => WorkType'
    BY <2>2 DEF WorkType
  <2>6. ~Shrinks(t) => ControlType' /\ WorkType'
    BY <1>26, ReturnType DEF TruncateReadSize
  <2>7. ControlType' /\ WorkType'
    BY <2>4, <2>5, <2>6
  <2>8. IndexType' /\ HeapType' /\ AllocType' /\ DiskType' /\ OuterType' /\
       LockType'
    BY <1>26 DEF TruncateReadSize, dataVars, IndexType, indexVars, HeapType,
         heapVars, AllocType, allocVars, DiskType, OuterType, outerVars, LockType,
         lockVars
  <2> QED  BY <2>7, <2>8
<1>27. CASE RemoveBlock(t)
  <2>1. <<req[t].path, k[t]>> \in Key /\ k[t] + 1 \in 0 .. MaxBlocks
    BY <1>27, RequestFacts DEF RemoveBlock, FramesOK, FrameOK, Key, Blocks,
         ControlType
  <2>2. file_to_master[<<req[t].path, k[t]>>] \in Infos \cup {NULL}
    BY <1>27, <2>1 DEF RemoveBlock, IndexType
  <2>3. /\ HeapType' /\ hash_to_master' \in [Hashes -> Infos \cup {NULL}]
        /\ rel' \in [Threads -> Seq(Slots)]
    BY <1>27, <2>2, DropRefType DEF RemoveBlock, heapVars, HeapType, IndexType,
         WorkType
  <2>4. IndexType'
    BY <1>27, <2>1, <2>3 DEF RemoveBlock, IndexType
  <2>5. ControlType'
    BY <1>27, <2>1 DEF RemoveBlock, ControlType, NextIter, SetK
  <2>6. WorkType'
    BY <1>27, <2>3 DEF RemoveBlock, WorkType
  <2>7. AllocType' /\ DiskType' /\ OuterType' /\ LockType'
    BY <1>27 DEF RemoveBlock, dataVars, AllocType, allocVars, DiskType, OuterType,
         outerVars, LockType, lockVars
  <2> QED  BY <2>3, <2>4, <2>5, <2>6, <2>7
<1>28. CASE RemoveUnlock(t)
  <2>1. LockType'
    BY <1>28 DEF RemoveUnlock, LockType
  <2>2. ControlType'
    BY <1>28 DEF RemoveUnlock, ControlType, frameVars, Goto, PCs
  <2>3. IndexType' /\ HeapType' /\ AllocType' /\ DiskType' /\ OuterType' /\
       WorkType'
    BY <1>28 DEF RemoveUnlock, dataVars, IndexType, indexVars, HeapType, heapVars,
         AllocType, allocVars, DiskType, OuterType, outerVars, WorkType, frameVars
  <2> QED  BY <2>1, <2>2, <2>3
<1>29. CASE UnlinkDropSize(t)
  <2>1. IndexType'
    BY <1>29 DEF UnlinkDropSize, IndexType
  <2>2. ControlType'
    BY <1>29 DEF UnlinkDropSize, ControlType, frameVars, Goto, PCs
  <2>3. HeapType' /\ AllocType' /\ DiskType' /\ OuterType' /\ LockType' /\ WorkType'
    BY <1>29 DEF UnlinkDropSize, dataVars, HeapType, heapVars, AllocType, allocVars,
         DiskType, OuterType, outerVars, LockType, lockVars, WorkType, frameVars
  <2> QED  BY <2>1, <2>2, <2>3
<1>30. CASE UnlinkBackend(t)
  <2>1. OuterType'
    BY <1>30 DEF UnlinkBackend, OuterType
  <2>2. ControlType' /\ WorkType'
    BY <1>30, ReturnType DEF UnlinkBackend
  <2>3. IndexType' /\ HeapType' /\ AllocType' /\ DiskType' /\ LockType'
    BY <1>30 DEF UnlinkBackend, dataVars, IndexType, indexVars, HeapType, heapVars,
         AllocType, allocVars, DiskType, LockType, lockVars
  <2> QED  BY <2>1, <2>2, <2>3
<1>31. CASE TruncateSetSize(t)
  <2>1. N(t) \in 0 .. MaxBlocks
    BY <1>31, RequestFacts DEF TruncateSetSize, FramesOK, FrameOK, N
  <2>2. IndexType'
    BY <1>31, <2>1 DEF TruncateSetSize, IndexType
  <2>3. ControlType' /\ WorkType'
    BY <1>31, ReturnType DEF TruncateSetSize
  <2>4. HeapType' /\ AllocType' /\ DiskType' /\ OuterType' /\ LockType'
    BY <1>31 DEF TruncateSetSize, dataVars, HeapType, heapVars, AllocType,
         allocVars, DiskType, OuterType, outerVars, LockType, lockVars
  <2> QED  BY <2>2, <2>3, <2>4
<1>32. CASE Create(t)
  <2>1. req[t].path \in Paths
    BY <1>32, RequestFacts DEF Create, FramesOK, FrameOK
  <2>2. OuterType'
    BY <1>32, <2>1 DEF Create, OuterType
  <2>3. ControlType' /\ WorkType'
    BY <1>32, ReturnType DEF Create
  <2>4. IndexType' /\ HeapType' /\ AllocType' /\ DiskType' /\ LockType'
    BY <1>32 DEF Create, dataVars, IndexType, indexVars, HeapType, heapVars,
         AllocType, allocVars, DiskType, LockType, lockVars
  <2> QED  BY <2>2, <2>3, <2>4
<1>33. CASE ReadLookup(t)
  <2>1. \A i \in Idx : Mapped(t, i) =>
            info[file_to_master[KeyOf(t, i)]].masterBlockIndex \in Slots
    BY <1>33, RequestFacts DEF ReadLookup, Mapped, Idx, KeyOf, N, FramesOK, FrameOK,
         IndexType, HeapType, Info
  <2> DEFINE row == [i \in Idx |->
                    IF Mapped(t, i)
                    THEN [slot |-> info[file_to_master[KeyOf(t, i)]].masterBlockIndex,
                          data |-> NULL]
                    ELSE NoPair]
  <2>2. Mapped(t, 0) => /\ rd' = [rd EXCEPT ![t] = row]
                          /\ Goto(t, "r_pread") /\ UNCHANGED <<req, k, lim, plan, rel>>
    BY <1>33 DEF ReadLookup
  <2>3. \A i \in Idx : Mapped(t, i) =>
          [slot |-> info[file_to_master[KeyOf(t, i)]].masterBlockIndex, data |-> NULL]
              \in Pair
    BY <2>1 DEF Pair
  <2>4. NoPair \in Pair
    BY DEF Pair, NoPair
  <2>5. row \in [Idx -> Pair]
    BY <2>3, <2>4
  <2> HIDE DEF row
  <2>6. Mapped(t, 0) => ControlType'
    BY <2>2 DEF ControlType, Goto, PCs
  <2>7. Mapped(t, 0) => WorkType'
    BY <2>2, <2>5 DEF WorkType
  <2>8. ~Mapped(t, 0) => ControlType' /\ WorkType'
    BY <1>33, ReturnType DEF ReadLookup
  <2>9. ControlType' /\ WorkType'
    BY <2>6, <2>7, <2>8
  <2>10. IndexType' /\ HeapType' /\ AllocType' /\ DiskType' /\ OuterType' /\
       LockType'
    BY <1>33 DEF ReadLookup, dataVars, IndexType, indexVars, HeapType, heapVars,
         AllocType, allocVars, DiskType, OuterType, outerVars, LockType, lockVars
  <2> QED  BY <2>9, <2>10
<1>34. CASE ReadBlock(t)
  <2>1. WorkType'
    BY <1>34 DEF ReadBlock, WorkType, Pair, ToRead, DiskType
  <2>2. ControlType'
    BY <1>34 DEF ReadBlock, ControlType
  <2>3. IndexType' /\ HeapType' /\ AllocType' /\ DiskType' /\ OuterType' /\
       LockType'
    BY <1>34 DEF ReadBlock, dataVars, IndexType, indexVars, HeapType, heapVars,
         AllocType, allocVars, DiskType, OuterType, outerVars, LockType, lockVars
  <2> QED  BY <2>1, <2>2, <2>3
<1>35. CASE ReadReturn(t)
  <2>1. ControlType' /\ WorkType'
    BY <1>35, ReturnType DEF ReadReturn
  <2>2. IndexType' /\ HeapType' /\ AllocType' /\ DiskType' /\ OuterType' /\
       LockType'
    BY <1>35 DEF ReadReturn, dataVars, IndexType, indexVars, HeapType, heapVars,
         AllocType, allocVars, DiskType, OuterType, outerVars, LockType, lockVars
  <2> QED  BY <2>1, <2>2
<1> QED
  BY <1>0, <1>1, <1>2, <1>3, <1>4, <1>5, <1>6, <1>7, <1>8, <1>9, <1>10, <1>11,
       <1>12, <1>13, <1>14, <1>15, <1>16, <1>17, <1>18, <1>19, <1>20, <1>21, <1>22,
       <1>23, <1>24, <1>25, <1>26, <1>27, <1>28, <1>29, <1>30, <1>31, <1>32, <1>33,
       <1>34, <1>35 DEF Step

-----------------------------------------------------------------------------
(* A step of one thread leaves the frames of the others alone              *)

SameFrame(u) ==
    /\ pc'[u] = pc[u] /\ req'[u] = req[u] /\ k'[u] = k[u] /\ lim'[u] = lim[u]
    /\ plan'[u] = plan[u]

LEMMA OthersUnchanged ==
    ASSUME TypeOK, NEW t \in Threads, Dispatch(t) \/ Step(t),
           NEW u \in Threads, u # t
    PROVE  SameFrame(u)
<1> USE DEF TypeOK, ControlType, WorkType, SameFrame, Goto, frameVars
<1>0. CASE Dispatch(t)
  <2>1. pc' = [pc EXCEPT ![t] = pc'[t]] /\ req' = [req EXCEPT ![t] = req'[t]]
    BY <1>0 DEF Dispatch
  <2> QED  BY <1>0, <2>1 DEF Dispatch
<1>1. CASE PlanLock(t)
  BY <1>1 DEF PlanLock
<1>2. CASE PlanHit(t)
  BY <1>2 DEF PlanHit
<1>3. CASE CountHit(t)
  BY <1>3 DEF CountHit, SetK
<1>4. CASE PlanMiss(t)
  BY <1>4 DEF PlanMiss, NextIter, SetK
<1>5. CASE PlanUnlock(t)
  BY <1>5 DEF PlanUnlock, SetK
<1>6. CASE Drain(t)
  BY <1>6 DEF Drain
<1>7. CASE AppendSlots(t)
  BY <1>7 DEF AppendSlots
<1>8. CASE FlushRun(t)
  BY <1>8 DEF FlushRun, FlushRunAt, SetK
<1>9. CASE FlushFail(t)
  BY <1>9 DEF FlushFail, FlushFailAt, SetK
<1>10. CASE FlushDone(t)
  BY <1>10 DEF FlushDone, SetK
<1>11. CASE WriteLock(t)
  BY <1>11 DEF WriteLock
<1>12. CASE PublishSkip(t)
  BY <1>12 DEF PublishSkip, NextIter, SetK
<1>13. CASE PublishOurs(t)
  BY <1>13 DEF PublishOurs, NextIter, SetK
<1>14. CASE UseWinner(t)
  BY <1>14 DEF UseWinner, NextIter, SetK
<1>15. CASE PublishDone(t)
  BY <1>15 DEF PublishDone, SetK
<1>16. CASE MapBlock(t)
  BY <1>16 DEF MapBlock, NextIter, SetK
<1>17. CASE Commit(t)
  BY <1>17 DEF Commit
<1>18. CASE ReleaseAfterWrite(t)
  BY <1>18 DEF ReleaseAfterWrite, Return
<1>19. CASE ReleaseAndGo(t)
  BY <1>19 DEF ReleaseAndGo
<1>20. CASE RbHit(t)
  BY <1>20 DEF RbHit, NextIter, SetK
<1>21. CASE RbUnlock(t)
  BY <1>21 DEF RbUnlock, SetK
<1>22. CASE RbMutex(t)
  BY <1>22 DEF RbMutex
<1>23. CASE RbMiss(t)
  BY <1>23 DEF RbMiss, NextIter, SetK
<1>24. CASE RbDone(t)
  BY <1>24 DEF RbDone, Return
<1>25. CASE UnlinkReadSize(t)
  BY <1>25 DEF UnlinkReadSize, BeginRemoval
<1>26. CASE TruncateReadSize(t)
  BY <1>26 DEF TruncateReadSize, Return, BeginRemoval
<1>27. CASE RemoveBlock(t)
  BY <1>27 DEF RemoveBlock, NextIter, SetK
<1>28. CASE RemoveUnlock(t)
  BY <1>28 DEF RemoveUnlock
<1>29. CASE UnlinkDropSize(t)
  BY <1>29 DEF UnlinkDropSize
<1>30. CASE UnlinkBackend(t)
  BY <1>30 DEF UnlinkBackend, Return
<1>31. CASE TruncateSetSize(t)
  BY <1>31 DEF TruncateSetSize, Return
<1>32. CASE Create(t)
  BY <1>32 DEF Create, Return
<1>33. CASE ReadLookup(t)
  BY <1>33 DEF ReadLookup, Return
<1>34. CASE ReadBlock(t)
  BY <1>34 DEF ReadBlock
<1>35. CASE ReadReturn(t)
  BY <1>35 DEF ReadReturn, Return
<1> QED
  BY <1>0, <1>1, <1>2, <1>3, <1>4, <1>5, <1>6, <1>7, <1>8, <1>9, <1>10, <1>11,
       <1>12, <1>13, <1>14, <1>15, <1>16, <1>17, <1>18, <1>19, <1>20, <1>21, <1>22,
       <1>23, <1>24, <1>25, <1>26, <1>27, <1>28, <1>29, <1>30, <1>31, <1>32, <1>33,
       <1>34, <1>35 DEF Step

LEMMA DropRefHash ==
    ASSUME HeapType, NEW t, NEW q, DropRef(t, q), NEW p \in Infos
    PROVE  info'[p].hash = info[p].hash
  BY DEF HeapType, Info, DropRef

\* A MasterInfo that has a hash keeps one: free() does not clear it, and only
\* malloc for a new MISS writes another.
LEMMA HashStable ==
    ASSUME TypeInv, NEW t \in Threads, Dispatch(t) \/ Step(t),
           NEW p \in Infos, info[p].hash \in Hashes
    PROVE  info'[p].hash \in Hashes
<1> USE DEF TypeInv, TypeOK, HeapType, Info
<1>0. CASE Dispatch(t)
  BY <1>0 DEF Dispatch, heapVars
<1>1. CASE PlanLock(t)
  BY <1>1 DEF PlanLock, dataVars, heapVars
<1>2. CASE PlanHit(t)
  BY <1>2 DEF PlanHit, dataVars, heapVars
<1>3. CASE CountHit(t)
  BY <1>3 DEF CountHit
<1>4. CASE PlanMiss(t)
  BY <1>4, IterFacts DEF PlanMiss, WritePCs
<1>5. CASE PlanUnlock(t)
  BY <1>5 DEF PlanUnlock, dataVars, heapVars
<1>6. CASE Drain(t)
  BY <1>6 DEF Drain, dataVars, heapVars
<1>7. CASE AppendSlots(t)
  BY <1>7 DEF AppendSlots
<1>8. CASE FlushRun(t)
  BY <1>8 DEF FlushRun, FlushRunAt, dataVars, heapVars
<1>9. CASE FlushFail(t)
  BY <1>9 DEF FlushFail, FlushFailAt, dataVars, heapVars
<1>10. CASE FlushDone(t)
  BY <1>10 DEF FlushDone, dataVars, heapVars
<1>11. CASE WriteLock(t)
  BY <1>11 DEF WriteLock, dataVars, heapVars
<1>12. CASE PublishSkip(t)
  BY <1>12 DEF PublishSkip, dataVars, heapVars
<1>13. CASE PublishOurs(t)
  BY <1>13 DEF PublishOurs, dataVars, heapVars
<1>14. CASE UseWinner(t)
  BY <1>14 DEF UseWinner
<1>15. CASE PublishDone(t)
  BY <1>15 DEF PublishDone, dataVars, heapVars
<1>16. CASE MapBlock(t)
  BY <1>16, DropRefHash DEF MapBlock, heapVars
<1>17. CASE Commit(t)
  BY <1>17 DEF Commit, dataVars, heapVars
<1>18. CASE ReleaseAfterWrite(t)
  BY <1>18 DEF ReleaseAfterWrite, dataVars, heapVars
<1>19. CASE ReleaseAndGo(t)
  BY <1>19 DEF ReleaseAndGo, dataVars, heapVars
<1>20. CASE RbHit(t)
  BY <1>20, DropRefHash DEF RbHit, heapVars
<1>21. CASE RbUnlock(t)
  BY <1>21 DEF RbUnlock, dataVars, heapVars
<1>22. CASE RbMutex(t)
  BY <1>22 DEF RbMutex, dataVars, heapVars
<1>23. CASE RbMiss(t)
  BY <1>23 DEF RbMiss, dataVars, heapVars
<1>24. CASE RbDone(t)
  BY <1>24 DEF RbDone, dataVars, heapVars
<1>25. CASE UnlinkReadSize(t)
  BY <1>25 DEF UnlinkReadSize, dataVars, heapVars
<1>26. CASE TruncateReadSize(t)
  BY <1>26 DEF TruncateReadSize, dataVars, heapVars
<1>27. CASE RemoveBlock(t)
  BY <1>27, DropRefHash DEF RemoveBlock, heapVars
<1>28. CASE RemoveUnlock(t)
  BY <1>28 DEF RemoveUnlock, dataVars, heapVars
<1>29. CASE UnlinkDropSize(t)
  BY <1>29 DEF UnlinkDropSize, dataVars, heapVars
<1>30. CASE UnlinkBackend(t)
  BY <1>30 DEF UnlinkBackend, dataVars, heapVars
<1>31. CASE TruncateSetSize(t)
  BY <1>31 DEF TruncateSetSize, dataVars, heapVars
<1>32. CASE Create(t)
  BY <1>32 DEF Create, dataVars, heapVars
<1>33. CASE ReadLookup(t)
  BY SMTT(30), <1>33 DEF ReadLookup, dataVars, heapVars
<1>34. CASE ReadBlock(t)
  BY SMTT(30), <1>34 DEF ReadBlock, dataVars, heapVars
<1>35. CASE ReadReturn(t)
  BY SMTT(30), <1>35 DEF ReadReturn, dataVars, heapVars
<1> QED
  BY <1>0, <1>1, <1>2, <1>3, <1>4, <1>5, <1>6, <1>7, <1>8, <1>9, <1>10, <1>11,
       <1>12, <1>13, <1>14, <1>15, <1>16, <1>17, <1>18, <1>19, <1>20, <1>21, <1>22,
       <1>23, <1>24, <1>25, <1>26, <1>27, <1>28, <1>29, <1>30, <1>31, <1>32, <1>33,
       <1>34, <1>35 DEF Step

LEMMA FrameStep ==
    ASSUME TypeInv, NEW t \in Threads, Dispatch(t) \/ Step(t)
    PROVE  FrameOK(t)'
<1> USE NullAssumption, BoundsAssumption
        DEF TypeInv, TypeOK, ControlType, FramesOK, FrameOK, WritePCs, N, Goto, frameVars
<1>0. CASE Dispatch(t)
  <2>1. PICK r \in Requests :
          /\ Goto(t, Entry(r))
          /\ req' = [req EXCEPT ![t] = IF Entry(r) = "idle" THEN NULL ELSE r]
    BY <1>0 DEF Dispatch
  <2>2. Entry(r) = "w_rdlock" => r.op = "write"
    BY RequestsAssumption DEF Entry, WriteEntry, ReadEntry, TruncateEntry, Ops
  <2> QED  BY <1>0, <2>1, <2>2, EntryRange, RequestFacts DEF Dispatch
<1>1. CASE PlanLock(t)
  BY <1>1, RequestFacts DEF PlanLock
<1>2. CASE PlanHit(t)
  BY <1>2, RequestFacts, IterFacts DEF PlanHit, WorkType
<1>3. CASE CountHit(t)
  BY <1>3, RequestFacts DEF CountHit, SetK
<1>4. CASE PlanMiss(t)
  BY <1>4, RequestFacts DEF PlanMiss, NextIter, SetK
<1>5. CASE PlanUnlock(t)
  BY <1>5, RequestFacts DEF PlanUnlock, SetK
<1>6. CASE Drain(t)
  BY <1>6, RequestFacts DEF Drain
<1>7. CASE AppendSlots(t)
  BY <1>7, RequestFacts DEF AppendSlots
<1>8. CASE FlushRun(t)
  BY <1>8, RequestFacts DEF FlushRun, FlushRunAt, SetK, RunEnd
<1>9. CASE FlushFail(t)
  BY <1>9, RequestFacts DEF FlushFail, FlushFailAt, SetK, RunEnd
<1>10. CASE FlushDone(t)
  BY <1>10, RequestFacts DEF FlushDone, SetK
<1>11. CASE WriteLock(t)
  BY <1>11, RequestFacts DEF WriteLock
<1>12. CASE PublishSkip(t)
  BY <1>12, RequestFacts DEF PublishSkip, NextIter, SetK
<1>13. CASE PublishOurs(t)
  BY <1>13, RequestFacts DEF PublishOurs, NextIter, SetK
<1>14. CASE UseWinner(t)
  BY <1>14, RequestFacts DEF UseWinner, NextIter, SetK
<1>15. CASE PublishDone(t)
  BY <1>15, RequestFacts DEF PublishDone, SetK
<1>16. CASE MapBlock(t)
  BY <1>16, RequestFacts DEF MapBlock, NextIter, SetK
<1>17. CASE Commit(t)
  BY <1>17, RequestFacts DEF Commit
<1>18. CASE ReleaseAfterWrite(t)
  BY <1>18, RequestFacts DEF ReleaseAfterWrite, Return
<1>19. CASE ReleaseAndGo(t)
  BY <1>19, RequestFacts DEF ReleaseAndGo
<1>20. CASE RbHit(t)
  BY <1>20, RequestFacts DEF RbHit, NextIter, SetK
<1>21. CASE RbUnlock(t)
  BY <1>21, RequestFacts DEF RbUnlock, SetK
<1>22. CASE RbMutex(t)
  BY <1>22, RequestFacts DEF RbMutex
<1>23. CASE RbMiss(t)
  BY <1>23, RequestFacts DEF RbMiss, NextIter, SetK
<1>24. CASE RbDone(t)
  BY <1>24, RequestFacts DEF RbDone, Return
<1>25. CASE UnlinkReadSize(t)
  <2>1. file_to_sizes[req[t].path] \in (0 .. MaxBlocks) \cup {NULL} /\ N(t) \in Nat
    BY <1>25, RequestFacts DEF UnlinkReadSize, IndexType
  <2> QED  BY <1>25, <2>1 DEF UnlinkReadSize, BeginRemoval
<1>26. CASE TruncateReadSize(t)
  <2>1. file_to_sizes[req[t].path] \in (0 .. MaxBlocks) \cup {NULL} /\ N(t) \in Nat
    BY <1>26, RequestFacts DEF TruncateReadSize, IndexType
  <2> QED  BY <1>26, <2>1 DEF TruncateReadSize, Return, BeginRemoval, Shrinks
<1>27. CASE RemoveBlock(t)
  BY <1>27, RequestFacts DEF RemoveBlock, NextIter, SetK
<1>28. CASE RemoveUnlock(t)
  BY <1>28, RequestFacts DEF RemoveUnlock
<1>29. CASE UnlinkDropSize(t)
  BY <1>29, RequestFacts DEF UnlinkDropSize
<1>30. CASE UnlinkBackend(t)
  BY <1>30, RequestFacts DEF UnlinkBackend, Return
<1>31. CASE TruncateSetSize(t)
  BY <1>31, RequestFacts DEF TruncateSetSize, Return, Shrinks
<1>32. CASE Create(t)
  BY <1>32, RequestFacts DEF Create, Return
<1>33. CASE ReadLookup(t)
  BY <1>33, RequestFacts DEF ReadLookup, Return
<1>34. CASE ReadBlock(t)
  BY <1>34, RequestFacts DEF ReadBlock
<1>35. CASE ReadReturn(t)
  BY <1>35, RequestFacts DEF ReadReturn, Return
<1> QED
  BY <1>0, <1>1, <1>2, <1>3, <1>4, <1>5, <1>6, <1>7, <1>8, <1>9, <1>10, <1>11,
       <1>12, <1>13, <1>14, <1>15, <1>16, <1>17, <1>18, <1>19, <1>20, <1>21, <1>22,
       <1>23, <1>24, <1>25, <1>26, <1>27, <1>28, <1>29, <1>30, <1>31, <1>32, <1>33,
       <1>34, <1>35 DEF Step

\* Plan entries keep their pointers; a thread reaches the flush only with a slot
\* for every MISS.
LEMMA PlanStep ==
    ASSUME TypeInv, NEW t \in Threads, Dispatch(t) \/ Step(t)
    PROVE  PlanOK(t)'
<1>h. \A p \in Infos : info[p].hash \in Hashes => info'[p].hash \in Hashes
  BY HashStable
<1>p. PlanOK(t)
  BY DEF TypeInv, PlansOK
<1>i. \A i \in Idx : plan[t][i].info \in Infos \cup {NULL}
  BY PlanFacts DEF PlanEntry
<1>s. ASSUME plan'[t] = plan[t], pc'[t] \in SlottedPCs =>
               \/ pc[t] \in SlottedPCs
               \/ \A i \in Idx : ~IsMiss(t, i)
      PROVE  PlanOK(t)'
  BY <1>h, <1>i, <1>p, <1>s DEF PlanOK, IsMiss
<1>r. ASSUME Return(t) PROVE PlanOK(t)'
  BY <1>r DEF Return, PlanOK, NoPlan, NoEntry, TypeInv, TypeOK, WorkType
<1> USE DEF TypeInv, TypeOK, ControlType, WorkType, SlottedPCs, Goto, frameVars
<1>0. CASE Dispatch(t)
  <2>1. PICK r \in Requests : Goto(t, Entry(r))
    BY <1>0 DEF Dispatch
  <2>2. pc'[t] \notin SlottedPCs
    BY <2>1, EntryRange
  <2> QED  BY <1>0, <1>s, <2>2 DEF Dispatch
<1>1. CASE PlanLock(t)
  BY <1>1, <1>s DEF PlanLock
<1>2. CASE PlanHit(t)
  <2>1. k[t] \in Idx /\ HashAt(t, k[t]) \in Hashes
    BY <1>2, IterFacts DEF PlanHit, WritePCs
  <2>2. PICK p \in Existing(t, HashAt(t, k[t])) :
          plan' = [plan EXCEPT ![t][k[t]] =
                       [kind |-> "HIT", master_blk |-> NULL, info |-> p]]
    BY <1>2 DEF PlanHit
  <2>3. p \in Infos /\ info[p].hash \in Hashes
    BY NullAssumption, <2>1, <2>2, PlanFacts DEF Existing, Pending, IndexType, PublishedOK
  <2>4. info' = info /\ pc'[t] = "w_hit"
    BY <1>2 DEF PlanHit, dataVars, heapVars
  <2> QED  BY <1>p, <2>1, <2>2, <2>3, <2>4 DEF PlanOK
<1>3. CASE CountHit(t)
  BY <1>3, <1>s DEF CountHit, SetK
<1>4. CASE PlanMiss(t)
  <2>1. k[t] \in Idx /\ HashAt(t, k[t]) \in Hashes
    BY <1>4, IterFacts DEF PlanMiss, WritePCs
  <2>2. PICK p \in Infos \ heap :
          /\ info' = [info EXCEPT ![p] = [hash |-> HashAt(t, k[t]),
                                          masterBlockIndex |-> 0, refcount |-> 1]]
          /\ plan' = [plan EXCEPT ![t][k[t]] =
                          [kind |-> "MISS", master_blk |-> NULL, info |-> p]]
    BY <1>4 DEF PlanMiss
  <2>3. info'[p].hash \in Hashes
    BY <2>1, <2>2 DEF HeapType
  <2>4. pc'[t] = "w_plan"
    BY <1>4 DEF PlanMiss, NextIter
  <2> QED  BY <1>h, <1>i, <1>p, <2>1, <2>2, <2>3, <2>4 DEF PlanOK
<1>5. CASE PlanUnlock(t)
  BY <1>5, <1>s DEF PlanUnlock, SetK, IsMiss
<1>6. CASE Drain(t)
  <2>1. \A i \in Idx : /\ plan'[t][i].kind = plan[t][i].kind
                       /\ plan'[t][i].info = plan[t][i].info
    BY <1>6 DEF Drain, PlanEntry
  <2>2. pc'[t] = "w_append"
    BY <1>6 DEF Drain
  <2> QED  BY <1>h, <1>i, <1>p, <2>1, <2>2 DEF PlanOK
<1>7. CASE AppendSlots(t)
  <2>1. \A i \in Idx : /\ plan'[t][i].kind = plan[t][i].kind
                       /\ plan'[t][i].info = plan[t][i].info
                       /\ IsMiss(t, i) => plan'[t][i].master_blk # NULL
    <3>1. \A i \in Unassigned(t) : nextBlockIndex + Rank(t, i) # NULL
      BY UnassignedFinite, NullAssumption, BoundsAssumption DEF AllocType
    <3> QED  BY <1>7, <3>1 DEF AppendSlots, PlanEntry, Unassigned
  <2>2. \A i \in Idx : plan'[t][i].master_blk \in Slots \cup {NULL}
    BY TypeStep DEF PlanEntry
  <2> QED  BY <1>h, <1>i, <1>p, <2>1, <2>2 DEF PlanOK, IsMiss
<1>8. CASE FlushRun(t)
  BY <1>8, <1>s DEF FlushRun, FlushRunAt, SetK
<1>9. CASE FlushFail(t)
  BY <1>9, <1>s DEF FlushFail, FlushFailAt, SetK
<1>10. CASE FlushDone(t)
  BY <1>10, <1>s DEF FlushDone, SetK
<1>11. CASE WriteLock(t)
  BY <1>11, <1>s DEF WriteLock
<1>12. CASE PublishSkip(t)
  BY <1>12, <1>s DEF PublishSkip, NextIter
<1>13. CASE PublishOurs(t)
  BY <1>13, <1>s DEF PublishOurs, NextIter
<1>14. CASE UseWinner(t)
  <2>1. k[t] \in Idx /\ IsMiss(t, k[t])
    BY SMTT(30), <1>14, IterFacts DEF UseWinner, WritePCs
  <2>2. Winner(t, k[t]) \in Infos
    BY ZenonT(30), <1>14, <2>1, NullAssumption, PlanFacts DEF UseWinner, Winner, IndexType
  <2>3. info[Winner(t, k[t])].hash \in Hashes
    BY <2>1, <2>2, NullAssumption, PlanFacts DEF Winner, PublishedOK
  <2> QED  BY SMTT(30), <1>14, <1>h, <1>i, <1>p, <2>1, <2>2, <2>3 DEF UseWinner, PlanOK, NextIter
<1>15. CASE PublishDone(t)
  BY <1>15, <1>s DEF PublishDone, SetK
<1>16. CASE MapBlock(t)
  BY <1>16, <1>s DEF MapBlock, NextIter
<1>17. CASE Commit(t)
  BY <1>17, <1>s DEF Commit
<1>18. CASE ReleaseAfterWrite(t)
  BY <1>18, <1>r DEF ReleaseAfterWrite
<1>19. CASE ReleaseAndGo(t)
  BY <1>19, <1>s DEF ReleaseAndGo
<1>20. CASE RbHit(t)
  BY <1>20, <1>s DEF RbHit, NextIter
<1>21. CASE RbUnlock(t)
  BY <1>21, <1>s DEF RbUnlock, SetK
<1>22. CASE RbMutex(t)
  BY <1>22, <1>s DEF RbMutex
<1>23. CASE RbMiss(t)
  BY <1>23, <1>s DEF RbMiss, NextIter
<1>24. CASE RbDone(t)
  BY <1>24, <1>r DEF RbDone
<1>25. CASE UnlinkReadSize(t)
  BY <1>25, <1>s DEF UnlinkReadSize, BeginRemoval
<1>26. CASE TruncateReadSize(t)
  <2>1. Shrinks(t) => plan'[t] = plan[t] /\ pc'[t] \notin SlottedPCs
    BY <1>26 DEF TruncateReadSize, BeginRemoval
  <2>2. ~Shrinks(t) => PlanOK(t)'
    BY <1>26, <1>r DEF TruncateReadSize
  <2> QED  BY <1>s, <2>1, <2>2
<1>27. CASE RemoveBlock(t)
  BY <1>27, <1>s DEF RemoveBlock, NextIter
<1>28. CASE RemoveUnlock(t)
  BY <1>28, <1>s DEF RemoveUnlock
<1>29. CASE UnlinkDropSize(t)
  BY <1>29, <1>s DEF UnlinkDropSize
<1>30. CASE UnlinkBackend(t)
  BY <1>30, <1>r DEF UnlinkBackend
<1>31. CASE TruncateSetSize(t)
  BY <1>31, <1>r DEF TruncateSetSize
<1>32. CASE Create(t)
  BY <1>32, <1>r DEF Create
<1>33. CASE ReadLookup(t)
  <2>1. Mapped(t, 0) => plan'[t] = plan[t] /\ pc'[t] \notin SlottedPCs
    BY <1>33 DEF ReadLookup
  <2>2. ~Mapped(t, 0) => PlanOK(t)'
    BY <1>33, <1>r DEF ReadLookup
  <2> QED  BY <1>s, <2>1, <2>2
<1>34. CASE ReadBlock(t)
  BY <1>34, <1>s DEF ReadBlock
<1>35. CASE ReadReturn(t)
  BY <1>35, <1>r DEF ReadReturn
<1> QED
  BY <1>0, <1>1, <1>2, <1>3, <1>4, <1>5, <1>6, <1>7, <1>8, <1>9, <1>10, <1>11,
       <1>12, <1>13, <1>14, <1>15, <1>16, <1>17, <1>18, <1>19, <1>20, <1>21, <1>22,
       <1>23, <1>24, <1>25, <1>26, <1>27, <1>28, <1>29, <1>30, <1>31, <1>32, <1>33,
       <1>34, <1>35 DEF Step

LEMMA PublishedStep ==
    ASSUME TypeInv, NEW t \in Threads, Dispatch(t) \/ Step(t)
    PROVE  PublishedOK'
<1>h. \A p \in Infos : info[p].hash \in Hashes => info'[p].hash \in Hashes
  BY HashStable
<1> USE DEF TypeInv, TypeOK, IndexType
<1>s. ASSUME \A h \in Hashes : hash_to_master'[h] \in {hash_to_master[h], NULL}
      PROVE  PublishedOK'
  BY <1>h, <1>s DEF PublishedOK
<1>d. ASSUME NEW p, DropRef(t, p) PROVE PublishedOK'
  BY <1>d, <1>s DEF DropRef
<1>0. CASE Dispatch(t)
  BY <1>0, <1>s DEF Dispatch, indexVars
<1>1. CASE PlanLock(t)
  BY <1>1, <1>s DEF PlanLock, dataVars, indexVars
<1>2. CASE PlanHit(t)
  BY <1>2, <1>s DEF PlanHit, dataVars, indexVars
<1>3. CASE CountHit(t)
  BY <1>3, <1>s DEF CountHit, dataVars, indexVars
<1>4. CASE PlanMiss(t)
  BY <1>4, <1>s DEF PlanMiss, dataVars, indexVars
<1>5. CASE PlanUnlock(t)
  BY <1>5, <1>s DEF PlanUnlock, dataVars, indexVars
<1>6. CASE Drain(t)
  BY <1>6, <1>s DEF Drain, dataVars, indexVars
<1>7. CASE AppendSlots(t)
  BY <1>7, <1>s DEF AppendSlots, dataVars, indexVars
<1>8. CASE FlushRun(t)
  BY <1>8, <1>s DEF FlushRun, FlushRunAt, dataVars, indexVars
<1>9. CASE FlushFail(t)
  BY <1>9, <1>s DEF FlushFail, FlushFailAt, dataVars, indexVars
<1>10. CASE FlushDone(t)
  BY SMTT(30), <1>10, <1>s DEF FlushDone, dataVars, indexVars
<1>11. CASE WriteLock(t)
  BY SMTT(30), <1>11, <1>s DEF WriteLock, dataVars, indexVars
<1>12. CASE PublishSkip(t)
  BY SMTT(30), <1>12, <1>s DEF PublishSkip, dataVars, indexVars
<1>13. CASE PublishOurs(t)
  <2>1. k[t] \in Idx /\ IsMiss(t, k[t])
    BY <1>13, IterFacts DEF PublishOurs, WritePCs
  <2>2. plan[t][k[t]].info \in Infos /\ info[plan[t][k[t]].info].hash \in Hashes
    BY <2>1, PlanFacts
  <2> QED  BY <1>13, <1>h, <2>2 DEF PublishOurs, PublishedOK
<1>14. CASE UseWinner(t)
  BY <1>14, <1>s DEF UseWinner, dataVars, indexVars
<1>15. CASE PublishDone(t)
  BY <1>15, <1>s DEF PublishDone, dataVars, indexVars
<1>16. CASE MapBlock(t)
  BY <1>16, <1>s, <1>d DEF MapBlock
<1>17. CASE Commit(t)
  BY <1>17, <1>s DEF Commit, dataVars, indexVars
<1>18. CASE ReleaseAfterWrite(t)
  BY <1>18, <1>s DEF ReleaseAfterWrite, dataVars, indexVars
<1>19. CASE ReleaseAndGo(t)
  BY <1>19, <1>s DEF ReleaseAndGo, dataVars, indexVars
<1>20. CASE RbHit(t)
  BY <1>20, <1>s, <1>d DEF RbHit
<1>21. CASE RbUnlock(t)
  BY <1>21, <1>s DEF RbUnlock, dataVars, indexVars
<1>22. CASE RbMutex(t)
  BY <1>22, <1>s DEF RbMutex, dataVars, indexVars
<1>23. CASE RbMiss(t)
  BY <1>23, <1>s DEF RbMiss, dataVars, indexVars
<1>24. CASE RbDone(t)
  BY <1>24, <1>s DEF RbDone, dataVars, indexVars
<1>25. CASE UnlinkReadSize(t)
  BY <1>25, <1>s DEF UnlinkReadSize, dataVars, indexVars
<1>26. CASE TruncateReadSize(t)
  BY <1>26, <1>s DEF TruncateReadSize, dataVars, indexVars
<1>27. CASE RemoveBlock(t)
  BY <1>27, <1>s, <1>d DEF RemoveBlock
<1>28. CASE RemoveUnlock(t)
  BY <1>28, <1>s DEF RemoveUnlock, dataVars, indexVars
<1>29. CASE UnlinkDropSize(t)
  BY <1>29, <1>s DEF UnlinkDropSize, dataVars, indexVars
<1>30. CASE UnlinkBackend(t)
  BY <1>30, <1>s DEF UnlinkBackend, dataVars, indexVars
<1>31. CASE TruncateSetSize(t)
  BY <1>31, <1>s DEF TruncateSetSize, dataVars, indexVars
<1>32. CASE Create(t)
  BY <1>32, <1>s DEF Create, dataVars, indexVars
<1>33. CASE ReadLookup(t)
  BY <1>33, <1>s DEF ReadLookup, dataVars, indexVars
<1>34. CASE ReadBlock(t)
  BY <1>34, <1>s DEF ReadBlock, dataVars, indexVars
<1>35. CASE ReadReturn(t)
  BY <1>35, <1>s DEF ReadReturn, dataVars, indexVars
<1> QED
  BY <1>0, <1>1, <1>2, <1>3, <1>4, <1>5, <1>6, <1>7, <1>8, <1>9, <1>10, <1>11,
       <1>12, <1>13, <1>14, <1>15, <1>16, <1>17, <1>18, <1>19, <1>20, <1>21, <1>22,
       <1>23, <1>24, <1>25, <1>26, <1>27, <1>28, <1>29, <1>30, <1>31, <1>32, <1>33,
       <1>34, <1>35 DEF Step

\* Every action of the handlers leaves the mapping, the sizes and the directory
\* alone but for the ones named here.
LEMMA FileChanges ==
    ASSUME NEW t \in Threads, Dispatch(t) \/ Step(t)
    PROVE  /\ MapBlock(t) \/ RemoveBlock(t) \/ file_to_master' = file_to_master
           /\ \/ Commit(t) \/ UnlinkDropSize(t) \/ TruncateSetSize(t)
              \/ file_to_sizes' = file_to_sizes
           /\ UnlinkBackend(t) \/ Create(t) \/ names' = names
<1> USE DEF dataVars, indexVars, outerVars
<1>1. CASE Dispatch(t)
  BY <1>1 DEF Dispatch
<1>2. CASE PlanLock(t) \/ PlanHit(t) \/ CountHit(t) \/ PlanMiss(t) \/ PlanUnlock(t)
  BY <1>2 DEF PlanLock, PlanHit, CountHit, PlanMiss, PlanUnlock
<1>3. CASE Drain(t) \/ AppendSlots(t) \/ FlushRun(t) \/ FlushFail(t) \/ FlushDone(t)
  BY SMTT(30), <1>3 DEF Drain, AppendSlots, FlushRun, FlushRunAt, FlushFail, FlushFailAt, FlushDone
<1>4. CASE WriteLock(t) \/ PublishSkip(t) \/ PublishOurs(t) \/ UseWinner(t) \/ PublishDone(t)
  BY <1>4 DEF WriteLock, PublishSkip, PublishOurs, UseWinner, PublishDone
<1>5. CASE MapBlock(t) \/ Commit(t) \/ ReleaseAfterWrite(t) \/ ReleaseAndGo(t)
  BY <1>5 DEF MapBlock, Commit, ReleaseAfterWrite, ReleaseAndGo
<1>6. CASE RbHit(t) \/ RbUnlock(t) \/ RbMutex(t) \/ RbMiss(t) \/ RbDone(t)
  BY <1>6 DEF RbHit, RbUnlock, RbMutex, RbMiss, RbDone
<1>7. CASE UnlinkReadSize(t) \/ TruncateReadSize(t) \/ RemoveBlock(t) \/ RemoveUnlock(t)
  BY <1>7 DEF UnlinkReadSize, TruncateReadSize, RemoveBlock, RemoveUnlock
<1>8. CASE UnlinkDropSize(t) \/ UnlinkBackend(t) \/ TruncateSetSize(t) \/ Create(t)
  BY <1>8 DEF UnlinkDropSize, UnlinkBackend, TruncateSetSize, Create
<1>9. CASE ReadLookup(t) \/ ReadBlock(t) \/ ReadReturn(t)
  BY <1>9 DEF ReadLookup, ReadBlock, ReadReturn
<1> QED
  BY <1>1, <1>2, <1>3, <1>4, <1>5, <1>6, <1>7, <1>8, <1>9 DEF Step

LEMMA MappedStep ==
    ASSUME TypeInv, NEW t \in Threads, Dispatch(t) \/ Step(t)
    PROVE  MappedOK'
<1>a. /\ file_to_master \in [Key -> Infos \cup {NULL}]
      /\ \A p \in Infos : info[p].hash \in Hashes => info'[p].hash \in Hashes
  BY HashStable DEF TypeInv, TypeOK, IndexType
<1>1. CASE file_to_master' = file_to_master
  BY <1>1, <1>a DEF TypeInv, MappedOK
<1>2. CASE MapBlock(t)
  <2>1. k[t] \in Idx /\ KeyOf(t, k[t]) \in Key
    BY <1>2, IterFacts DEF MapBlock, WritePCs
  <2>p. PICK p : p = plan[t][k[t]].info
    OBVIOUS
  <2>2. p \in Infos \cup {NULL} /\ (p # NULL => info[p].hash \in Hashes)
    BY <2>p, <2>1, PlanFacts DEF PlanEntry, TypeInv, PlansOK, PlanOK
  <2>3. file_to_master' = [file_to_master EXCEPT ![KeyOf(t, k[t])] = p]
    BY <1>2, <2>p DEF MapBlock
  <2> QED  BY <1>a, <2>1, <2>2, <2>3 DEF TypeInv, MappedOK
<1>3. CASE RemoveBlock(t)
  <2>1. \A x \in Key : file_to_master'[x] \in {file_to_master[x], NULL}
    BY <1>3, <1>a DEF RemoveBlock
  <2> QED  BY <1>a, <2>1 DEF TypeInv, MappedOK
<1> QED  BY <1>1, <1>2, <1>3, FileChanges

-----------------------------------------------------------------------------
(* The theorems *)

LEMMA TypeInvInit == Fresh => TypeInv
<1> SUFFICES ASSUME Fresh PROVE TypeInv
  OBVIOUS
<1> USE NullAssumption, BoundsAssumption DEF Fresh, FreshInit
<1>1. IndexType /\ AllocType /\ DiskType /\ OuterType /\ LockType
  BY DEF IndexType, AllocType, DiskType, OuterType, LockType
<1>2. HeapType
  BY DEF HeapType, Info, NoInfo, Slots
<1>3. ControlType /\ WorkType
  BY DEF ControlType, WorkType, PCs, NoPlan, NoPairs, NoEntry, NoPair, PlanEntry, Pair
<1>4. FramesOK
  BY DEF FramesOK, FrameOK, WritePCs
<1>5. PlansOK
  BY DEF PlansOK, PlanOK, NoPlan, NoEntry
<1>6. PublishedOK /\ MappedOK
  BY DEF PublishedOK, MappedOK
<1> QED  BY <1>1, <1>2, <1>3, <1>4, <1>5, <1>6 DEF TypeInv, TypeOK

LEMMA TypeInvStep == TypeInv /\ [Next]_vars => TypeInv'
<1> SUFFICES ASSUME TypeInv, [Next]_vars PROVE TypeInv'
  OBVIOUS
<1>1. CASE UNCHANGED vars
  BY <1>1 DEF vars, dataVars, indexVars, heapVars, allocVars, outerVars, lockVars,
       frameVars, TypeInv, TypeOK, IndexType, HeapType, AllocType, DiskType, OuterType,
       LockType, ControlType, WorkType, FramesOK, FrameOK, PlansOK, PlanOK, PublishedOK,
       MappedOK, N
<1>2. ASSUME NEW t \in Threads, Dispatch(t) \/ Step(t) PROVE TypeInv'
  <2>1. TypeOK'
    BY <1>2, TypeStep
  <2>2. ASSUME NEW u \in Threads, u # t PROVE FrameOK(u)' /\ PlanOK(u)'
    <3>1. SameFrame(u)
      BY <1>2, <2>2, OthersUnchanged DEF TypeInv
    <3>2. FrameOK(u) /\ PlanOK(u)
      BY DEF TypeInv, FramesOK, PlansOK
    <3>3. \A p \in Infos : info[p].hash \in Hashes => info'[p].hash \in Hashes
      BY <1>2, HashStable
    <3>4. FrameOK(u)'
      BY <3>1, <3>2 DEF SameFrame, FrameOK, N
    <3>5. \A i \in Idx : plan[u][i].info \in Infos \cup {NULL}
      BY PlanFacts DEF PlanEntry
    <3>6. PlanOK(u)'
      BY <3>1, <3>2, <3>3, <3>5 DEF SameFrame, PlanOK
    <3> QED  BY <3>4, <3>6
  <2>3. FrameOK(t)' /\ PlanOK(t)'
    BY <1>2, FrameStep, PlanStep
  <2>4. FramesOK' /\ PlansOK'
    BY <2>2, <2>3 DEF FramesOK, PlansOK
  <2>5. PublishedOK' /\ MappedOK'
    BY <1>2, PublishedStep, MappedStep
  <2> QED  BY <2>1, <2>4, <2>5 DEF TypeInv
<1> QED  BY <1>1, <1>2 DEF Next, Quiet

\* Whatever the interleaving of handlers, failed pwrites and duplicate batches,
\* every variable keeps its type: no handler indexes outside its plan, publishes a
\* pointer that malloc did not return, or hands an unassigned slot to the free list.
THEOREM TypeCorrect == Spec => []TypeOK
<1>1. TypeInv => TypeOK
  BY DEF TypeInv
<1> QED  BY InitFresh, TypeInvInit, TypeInvStep, <1>1, PTL DEF Spec

\* metadata_rwlock and freelist_mutex are held exactly where the code says, by at
\* most one writer, and never in read and write mode together.
THEOREM LocksHeld == Spec => []LockDiscipline
<1>1. TypeInv /\ LockDiscipline /\ [Next]_vars => LockDiscipline'
  <2> SUFFICES ASSUME TypeInv, LockDiscipline, [Next]_vars PROVE LockDiscipline'
    OBVIOUS
  <2>1. pc \in [Threads -> PCs] /\ readers \subseteq Threads
    BY DEF TypeInv, TypeOK, ControlType, LockType
  <2>2. CASE UNCHANGED vars
    BY <2>2 DEF vars, lockVars, LockDiscipline
  <2>3. ASSUME NEW t \in Threads, Dispatch(t) \/ Step(t) PROVE LockDiscipline'
    BY <2>1, <2>3, LockStep
  <2> QED  BY <2>2, <2>3 DEF Next, Quiet
<1> QED  BY InitFresh, TypeInvInit, TypeInvStep, LockInit, <1>1, PTL DEF Spec

LEMMA SnapshotStep ==
    ASSUME LockDiscipline, NEW t \in Threads, Dispatch(t) \/ Step(t), readers # {}
    PROVE  UNCHANGED indexVars
<1>w. pc[t] \notin WriteLocked
  BY NullAssumption DEF LockDiscipline
<1> USE DEF WriteLocked
<1>0. CASE Dispatch(t)
  BY <1>0 DEF Dispatch
<1>1. CASE PlanLock(t)
  BY <1>1 DEF PlanLock, dataVars
<1>2. CASE PlanHit(t)
  BY <1>2 DEF PlanHit, dataVars
<1>3. CASE CountHit(t)
  BY <1>3 DEF CountHit, dataVars
<1>4. CASE PlanMiss(t)
  BY <1>4 DEF PlanMiss, dataVars
<1>5. CASE PlanUnlock(t)
  BY <1>5 DEF PlanUnlock, dataVars
<1>6. CASE Drain(t)
  BY <1>6 DEF Drain, dataVars
<1>7. CASE AppendSlots(t)
  BY <1>7 DEF AppendSlots, dataVars
<1>8. CASE FlushRun(t)
  BY <1>8 DEF FlushRun, FlushRunAt, dataVars
<1>9. CASE FlushFail(t)
  BY <1>9 DEF FlushFail, FlushFailAt, dataVars
<1>10. CASE FlushDone(t)
  BY <1>10 DEF FlushDone, dataVars
<1>11. CASE WriteLock(t)
  BY <1>11 DEF WriteLock, dataVars
<1>12. CASE PublishSkip(t)
  BY <1>12 DEF PublishSkip, dataVars
<1>13. CASE PublishOurs(t)
  BY <1>13, <1>w DEF PublishOurs
<1>14. CASE UseWinner(t)
  BY <1>14 DEF UseWinner, dataVars
<1>15. CASE PublishDone(t)
  BY <1>15 DEF PublishDone, dataVars
<1>16. CASE MapBlock(t)
  BY <1>16, <1>w DEF MapBlock
<1>17. CASE Commit(t)
  BY <1>17, <1>w DEF Commit
<1>18. CASE ReleaseAfterWrite(t)
  BY <1>18 DEF ReleaseAfterWrite, dataVars
<1>19. CASE ReleaseAndGo(t)
  BY <1>19 DEF ReleaseAndGo, dataVars
<1>20. CASE RbHit(t)
  BY <1>20, <1>w DEF RbHit
<1>21. CASE RbUnlock(t)
  BY <1>21 DEF RbUnlock, dataVars
<1>22. CASE RbMutex(t)
  BY <1>22 DEF RbMutex, dataVars
<1>23. CASE RbMiss(t)
  BY <1>23 DEF RbMiss, dataVars
<1>24. CASE RbDone(t)
  BY <1>24 DEF RbDone, dataVars
<1>25. CASE UnlinkReadSize(t)
  BY <1>25 DEF UnlinkReadSize, dataVars
<1>26. CASE TruncateReadSize(t)
  BY <1>26 DEF TruncateReadSize, dataVars
<1>27. CASE RemoveBlock(t)
  BY <1>27, <1>w DEF RemoveBlock
<1>28. CASE RemoveUnlock(t)
  BY <1>28 DEF RemoveUnlock, dataVars
<1>29. CASE UnlinkDropSize(t)
  BY <1>29 DEF UnlinkDropSize, WrLockFree
<1>30. CASE UnlinkBackend(t)
  BY <1>30 DEF UnlinkBackend, dataVars
<1>31. CASE TruncateSetSize(t)
  BY <1>31 DEF TruncateSetSize, WrLockFree
<1>32. CASE Create(t)
  BY <1>32 DEF Create, dataVars
<1>33. CASE ReadLookup(t)
  BY <1>33 DEF ReadLookup, dataVars
<1>34. CASE ReadBlock(t)
  BY <1>34 DEF ReadBlock, dataVars
<1>35. CASE ReadReturn(t)
  BY <1>35 DEF ReadReturn, dataVars
<1> QED
  BY <1>0, <1>1, <1>2, <1>3, <1>4, <1>5, <1>6, <1>7, <1>8, <1>9, <1>10, <1>11,
       <1>12, <1>13, <1>14, <1>15, <1>16, <1>17, <1>18, <1>19, <1>20, <1>21, <1>22,
       <1>23, <1>24, <1>25, <1>26, <1>27, <1>28, <1>29, <1>30, <1>31, <1>32, <1>33,
       <1>34, <1>35 DEF Step

\* The look-ups of pass 1 are made on one state of the index, however many writes,
\* removals and rollbacks run beside it.
THEOREM SnapshotReads == Spec => SnapshotWhileReading
<1>1. LockDiscipline /\ [Next]_vars => [readers # {} => UNCHANGED indexVars]_vars
  <2> SUFFICES ASSUME LockDiscipline, [Next]_vars, readers # {}
               PROVE  UNCHANGED vars \/ UNCHANGED indexVars
    OBVIOUS
  <2>1. ASSUME NEW t \in Threads, Dispatch(t) \/ Step(t) PROVE UNCHANGED indexVars
    BY <2>1, SnapshotStep
  <2> QED  BY <2>1 DEF Next, Quiet
<1> QED  BY LocksHeld, <1>1, PTL DEF Spec, SnapshotWhileReading

-----------------------------------------------------------------------------
(* The accounting of references *)

\* No batch holds the same block twice.  With a duplicate the double check
\* leaves a plan entry behind (dedup.c:612) and the accounting is lost.
DistinctBatches ==
    \A r \in Requests : r.op = "write" =>
        \A i, j \in 0 .. NumBlocks(r) - 1 :
            HashOf[r.data[i + 1]] = HashOf[r.data[j + 1]] => i = j

\* refcount, a uint32_t, is wide enough for all blocks of all files and all plan
\* entries together.
RefcountsFit ==
    /\ IsFiniteSet(Paths) /\ IsFiniteSet(Threads)
    /\ Cardinality(Key) + Cardinality(Threads \X Idx) < RefcountLimit

-----------------------------------------------------------------------------
(* The inductive invariant of the accounting *)

Planned(t, i) == plan[t][i].kind # "NONE"

\* Locations behind pass 1: every block of the batch has its plan entry.
PlannedPCs == (WritePCs \ {"w_rdlock", "w_plan", "w_hit"}) \cup {"w_release"}

PlanEnd(t) ==
    CASE pc[t] = "w_plan" -> k[t]
      [] pc[t] = "w_hit" -> k[t] + 1
      [] pc[t] \in PlannedPCs -> N(t)
      [] OTHER -> 0

\* Pass 1 fills the plan from its first entry to its last.
ShapeOK ==
    \A t \in Threads, i \in Idx :
        IF i < PlanEnd(t) THEN Planned(t, i) ELSE plan[t][i] = NoEntry

\* The next loop over the batch starts at its first entry.
LoopsOK ==
    \A t \in Threads :
        pc[t] \in {"w_drain", "w_append", "w_wrlock", "rb_wrlock", "rb_release", "rb_mutex"} =>
            k[t] = 0

Holds(t, i) == HoldsRef(t, i) /\ Planned(t, i)

\* A MasterInfo behind a plan entry is allocated and carries the hash of the
\* block; it is private, with one reference, or published.
EntryOK(t, i) ==
    LET p == plan[t][i].info
    IN /\ p \in heap
       /\ info[p].hash = HashAt(t, i)
       /\ OwnsPending(t, i) => info[p].refcount = 1 /\ ~Published(p)
       /\ ~OwnsPending(t, i) => Published(p)

EntriesOK == \A t \in Threads, i \in Idx : Holds(t, i) => EntryOK(t, i)

\* Between the look-up of a HIT and its increment the hash stays published.
HitsOK ==
    \A t \in Threads : pc[t] = "w_hit" =>
        plan[t][k[t]].info = hash_to_master[HashAt(t, k[t])]

\* What the tables point at is allocated, and published under its own hash.
TablesOK ==
    /\ \A h \in Hashes : hash_to_master[h] # NULL =>
          hash_to_master[h] \in heap /\ info[hash_to_master[h]].hash = h
    /\ \A x \in Key : file_to_master[x] # NULL =>
          file_to_master[x] \in heap /\ Published(file_to_master[x])
    /\ \A p \in heap : info[p].hash \in Hashes

RefInv == /\ TypeInv /\ LockDiscipline
          /\ ShapeOK /\ LoopsOK /\ EntriesOK /\ HitsOK /\ TablesOK /\ RefcountExact

-----------------------------------------------------------------------------
(* Counting references                                                     *)

\* Whatever blocks and plan entries refer to one MasterInfo, they are finitely
\* many, and a uint32_t counts them.
LEMMA RefsFit ==
    ASSUME RefcountsFit, NEW S \in SUBSET Key, NEW T \in SUBSET (Threads \X Idx)
    PROVE  /\ IsFiniteSet(S) /\ IsFiniteSet(T)
           /\ Cardinality(S) \in Nat /\ Cardinality(T) \in Nat
           /\ Cardinality(S) + Cardinality(T) < RefcountLimit
<1>1. IsFiniteSet(Blocks) /\ IsFiniteSet(Idx)
  BY BoundsAssumption, FS_Interval DEF Blocks, Idx
<1>2. IsFiniteSet(Key)
  BY <1>1, FS_Product DEF RefcountsFit, Key
<1>3. IsFiniteSet(Threads \X Idx)
  BY <1>1, FS_Product DEF RefcountsFit
<1>4. /\ IsFiniteSet(S) /\ Cardinality(S) <= Cardinality(Key)
      /\ IsFiniteSet(T) /\ Cardinality(T) <= Cardinality(Threads \X Idx)
  BY <1>2, <1>3, FS_Subset
<1>5. /\ Cardinality(S) \in Nat /\ Cardinality(T) \in Nat
      /\ Cardinality(Key) \in Nat /\ Cardinality(Threads \X Idx) \in Nat
  BY <1>2, <1>3, <1>4, FS_CardinalityType
<1>6. RefcountLimit \in Nat
  BY BoundsAssumption
<1> QED  BY <1>4, <1>5, <1>6 DEF RefcountsFit

Has(t, i, p) == HoldsRef(t, i) /\ plan[t][i].info = p

\* A step of t changes who holds p by what it does to the entries of t.
LEMMA HeldSame ==
    ASSUME NEW t \in Threads, \A u \in Threads \ {t} : SameFrame(u), NEW p,
           \A i \in Idx : Has(t, i, p)' <=> Has(t, i, p)
    PROVE  HeldRefs(p)' = HeldRefs(p)
<1>1. ASSUME NEW u \in Threads, NEW i \in Idx
      PROVE  Has(u, i, p)' <=> Has(u, i, p)
  BY DEF SameFrame, Has, HoldsRef, IsMiss
<1> QED  BY <1>1 DEF HeldRefs, Has

LEMMA HeldGain ==
    ASSUME NEW t \in Threads, \A u \in Threads \ {t} : SameFrame(u), NEW p,
           NEW j \in Idx, ~Has(t, j, p), Has(t, j, p)',
           \A i \in Idx \ {j} : Has(t, i, p)' <=> Has(t, i, p)
    PROVE  HeldRefs(p)' = HeldRefs(p) \cup {<<t, j>>} /\ <<t, j>> \notin HeldRefs(p)
<1>1. ASSUME NEW u \in Threads, NEW i \in Idx, <<u, i>> # <<t, j>>
      PROVE  Has(u, i, p)' <=> Has(u, i, p)
  BY <1>1 DEF SameFrame, Has, HoldsRef, IsMiss
<1> QED  BY <1>1 DEF HeldRefs, Has

LEMMA HeldLoss ==
    ASSUME NEW t \in Threads, \A u \in Threads \ {t} : SameFrame(u), NEW p,
           NEW j \in Idx, Has(t, j, p), ~Has(t, j, p)',
           \A i \in Idx \ {j} : Has(t, i, p)' <=> Has(t, i, p)
    PROVE  HeldRefs(p)' = HeldRefs(p) \ {<<t, j>>} /\ <<t, j>> \in HeldRefs(p)
<1>1. ASSUME NEW u \in Threads, NEW i \in Idx, <<u, i>> # <<t, j>>
      PROVE  Has(u, i, p)' <=> Has(u, i, p)
  BY <1>1 DEF SameFrame, Has, HoldsRef, IsMiss
<1> QED  BY <1>1 DEF HeldRefs, Has

\* A MasterInfo with one reference is behind one block or one entry, not more.
LEMMA OnlyHolder ==
    ASSUME RefcountsFit, RefcountExact, NEW p \in heap, info[p].refcount = 1,
           NEW t \in Threads, NEW i \in Idx, Has(t, i, p)
    PROVE  /\ MappedRefs(p) = {}
           /\ HeldRefs(p) = {<<t, i>>}
<1>1. MappedRefs(p) \in SUBSET Key /\ HeldRefs(p) \in SUBSET (Threads \X Idx)
  BY DEF MappedRefs, HeldRefs
<1>2. /\ IsFiniteSet(MappedRefs(p)) /\ IsFiniteSet(HeldRefs(p))
      /\ Cardinality(MappedRefs(p)) \in Nat /\ Cardinality(HeldRefs(p)) \in Nat
  BY <1>1, RefsFit
<1>3. <<t, i>> \in HeldRefs(p)
  BY DEF HeldRefs, Has
<1>4. Cardinality(HeldRefs(p)) # 0
  BY <1>2, <1>3, FS_EmptySet
<1>5. Cardinality(MappedRefs(p)) + Cardinality(HeldRefs(p)) = 1
  BY DEF RefcountExact
<1>6. Cardinality(MappedRefs(p)) = 0 /\ Cardinality(HeldRefs(p)) = 1
  BY <1>2, <1>4, <1>5
<1>7. PICK y : HeldRefs(p) = {y}
  BY <1>2, <1>6, FS_Singleton
<1> QED  BY <1>2, <1>3, <1>6, <1>7, FS_EmptySet

LEMMA OnlyMapping ==
    ASSUME RefcountsFit, RefcountExact, NEW p \in heap, info[p].refcount = 1,
           NEW x \in Key, file_to_master[x] = p
    PROVE  /\ HeldRefs(p) = {}
           /\ MappedRefs(p) = {x}
<1>1. MappedRefs(p) \in SUBSET Key /\ HeldRefs(p) \in SUBSET (Threads \X Idx)
  BY DEF MappedRefs, HeldRefs
<1>2. /\ IsFiniteSet(MappedRefs(p)) /\ IsFiniteSet(HeldRefs(p))
      /\ Cardinality(MappedRefs(p)) \in Nat /\ Cardinality(HeldRefs(p)) \in Nat
  BY <1>1, RefsFit
<1>3. x \in MappedRefs(p)
  BY DEF MappedRefs
<1>4. Cardinality(MappedRefs(p)) # 0
  BY <1>2, <1>3, FS_EmptySet
<1>5. Cardinality(MappedRefs(p)) + Cardinality(HeldRefs(p)) = 1
  BY DEF RefcountExact
<1>6. Cardinality(MappedRefs(p)) = 1 /\ Cardinality(HeldRefs(p)) = 0
  BY <1>2, <1>4, <1>5
<1>7. PICK y : MappedRefs(p) = {y}
  BY <1>2, <1>6, FS_Singleton
<1> QED  BY <1>2, <1>3, <1>6, <1>7, FS_EmptySet

-----------------------------------------------------------------------------
(* The shape of a plan                                                     *)

\* Pass 1.5 writes slot numbers, into the plan and into the pending MasterInfos,
\* and nothing else.
LEMMA SlotsOnly ==
    ASSUME TypeInv, NEW t \in Threads, Drain(t) \/ AppendSlots(t)
    PROVE  /\ \A i \in Idx : /\ plan'[t][i].kind = plan[t][i].kind
                             /\ plan'[t][i].info = plan[t][i].info
                             /\ ~IsMiss(t, i) => plan'[t][i] = plan[t][i]
           /\ \A p \in Infos : /\ info'[p].hash = info[p].hash
                               /\ info'[p].refcount = info[p].refcount
<1>a. /\ plan \in [Threads -> [Idx -> PlanEntry]] /\ info \in [Infos -> Info]
  BY DEF TypeInv, TypeOK, WorkType, HeapType
<1>1. CASE Drain(t)
  <2>1. info' = info
    BY <1>1 DEF Drain, heapVars
  <2>2. plan'[t] = [i \in Idx |->
           IF i \in Unassigned(t) /\ Rank(t, i) < Taken(t)
           THEN [plan[t][i] EXCEPT !.master_blk = free_block_list[Rank(t, i) + 1]]
           ELSE plan[t][i]]
    BY <1>1, <1>a DEF Drain
  <2>3. ASSUME NEW i \in Idx
        PROVE  /\ plan'[t][i].kind = plan[t][i].kind
               /\ plan'[t][i].info = plan[t][i].info
               /\ ~IsMiss(t, i) => plan'[t][i] = plan[t][i]
    BY <1>a, <2>2 DEF PlanEntry, Unassigned
  <2> QED  BY <2>1, <2>3
<1>2. CASE AppendSlots(t)
  <2> DEFINE SlotFor(i) == IF i \in Unassigned(t) THEN nextBlockIndex + Rank(t, i)
                           ELSE plan[t][i].master_blk
             MissOf(p) == {i \in Idx : IsMiss(t, i) /\ plan[t][i].info = p}
  <2>1. plan'[t] = [i \in Idx |-> [plan[t][i] EXCEPT !.master_blk = SlotFor(i)]]
    BY <1>2, <1>a DEF AppendSlots
  <2>2. info' = [p \in Infos |->
                    IF MissOf(p) = {} THEN info[p]
                    ELSE [info[p] EXCEPT !.masterBlockIndex =
                              SlotFor(CHOOSE i \in MissOf(p) : TRUE)]]
    BY <1>2 DEF AppendSlots
  <2>3. \A i \in Idx : ~IsMiss(t, i) => SlotFor(i) = plan[t][i].master_blk
    BY DEF Unassigned
  <2> HIDE DEF SlotFor, MissOf
  <2>4. ASSUME NEW i \in Idx
        PROVE  /\ plan'[t][i].kind = plan[t][i].kind
               /\ plan'[t][i].info = plan[t][i].info
               /\ ~IsMiss(t, i) => plan'[t][i] = plan[t][i]
    <3>1. plan[t][i] \in PlanEntry /\ plan'[t][i] = [plan[t][i] EXCEPT !.master_blk = SlotFor(i)]
      BY <1>a, <2>1
    <3>2. plan'[t][i].kind = plan[t][i].kind /\ plan'[t][i].info = plan[t][i].info
      BY <3>1 DEF PlanEntry
    <3>3. ~IsMiss(t, i) => plan'[t][i] = plan[t][i]
      BY <3>1, <2>3 DEF PlanEntry
    <3> QED  BY <3>2, <3>3
  <2>5. ASSUME NEW p \in Infos
        PROVE  info'[p].hash = info[p].hash /\ info'[p].refcount = info[p].refcount
    BY <1>a, <2>2 DEF Info
  <2> QED  BY <2>4, <2>5
<1> QED  BY <1>1, <1>2

EntryShape(t, i) == IF i < PlanEnd(t) THEN Planned(t, i) ELSE plan[t][i] = NoEntry

LEMMA ShapeStep ==
    ASSUME TypeInv, ShapeOK, NEW t \in Threads, Dispatch(t) \/ Step(t)
    PROVE  ShapeOK'
<1>0. SUFFICES ASSUME NEW i \in Idx PROVE EntryShape(t, i)'
  <2>1. ASSUME NEW u \in Threads, NEW i \in Idx, u # t PROVE EntryShape(u, i)'
    <3>1. SameFrame(u) /\ EntryShape(u, i)
      BY <2>1, OthersUnchanged DEF TypeInv, ShapeOK, EntryShape
    <3> QED  BY <3>1 DEF SameFrame, EntryShape, PlanEnd, Planned, N, PlannedPCs, WritePCs
  <2> QED  BY <2>1 DEF ShapeOK, EntryShape
<1>a. /\ pc \in [Threads -> PCs] /\ plan \in [Threads -> [Idx -> PlanEntry]]
      /\ k \in [Threads -> 0 .. MaxBlocks] /\ i \in Nat /\ MaxBlocks \in Nat
  BY BoundsAssumption DEF TypeInv, TypeOK, ControlType, WorkType, Idx
<1>b. pc[t] \in WritePCs => N(t) \in Nat /\ k[t] <= N(t)
  BY RequestFacts, BoundsAssumption DEF TypeInv, FramesOK, FrameOK, WritePCs, N
<1>c. EntryShape(t, i)
  BY DEF ShapeOK, EntryShape
<1> USE <1>a, <1>b, <1>c
        DEF EntryShape, PlanEnd, Planned, N, PlannedPCs, WritePCs, Goto, SetK, NextIter,
            frameVars
<1>1. CASE Dispatch(t)
  BY <1>1, EntryRange DEF Dispatch
<1>2. CASE PlanLock(t)
  BY <1>2 DEF PlanLock, TypeInv, FramesOK, FrameOK
<1>3. CASE PlanHit(t)
  <2>1. k[t] \in Idx /\ k[t] \in Nat /\ k[t] < N(t)
    BY <1>3, IterFacts DEF PlanHit, Idx
  <2>2. IF i = k[t] THEN plan'[t][i].kind = "HIT" ELSE plan'[t][i] = plan[t][i]
    BY <1>3, <2>1 DEF PlanHit
  <2>3. pc[t] = "w_plan" /\ pc'[t] = "w_hit" /\ k' = k
    BY <1>3 DEF PlanHit
  <2>4. PlanEnd(t) = k[t] /\ PlanEnd(t)' = k[t] + 1
    BY <2>3
  <2>5. plan[t][i].kind # "NONE" => i < k[t]
    BY <2>4 DEF NoEntry
  <2> HIDE DEF PlanEnd, N, PlannedPCs, WritePCs
  <2> QED  BY <2>1, <2>2, <2>4, <2>5 DEF NoEntry
<1>4. CASE CountHit(t)
  BY <1>4 DEF CountHit
<1>5. CASE PlanMiss(t)
  <2>1. k[t] \in Idx /\ k[t] \in Nat /\ k[t] < N(t) /\ k[t] + 1 \in 0 .. MaxBlocks
    BY <1>5, IterFacts DEF PlanMiss, Idx
  <2>2. IF i = k[t] THEN plan'[t][i].kind = "MISS" ELSE plan'[t][i] = plan[t][i]
    BY <1>5, <2>1 DEF PlanMiss
  <2>3. pc[t] = "w_plan" /\ pc'[t] = "w_plan" /\ k'[t] = k[t] + 1
    BY <1>5 DEF PlanMiss
  <2>4. PlanEnd(t) = k[t] /\ PlanEnd(t)' = k[t] + 1
    BY <2>3
  <2>5. plan[t][i].kind # "NONE" => i < k[t]
    BY <2>4 DEF NoEntry
  <2> HIDE DEF PlanEnd, N, PlannedPCs, WritePCs
  <2> QED  BY <2>1, <2>2, <2>4, <2>5 DEF NoEntry
<1>6. CASE PlanUnlock(t)
  BY <1>6 DEF PlanUnlock
<1>7. CASE Drain(t)
  <2>1. plan'[t][i].kind = plan[t][i].kind /\ (~IsMiss(t, i) => plan'[t][i] = plan[t][i])
    BY <1>7, SlotsOnly
  <2> QED  BY <1>7, <2>1 DEF Drain, NoEntry, IsMiss
<1>8. CASE AppendSlots(t)
  <2>1. plan'[t][i].kind = plan[t][i].kind /\ (~IsMiss(t, i) => plan'[t][i] = plan[t][i])
    BY <1>8, SlotsOnly
  <2> QED  BY <1>8, <2>1 DEF AppendSlots, NoEntry, IsMiss
<1>9. CASE FlushRun(t) \/ FlushFail(t) \/ FlushDone(t) \/ WriteLock(t)
  BY <1>9 DEF FlushRun, FlushRunAt, FlushFail, FlushFailAt, FlushDone, WriteLock
<1>10. CASE PublishSkip(t) \/ PublishOurs(t) \/ PublishDone(t) \/ MapBlock(t) \/ Commit(t)
  BY <1>10 DEF PublishSkip, PublishOurs, PublishDone, MapBlock, Commit
<1>11. CASE UseWinner(t)
  BY <1>11 DEF UseWinner, IsMiss
<1>12. CASE RbHit(t) \/ RbUnlock(t) \/ RbMutex(t) \/ RbMiss(t) \/ ReleaseAndGo(t)
  BY <1>12 DEF RbHit, RbUnlock, RbMutex, RbMiss, ReleaseAndGo
<1>13. CASE ReleaseAfterWrite(t) \/ RbDone(t)
  BY <1>13 DEF ReleaseAfterWrite, RbDone, Return, NoPlan
<1>14. CASE UnlinkReadSize(t) \/ TruncateReadSize(t) \/ RemoveBlock(t) \/ RemoveUnlock(t)
  BY <1>14 DEF UnlinkReadSize, TruncateReadSize, BeginRemoval, RemoveBlock, RemoveUnlock,
       Return, NoPlan
<1>15. CASE UnlinkDropSize(t) \/ UnlinkBackend(t) \/ TruncateSetSize(t) \/ Create(t)
  BY <1>15 DEF UnlinkDropSize, UnlinkBackend, TruncateSetSize, Create, Return, NoPlan
<1>16. CASE ReadLookup(t) \/ ReadBlock(t) \/ ReadReturn(t)
  BY <1>16 DEF ReadLookup, ReadBlock, ReadReturn, Return, NoPlan
<1> QED
  BY <1>1, <1>2, <1>3, <1>4, <1>5, <1>6, <1>7, <1>8, <1>9, <1>10, <1>11, <1>12, <1>13,
     <1>14, <1>15, <1>16 DEF Step

LEMMA LoopsStep ==
    ASSUME TypeInv, LoopsOK, NEW t \in Threads, Dispatch(t) \/ Step(t)
    PROVE  LoopsOK'
<1> DEFINE Start(u) ==
        pc[u] \in {"w_drain", "w_append", "w_wrlock", "rb_wrlock", "rb_release", "rb_mutex"} =>
            k[u] = 0
<1>1. ASSUME NEW u \in Threads, u # t PROVE Start(u)'
  <2>1. SameFrame(u) /\ Start(u)
    BY <1>1, OthersUnchanged DEF TypeInv, LoopsOK
  <2> QED  BY <2>1 DEF SameFrame
<1>a. /\ pc \in [Threads -> PCs] /\ k \in [Threads -> 0 .. MaxBlocks] /\ Start(t)
  BY DEF TypeInv, TypeOK, ControlType, LoopsOK
<1>2. Start(t)'
  <2> USE <1>a DEF Goto, SetK, NextIter, frameVars
  <2>1. CASE Dispatch(t)
    BY <2>1, EntryRange DEF Dispatch
  <2>2. CASE PlanLock(t) \/ PlanHit(t) \/ CountHit(t) \/ PlanMiss(t) \/ PlanUnlock(t)
    BY <2>2 DEF PlanLock, PlanHit, CountHit, PlanMiss, PlanUnlock
  <2>3. CASE Drain(t) \/ AppendSlots(t) \/ FlushRun(t) \/ FlushFail(t) \/ FlushDone(t)
    BY SMTT(30), <2>3 DEF Drain, AppendSlots, FlushRun, FlushRunAt, FlushFail, FlushFailAt, FlushDone
  <2>4. CASE WriteLock(t) \/ PublishSkip(t) \/ PublishOurs(t) \/ UseWinner(t) \/ PublishDone(t)
    BY <2>4 DEF WriteLock, PublishSkip, PublishOurs, UseWinner, PublishDone
  <2>5. CASE MapBlock(t) \/ Commit(t) \/ ReleaseAfterWrite(t) \/ ReleaseAndGo(t)
    BY <2>5 DEF MapBlock, Commit, ReleaseAfterWrite, ReleaseAndGo, Return
  <2>6. CASE RbHit(t) \/ RbUnlock(t) \/ RbMutex(t) \/ RbMiss(t) \/ RbDone(t)
    BY <2>6 DEF RbHit, RbUnlock, RbMutex, RbMiss, RbDone, Return
  <2>7. CASE UnlinkReadSize(t) \/ TruncateReadSize(t) \/ RemoveBlock(t) \/ RemoveUnlock(t)
    BY <2>7 DEF UnlinkReadSize, TruncateReadSize, BeginRemoval, RemoveBlock, RemoveUnlock, Return
  <2>8. CASE UnlinkDropSize(t) \/ UnlinkBackend(t) \/ TruncateSetSize(t) \/ Create(t)
    BY <2>8 DEF UnlinkDropSize, UnlinkBackend, TruncateSetSize, Create, Return
  <2>9. CASE ReadLookup(t) \/ ReadBlock(t) \/ ReadReturn(t)
    BY <2>9 DEF ReadLookup, ReadBlock, ReadReturn, Return
  <2> QED
    BY <2>1, <2>2, <2>3, <2>4, <2>5, <2>6, <2>7, <2>8, <2>9 DEF Step
<1> QED  BY <1>1, <1>2 DEF LoopsOK

-----------------------------------------------------------------------------
(* Quiet steps: no reference is taken, handed on or dropped                *)

SameIndex ==
    /\ UNCHANGED <<hash_to_master, file_to_master, heap>>
    /\ \A p \in Infos : info'[p].hash = info[p].hash /\ info'[p].refcount = info[p].refcount

KeepsEntry(t, i) ==
    /\ Holds(t, i)' <=> Holds(t, i)
    /\ Holds(t, i) => /\ plan'[t][i].info = plan[t][i].info
                      /\ OwnsPending(t, i)' <=> OwnsPending(t, i)
                      /\ HashAt(t, i)' = HashAt(t, i)

LEMMA HasIffHolds ==
    ASSUME ShapeOK, NEW t \in Threads, NEW i \in Idx, NEW p \in Infos
    PROVE  Has(t, i, p) <=> Holds(t, i) /\ plan[t][i].info = p
  BY NullAssumption DEF ShapeOK, Has, Holds, Planned, NoEntry

LEMMA QuietStep ==
    ASSUME TypeInv, EntriesOK, TablesOK, RefcountExact, ShapeOK, ShapeOK',
           NEW t \in Threads, \A u \in Threads \ {t} : SameFrame(u),
           SameIndex, \A i \in Idx : KeepsEntry(t, i)
    PROVE  EntriesOK' /\ TablesOK' /\ RefcountExact'
<1>a. /\ heap \subseteq Infos /\ hash_to_master \in [Hashes -> Infos \cup {NULL}]
      /\ file_to_master \in [Key -> Infos \cup {NULL}]
  BY DEF TypeInv, TypeOK, HeapType, IndexType
<1>1. \A p \in Infos : Published(p)' <=> Published(p)
  BY DEF SameIndex, Published
<1>2. ASSUME NEW u \in Threads, NEW i \in Idx
      PROVE  KeepsEntry(u, i)
  <2>1. CASE u = t
    BY <2>1
  <2>2. CASE u # t
    BY <2>2 DEF SameFrame, KeepsEntry, Holds, HoldsRef, OwnsPending, IsMiss, Planned,
         HashAt, Payload
  <2> QED  BY <2>1, <2>2
<1>3. EntriesOK'
  BY <1>a, <1>1, <1>2 DEF EntriesOK, EntryOK, KeepsEntry, SameIndex
<1>4. TablesOK'
  BY <1>a, <1>1 DEF TablesOK, SameIndex
<1>5. ASSUME NEW p \in heap
      PROVE  HeldRefs(p)' = HeldRefs(p)
  <2>1. \A i \in Idx : Has(t, i, p)' <=> Holds(t, i)' /\ plan'[t][i].info = p
    BY <1>a, NullAssumption DEF ShapeOK, Has, Holds, Planned, NoEntry
  <2>2. \A i \in Idx : Has(t, i, p) <=> Holds(t, i) /\ plan[t][i].info = p
    BY <1>a, HasIffHolds
  <2>3. \A i \in Idx : Has(t, i, p)' <=> Has(t, i, p)
    BY <2>1, <2>2 DEF KeepsEntry
  <2> QED  BY <2>3, HeldSame
<1>6. RefcountExact'
  BY <1>a, <1>5 DEF RefcountExact, SameIndex, MappedRefs
<1> QED  BY <1>3, <1>4, <1>6

QuietWrite(t) ==
    \/ PlanLock(t) \/ PlanHit(t) \/ PlanUnlock(t) \/ Drain(t) \/ AppendSlots(t)
    \/ FlushRun(t) \/ FlushFail(t) \/ FlushDone(t) \/ WriteLock(t) \/ PublishSkip(t)
    \/ PublishDone(t) \/ Commit(t) \/ ReleaseAfterWrite(t) \/ ReleaseAndGo(t)
    \/ RbUnlock(t) \/ RbMutex(t) \/ RbDone(t)

QuietOther(t) ==
    \/ UnlinkReadSize(t) \/ TruncateReadSize(t) \/ RemoveUnlock(t)
    \/ UnlinkDropSize(t) \/ UnlinkBackend(t) \/ TruncateSetSize(t) \/ Create(t)
    \/ ReadLookup(t) \/ ReadBlock(t) \/ ReadReturn(t)

LEMMA QuietIndex ==
    ASSUME TypeInv, NEW t \in Threads, Dispatch(t) \/ QuietWrite(t) \/ QuietOther(t)
    PROVE  SameIndex
<1> USE DEF SameIndex, dataVars, indexVars, heapVars
<1>1. CASE Dispatch(t)
  BY SMTT(30), <1>1 DEF Dispatch
<1>2. CASE PlanLock(t) \/ PlanHit(t) \/ PlanUnlock(t)
  BY SMTT(30), <1>2 DEF PlanLock, PlanHit, PlanUnlock
<1>3. CASE Drain(t) \/ AppendSlots(t)
  BY <1>3, SlotsOnly DEF Drain, AppendSlots
<1>4. CASE FlushRun(t) \/ FlushFail(t) \/ FlushDone(t) \/ WriteLock(t)
  BY <1>4 DEF FlushRun, FlushRunAt, FlushFail, FlushFailAt, FlushDone, WriteLock
<1>5. CASE PublishSkip(t) \/ PublishDone(t) \/ Commit(t)
  BY <1>5 DEF PublishSkip, PublishDone, Commit
<1>6. CASE ReleaseAfterWrite(t) \/ ReleaseAndGo(t) \/ RbUnlock(t) \/ RbMutex(t) \/ RbDone(t)
  BY <1>6 DEF ReleaseAfterWrite, ReleaseAndGo, RbUnlock, RbMutex, RbDone
<1>7. CASE UnlinkReadSize(t) \/ TruncateReadSize(t) \/ RemoveUnlock(t) \/ UnlinkDropSize(t)
  BY <1>7 DEF UnlinkReadSize, TruncateReadSize, RemoveUnlock, UnlinkDropSize
<1>8. CASE UnlinkBackend(t) \/ TruncateSetSize(t) \/ Create(t)
  BY <1>8 DEF UnlinkBackend, TruncateSetSize, Create
<1>9. CASE ReadLookup(t) \/ ReadBlock(t) \/ ReadReturn(t)
  BY <1>9 DEF ReadLookup, ReadBlock, ReadReturn
<1> QED
  BY <1>1, <1>2, <1>3, <1>4, <1>5, <1>6, <1>7, <1>8, <1>9 DEF QuietWrite, QuietOther

LEMMA QuietEntries ==
    ASSUME TypeInv, ShapeOK, ShapeOK', LoopsOK, NEW t \in Threads,
           Dispatch(t) \/ QuietWrite(t) \/ QuietOther(t), NEW i \in Idx
    PROVE  KeepsEntry(t, i)
<1>a. /\ pc \in [Threads -> PCs] /\ plan \in [Threads -> [Idx -> PlanEntry]]
      /\ k \in [Threads -> 0 .. MaxBlocks] /\ i \in Nat /\ MaxBlocks \in Nat
      /\ req \in [Threads -> Requests \cup {NULL}]
  BY BoundsAssumption DEF TypeInv, TypeOK, ControlType, WorkType, Idx
<1>b. pc[t] \in WritePCs => N(t) \in Nat /\ k[t] <= N(t)
  BY RequestFacts, BoundsAssumption DEF TypeInv, FramesOK, FrameOK, WritePCs, N
<1>c. EntryShape(t, i) /\ EntryShape(t, i)'
  BY DEF ShapeOK, EntryShape
<1>d. pc[t] \in {"w_drain", "w_append", "w_wrlock", "rb_wrlock", "rb_release", "rb_mutex"} =>
          k[t] = 0
  BY DEF LoopsOK
<1> USE <1>a DEF KeepsEntry, Holds, HoldsRef, OwnsPending, IsMiss, Planned, HashAt, Payload,
            Goto, SetK, NextIter, frameVars, Return, NoPlan, NoEntry
<1>1. CASE Dispatch(t)
  BY <1>1, EntryRange DEF Dispatch
<1>2. CASE PlanLock(t)
  BY <1>2, <1>c DEF PlanLock, EntryShape, PlanEnd, PlannedPCs, WritePCs
<1>3. CASE PlanHit(t)
  <2>1. k[t] \in Idx
    BY <1>3, IterFacts DEF PlanHit, WritePCs
  <2>2. i # k[t] => plan'[t][i] = plan[t][i]
    BY <1>3, <2>1 DEF PlanHit
  <2>0. pc[t] = "w_plan"
    BY <1>3 DEF PlanHit
  <2>3. PlanEnd(t) = k[t]
    BY <2>0 DEF PlanEnd, PlannedPCs, WritePCs
  <2>4. i = k[t] => plan[t][i] = NoEntry
    BY <1>c, <2>3 DEF EntryShape
  <2> QED  BY <1>3, <2>2, <2>4 DEF PlanHit
<1>4. CASE PlanUnlock(t)
  BY <1>4 DEF PlanUnlock
<1>5. CASE Drain(t) \/ AppendSlots(t)
  <2>1. plan'[t][i].kind = plan[t][i].kind /\ plan'[t][i].info = plan[t][i].info
    BY <1>5, SlotsOnly
  <2>2. pc[t] \in {"w_drain", "w_append"} /\ pc'[t] \in {"w_append", "w_flush"} /\ req' = req
    BY <1>5 DEF Drain, AppendSlots
  <2> QED  BY <2>1, <2>2
<1>6. CASE FlushRun(t) \/ FlushFail(t) \/ FlushDone(t)
  BY <1>6 DEF FlushRun, FlushRunAt, FlushFail, FlushFailAt, FlushDone
<1>7. CASE WriteLock(t)
  BY <1>7, <1>d DEF WriteLock
<1>8. CASE PublishSkip(t)
  <2>1. /\ pc[t] = "w_publish" /\ pc' = pc /\ plan' = plan /\ req' = req
        /\ k'[t] = k[t] + 1 /\ ~IsMiss(t, k[t])
    BY <1>8 DEF PublishSkip
  <2> QED  BY <2>1, <1>b DEF WritePCs
<1>9. CASE PublishDone(t)
  BY <1>9, <1>b, <1>c DEF PublishDone, EntryShape, PlanEnd, PlannedPCs, WritePCs
<1>10. CASE Commit(t)
  BY <1>10, <1>b, <1>c DEF Commit, EntryShape, PlanEnd, PlannedPCs, WritePCs
<1>11. CASE ReleaseAfterWrite(t) \/ ReleaseAndGo(t)
  BY <1>11, <1>d DEF ReleaseAfterWrite, ReleaseAndGo
<1>12. CASE RbUnlock(t)
  BY <1>12, <1>b, <1>c DEF RbUnlock, EntryShape, PlanEnd, PlannedPCs, WritePCs
<1>13. CASE RbMutex(t)
  BY <1>13, <1>d DEF RbMutex
<1>14. CASE RbDone(t)
  BY <1>14, <1>b, <1>c DEF RbDone, EntryShape, PlanEnd, PlannedPCs, WritePCs
<1>15. CASE UnlinkReadSize(t) \/ TruncateReadSize(t) \/ RemoveUnlock(t) \/ UnlinkDropSize(t)
  BY <1>15 DEF UnlinkReadSize, TruncateReadSize, BeginRemoval, RemoveUnlock, UnlinkDropSize
<1>16. CASE UnlinkBackend(t) \/ TruncateSetSize(t) \/ Create(t)
  BY <1>16 DEF UnlinkBackend, TruncateSetSize, Create
<1>17. CASE ReadLookup(t) \/ ReadBlock(t) \/ ReadReturn(t)
  BY <1>17 DEF ReadLookup, ReadBlock, ReadReturn
<1> HIDE DEF KeepsEntry
<1> QED
  BY <1>1, <1>2, <1>3, <1>4, <1>5, <1>6, <1>7, <1>8, <1>9, <1>10, <1>11, <1>12, <1>13,
     <1>14, <1>15, <1>16, <1>17 DEF QuietWrite, QuietOther

-----------------------------------------------------------------------------
(* Taking and dropping one reference                                       *)

LEMMA SameFrameKeeps ==
    ASSUME NEW u, SameFrame(u), NEW i
    PROVE  KeepsEntry(u, i) /\ plan'[u][i] = plan[u][i]
  BY DEF SameFrame, KeepsEntry, Holds, HoldsRef, OwnsPending, IsMiss, Planned, HashAt,
     Payload

LEMMA HeapFacts ==
    ASSUME TypeInv
    PROVE  /\ heap \subseteq Infos /\ NULL \notin heap
           /\ hash_to_master \in [Hashes -> Infos \cup {NULL}]
           /\ file_to_master \in [Key -> Infos \cup {NULL}]
           /\ info \in [Infos -> Info]
           /\ \A p \in Infos : info[p].refcount \in Nat
  BY NullAssumption, BoundsAssumption DEF TypeInv, TypeOK, HeapType, IndexType, Info

LEMMA RefSets ==
    ASSUME RefcountsFit, NEW p
    PROVE  /\ IsFiniteSet(MappedRefs(p)) /\ Cardinality(MappedRefs(p)) \in Nat
           /\ IsFiniteSet(HeldRefs(p)) /\ Cardinality(HeldRefs(p)) \in Nat
<1>1. MappedRefs(p) \in SUBSET Key /\ HeldRefs(p) \in SUBSET (Threads \X Idx)
  BY DEF MappedRefs, HeldRefs
<1> QED  BY <1>1, RefsFit

\* The increment of a HIT or of the double check does not wrap.
LEMMA IncExact ==
    ASSUME RefcountsFit, TypeInv, RefcountExact, NEW p \in heap,
           NEW y \in Threads \X Idx, y \notin HeldRefs(p)
    PROVE  IncRef(p) = Cardinality(MappedRefs(p)) + Cardinality(HeldRefs(p) \cup {y})
<1>1. /\ MappedRefs(p) \in SUBSET Key
      /\ HeldRefs(p) \cup {y} \in SUBSET (Threads \X Idx)
  BY DEF MappedRefs, HeldRefs
<1>2. Cardinality(MappedRefs(p)) + Cardinality(HeldRefs(p) \cup {y}) < RefcountLimit
  BY <1>1, RefsFit
<1>3. Cardinality(HeldRefs(p) \cup {y}) = Cardinality(HeldRefs(p)) + 1
  BY RefSets, FS_AddElement
<1>4. info[p].refcount = Cardinality(MappedRefs(p)) + Cardinality(HeldRefs(p))
  BY DEF RefcountExact
<1> QED  BY <1>2, <1>3, <1>4, RefSets, BoundsAssumption DEF IncRef

\* A MasterInfo that somebody refers to counts at least that reference.
LEMMA DecExact ==
    ASSUME RefcountsFit, TypeInv, RefcountExact, NEW p \in heap,
           MappedRefs(p) # {} \/ HeldRefs(p) # {}
    PROVE  /\ DecRef(p) = Cardinality(MappedRefs(p)) + Cardinality(HeldRefs(p)) - 1
           /\ info[p].refcount = Cardinality(MappedRefs(p)) + Cardinality(HeldRefs(p))
<1>1. Cardinality(MappedRefs(p)) # 0 \/ Cardinality(HeldRefs(p)) # 0
  BY RefSets, FS_EmptySet
<1>2. info[p].refcount = Cardinality(MappedRefs(p)) + Cardinality(HeldRefs(p))
  BY DEF RefcountExact
<1> QED  BY <1>1, <1>2, RefSets DEF DecRef

PublishedAfter(q) == hash_to_master'[info'[q].hash] = q

\* Dropping a reference to a published MasterInfo: only its own hash can leave the
\* table, and only with the last reference.
LEMMA PublishedDrop ==
    ASSUME TypeInv, TablesOK, NEW t, NEW p \in heap, Published(p), DropRef(t, p)
    PROVE  /\ \A q \in Infos \ {p} : info'[q] = info[q] /\ (PublishedAfter(q) <=> Published(q))
           /\ info'[p].hash = info[p].hash /\ info'[p].refcount = DecRef(p)
           /\ ~IsLastRef(p) => heap' = heap /\ hash_to_master' = hash_to_master
           /\ IsLastRef(p) => heap' = heap \ {p}
           /\ \A h \in Hashes : hash_to_master'[h] # NULL =>
                  hash_to_master'[h] = hash_to_master[h] /\ hash_to_master[h] \in heap'
<1>a. info[p].hash \in Hashes /\ p \in Infos
  BY HeapFacts DEF TablesOK
<1>1. info' = [info EXCEPT ![p].refcount = DecRef(p)]
  BY DEF DropRef
<1>2. /\ \A q \in Infos \ {p} : info'[q] = info[q]
      /\ info'[p].hash = info[p].hash /\ info'[p].refcount = DecRef(p)
  BY <1>1, <1>a, HeapFacts DEF Info
<1>3. CASE ~IsLastRef(p)
  <2>1. heap' = heap /\ hash_to_master' = hash_to_master
    BY <1>3 DEF DropRef
  <2> QED  BY <1>2, <1>3, <2>1 DEF Published, PublishedAfter, TablesOK
<1>4. CASE IsLastRef(p)
  <2>1. /\ heap' = heap \ {p}
        /\ hash_to_master' = [hash_to_master EXCEPT ![info[p].hash] = NULL]
    BY <1>4 DEF DropRef
  <2>2. ASSUME NEW q \in Infos \ {p} PROVE PublishedAfter(q) <=> Published(q)
    BY <1>a, <1>2, <2>1, HeapFacts, NullAssumption DEF Published, PublishedAfter
  <2>3. ASSUME NEW h \in Hashes, hash_to_master'[h] # NULL
        PROVE  hash_to_master'[h] = hash_to_master[h] /\ hash_to_master[h] \in heap'
    <3>1. h # info[p].hash /\ hash_to_master'[h] = hash_to_master[h]
      BY <1>a, <2>1, <2>3, HeapFacts
    <3>2. hash_to_master[h] \in heap /\ info[hash_to_master[h]].hash = h
      BY <2>3, <3>1 DEF TablesOK
    <3> QED  BY <2>1, <3>1, <3>2
  <2> QED  BY <1>2, <1>4, <2>1, <2>2, <2>3
<1> QED  BY <1>3, <1>4

\* The same for a step of a handler, when those who go on referring to a freed
\* MasterInfo are excluded.
LEMMA DropStep ==
    ASSUME TypeInv, EntriesOK, TablesOK, NEW t \in Threads,
           \A u \in Threads \ {t} : SameFrame(u),
           NEW p \in heap, Published(p), DropRef(t, p),
           \A i \in Idx : Holds(t, i)' => KeepsEntry(t, i),
           \A x \in Key : LET q == file_to_master'[x]
                          IN q # NULL => q \in heap /\ Published(q),
           IsLastRef(p) =>
               /\ \A u \in Threads, i \in Idx : Holds(u, i)' => plan[u][i].info # p
               /\ \A x \in Key : file_to_master'[x] # p
    PROVE  EntriesOK' /\ TablesOK'
<1>a. \A q \in heap : q \in Infos /\ q # NULL
  BY HeapFacts
<1>1. ASSUME NEW u \in Threads, NEW i \in Idx, Holds(u, i)' PROVE EntryOK(u, i)'
  <2> DEFINE q == plan[u][i].info
  <2>1. KeepsEntry(u, i)
    BY <1>1, SameFrameKeeps
  <2>2. EntryOK(u, i) /\ plan'[u][i].info = q
    BY <1>1, <2>1 DEF KeepsEntry, EntriesOK
  <2>3. q \in heap' /\ q \in Infos
    BY <1>1, <1>a, <2>2, PublishedDrop DEF EntryOK
  <2>4. info'[q].hash = info[q].hash
    BY <2>3, PublishedDrop
  <2>5. CASE q = p
    <3>1. ~OwnsPending(u, i) /\ ~IsLastRef(p)
      BY <1>1, <2>2, <2>5 DEF EntryOK
    <3>2. PublishedAfter(q)
      BY <2>2, <2>4, <2>5, <3>1, PublishedDrop DEF Published, PublishedAfter, EntryOK
    <3> QED  BY <1>1, <2>1, <2>2, <2>3, <2>4, <3>1, <3>2 DEF KeepsEntry, EntryOK, Published, PublishedAfter
  <2>6. CASE q # p
    <3>1. info'[q] = info[q] /\ (PublishedAfter(q) <=> Published(q))
      BY <2>3, <2>6, PublishedDrop
    <3> QED  BY <1>1, <2>1, <2>2, <2>3, <3>1 DEF KeepsEntry, EntryOK, Published, PublishedAfter
  <2> QED  BY <2>5, <2>6
<1>2. ASSUME NEW h \in Hashes, hash_to_master'[h] # NULL
      PROVE  hash_to_master'[h] \in heap' /\ info'[hash_to_master'[h]].hash = h
  <2>1. hash_to_master'[h] = hash_to_master[h] /\ hash_to_master[h] \in heap'
    BY <1>2, PublishedDrop
  <2>2. hash_to_master[h] \in heap /\ info[hash_to_master[h]].hash = h
    BY <1>2, <2>1 DEF TablesOK
  <2>3. \A q \in Infos : info'[q].hash = info[q].hash
    BY PublishedDrop
  <2> QED  BY <1>a, <2>1, <2>2, <2>3
<1>3. ASSUME NEW x \in Key, file_to_master'[x] # NULL
      PROVE  file_to_master'[x] \in heap' /\ PublishedAfter(file_to_master'[x])
  <2> DEFINE q == file_to_master'[x]
  <2>1. q \in heap /\ Published(q) /\ (IsLastRef(p) => q # p)
    BY <1>3
  <2>2. q \in heap' /\ q \in Infos
    BY <2>1, <1>a, PublishedDrop
  <2>3. PublishedAfter(q)
    <3>1. CASE q = p
      BY <2>1, <3>1, PublishedDrop DEF Published, PublishedAfter
    <3>2. CASE q # p
      BY <2>1, <2>2, <3>2, PublishedDrop
    <3> QED  BY <3>1, <3>2
  <2> QED  BY <2>2, <2>3
<1>4. \A q \in heap' : info'[q].hash \in Hashes
  <2>1. \A q \in Infos : info'[q].hash = info[q].hash
    BY PublishedDrop
  <2>2. heap' \subseteq heap
    BY DEF DropRef
  <2> QED  BY <1>a, <2>1, <2>2 DEF TablesOK
<1> QED  BY <1>1, <1>2, <1>3, <1>4 DEF EntriesOK, TablesOK, Published, PublishedAfter

-----------------------------------------------------------------------------
(* The steps that move references                                          *)

Accounts == EntriesOK /\ TablesOK /\ RefcountExact

LEMMA CountHitAccounts ==
    ASSUME RefInv, RefcountsFit, NEW t \in Threads, \A u \in Threads \ {t} : SameFrame(u),
           CountHit(t)
    PROVE  Accounts'
<1>j. PICK j : j = k[t]
  OBVIOUS
<1>p. PICK p : p = plan[t][j].info
  OBVIOUS
<1>0. /\ pc[t] = "w_hit" /\ pc'[t] = "w_plan" /\ k'[t] = j + 1 /\ plan' = plan /\ req' = req
      /\ info' = [info EXCEPT ![p].refcount = IncRef(p)]
      /\ hash_to_master' = hash_to_master /\ file_to_master' = file_to_master /\ heap' = heap
  BY <1>j, <1>p DEF CountHit, SetK, Goto, indexVars, frameVars, RefInv, TypeInv, TypeOK,
     ControlType
<1>1. j \in Idx /\ IsHit(t, j) /\ p \in Infos /\ HashAt(t, j) \in Hashes
  <2>1. j < N(t) /\ plan[t][j].kind = "HIT"
    BY <1>0, <1>j DEF RefInv, TypeInv, FramesOK, FrameOK
  <2>2. j \in Idx /\ HashAt(t, j) \in Hashes
    BY <1>0, <1>j, <2>1, IterFacts DEF RefInv, WritePCs
  <2> QED  BY <1>p, <2>1, <2>2, PlanFacts DEF RefInv, IsHit
<1>2. p \in heap /\ info[p].hash = HashAt(t, j) /\ Published(p)
  <2>1. p = hash_to_master[HashAt(t, j)] /\ p # NULL
    BY <1>0, <1>1, <1>j, <1>p, NullAssumption DEF RefInv, HitsOK
  <2> QED  BY <1>1, <2>1 DEF RefInv, TablesOK, Published
<1>3. ASSUME NEW i \in Idx PROVE /\ HoldsRef(t, i) <=> i # j
                                 /\ HoldsRef(t, i)'
  BY <1>0, <1>j DEF HoldsRef
<1>4. HeldRefs(p)' = HeldRefs(p) \cup {<<t, j>>} /\ <<t, j>> \notin HeldRefs(p)
  <2>1. ~Has(t, j, p) /\ Has(t, j, p)'
    BY <1>0, <1>1, <1>3, <1>p DEF Has
  <2>2. \A i \in Idx \ {j} : Has(t, i, p)' <=> Has(t, i, p)
    BY <1>0, <1>3 DEF Has
  <2> QED  BY <1>1, <2>1, <2>2, HeldGain
<1>5. ASSUME NEW q \in heap, q # p PROVE HeldRefs(q)' = HeldRefs(q)
  <2>1. \A i \in Idx : Has(t, i, q)' <=> Has(t, i, q)
    BY <1>0, <1>3, <1>5, <1>p DEF Has
  <2> QED  BY <2>1, HeldSame
<1>6. /\ \A q \in Infos : info'[q].hash = info[q].hash
      /\ \A q \in Infos \ {p} : info'[q] = info[q]
      /\ info'[p].refcount = IncRef(p)
  BY <1>0, <1>1, HeapFacts DEF RefInv, Info
<1>7. RefcountExact'
  <2>1. IncRef(p) = Cardinality(MappedRefs(p)) + Cardinality(HeldRefs(p) \cup {<<t, j>>})
    BY <1>1, <1>2, <1>4, IncExact DEF RefInv
  <2>2. \A q : MappedRefs(q)' = MappedRefs(q)
    BY <1>0 DEF MappedRefs
  <2> QED  BY <1>0, <1>4, <1>5, <1>6, <2>1, <2>2, HeapFacts DEF RefInv, RefcountExact
<1>8. TablesOK'
  BY <1>0, <1>6, HeapFacts DEF RefInv, TablesOK, Published
<1>9. ASSUME NEW u \in Threads, NEW i \in Idx, Holds(u, i)' PROVE EntryOK(u, i)'
  <2>1. CASE u = t /\ i = j
    <3>1. ~OwnsPending(t, j)' /\ plan'[t][j].info = p /\ HashAt(t, j)' = HashAt(t, j)
      BY <1>0, <1>1, <1>p DEF OwnsPending, IsMiss, IsHit, HashAt, Payload
    <3>2. (p \in heap)' /\ info'[p].hash = HashAt(t, j) /\ hash_to_master'[info'[p].hash] = p
      BY <1>0, <1>1, <1>2, <1>6 DEF Published
    <3> QED  BY <2>1, <3>1, <3>2 DEF EntryOK, Published
  <2>2. CASE ~(u = t /\ i = j)
    <3>1. KeepsEntry(u, i) /\ plan'[u][i] = plan[u][i]
      BY <1>0, <1>3, <1>9, <2>2, SameFrameKeeps
         DEF KeepsEntry, Holds, Planned, OwnsPending, IsMiss, HashAt, Payload
    <3>2. EntryOK(u, i)
      BY <1>9, <3>1 DEF KeepsEntry, RefInv, EntriesOK
    <3>3. OwnsPending(u, i) => plan[u][i].info # p
      BY <1>2, <3>2 DEF EntryOK
    <3> QED
      BY <1>0, <1>6, <1>9, <3>1, <3>2, <3>3, HeapFacts
         DEF KeepsEntry, EntryOK, Published, RefInv
  <2> QED  BY <2>1, <2>2
<1> QED  BY <1>7, <1>8, <1>9 DEF Accounts, EntriesOK

\* A new MasterInfo is fresh: nothing refers to an address outside heap.
LEMMA FreshInfo ==
    ASSUME RefInv, NEW p \in Infos \ heap
    PROVE  MappedRefs(p) = {} /\ HeldRefs(p) = {}
<1>1. \A x \in Key : file_to_master[x] # p
  BY NullAssumption DEF RefInv, TablesOK
<1>2. ASSUME NEW u \in Threads, NEW i \in Idx PROVE ~Has(u, i, p)
  BY HasIffHolds DEF RefInv, EntriesOK, EntryOK
<1> QED  BY <1>1, <1>2 DEF MappedRefs, HeldRefs, Has

LEMMA PlanMissAccounts ==
    ASSUME RefInv, RefcountsFit, NEW t \in Threads, \A u \in Threads \ {t} : SameFrame(u),
           PlanMiss(t)
    PROVE  Accounts'
<1>j. PICK j : j = k[t]
  OBVIOUS
<1>h. PICK h : h = HashAt(t, j)
  OBVIOUS
<1>1. j \in Idx /\ h \in Hashes /\ j + 1 \in Nat /\ plan[t][j] = NoEntry
  <2>1. pc[t] = "w_plan" /\ j < N(t)
    BY <1>j DEF PlanMiss
  <2>2. j \in Idx /\ h \in Hashes /\ j + 1 \in Nat
    BY <1>j, <1>h, <2>1, IterFacts, BoundsAssumption DEF RefInv, WritePCs
  <2>3. PlanEnd(t) = j
    BY <1>j, <2>1 DEF PlanEnd, PlannedPCs, WritePCs
  <2> QED  BY <2>2, <2>3 DEF RefInv, ShapeOK, Idx
<1>p. PICK p \in Infos \ heap :
          /\ heap' = heap \cup {p}
          /\ info' = [info EXCEPT ![p] = [hash |-> h, masterBlockIndex |-> 0, refcount |-> 1]]
          /\ plan' = [plan EXCEPT ![t][j] =
                         [kind |-> "MISS", master_blk |-> NULL, info |-> p]]
  BY <1>j, <1>h DEF PlanMiss
<1>0. /\ pc[t] = "w_plan" /\ pc'[t] = "w_plan" /\ req' = req
      /\ hash_to_master' = hash_to_master /\ file_to_master' = file_to_master
      /\ hash_to_master[h] = NULL
  BY <1>j, <1>h, <1>1 DEF PlanMiss, NextIter, indexVars, Existing
<1>2. /\ \A q \in Infos \ {p} : info'[q] = info[q]
      /\ info'[p].hash = h /\ info'[p].refcount = 1
  BY <1>p, HeapFacts DEF RefInv
<1>3. /\ plan'[t][j].info = p /\ plan'[t][j].kind = "MISS"
      /\ \A i \in Idx \ {j} : plan'[t][i] = plan[t][i]
  BY <1>p, <1>1 DEF RefInv, TypeInv, TypeOK, WorkType
<1>4. \A i \in Idx : HoldsRef(t, i) /\ HoldsRef(t, i)'
  BY <1>0 DEF HoldsRef
<1>5. MappedRefs(p) = {} /\ HeldRefs(p) = {}
  BY <1>p, FreshInfo
<1>6. HeldRefs(p)' = {<<t, j>>}
  <2>1. ~Has(t, j, p) /\ Has(t, j, p)'
    BY <1>1, <1>p, <1>3, <1>4, NullAssumption DEF Has, NoEntry
  <2>2. \A i \in Idx \ {j} : Has(t, i, p)' <=> Has(t, i, p)
    BY <1>3, <1>4 DEF Has
  <2>3. HeldRefs(p)' = HeldRefs(p) \cup {<<t, j>>}
    BY <1>1, <2>1, <2>2, HeldGain
  <2> QED  BY <1>5, <2>3
<1>7. ASSUME NEW q \in heap PROVE HeldRefs(q)' = HeldRefs(q)
  <2>1. q # p /\ q # NULL
    BY <1>p, HeapFacts DEF RefInv
  <2>2. \A i \in Idx : Has(t, i, q)' <=> Has(t, i, q)
    BY <1>1, <1>3, <1>4, <2>1 DEF Has, NoEntry
  <2> QED  BY <2>2, HeldSame
<1>8. RefcountExact'
  <2>1. \A q : MappedRefs(q)' = MappedRefs(q)
    BY <1>0 DEF MappedRefs
  <2>2. Cardinality(MappedRefs(p)) = 0 /\ Cardinality(HeldRefs(p)') = 1
    BY <1>5, <1>6, FS_EmptySet, FS_Singleton
  <2> QED  BY <1>p, <1>2, <1>7, <2>1, <2>2, HeapFacts DEF RefInv, RefcountExact
<1>9. TablesOK'
  <2>1. p \notin heap /\ heap \subseteq Infos
    BY <1>p, HeapFacts DEF RefInv
  <2> QED  BY <1>0, <1>1, <1>p, <1>2, <2>1 DEF RefInv, TablesOK, Published
<1>10. ASSUME NEW u \in Threads, NEW i \in Idx, Holds(u, i)' PROVE EntryOK(u, i)'
  <2>1. CASE u = t /\ i = j
    <3>1. HashAt(t, j)' = h
      BY <1>0, <1>h DEF HashAt, Payload
    <3>2. OwnsPending(t, j)'
      BY SMTT(30), <1>0, <1>3, <1>4, <1>1 DEF OwnsPending, IsMiss
    <3>3. hash_to_master'[info'[p].hash] # p
      BY SMTT(30), <1>p, <1>0, <1>2, NullAssumption
    <3> QED  BY <1>p, <1>2, <1>3, <2>1, <3>1, <3>2, <3>3 DEF EntryOK, Published
  <2>2. CASE ~(u = t /\ i = j)
    <3>1. KeepsEntry(u, i) /\ plan'[u][i] = plan[u][i]
      BY <1>0, <1>3, <1>4, <1>10, <2>2, SameFrameKeeps
         DEF KeepsEntry, Holds, Planned, OwnsPending, IsMiss, HashAt, Payload
    <3>2. EntryOK(u, i)
      BY <1>10, <3>1 DEF KeepsEntry, RefInv, EntriesOK
    <3>3. plan[u][i].info \in heap /\ plan[u][i].info \in Infos \ {p}
      BY <1>p, <3>2, HeapFacts DEF EntryOK, RefInv
    <3> QED
      BY <1>0, <1>p, <1>2, <1>10, <3>1, <3>2, <3>3 DEF KeepsEntry, EntryOK, Published
  <2> QED  BY <2>1, <2>2
<1> QED  BY <1>8, <1>9, <1>10 DEF Accounts, EntriesOK

\* Before pass 3 reaches entry j its MasterInfo is private, and nothing but the
\* entry refers to it.
LEMMA PrivateEntry ==
    ASSUME RefInv, RefcountsFit, NEW t \in Threads, NEW j \in Idx, OwnsPending(t, j),
           NEW p, p = plan[t][j].info
    PROVE  /\ p \in heap /\ info[p].hash = HashAt(t, j) /\ ~Published(p)
           /\ MappedRefs(p) = {} /\ HeldRefs(p) = {<<t, j>>}
           /\ \A h \in Hashes : hash_to_master[h] # p
           /\ \A u \in Threads, i \in Idx :
                  ~(u = t /\ i = j) /\ Holds(u, i) => plan[u][i].info # p
<1>1. Holds(t, j) /\ HoldsRef(t, j)
  BY DEF OwnsPending, Holds, Planned, IsMiss
<1>2. EntryOK(t, j)
  BY <1>1 DEF RefInv, EntriesOK
<1>3. MappedRefs(p) = {} /\ HeldRefs(p) = {<<t, j>>}
  BY <1>1, <1>2, OnlyHolder DEF EntryOK, Has, RefInv
<1>4. \A h \in Hashes : hash_to_master[h] # p
  <2>1. p # NULL
    BY <1>2, HeapFacts DEF RefInv, EntryOK
  <2> QED  BY <1>2, <2>1 DEF RefInv, TablesOK, EntryOK, Published
<1>5. \A u \in Threads, i \in Idx :
          ~(u = t /\ i = j) /\ Holds(u, i) => plan[u][i].info # p
  <2>1. ASSUME NEW u \in Threads, NEW i \in Idx, Holds(u, i), plan[u][i].info = p
        PROVE  u = t /\ i = j
    <3>1. <<u, i>> \in HeldRefs(p)
      BY <2>1 DEF HeldRefs, Holds
    <3> QED  BY <1>3, <3>1
  <2> QED  BY <2>1
<1> QED  BY <1>2, <1>3, <1>4, <1>5 DEF EntryOK

LEMMA PublishOursAccounts ==
    ASSUME RefInv, RefcountsFit, NEW t \in Threads, \A u \in Threads \ {t} : SameFrame(u),
           PublishOurs(t)
    PROVE  Accounts'
<1>j. PICK j : j = k[t]
  OBVIOUS
<1>p. PICK p : p = plan[t][j].info
  OBVIOUS
<1>h. PICK h : h = HashAt(t, j)
  OBVIOUS
<1>1. j \in Idx /\ j \in Nat /\ h \in Hashes /\ IsMiss(t, j) /\ pc[t] = "w_publish"
  BY <1>j, <1>h, IterFacts DEF PublishOurs, RefInv, WritePCs, Idx
<1>2. OwnsPending(t, j)
  BY <1>1, <1>j DEF OwnsPending, HoldsRef
<1>3. /\ p \in heap /\ info[p].hash = h /\ MappedRefs(p) = {}
      /\ \A u \in Threads, i \in Idx :
             ~(u = t /\ i = j) /\ Holds(u, i) => plan[u][i].info # p
  BY SMTT(30), <1>1, <1>2, <1>p, <1>h, PrivateEntry
<1>0. /\ pc' = pc /\ k'[t] = j + 1 /\ req' = req /\ plan' = plan
      /\ file_to_master' = file_to_master /\ heap' = heap /\ info' = info
      /\ hash_to_master[h] = NULL
      /\ hash_to_master' = [hash_to_master EXCEPT ![h] = p]
  BY <1>1, <1>3, <1>j, <1>p DEF PublishOurs, Winner, NextIter, SetK, heapVars, frameVars,
     RefInv, TypeInv, TypeOK, ControlType
<1>4. /\ hash_to_master'[h] = p
      /\ \A g \in Hashes \ {h} : hash_to_master'[g] = hash_to_master[g]
  BY <1>0, <1>1, HeapFacts DEF RefInv
<1>5. \A q \in heap \ {p} : Published(q)' <=> Published(q) /\ info[q].hash # h
  BY <1>0, <1>1, <1>4, HeapFacts DEF Published, RefInv, TablesOK
<1>6. \A q \in heap : Published(q) => q # p /\ info[q].hash # h
  BY <1>0, <1>3, HeapFacts DEF Published, RefInv
<1>7. \A i \in Idx : KeepsEntry(t, i) \/ i = j
  <2>1. \A i \in Idx : i # j => (i >= j <=> i >= j + 1)
    BY <1>1 DEF Idx
  <2> QED
    BY <1>0, <1>1, <1>j, <2>1 DEF KeepsEntry, Holds, HoldsRef, Planned, OwnsPending, IsMiss,
       HashAt, Payload
<1>8. RefcountExact'
  <2>1. \A q : MappedRefs(q)' = MappedRefs(q)
    BY <1>0 DEF MappedRefs
  <2>2. ASSUME NEW q \in heap PROVE HeldRefs(q)' = HeldRefs(q)
    <3>1. \A i \in Idx : Has(t, i, q)' <=> Has(t, i, q)
      BY <1>0, <1>1 DEF Has, HoldsRef
    <3> QED  BY <3>1, HeldSame
  <2> QED  BY <1>0, <2>1, <2>2 DEF RefInv, RefcountExact
<1>9. TablesOK'
  BY <1>0, <1>1, <1>3, <1>4, <1>5, <1>6, HeapFacts DEF RefInv, TablesOK
<1>10. ASSUME NEW u \in Threads, NEW i \in Idx, Holds(u, i)' PROVE EntryOK(u, i)'
  <2>1. CASE u = t /\ i = j
    <3>1. ~OwnsPending(t, j)' /\ HashAt(t, j)' = h
      BY <1>0, <1>1, <1>h DEF OwnsPending, HashAt, Payload, Idx
    <3>2. hash_to_master'[info'[p].hash] = p
      BY <1>0, <1>3, <1>4
    <3> QED  BY <1>0, <1>3, <1>p, <2>1, <3>1, <3>2 DEF EntryOK, Published
  <2>2. CASE ~(u = t /\ i = j)
    <3>1. KeepsEntry(u, i) /\ plan'[u][i] = plan[u][i]
      BY <1>0, <1>7, <2>2, SameFrameKeeps
    <3>2. EntryOK(u, i) /\ plan[u][i].info # p
      BY <1>3, <1>10, <2>2, <3>1 DEF KeepsEntry, RefInv, EntriesOK
    <3> QED  BY <1>0, <1>5, <1>6, <1>10, <3>1, <3>2 DEF KeepsEntry, EntryOK, Published
  <2> QED  BY <2>1, <2>2
<1> QED  BY <1>8, <1>9, <1>10 DEF Accounts, EntriesOK

LEMMA UseWinnerAccounts ==
    ASSUME RefInv, RefcountsFit, NEW t \in Threads, \A u \in Threads \ {t} : SameFrame(u),
           UseWinner(t)
    PROVE  Accounts'
<1>j. PICK j : j = k[t]
  OBVIOUS
<1>p. PICK p : p = plan[t][j].info
  OBVIOUS
<1>h. PICK h : h = HashAt(t, j)
  OBVIOUS
<1>w. PICK w : w = hash_to_master[h]
  OBVIOUS
<1>1. j \in Idx /\ j \in Nat /\ h \in Hashes /\ IsMiss(t, j) /\ pc[t] = "w_publish"
  BY <1>j, <1>h, IterFacts DEF UseWinner, RefInv, WritePCs, Idx
<1>2. OwnsPending(t, j)
  BY <1>1, <1>j DEF OwnsPending, HoldsRef
<1>3. /\ p \in heap /\ info[p].hash = h /\ MappedRefs(p) = {}
      /\ \A g \in Hashes : hash_to_master[g] # p
      /\ \A u \in Threads, i \in Idx :
             ~(u = t /\ i = j) /\ Holds(u, i) => plan[u][i].info # p
  BY <1>1, <1>2, <1>p, <1>h, PrivateEntry
<1>0. /\ pc' = pc /\ k'[t] = j + 1 /\ req' = req /\ w # NULL
      /\ plan' = [plan EXCEPT ![t][j].info = w]
      /\ hash_to_master' = hash_to_master /\ file_to_master' = file_to_master
      /\ heap' = heap \ {p} /\ info' = [info EXCEPT ![w].refcount = IncRef(w)]
  <2>1. Winner(t, j) = w
    BY <1>3, <1>p, <1>w DEF Winner
  <2>2. /\ w # NULL /\ pc' = pc /\ k' = [k EXCEPT ![t] = j + 1] /\ req' = req
        /\ hash_to_master' = hash_to_master /\ file_to_master' = file_to_master
    BY <1>j, <2>1 DEF UseWinner, NextIter, SetK, indexVars
  <2>3. /\ plan' = [plan EXCEPT ![t][j].info = w] /\ heap' = heap \ {p}
        /\ info' = [info EXCEPT ![w].refcount = IncRef(w)]
    BY <1>j, <1>p, <2>1 DEF UseWinner
  <2>4. k'[t] = j + 1
    BY <2>2 DEF RefInv, TypeInv, TypeOK, ControlType
  <2> QED  BY <2>2, <2>3, <2>4
<1>4. w \in heap /\ w \in Infos /\ w # p /\ info[w].hash = h /\ Published(w)
  BY <1>0, <1>1, <1>3, <1>w, HeapFacts DEF RefInv, TablesOK, Published
<1>5. /\ \A q \in Infos : info'[q].hash = info[q].hash
      /\ \A q \in Infos \ {w} : info'[q] = info[q]
      /\ info'[w].refcount = IncRef(w)
  BY <1>0, <1>4, HeapFacts DEF RefInv, Info
<1>6. /\ plan'[t][j].info = w /\ plan'[t][j].kind = plan[t][j].kind
      /\ \A i \in Idx \ {j} : plan'[t][i] = plan[t][i]
  BY <1>0, <1>1 DEF RefInv, TypeInv, TypeOK, WorkType, PlanEntry
<1>7. \A i \in Idx : HoldsRef(t, i) /\ HoldsRef(t, i)'
  BY <1>0, <1>1 DEF HoldsRef
<1>8. HeldRefs(w)' = HeldRefs(w) \cup {<<t, j>>} /\ <<t, j>> \notin HeldRefs(w)
  <2>0. ~Has(t, j, w)
    BY <1>p, <1>4 DEF Has
  <2>1. Has(t, j, w)'
    BY <1>1, <1>6, <1>7 DEF Has
  <2>2. \A i \in Idx \ {j} : Has(t, i, w)' <=> Has(t, i, w)
    BY <1>6, <1>7 DEF Has
  <2> QED  BY <1>1, <2>0, <2>1, <2>2, HeldGain
<1>9. ASSUME NEW q \in heap, q # w, q # p PROVE HeldRefs(q)' = HeldRefs(q)
  <2>1. \A i \in Idx : Has(t, i, q)' <=> Has(t, i, q)
    BY <1>6, <1>7, <1>9, <1>p DEF Has
  <2> QED  BY <2>1, HeldSame
<1>10. RefcountExact'
  <2>1. IncRef(w) = Cardinality(MappedRefs(w)) + Cardinality(HeldRefs(w) \cup {<<t, j>>})
    BY <1>1, <1>4, <1>8, IncExact DEF RefInv
  <2>2. \A q : MappedRefs(q)' = MappedRefs(q)
    BY <1>0 DEF MappedRefs
  <2> QED  BY ZenonT(30), <1>0, <1>5, <1>8, <1>9, <2>1, <2>2, HeapFacts DEF RefInv, RefcountExact
<1>11. TablesOK'
  <2>1. \A x \in Key : file_to_master[x] # p
    BY <1>3 DEF MappedRefs
  <2> QED  BY <1>0, <1>3, <1>5, <2>1, HeapFacts DEF RefInv, TablesOK, Published
<1>12. ASSUME NEW u \in Threads, NEW i \in Idx, Holds(u, i)' PROVE EntryOK(u, i)'
  <2>1. CASE u = t /\ i = j
    <3>1. ~OwnsPending(t, j)' /\ HashAt(t, j)' = h
      BY SMTT(30), <1>0, <1>1, <1>h DEF OwnsPending, HashAt, Payload, Idx
    <3>2. hash_to_master'[info'[w].hash] = w
      BY SMTT(30), <1>0, <1>4, <1>5 DEF Published
    <3> QED  BY <1>0, <1>4, <1>5, <1>6, <2>1, <3>1, <3>2 DEF EntryOK, Published
  <2>2. CASE ~(u = t /\ i = j)
    <3>0. \A m \in Idx : m # j => (m >= j <=> m >= j + 1)
      BY <1>1 DEF Idx
    <3>1. KeepsEntry(u, i) /\ plan'[u][i] = plan[u][i]
      BY <1>0, <1>1, <1>6, <1>7, <1>j, <2>2, <3>0, SameFrameKeeps
         DEF KeepsEntry, Holds, Planned, OwnsPending, IsMiss, HashAt, Payload
    <3>2. EntryOK(u, i) /\ plan[u][i].info # p
      BY <1>3, <1>12, <2>2, <3>1 DEF KeepsEntry, RefInv, EntriesOK
    <3>3. OwnsPending(u, i) => plan[u][i].info # w
      BY <1>4, <3>2 DEF EntryOK
    <3> QED
      BY <1>0, <1>5, <1>12, <3>1, <3>2, <3>3, HeapFacts
         DEF KeepsEntry, EntryOK, Published, RefInv
  <2> QED  BY <2>1, <2>2
<1> QED  BY <1>10, <1>11, <1>12 DEF Accounts, EntriesOK

\* Where the counting of a MasterInfo's references moves by one.
LEMMA CountOne ==
    ASSUME NEW S, IsFiniteSet(S), NEW y
    PROVE  /\ Cardinality(S \cup {y}) = IF y \in S THEN Cardinality(S) ELSE Cardinality(S) + 1
           /\ Cardinality(S \ {y}) = IF y \in S THEN Cardinality(S) - 1 ELSE Cardinality(S)
<1>1. y \in S => S \cup {y} = S
  OBVIOUS
<1>2. y \notin S => S \ {y} = S
  OBVIOUS
<1> QED  BY <1>1, <1>2, FS_AddElement, FS_RemoveElement

\* A step that drops no reference to a MasterInfo leaves the entries as they are.
LEMMA KeepStep ==
    ASSUME TypeInv, EntriesOK, TablesOK, NEW t \in Threads,
           \A u \in Threads \ {t} : SameFrame(u),
           hash_to_master' = hash_to_master, heap' = heap, info' = info,
           \A i \in Idx : Holds(t, i)' => KeepsEntry(t, i),
           \A x \in Key : LET q == file_to_master'[x]
                          IN q # NULL => q \in heap /\ Published(q)
    PROVE  EntriesOK' /\ TablesOK'
<1>1. ASSUME NEW u \in Threads, NEW i \in Idx, Holds(u, i)' PROVE EntryOK(u, i)'
  <2>1. KeepsEntry(u, i)
    BY <1>1, SameFrameKeeps
  <2>2. EntryOK(u, i)
    BY <1>1, <2>1 DEF KeepsEntry, EntriesOK
  <2> QED  BY <1>1, <2>1, <2>2 DEF KeepsEntry, EntryOK, Published
<1>2. TablesOK'
  BY DEF TablesOK, Published
<1> QED  BY <1>1, <1>2 DEF EntriesOK

LEMMA MapBlockAccounts ==
    ASSUME RefInv, RefcountsFit, NEW t \in Threads, \A u \in Threads \ {t} : SameFrame(u),
           MapBlock(t)
    PROVE  Accounts'
<1>j. PICK j : j = k[t]
  OBVIOUS
<1>x. PICK x : x = KeyOf(t, j)
  OBVIOUS
<1>n. PICK new : new = plan[t][j].info
  OBVIOUS
<1>o. PICK old : old = file_to_master[x]
  OBVIOUS
<1>1. pc[t] = "w_map" /\ j < N(t) /\ j \in Idx /\ j \in Nat /\ x \in Key
  BY <1>j, <1>x, IterFacts DEF MapBlock, RefInv, WritePCs, Idx
<1>0. /\ pc' = pc /\ k'[t] = j + 1 /\ req' = req /\ plan' = plan
      /\ file_to_master' = [file_to_master EXCEPT ![x] = new]
      /\ \/ old # NULL /\ DropRef(t, old)
         \/ old = NULL /\ hash_to_master' = hash_to_master /\ heap' = heap /\ info' = info
  BY <1>j, <1>x, <1>n, <1>o DEF MapBlock, NextIter, SetK, heapVars, RefInv, TypeInv, TypeOK,
     ControlType
<1>2. Holds(t, j)
  <2>1. PlanEnd(t) = N(t)
    BY <1>1 DEF PlanEnd, PlannedPCs, WritePCs
  <2> QED  BY <1>1, <1>j, <2>1 DEF RefInv, ShapeOK, Holds, HoldsRef, Idx
<1>3. new \in heap /\ Published(new)
  BY <1>1, <1>2, <1>n DEF RefInv, EntriesOK, EntryOK, OwnsPending
<1>4. old # NULL => old \in heap /\ Published(old)
  BY <1>1, <1>o DEF RefInv, TablesOK
<1>5. \A i \in Idx : /\ HoldsRef(t, i) <=> i >= j
                     /\ HoldsRef(t, i)' <=> i >= j /\ i # j
  BY <1>0, <1>1, <1>j DEF HoldsRef, Idx
<1>6. HeldRefs(new)' = HeldRefs(new) \ {<<t, j>>} /\ <<t, j>> \in HeldRefs(new)
  <2>1. Has(t, j, new)
    BY <1>1, <1>5, <1>n DEF Has
  <2>2. ~Has(t, j, new)'
    BY <1>1, <1>5 DEF Has
  <2>3. \A i \in Idx \ {j} : Has(t, i, new)' <=> Has(t, i, new)
    BY <1>0, <1>5 DEF Has
  <2> QED  BY <1>1, <2>1, <2>2, <2>3, HeldLoss
<1>7. ASSUME NEW q, q # new PROVE HeldRefs(q)' = HeldRefs(q)
  <2>1. \A i \in Idx : Has(t, i, q)' <=> Has(t, i, q)
    BY <1>0, <1>5, <1>7, <1>n DEF Has
  <2> QED  BY <2>1, HeldSame
<1>8. ASSUME NEW q
      PROVE  /\ MappedRefs(q)' = IF q = new THEN MappedRefs(q) \cup {x} ELSE MappedRefs(q) \ {x}
             /\ x \in MappedRefs(q) <=> q = old
  BY <1>0, <1>1, <1>o, HeapFacts DEF MappedRefs, RefInv
<1>9. RefcountExact'
  <2>1. ASSUME NEW q \in heap'
        PROVE  info'[q].refcount = Cardinality(MappedRefs(q)') + Cardinality(HeldRefs(q)')
    <3>1. /\ IsFiniteSet(MappedRefs(q)) /\ Cardinality(MappedRefs(q)) \in Nat
          /\ IsFiniteSet(HeldRefs(q)) /\ Cardinality(HeldRefs(q)) \in Nat
      BY RefSets
    <3>2. q \in heap /\ q # NULL
      BY <1>0, HeapFacts DEF DropRef, RefInv
    <3>3. info[q].refcount = Cardinality(MappedRefs(q)) + Cardinality(HeldRefs(q))
      BY <3>2 DEF RefInv, RefcountExact
    <3>4. Cardinality(HeldRefs(q)') = IF q = new THEN Cardinality(HeldRefs(q)) - 1
                                      ELSE Cardinality(HeldRefs(q))
      BY <1>6, <1>7, <3>1, CountOne
    <3>5. Cardinality(MappedRefs(q)') =
              IF q = new /\ q # old THEN Cardinality(MappedRefs(q)) + 1
              ELSE IF q = old /\ q # new THEN Cardinality(MappedRefs(q)) - 1
              ELSE Cardinality(MappedRefs(q))
      <4>1. /\ Cardinality(MappedRefs(q) \cup {x}) =
                    IF x \in MappedRefs(q) THEN Cardinality(MappedRefs(q))
                    ELSE Cardinality(MappedRefs(q)) + 1
            /\ Cardinality(MappedRefs(q) \ {x}) =
                    IF x \in MappedRefs(q) THEN Cardinality(MappedRefs(q)) - 1
                    ELSE Cardinality(MappedRefs(q))
        BY <3>1, CountOne
      <4>2. x \in MappedRefs(q) <=> q = old
        BY <1>8
      <4>3. CASE q = new
        <5>1. MappedRefs(q)' = MappedRefs(q) \cup {x}
          BY <1>8, <4>3
        <5> QED  BY <4>1, <4>2, <4>3, <5>1
      <4>4. CASE q # new
        <5>1. MappedRefs(q)' = MappedRefs(q) \ {x}
          BY <1>8, <4>4
        <5> QED  BY <4>1, <4>2, <4>4, <5>1
      <4> QED  BY <4>3, <4>4
    <3>6. q # old => info'[q] = info[q]
      BY <1>0, <1>4, <3>2, HeapFacts, PublishedDrop DEF RefInv
    <3>7. q = old => info'[q].refcount = info[q].refcount - 1
      <4>1. q = old => MappedRefs(q) # {}
        BY <1>8
      <4>2. q = old => DecRef(q) = info[q].refcount - 1
        BY <3>1, <3>2, <4>1, DecExact DEF RefInv
      <4>3. q = old => info'[q].refcount = DecRef(q)
        BY <1>0, <1>4, <3>2, PublishedDrop DEF RefInv
      <4> QED  BY <4>2, <4>3
    <3> QED  BY <3>1, <3>3, <3>4, <3>5, <3>6, <3>7
  <2> QED  BY <2>1 DEF RefcountExact
<1>10. \A i \in Idx : Holds(t, i)' => KeepsEntry(t, i)
  BY <1>0, <1>1, <1>5 DEF KeepsEntry, Holds, Planned, OwnsPending, IsMiss, HashAt, Payload
<1>11. \A y \in Key : LET q == file_to_master'[y]
                      IN q # NULL => q \in heap /\ Published(q)
  <2>1. \A y \in Key : file_to_master'[y] = new \/ file_to_master'[y] = file_to_master[y]
    BY <1>0, HeapFacts DEF RefInv
  <2> QED  BY <1>3, <2>1 DEF RefInv, TablesOK
<1>12. EntriesOK' /\ TablesOK'
  <2>1. CASE old = NULL
    BY <1>0, <1>10, <1>11, <2>1, KeepStep DEF RefInv
  <2>2. CASE old # NULL
    <3>1. ASSUME IsLastRef(old)
          PROVE  /\ \A u \in Threads, i \in Idx : Holds(u, i)' => plan[u][i].info # old
                 /\ \A y \in Key : file_to_master'[y] # old
      <4>1. HeldRefs(old) = {} /\ MappedRefs(old) = {x}
        BY <1>1, <1>4, <1>o, <2>2, <3>1, OnlyMapping DEF IsLastRef, RefInv
      <4>2. old # new
        BY <1>6, <4>1
      <4>3. MappedRefs(old)' = {}
        BY <1>8, <4>1, <4>2
      <4>4. HeldRefs(old)' = {}
        BY <1>7, <4>1, <4>2
      <4>5. \A u \in Threads, i \in Idx : plan'[u][i] = plan[u][i]
        BY <1>0
      <4>6. ASSUME NEW u \in Threads, NEW i \in Idx, Holds(u, i)', plan[u][i].info = old
            PROVE  FALSE
        <5>1. (HoldsRef(u, i) /\ plan[u][i].info = old)'
          BY <4>5, <4>6 DEF Holds
        <5>2. <<u, i>> \in HeldRefs(old)'
          BY <5>1 DEF HeldRefs
        <5> QED  BY <4>4, <5>2
      <4> QED  BY <4>3, <4>6 DEF MappedRefs
    <3> QED  BY <1>0, <1>4, <1>10, <1>11, <2>2, <3>1, DropStep DEF RefInv
  <2> QED  BY <2>1, <2>2
<1> QED  BY <1>9, <1>12 DEF Accounts

LEMMA RemoveBlockAccounts ==
    ASSUME RefInv, RefcountsFit, NEW t \in Threads, \A u \in Threads \ {t} : SameFrame(u),
           RemoveBlock(t)
    PROVE  Accounts'
<1>x. PICK x : x = <<req[t].path, k[t]>>
  OBVIOUS
<1>o. PICK old : old = file_to_master[x]
  OBVIOUS
<1>1. pc[t] = "rm_loop" /\ x \in Key
  <2>1. pc[t] = "rm_loop" /\ k[t] < lim[t]
    BY DEF RemoveBlock
  <2>2. req[t] \in Requests /\ k[t] \in 0 .. MaxBlocks /\ lim[t] \in 0 .. MaxBlocks
    BY <2>1 DEF RefInv, TypeInv, TypeOK, ControlType, FramesOK, FrameOK
  <2> QED  BY <2>1, <2>2, <1>x, RequestFacts, BoundsAssumption DEF Key, Blocks
<1>0. /\ pc' = pc /\ req' = req /\ plan' = plan
      /\ file_to_master' = [file_to_master EXCEPT ![x] = NULL]
      /\ \/ old # NULL /\ DropRef(t, old)
         \/ old = NULL /\ hash_to_master' = hash_to_master /\ heap' = heap /\ info' = info
  BY <1>x, <1>o DEF RemoveBlock, NextIter, heapVars
<1>2. old # NULL => old \in heap /\ Published(old)
  BY <1>1, <1>o DEF RefInv, TablesOK
<1>3. \A i \in Idx : ~HoldsRef(t, i) /\ ~HoldsRef(t, i)'
  BY <1>0, <1>1 DEF HoldsRef
<1>4. ASSUME NEW q PROVE HeldRefs(q)' = HeldRefs(q)
  <2>1. \A i \in Idx : Has(t, i, q)' <=> Has(t, i, q)
    BY <1>3 DEF Has
  <2> QED  BY <2>1, HeldSame
<1>5. ASSUME NEW q \in heap
      PROVE  MappedRefs(q)' = MappedRefs(q) \ {x} /\ (x \in MappedRefs(q) <=> q = old)
  BY <1>0, <1>1, <1>o, HeapFacts DEF MappedRefs, RefInv
<1>6. RefcountExact'
  <2>1. ASSUME NEW q \in heap'
        PROVE  info'[q].refcount = Cardinality(MappedRefs(q)') + Cardinality(HeldRefs(q)')
    <3>1. /\ IsFiniteSet(MappedRefs(q)) /\ Cardinality(MappedRefs(q)) \in Nat
          /\ Cardinality(HeldRefs(q)) \in Nat
      BY RefSets
    <3>2. q \in heap
      BY <1>0 DEF DropRef
    <3>3. info[q].refcount = Cardinality(MappedRefs(q)) + Cardinality(HeldRefs(q))
      BY <3>2 DEF RefInv, RefcountExact
    <3>4. Cardinality(MappedRefs(q) \ {x}) =
              IF q = old THEN Cardinality(MappedRefs(q)) - 1 ELSE Cardinality(MappedRefs(q))
      BY <1>5, <3>1, <3>2, CountOne
    <3>5. q # old => info'[q] = info[q]
      BY <1>0, <1>2, <3>2, HeapFacts, PublishedDrop DEF RefInv
    <3>6. q = old => info'[q].refcount = info[q].refcount - 1
      <4>1. q = old => MappedRefs(q) # {} /\ q # NULL
        BY <1>5, <3>2, HeapFacts DEF RefInv
      <4>2. q = old => DecRef(q) = info[q].refcount - 1
        BY <3>1, <3>2, <4>1, DecExact DEF RefInv
      <4>3. q = old => info'[q].refcount = DecRef(q)
        BY <1>0, <1>2, <3>2, <4>1, PublishedDrop DEF RefInv
      <4> QED  BY <4>2, <4>3
    <3>7. Cardinality(MappedRefs(q)') = Cardinality(MappedRefs(q) \ {x})
      BY <1>5, <3>2
    <3>8. Cardinality(HeldRefs(q)') = Cardinality(HeldRefs(q))
      BY <1>4
    <3> QED  BY <3>1, <3>3, <3>4, <3>5, <3>6, <3>7, <3>8
  <2> QED  BY <2>1 DEF RefcountExact
<1>7. \A i \in Idx : Holds(t, i)' => KeepsEntry(t, i)
  BY <1>3 DEF Holds
<1>8. \A y \in Key : LET q == file_to_master'[y]
                     IN q # NULL => q \in heap /\ Published(q)
  <2>1. \A y \in Key : file_to_master'[y] = NULL \/ file_to_master'[y] = file_to_master[y]
    BY <1>0, HeapFacts DEF RefInv
  <2> QED  BY <2>1 DEF RefInv, TablesOK
<1>9. EntriesOK' /\ TablesOK'
  <2>1. CASE old = NULL
    BY <1>0, <1>7, <1>8, <2>1, KeepStep DEF RefInv
  <2>2. CASE old # NULL
    <3>1. ASSUME IsLastRef(old)
          PROVE  /\ \A u \in Threads, i \in Idx : Holds(u, i)' => plan[u][i].info # old
                 /\ \A y \in Key : file_to_master'[y] # old
      <4>1. HeldRefs(old) = {} /\ MappedRefs(old) = {x}
        BY <1>1, <1>2, <1>o, <2>2, <3>1, OnlyMapping DEF IsLastRef, RefInv
      <4>2. MappedRefs(old)' = {} /\ HeldRefs(old)' = {}
        BY <1>2, <1>4, <1>5, <2>2, <4>1
      <4>3. ASSUME NEW u \in Threads, NEW i \in Idx, Holds(u, i)', plan[u][i].info = old
            PROVE  FALSE
        <5>1. (HoldsRef(u, i) /\ plan[u][i].info = old)'
          BY <1>0, <4>3 DEF Holds
        <5>2. <<u, i>> \in HeldRefs(old)'
          BY <5>1 DEF HeldRefs
        <5> QED  BY <4>2, <5>2
      <4> QED  BY <4>2, <4>3 DEF MappedRefs
    <3> QED  BY <1>0, <1>2, <1>7, <1>8, <2>2, <3>1, DropStep DEF RefInv
  <2> QED  BY <2>1, <2>2
<1> QED  BY <1>6, <1>9 DEF Accounts

LEMMA RbHitAccounts ==
    ASSUME RefInv, RefcountsFit, NEW t \in Threads, \A u \in Threads \ {t} : SameFrame(u),
           RbHit(t), ShapeOK'
    PROVE  Accounts'
<1>j. PICK j : j = k[t]
  OBVIOUS
<1>p. PICK p : p = plan[t][j].info
  OBVIOUS
<1>1. pc[t] = "rb_hits" /\ j < N(t) /\ j \in Idx /\ j \in Nat
  BY <1>j, IterFacts DEF RbHit, RefInv, WritePCs, Idx
<1>0. /\ pc' = pc /\ k'[t] = j + 1 /\ req' = req /\ plan' = plan
      /\ file_to_master' = file_to_master
      /\ \/ IsHit(t, j) /\ DropRef(t, p)
         \/ ~IsHit(t, j) /\ hash_to_master' = hash_to_master /\ heap' = heap /\ info' = info
  BY <1>j, <1>p DEF RbHit, NextIter, SetK, heapVars, RefInv, TypeInv, TypeOK, ControlType
<1>2. Planned(t, j)
  <2>1. PlanEnd(t) = N(t)
    BY <1>1 DEF PlanEnd, PlannedPCs, WritePCs
  <2> QED  BY <1>1, <2>1 DEF RefInv, ShapeOK
<1>3. \A i \in Idx : /\ HoldsRef(t, i) <=> IsMiss(t, i) \/ i >= j
                     /\ HoldsRef(t, i)' <=> IsMiss(t, i) \/ (i >= j /\ i # j)
  BY <1>0, <1>1, <1>j DEF HoldsRef, Idx, IsMiss
<1>4. \A i \in Idx : KeepsEntry(t, i) \/ (i = j /\ IsHit(t, j))
  <2>1. plan[t][j] \in PlanEntry
    BY <1>1, PlanFacts DEF RefInv
  <2>2. IsHit(t, j) \/ IsMiss(t, j)
    BY <1>2, <2>1 DEF Planned, PlanEntry, IsHit, IsMiss
  <2> QED
    BY <1>0, <1>1, <1>3, <2>2 DEF KeepsEntry, Holds, Planned, OwnsPending, IsMiss, HashAt,
       Payload
<1>5. CASE ~IsHit(t, j)
  <2>1. SameIndex
    BY <1>0, <1>5 DEF SameIndex
  <2> QED  BY <1>4, <1>5, <2>1, QuietStep DEF RefInv, Accounts
<1>6. CASE IsHit(t, j)
  <2>1. Holds(t, j) /\ ~OwnsPending(t, j)
    BY <1>1, <1>2, <1>3, <1>6 DEF Holds, OwnsPending, IsHit, IsMiss
  <2>2. p \in heap /\ Published(p) /\ DropRef(t, p)
    BY <1>0, <1>1, <1>6, <1>p, <2>1 DEF RefInv, EntriesOK, EntryOK
  <2>3. HeldRefs(p)' = HeldRefs(p) \ {<<t, j>>} /\ <<t, j>> \in HeldRefs(p)
    <3>1. Has(t, j, p)
      BY <1>p, <2>1 DEF Has, Holds
    <3>2. ~Has(t, j, p)'
      BY <1>1, <1>3, <1>6 DEF Has, IsHit, IsMiss
    <3>3. \A i \in Idx \ {j} : Has(t, i, p)' <=> Has(t, i, p)
      BY <1>0, <1>3 DEF Has
    <3> QED  BY <1>1, <3>1, <3>2, <3>3, HeldLoss
  <2>4. ASSUME NEW q, q # p PROVE HeldRefs(q)' = HeldRefs(q)
    <3>1. \A i \in Idx : Has(t, i, q)' <=> Has(t, i, q)
      BY <1>0, <1>3, <1>p, <2>4 DEF Has
    <3> QED  BY <3>1, HeldSame
  <2>5. \A q : MappedRefs(q)' = MappedRefs(q)
    BY <1>0 DEF MappedRefs
  <2>6. RefcountExact'
    <3>1. ASSUME NEW q \in heap', q # p
          PROVE  info'[q].refcount = Cardinality(MappedRefs(q)') + Cardinality(HeldRefs(q)')
      <4>1. q \in heap /\ q \in Infos /\ info'[q] = info[q]
        BY <2>2, <3>1, HeapFacts, PublishedDrop DEF DropRef, RefInv
      <4> QED  BY <2>4, <2>5, <3>1, <4>1 DEF RefInv, RefcountExact
    <3>2. info'[p].refcount = Cardinality(MappedRefs(p)') + Cardinality(HeldRefs(p)')
      <4>1. Cardinality(HeldRefs(p)') = Cardinality(HeldRefs(p)) - 1
        BY <2>3, RefSets, CountOne
      <4>2. DecRef(p) = Cardinality(MappedRefs(p)) + Cardinality(HeldRefs(p)) - 1
        BY <2>2, <2>3, DecExact DEF RefInv
      <4>3. info'[p].refcount = DecRef(p)
        BY <2>2, PublishedDrop DEF RefInv
      <4> QED  BY <2>5, <4>1, <4>2, <4>3, RefSets
    <3> QED  BY <3>1, <3>2 DEF RefcountExact
  <2>7. ASSUME IsLastRef(p)
        PROVE  /\ \A u \in Threads, i \in Idx : Holds(u, i)' => plan[u][i].info # p
               /\ \A y \in Key : file_to_master'[y] # p
    <3>1. HeldRefs(p) = {<<t, j>>} /\ MappedRefs(p) = {}
      BY <1>1, <1>p, <2>1, <2>2, <2>7, OnlyHolder DEF IsLastRef, RefInv, Has, Holds
    <3>2. MappedRefs(p)' = {} /\ HeldRefs(p)' = {}
      BY <2>3, <2>5, <3>1
    <3>3. ASSUME NEW u \in Threads, NEW i \in Idx, Holds(u, i)', plan[u][i].info = p
          PROVE  FALSE
      <4>1. (HoldsRef(u, i) /\ plan[u][i].info = p)'
        BY <1>0, <3>3 DEF Holds
      <4>2. <<u, i>> \in HeldRefs(p)'
        BY <4>1 DEF HeldRefs
      <4> QED  BY <3>2, <4>2
    <3> QED  BY <3>2, <3>3 DEF MappedRefs
  <2>8. \A i \in Idx : Holds(t, i)' => KeepsEntry(t, i)
    <3>1. ~Holds(t, j)'
      BY <1>1, <1>3, <1>6 DEF Holds, IsHit, IsMiss
    <3> QED  BY <1>4, <3>1
  <2>9. \A y \in Key : LET q == file_to_master'[y]
                       IN q # NULL => q \in heap /\ Published(q)
    BY <1>0 DEF RefInv, TablesOK
  <2>10. EntriesOK' /\ TablesOK'
    BY <2>2, <2>7, <2>8, <2>9, DropStep DEF RefInv
  <2> QED  BY <2>6, <2>10 DEF Accounts
<1> QED  BY <1>5, <1>6

LEMMA RbMissAccounts ==
    ASSUME RefInv, RefcountsFit, NEW t \in Threads, \A u \in Threads \ {t} : SameFrame(u),
           RbMiss(t), ShapeOK'
    PROVE  Accounts'
<1>j. PICK j : j = k[t]
  OBVIOUS
<1>p. PICK p : p = plan[t][j].info
  OBVIOUS
<1>1. pc[t] = "rb_miss" /\ j < N(t) /\ j \in Idx /\ j \in Nat
  BY <1>j, IterFacts DEF RbMiss, RefInv, WritePCs, Idx
<1>0. /\ pc' = pc /\ k'[t] = j + 1 /\ req' = req /\ plan' = plan
      /\ hash_to_master' = hash_to_master /\ file_to_master' = file_to_master /\ info' = info
      /\ \/ IsMiss(t, j) /\ heap' = heap \ {p}
         \/ ~IsMiss(t, j) /\ heap' = heap
  BY <1>j, <1>p DEF RbMiss, NextIter, SetK, indexVars, frameVars, RefInv, TypeInv, TypeOK,
     ControlType
<1>3. \A i \in Idx : /\ HoldsRef(t, i) <=> IsMiss(t, i) /\ i >= j
                     /\ HoldsRef(t, i)' <=> IsMiss(t, i) /\ i >= j /\ i # j
  BY <1>0, <1>1, <1>j DEF HoldsRef, Idx, IsMiss
<1>4. \A i \in Idx : KeepsEntry(t, i) \/ (i = j /\ IsMiss(t, j))
  BY <1>0, <1>1, <1>3 DEF KeepsEntry, Holds, Planned, OwnsPending, IsMiss, HashAt, Payload
<1>5. CASE ~IsMiss(t, j)
  <2>1. SameIndex
    BY <1>0, <1>5 DEF SameIndex
  <2> QED  BY <1>4, <1>5, <2>1, QuietStep DEF RefInv, Accounts
<1>6. CASE IsMiss(t, j)
  <2>1. OwnsPending(t, j)
    BY <1>1, <1>3, <1>6 DEF OwnsPending
  <2>2. /\ p \in heap /\ MappedRefs(p) = {} /\ \A h \in Hashes : hash_to_master[h] # p
        /\ \A u \in Threads, i \in Idx :
               ~(u = t /\ i = j) /\ Holds(u, i) => plan[u][i].info # p
    BY <1>1, <1>p, <2>1, PrivateEntry
  <2>3. \A q : MappedRefs(q)' = MappedRefs(q)
    BY <1>0 DEF MappedRefs
  <2>4. ASSUME NEW q, q # p PROVE HeldRefs(q)' = HeldRefs(q)
    <3>1. \A i \in Idx : Has(t, i, q)' <=> Has(t, i, q)
      BY <1>0, <1>3, <1>p, <2>4 DEF Has
    <3> QED  BY <3>1, HeldSame
  <2>5. RefcountExact'
    BY <1>0, <1>6, <2>3, <2>4 DEF RefInv, RefcountExact
  <2>6. TablesOK'
    <3>1. \A x \in Key : file_to_master[x] # p
      BY <2>2 DEF MappedRefs
    <3> QED  BY <1>0, <1>6, <2>2, <3>1 DEF RefInv, TablesOK, Published
  <2>7. ASSUME NEW u \in Threads, NEW i \in Idx, Holds(u, i)' PROVE EntryOK(u, i)'
    <3>1. ~(u = t /\ i = j)
      BY <1>3, <2>7 DEF Holds
    <3>2. KeepsEntry(u, i)
      BY <1>4, <3>1, SameFrameKeeps
    <3>3. EntryOK(u, i) /\ plan[u][i].info # p
      BY <2>2, <2>7, <3>1, <3>2 DEF KeepsEntry, RefInv, EntriesOK
    <3> QED  BY <1>0, <1>6, <2>7, <3>2, <3>3 DEF KeepsEntry, EntryOK, Published
  <2> QED  BY <2>5, <2>6, <2>7 DEF Accounts, EntriesOK
<1> QED  BY <1>5, <1>6

-----------------------------------------------------------------------------
(* The invariant is preserved                                              *)

\* What pass 1 found by hash is still there when it increments: nobody changes the
\* tables under the read lock, and the batch has no equal block planned before.
LEMMA HitsStep ==
    ASSUME RefInv, DistinctBatches, NEW t \in Threads, Dispatch(t) \/ Step(t)
    PROVE  HitsOK'
<1> DEFINE Hit(u) == pc[u] = "w_hit" => plan[u][k[u]].info = hash_to_master[HashAt(u, k[u])]
<1>1. ASSUME NEW u \in Threads, u # t PROVE Hit(u)'
  <2>1. SameFrame(u) /\ Hit(u)
    BY <1>1, OthersUnchanged DEF RefInv, TypeInv, HitsOK
  <2>2. pc[u] = "w_hit" => hash_to_master' = hash_to_master
    <3>1. pc[u] = "w_hit" => readers # {}
      BY DEF RefInv, LockDiscipline, ReadLocked
    <3> QED  BY <3>1, SnapshotStep DEF RefInv, indexVars
  <2> QED  BY <2>1, <2>2 DEF SameFrame, HashAt, Payload
<1>2. ASSUME pc'[t] = "w_hit" PROVE PlanHit(t)
  <2>a. pc \in [Threads -> PCs]
    BY DEF RefInv, TypeInv, TypeOK, ControlType
  <2> USE <1>2, <2>a DEF Goto, NextIter, frameVars
  <2>1. CASE Dispatch(t)
    BY <2>1, EntryRange DEF Dispatch
  <2>2. CASE PlanLock(t) \/ CountHit(t) \/ PlanMiss(t) \/ PlanUnlock(t)
    BY <2>2 DEF PlanLock, CountHit, PlanMiss, PlanUnlock
  <2>3. CASE Drain(t) \/ AppendSlots(t) \/ FlushRun(t) \/ FlushFail(t) \/ FlushDone(t)
    BY SMTT(30), <2>3 DEF Drain, AppendSlots, FlushRun, FlushRunAt, FlushFail, FlushFailAt, FlushDone
  <2>4. CASE WriteLock(t) \/ PublishSkip(t) \/ PublishOurs(t) \/ PublishDone(t)
    BY <2>4 DEF WriteLock, PublishSkip, PublishOurs, PublishDone
  <2>10. CASE UseWinner(t)
    BY <2>10 DEF UseWinner
  <2>5. CASE MapBlock(t) \/ Commit(t) \/ ReleaseAfterWrite(t) \/ ReleaseAndGo(t)
    BY <2>5 DEF MapBlock, Commit, ReleaseAfterWrite, ReleaseAndGo, Return
  <2>6. CASE RbHit(t) \/ RbUnlock(t) \/ RbMutex(t) \/ RbMiss(t) \/ RbDone(t)
    BY <2>6 DEF RbHit, RbUnlock, RbMutex, RbMiss, RbDone, Return
  <2>7. CASE UnlinkReadSize(t) \/ TruncateReadSize(t) \/ RemoveBlock(t) \/ RemoveUnlock(t)
    BY <2>7 DEF UnlinkReadSize, TruncateReadSize, BeginRemoval, RemoveBlock, RemoveUnlock, Return
  <2>8. CASE UnlinkDropSize(t) \/ UnlinkBackend(t) \/ TruncateSetSize(t) \/ Create(t)
    BY <2>8 DEF UnlinkDropSize, UnlinkBackend, TruncateSetSize, Create, Return
  <2>9. CASE ReadLookup(t) \/ ReadBlock(t) \/ ReadReturn(t)
    BY <2>9 DEF ReadLookup, ReadBlock, ReadReturn, Return
  <2> QED
    BY <2>1, <2>2, <2>3, <2>4, <2>5, <2>6, <2>7, <2>8, <2>9, <2>10 DEF Step
<1>3. ASSUME PlanHit(t) PROVE Hit(t)'
  <2>j. PICK j : j = k[t]
    OBVIOUS
  <2>h. PICK h : h = HashAt(t, j)
    OBVIOUS
  <2>1. pc[t] = "w_plan" /\ j < N(t) /\ j \in Idx /\ j \in Nat /\ h \in Hashes
    BY <1>3, <2>j, <2>h, IterFacts DEF PlanHit, RefInv, WritePCs, Idx
  <2>2. PICK p \in Existing(t, h) :
            plan' = [plan EXCEPT ![t][j] = [kind |-> "HIT", master_blk |-> NULL, info |-> p]]
    BY <1>3, <2>j, <2>h DEF PlanHit
  <2>3. k' = k /\ req' = req /\ hash_to_master' = hash_to_master
    BY <1>3 DEF PlanHit, dataVars, indexVars
  <2>4. Pending(t, h) = {}
    <3>1. ASSUME NEW i \in Idx, IsMiss(t, i), info[plan[t][i].info].hash = h
          PROVE  FALSE
      <4>1. PlanEnd(t) = j
        BY <2>j, <2>1 DEF PlanEnd, PlannedPCs, WritePCs
      <4>2. i < j
        BY <2>1, <3>1, <4>1 DEF RefInv, ShapeOK, IsMiss, NoEntry
      <4>3. EntryOK(t, i)
        BY <2>1, <3>1 DEF RefInv, EntriesOK, Holds, HoldsRef, Planned, IsMiss
      <4>4. HashAt(t, i) = HashAt(t, j)
        BY <2>h, <3>1, <4>3 DEF EntryOK
      <4>5. req[t] \in Requests /\ req[t].op = "write" /\ N(t) \in Nat
        BY <2>1, RequestFacts, BoundsAssumption DEF RefInv, TypeInv, FramesOK, FrameOK,
           WritePCs, N
      <4>6. i \in 0 .. NumBlocks(req[t]) - 1 /\ j \in 0 .. NumBlocks(req[t]) - 1
        BY <2>1, <4>2, <4>5 DEF N, Idx
      <4>7. i = j
        BY <4>4, <4>5, <4>6 DEF DistinctBatches, HashAt, Payload
      <4> QED  BY <2>1, <4>2, <4>7
    <3> QED  BY <3>1 DEF Pending
  <2>5. p = hash_to_master[h]
    BY <2>2, <2>4 DEF Existing
  <2>6. plan'[t][j].info = p
    BY <2>1, <2>2 DEF RefInv, TypeInv, TypeOK, WorkType
  <2> QED  BY <2>j, <2>h, <2>3, <2>5, <2>6 DEF HashAt, Payload
<1>4. Hit(t)'
  BY <1>2, <1>3
<1> QED  BY <1>1, <1>4 DEF HitsOK

LEMMA AccountsStep ==
    ASSUME RefInv, RefcountsFit, NEW t \in Threads, Dispatch(t) \/ Step(t)
    PROVE  ShapeOK' /\ LoopsOK' /\ Accounts'
<1>1. ShapeOK' /\ LoopsOK'
  BY ShapeStep, LoopsStep DEF RefInv
<1>2. \A u \in Threads \ {t} : SameFrame(u)
  BY OthersUnchanged DEF RefInv, TypeInv
<1>3. CASE Dispatch(t) \/ QuietWrite(t) \/ QuietOther(t)
  <2>1. SameIndex /\ \A i \in Idx : KeepsEntry(t, i)
    BY <1>1, <1>3, QuietIndex, QuietEntries DEF RefInv
  <2> QED  BY <1>1, <1>2, <2>1, QuietStep DEF RefInv, Accounts
<1>4. CASE CountHit(t) \/ PlanMiss(t) \/ PublishOurs(t) \/ UseWinner(t) \/ MapBlock(t)
  BY <1>1, <1>2, <1>4, CountHitAccounts, PlanMissAccounts, PublishOursAccounts,
     UseWinnerAccounts, MapBlockAccounts
<1>5. CASE RbHit(t) \/ RbMiss(t) \/ RemoveBlock(t)
  BY <1>1, <1>2, <1>5, RbHitAccounts, RbMissAccounts, RemoveBlockAccounts
<1> QED  BY <1>1, <1>3, <1>4, <1>5 DEF Step, QuietWrite, QuietOther

LEMMA RefInit == ASSUME Fresh, RefcountsFit PROVE RefInv
<1>1. TypeInv /\ LockDiscipline
  BY TypeInvInit, LockInit
<1>2. \A t \in Threads, i \in Idx : plan[t][i] = NoEntry /\ pc[t] = "idle"
  BY DEF Fresh, FreshInit, NoPlan
<1>3. ShapeOK /\ LoopsOK
  BY <1>2 DEF ShapeOK, PlanEnd, PlannedPCs, WritePCs, LoopsOK, Fresh, FreshInit, Idx
<1>4. EntriesOK /\ HitsOK
  BY <1>2 DEF EntriesOK, Holds, Planned, NoEntry, HitsOK, Fresh, FreshInit
<1>5. TablesOK /\ RefcountExact
  BY DEF TablesOK, RefcountExact, Fresh, FreshInit
<1> QED  BY <1>1, <1>3, <1>4, <1>5 DEF RefInv

LEMMA RefStep ==
    ASSUME RefcountsFit, DistinctBatches, RefInv, [Next]_vars
    PROVE  RefInv'
<1>1. CASE UNCHANGED vars
  <2>1. TypeInv'
    BY TypeInvStep DEF RefInv
  <2>2. /\ pc' = pc /\ req' = req /\ k' = k /\ plan' = plan /\ heap' = heap /\ info' = info
        /\ hash_to_master' = hash_to_master /\ file_to_master' = file_to_master
        /\ UNCHANGED lockVars
    BY SMTT(30), <1>1 DEF vars, dataVars, indexVars, heapVars, frameVars
  <2>3. LockDiscipline'
    BY SMTT(30), <2>2 DEF RefInv, LockDiscipline, lockVars
  <2>4. ShapeOK' /\ LoopsOK'
    BY SMTT(30), <2>2 DEF RefInv, ShapeOK, LoopsOK, PlanEnd, Planned, N
  <2>5. EntriesOK' /\ HitsOK'
    BY <2>2 DEF RefInv, EntriesOK, EntryOK, HitsOK, Planned, N, Holds, HoldsRef, OwnsPending,
       IsMiss, HashAt, Payload, Published
  <2>6. TablesOK'
    BY <2>2 DEF RefInv, TablesOK, Published
  <2>7. RefcountExact'
    BY <2>2 DEF RefInv, RefcountExact, HoldsRef, OwnsPending, IsMiss, MappedRefs, HeldRefs, N
  <2> QED  BY <2>1, <2>3, <2>4, <2>5, <2>6, <2>7 DEF RefInv
<1>2. ASSUME NEW t \in Threads, Dispatch(t) \/ Step(t) PROVE RefInv'
  <2>1. TypeInv'
    BY TypeInvStep DEF RefInv
  <2>2. LockDiscipline'
    BY <1>2, LockStep DEF RefInv, TypeInv, TypeOK, ControlType, LockType
  <2>3. HitsOK' /\ ShapeOK' /\ LoopsOK' /\ Accounts'
    BY <1>2, HitsStep, AccountsStep
  <2> QED  BY <2>1, <2>2, <2>3 DEF RefInv, Accounts
<1> QED  BY <1>1, <1>2 DEF Next, Quiet

\* The hash of an allocated MasterInfo never changes.
LEMMA HashKept ==
    ASSUME RefInv, NEW t \in Threads, Dispatch(t) \/ Step(t), NEW p \in heap
    PROVE  info'[p].hash = info[p].hash
<1>a. p \in Infos /\ info \in [Infos -> Info]
  BY SMTT(30), HeapFacts DEF RefInv
<1>1. CASE Dispatch(t) \/ QuietWrite(t) \/ QuietOther(t)
  BY SMTT(30), <1>1, <1>a, QuietIndex DEF RefInv, SameIndex
<1>2. CASE CountHit(t) \/ UseWinner(t)
  BY SMTT(30), <1>2, <1>a DEF CountHit, UseWinner, Info
<1>3. CASE PlanMiss(t)
  BY SMTT(30), <1>3, <1>a DEF PlanMiss
<1>4. CASE PublishOurs(t) \/ RbMiss(t)
  BY <1>4 DEF PublishOurs, RbMiss, heapVars
<1>5. CASE MapBlock(t) \/ RemoveBlock(t) \/ RbHit(t)
  <2>1. info' = info \/ \E q : DropRef(t, q)
    BY <1>5 DEF MapBlock, RemoveBlock, RbHit, heapVars
  <2> QED  BY <1>a, <2>1, DropRefHash DEF RefInv, TypeInv, TypeOK
<1> QED  BY SMTT(30), <1>1, <1>2, <1>3, <1>4, <1>5 DEF Step, QuietWrite, QuietOther

-----------------------------------------------------------------------------
(* The theorems *)

\* The accounting holds in every reachable state.
LEMMA RefAlways ==
    ASSUME RefcountsFit, DistinctBatches
    PROVE  Spec => []RefInv
<1>1. Init => RefInv
  BY InitFresh, RefInit
<1>2. RefInv /\ [Next]_vars => RefInv'
  BY RefStep
<1> QED  BY <1>1, <1>2, PTL DEF Spec

\* refcount is the number of references, whatever the interleaving of look-ups,
\* double checks, overwrites, removals and rollbacks (dedup.c:240, 417, 523, 614, 644).
THEOREM RefcountsExact ==
    ASSUME RefcountsFit, DistinctBatches
    PROVE  Spec => []RefcountExact
<1>1. RefInv => RefcountExact
  BY DEF RefInv
<1> QED  BY RefAlways, <1>1, PTL

LEMMA NothingReachesFreed == RefInv => NoDanglingInfo
<1> SUFFICES ASSUME RefInv PROVE NoDanglingInfo
  OBVIOUS
<1>1. ASSUME NEW t \in Threads, NEW i \in Idx, HoldsRef(t, i)
      PROVE  plan[t][i].info \in heap \cup {NULL}
  <2>1. CASE Planned(t, i)
    BY <1>1, <2>1 DEF RefInv, EntriesOK, EntryOK, Holds
  <2>2. CASE ~Planned(t, i)
    BY <2>2 DEF RefInv, ShapeOK, NoEntry
  <2> QED  BY <2>1, <2>2
<1> QED  BY <1>1 DEF NoDanglingInfo, RefInv, TablesOK

\* A MasterInfo is freed only when no table and no running handler can reach it.
THEOREM NothingDangles ==
    ASSUME RefcountsFit, DistinctBatches
    PROVE  Spec => []NoDanglingInfo
<1> QED  BY RefAlways, NothingReachesFreed, PTL

\* Every mapped block is found by its hash, so equal blocks share one MasterInfo.
THEOREM MappedBlocksShared ==
    ASSUME RefcountsFit, DistinctBatches
    PROVE  Spec => []MappedIsPublished
<1>1. RefInv => MappedIsPublished
  BY DEF RefInv, TablesOK, MappedIsPublished
<1> QED  BY RefAlways, <1>1, PTL

-----------------------------------------------------------------------------
(* The owners of slots: the inductive invariant *)

InFree(s)     == s \in Range(free_block_list)
InRel(u, s)   == s \in Range(rel[u])
Pub(p, s)     == p \in heap /\ Published(p) /\ info[p].masterBlockIndex = s
Pend(u, i, s) == OwnsPending(u, i) /\ plan[u][i].master_blk = s

Kinds   == {"free", "rel", "pub", "pend"}
Holders == Threads \cup Infos \cup {NULL}
Places  == Idx \cup {0}

\* The owner of a slot is the free list, the release list of thread x, the
\* published MasterInfo x, or the pending plan entry i of thread x.
Owns(c, x, i, s) ==
    \/ c = "free" /\ x = NULL /\ i = 0 /\ InFree(s)
    \/ c = "rel" /\ x \in Threads /\ i = 0 /\ InRel(x, s)
    \/ c = "pub" /\ x \in Infos /\ i = 0 /\ Pub(x, s)
    \/ c = "pend" /\ x \in Threads /\ i \in Idx /\ Pend(x, i, s)

OwnedOnce(s) ==
    \E c \in Kinds, x \in Holders, i \in Places :
        \A d \in Kinds, y \in Holders, j \in Places :
            Owns(d, y, j, s) <=> d = c /\ y = x /\ j = i

Unowned(s) == \A c \in Kinds, x \in Holders, i \in Places : ~Owns(c, x, i, s)

\* Every slot handed out so far has one owner, the others have none.
OwnersOK == \A s \in Slots : IF s < nextBlockIndex THEN OwnedOnce(s) ELSE Unowned(s)

\* No list names a slot twice.
NoRepeats(q) == \A i, j \in DOMAIN q : q[i] = q[j] => i = j
ListsOK == NoRepeats(free_block_list) /\ \A u \in Threads : NoRepeats(rel[u])

\* Slots wait for their release only between the drop of a reference and the
\* release at the end of the handler.
ReleasingPCs == {"w_publish", "w_map", "w_release", "rb_hits", "rb_release",
                 "rm_loop", "rm_release"}
ReleasesOK == \A u \in Threads : pc[u] \in ReleasingPCs \/ rel[u] = <<>>

\* The plan and the pending MasterInfo name the same slot.
PendingOK ==
    \A u \in Threads, i \in Idx : OwnsPending(u, i) /\ pc[u] \in SlottedPCs =>
        info[plan[u][i].info].masterBlockIndex = plan[u][i].master_blk

SlotInv == RefInv /\ OwnersOK /\ ListsOK /\ ReleasesOK /\ PendingOK

-----------------------------------------------------------------------------
(* Lists of slots                                                          *)

LEMMA ConsFacts ==
    ASSUME NEW q \in Seq(Slots), NEW s \in Slots
    PROVE  /\ Range(<<s>> \o q) = {s} \cup Range(q)
           /\ NoRepeats(q) /\ s \notin Range(q) => NoRepeats(<<s>> \o q)
<1>1. <<s>> \in Seq(Slots) /\ Range(<<s>>) = {s}
  BY DEF Range
<1>2. Range(<<s>> \o q) = {s} \cup Range(q)
  <2>1. \A e \in Seq(Slots) : Range(e \o q) = Range(e) \cup Range(q)
    BY RangeConcatenation
  <2> QED  BY <1>1, <2>1
<1>3. ASSUME NoRepeats(q), s \notin Range(q) PROVE NoRepeats(<<s>> \o q)
  <2>1. /\ <<s>> \o q \in Seq(Slots) /\ Len(<<s>> \o q) = Len(q) + 1
        /\ (<<s>> \o q)[1] = s
        /\ \A i \in 1 .. Len(q) : (<<s>> \o q)[i + 1] = q[i]
    OBVIOUS
  <2>2. \A i \in 1 .. Len(q) : q[i] # s
    BY <1>3 DEF Range
  <2>3. ASSUME NEW i \in 1 .. Len(q) + 1, NEW j \in 1 .. Len(q) + 1,
               (<<s>> \o q)[i] = (<<s>> \o q)[j]
        PROVE  i = j
    <3>1. CASE i = 1 \/ j = 1
      <4>1. ASSUME NEW m \in 1 .. Len(q) + 1, m # 1 PROVE (<<s>> \o q)[m] # s
        <5>1. m - 1 \in 1 .. Len(q) /\ (m - 1) + 1 = m
          BY <4>1
        <5>2. (<<s>> \o q)[(m - 1) + 1] = q[m - 1]
          BY <2>1, <5>1
        <5> QED  BY <2>2, <5>1, <5>2
      <4> QED  BY <2>1, <2>3, <3>1, <4>1
    <3>2. CASE i # 1 /\ j # 1
      <4>1. i - 1 \in 1 .. Len(q) /\ j - 1 \in 1 .. Len(q)
        BY <3>2
      <4>2. (<<s>> \o q)[(i - 1) + 1] = q[i - 1] /\ (<<s>> \o q)[(j - 1) + 1] = q[j - 1]
        BY <2>1, <4>1
      <4>3. (i - 1) + 1 = i /\ (j - 1) + 1 = j
        OBVIOUS
      <4>4. q[i - 1] = q[j - 1]
        BY <2>3, <4>2, <4>3
      <4>5. i - 1 = j - 1
        BY <1>3, <4>1, <4>4 DEF NoRepeats
      <4> QED  BY <4>5
    <3> QED  BY <3>1, <3>2
  <2>4. DOMAIN (<<s>> \o q) = 1 .. Len(q) + 1
    BY <2>1
  <2> HIDE DEF NoRepeats
  <2> QED  BY <2>3, <2>4 DEF NoRepeats
<1> QED  BY <1>2, <1>3

LEMMA ConcatFacts ==
    ASSUME NEW q \in Seq(Slots), NEW r \in Seq(Slots)
    PROVE  /\ Range(q \o r) = Range(q) \cup Range(r)
           /\ NoRepeats(q) /\ NoRepeats(r) /\ (\A s \in Slots : ~(s \in Range(q) /\ s \in Range(r)))
                  => NoRepeats(q \o r)
<1>1. Range(q \o r) = Range(q) \cup Range(r)
  BY RangeConcatenation
<1>2. ASSUME NoRepeats(q), NoRepeats(r), \A s \in Slots : ~(s \in Range(q) /\ s \in Range(r))
      PROVE  NoRepeats(q \o r)
  <2>1. /\ q \o r \in Seq(Slots) /\ Len(q \o r) = Len(q) + Len(r)
        /\ Len(q) \in Nat /\ Len(r) \in Nat
        /\ \A i \in 1 .. Len(q) + Len(r) :
               (q \o r)[i] = IF i <= Len(q) THEN q[i] ELSE r[i - Len(q)]
    BY ConcatProperties
  <2>2. \A i \in 1 .. Len(q), j \in 1 .. Len(r) : q[i] # r[j]
    BY <1>2 DEF Range
  <2>3. ASSUME NEW i \in 1 .. Len(q) + Len(r), NEW j \in 1 .. Len(q) + Len(r),
               (q \o r)[i] = (q \o r)[j]
        PROVE  i = j
    <3>1. \A m \in 1 .. Len(q) + Len(r) : IF m <= Len(q) THEN m \in 1 .. Len(q)
                                          ELSE m - Len(q) \in 1 .. Len(r)
      BY <2>1
    <3>2. CASE i <= Len(q) /\ j <= Len(q)
      BY <1>2, <2>1, <2>3, <3>1, <3>2 DEF NoRepeats
    <3>3. CASE i <= Len(q) /\ ~(j <= Len(q))
      BY <2>1, <2>2, <2>3, <3>1, <3>3
    <3>4. CASE ~(i <= Len(q)) /\ j <= Len(q)
      BY <2>1, <2>2, <2>3, <3>1, <3>4
    <3>5. CASE ~(i <= Len(q)) /\ ~(j <= Len(q))
      <4>1. r[i - Len(q)] = r[j - Len(q)]
        BY <2>1, <2>3, <3>5
      <4>2. i - Len(q) = j - Len(q)
        BY <1>2, <3>1, <3>5, <4>1 DEF NoRepeats
      <4> QED  BY <2>1, <4>2
    <3> QED  BY <3>2, <3>3, <3>4, <3>5
  <2> QED  BY <2>1, <2>3 DEF NoRepeats
<1> QED  BY <1>1, <1>2

LEMMA TailElements ==
    ASSUME NEW q \in Seq(Slots), NEW n \in Nat, n <= Len(q), NEW r, r = SubSeq(q, n + 1, Len(q))
    PROVE  /\ DOMAIN r = 1 .. Len(q) - n /\ Len(q) \in Nat /\ DOMAIN q = 1 .. Len(q)
           /\ \A i \in 1 .. Len(q) - n : r[i] = q[n + i]
<1>1. n + 1 \in 1 .. Len(q) + 1
  OBVIOUS
<1>2. \A i \in 1 .. Len(q) - (n + 1) + 1 : r[i] = q[n + 1 + i - 1]
  BY <1>1, SubSeqProperties
<1>3. r \in Seq(Slots) /\ Len(r) = Len(q) - n
  BY <1>1, SubSeqProperties
<1> QED  BY <1>2, <1>3

\* What is left of a list is part of it.
LEMMA TailRange ==
    ASSUME NEW q \in Seq(Slots), NEW n \in Nat, n <= Len(q)
    PROVE  Range(SubSeq(q, n + 1, Len(q))) \subseteq Range(q)
<1>r. PICK r : r = SubSeq(q, n + 1, Len(q))
  OBVIOUS
<1>1. /\ DOMAIN r = 1 .. Len(q) - n /\ Len(q) \in Nat /\ DOMAIN q = 1 .. Len(q)
      /\ \A i \in 1 .. Len(q) - n : r[i] = q[n + i]
  BY <1>r, TailElements
<1>2. \A i \in DOMAIN r : n + i \in DOMAIN q /\ r[i] = q[n + i]
  BY <1>1
<1> QED  BY <1>r, <1>2 DEF Range

LEMMA TailFacts ==
    ASSUME NEW q \in Seq(Slots), NEW n \in Nat, n <= Len(q), NoRepeats(q)
    PROVE  /\ NoRepeats(SubSeq(q, n + 1, Len(q)))
           /\ \A s : s \in Range(SubSeq(q, n + 1, Len(q))) <=> s \in Range(q) /\ \A j \in 1 .. n : q[j] # s
<1>r. PICK r : r = SubSeq(q, n + 1, Len(q))
  OBVIOUS
<1>1. /\ DOMAIN r = 1 .. Len(q) - n /\ Len(q) \in Nat /\ DOMAIN q = 1 .. Len(q)
      /\ \A i \in 1 .. Len(q) - n : r[i] = q[n + i]
  BY <1>r, TailElements
<1>2. NoRepeats(r)
  <2>1. ASSUME NEW i \in 1 .. Len(q) - n, NEW j \in 1 .. Len(q) - n, r[i] = r[j]
        PROVE  i = j
    <3>1. n + i \in 1 .. Len(q) /\ n + j \in 1 .. Len(q) /\ q[n + i] = q[n + j]
      BY <1>1, <2>1
    <3>2. n + i = n + j
      BY <1>1, <3>1 DEF NoRepeats
    <3> QED  BY <3>2
  <2> QED  BY <1>1, <2>1 DEF NoRepeats
<1>3. ASSUME NEW s, s \in Range(r) PROVE s \in Range(q) /\ \A j \in 1 .. n : q[j] # s
  <2>1. PICK i \in 1 .. Len(q) - n : r[i] = s
    BY <1>1, <1>3 DEF Range
  <2>2. n + i \in 1 .. Len(q) /\ q[n + i] = s
    BY <1>1, <2>1
  <2>3. \A j \in 1 .. n : j \in 1 .. Len(q) /\ j # n + i
    BY <1>1, <2>1
  <2> QED  BY <2>2, <2>3 DEF Range, NoRepeats
<1>4. ASSUME NEW s, s \in Range(q), \A j \in 1 .. n : q[j] # s PROVE s \in Range(r)
  <2>1. PICK i \in 1 .. Len(q) : q[i] = s
    BY <1>4 DEF Range
  <2>2. i > n
    BY <1>4, <2>1
  <2>3. i - n \in 1 .. Len(q) - n /\ n + (i - n) = i
    BY <1>1, <2>1, <2>2
  <2>4. r[i - n] = s
    BY <1>1, <2>1, <2>3
  <2> QED  BY <1>1, <2>3, <2>4 DEF Range
<1> QED  BY <1>r, <1>2, <1>3, <1>4

-----------------------------------------------------------------------------
(* Ranks: the unassigned MISSes are numbered 0, 1, 2, ... without gaps     *)

LEMMA RankFacts ==
    ASSUME NEW t \in Threads
    PROVE  /\ \A i, j \in Unassigned(t) : Rank(t, i) = Rank(t, j) => i = j
           /\ \A n \in Nat : n < Cardinality(Unassigned(t)) =>
                  \E i \in Unassigned(t) : Rank(t, i) = n
<1> DEFINE U == Unassigned(t)
           c == Cardinality(U)
           f == [i \in U |-> Rank(t, i)]
<1>1. IsFiniteSet(Idx)
  BY BoundsAssumption, FS_Interval DEF Idx
<1>2. IsFiniteSet(U) /\ c \in Nat /\ U \subseteq Idx
  BY <1>1, FS_Subset, FS_CardinalityType DEF Unassigned
<1>3. ASSUME NEW i \in U, NEW j \in U, i < j PROVE Rank(t, i) < Rank(t, j)
  <2> DEFINE A == {m \in U : m < i}
             B == {m \in U : m < j}
  <2>1. A \in SUBSET B /\ i \in B /\ i \notin A /\ B \in SUBSET U
    BY <1>2, <1>3, BoundsAssumption DEF Idx
  <2>2. Cardinality(A) = Rank(t, i) /\ Cardinality(B) = Rank(t, j)
    BY DEF Rank
  <2> HIDE DEF A, B, U
  <2>3. IsFiniteSet(B)
    BY <1>2, <2>1, FS_Subset
  <2>4. IsFiniteSet(A) /\ Cardinality(A) <= Cardinality(B) /\ (Cardinality(B) = Cardinality(A) => B = A)
    BY <2>1, <2>3, FS_Subset
  <2>5. Cardinality(A) # Cardinality(B) /\ Cardinality(A) \in Nat /\ Cardinality(B) \in Nat
    BY <2>1, <2>3, <2>4, FS_CardinalityType
  <2> QED  BY <2>2, <2>4, <2>5
<1>4. \A i \in U : Rank(t, i) \in 0 .. c - 1
  BY <1>2, UnassignedFinite
<1>5. \A i, j \in U : Rank(t, i) = Rank(t, j) => i = j
  <2>1. \A i, j \in U : i = j \/ i < j \/ j < i
    BY <1>2, BoundsAssumption DEF Idx
  <2>2. \A i \in U : Rank(t, i) \in Int
    BY <1>2, <1>4
  <2> HIDE DEF U
  <2> QED  BY <1>3, <2>1, <2>2
<1>6. f \in Injection(U, 0 .. c - 1)
  BY <1>4, <1>5 DEF Injection, IsInjective
<1> HIDE DEF f, c, U
<1>7. IsFiniteSet(0 .. c - 1) /\ Cardinality(0 .. c - 1) = c
  <2>1. 0 \in Int /\ c - 1 \in Int /\ c \in Nat
    BY <1>2
  <2>2. Cardinality(0 .. c - 1) = IF 0 > c - 1 THEN 0 ELSE (c - 1) - 0 + 1
    BY <2>1, FS_Interval
  <2>3. IsFiniteSet(0 .. c - 1)
    BY <2>1, FS_Interval
  <2> QED  BY <2>1, <2>2, <2>3
<1>8. f \in Surjection(U, 0 .. c - 1)
  BY <1>6, <1>7, FS_Injection DEF c
<1>9. ASSUME NEW n \in Nat, n < c PROVE \E i \in U : Rank(t, i) = n
  <2>1. n \in 0 .. c - 1
    BY <1>2, <1>9
  <2>2. PICK i \in U : f[i] = n
    BY <1>8, <2>1 DEF Surjection
  <2> QED  BY <2>2 DEF f
<1> QED  BY <1>5, <1>9 DEF U, c
-----------------------------------------------------------------------------
(* One owner per slot                                                      *)

\* A step that does not move slot s.
SameOwners(s) ==
    /\ InFree(s)' <=> InFree(s)
    /\ \A u \in Threads : InRel(u, s)' <=> InRel(u, s)
    /\ \A p \in Infos : Pub(p, s)' <=> Pub(p, s)
    /\ \A u \in Threads, i \in Idx : Pend(u, i, s)' <=> Pend(u, i, s)

LEMMA OwnersGrow ==
    ASSUME OwnersOK,
           \A s \in Slots :
               \/ SameOwners(s) /\ (s < nextBlockIndex' <=> s < nextBlockIndex)
               \/ s < nextBlockIndex' /\ OwnedOnce(s)'
    PROVE  OwnersOK'
<1>1. ASSUME NEW s \in Slots, SameOwners(s), s < nextBlockIndex' <=> s < nextBlockIndex
      PROVE  IF s < nextBlockIndex' THEN OwnedOnce(s)' ELSE Unowned(s)'
  <2>1. ASSUME NEW c, NEW x, NEW i PROVE Owns(c, x, i, s)' <=> Owns(c, x, i, s)
    BY <1>1 DEF SameOwners, Owns
  <2>2. CASE s < nextBlockIndex
    <3>1. OwnedOnce(s)
      BY <2>2 DEF OwnersOK
    <3>2. PICK c \in Kinds, x \in Holders, i \in Places :
              \A d \in Kinds, y \in Holders, j \in Places :
                  Owns(d, y, j, s) <=> d = c /\ y = x /\ j = i
      BY <3>1 DEF OwnedOnce
    <3>3. \A d \in Kinds, y \in Holders, j \in Places :
              Owns(d, y, j, s)' <=> d = c /\ y = x /\ j = i
      BY <2>1, <3>2
    <3> QED  BY <1>1, <2>2, <3>3 DEF OwnedOnce
  <2>3. CASE ~(s < nextBlockIndex)
    BY <1>1, <2>1, <2>3 DEF OwnersOK, Unowned
  <2> QED  BY <2>2, <2>3
<1>2. ASSUME NEW s \in Slots
      PROVE  IF s < nextBlockIndex' THEN OwnedOnce(s)' ELSE Unowned(s)'
  BY <1>1
<1> QED  BY <1>2 DEF OwnersOK

LEMMA OwnersMove ==
    ASSUME OwnersOK, nextBlockIndex' = nextBlockIndex,
           \A s \in Slots : SameOwners(s) \/ (s < nextBlockIndex /\ OwnedOnce(s)')
    PROVE  OwnersOK'
  BY OwnersGrow

\* What else is known of a slot once one of its owners is known.
LEMMA OneOwner ==
    ASSUME OwnersOK, NEW s \in Slots, NEW c \in Kinds, NEW x \in Holders, NEW i \in Places,
           Owns(c, x, i, s)
    PROVE  /\ s < nextBlockIndex
           /\ \A d \in Kinds, y \in Holders, j \in Places :
                  Owns(d, y, j, s) => d = c /\ y = x /\ j = i
  BY DEF OwnersOK, Unowned, OwnedOnce

LEMMA FreeOnly ==
    ASSUME OwnersOK, NEW s \in Slots, InFree(s)
    PROVE  /\ s < nextBlockIndex
           /\ \A u \in Threads : ~InRel(u, s)
           /\ \A p \in Infos : ~Pub(p, s)
           /\ \A u \in Threads, i \in Idx : ~Pend(u, i, s)
<1>1. Owns("free", NULL, 0, s) /\ NULL \in Holders /\ 0 \in Places
  BY DEF Owns, Holders, Places
<1>2. /\ s < nextBlockIndex
      /\ \A d \in Kinds, y \in Holders, j \in Places : Owns(d, y, j, s) => d = "free"
  BY <1>1, OneOwner DEF Kinds
<1>3. /\ \A u \in Threads : u \in Holders /\ (InRel(u, s) => Owns("rel", u, 0, s))
      /\ \A p \in Infos : p \in Holders /\ (Pub(p, s) => Owns("pub", p, 0, s))
      /\ \A u \in Threads, i \in Idx : i \in Places /\ (Pend(u, i, s) => Owns("pend", u, i, s))
  BY DEF Owns, Holders, Places
<1> QED  BY <1>1, <1>2, <1>3 DEF Kinds

LEMMA RelOnly ==
    ASSUME OwnersOK, NEW s \in Slots, NEW t \in Threads, InRel(t, s)
    PROVE  /\ s < nextBlockIndex
           /\ ~InFree(s)
           /\ \A u \in Threads : InRel(u, s) => u = t
           /\ \A p \in Infos : ~Pub(p, s)
           /\ \A u \in Threads, i \in Idx : ~Pend(u, i, s)
<1>1. Owns("rel", t, 0, s) /\ t \in Holders /\ NULL \in Holders /\ 0 \in Places
  BY DEF Owns, Holders, Places
<1>2. /\ s < nextBlockIndex
      /\ \A d \in Kinds, y \in Holders, j \in Places : Owns(d, y, j, s) => d = "rel" /\ y = t
  BY <1>1, OneOwner DEF Kinds
<1>3. /\ InFree(s) => Owns("free", NULL, 0, s)
      /\ \A u \in Threads : u \in Holders /\ (InRel(u, s) => Owns("rel", u, 0, s))
      /\ \A p \in Infos : p \in Holders /\ (Pub(p, s) => Owns("pub", p, 0, s))
      /\ \A u \in Threads, i \in Idx : i \in Places /\ (Pend(u, i, s) => Owns("pend", u, i, s))
  BY DEF Owns, Holders, Places
<1> QED  BY <1>1, <1>2, <1>3 DEF Kinds

LEMMA PubOnly ==
    ASSUME OwnersOK, NEW s \in Slots, NEW p \in Infos, Pub(p, s)
    PROVE  /\ s < nextBlockIndex
           /\ ~InFree(s)
           /\ \A u \in Threads : ~InRel(u, s)
           /\ \A q \in Infos : Pub(q, s) => q = p
           /\ \A u \in Threads, i \in Idx : ~Pend(u, i, s)
<1>1. Owns("pub", p, 0, s) /\ p \in Holders /\ NULL \in Holders /\ 0 \in Places
  BY DEF Owns, Holders, Places
<1>2. /\ s < nextBlockIndex
      /\ \A d \in Kinds, y \in Holders, j \in Places : Owns(d, y, j, s) => d = "pub" /\ y = p
  BY <1>1, OneOwner DEF Kinds
<1>3. /\ InFree(s) => Owns("free", NULL, 0, s)
      /\ \A u \in Threads : u \in Holders /\ (InRel(u, s) => Owns("rel", u, 0, s))
      /\ \A q \in Infos : q \in Holders /\ (Pub(q, s) => Owns("pub", q, 0, s))
      /\ \A u \in Threads, i \in Idx : i \in Places /\ (Pend(u, i, s) => Owns("pend", u, i, s))
  BY DEF Owns, Holders, Places
<1> QED  BY <1>1, <1>2, <1>3 DEF Kinds

LEMMA PendOnly ==
    ASSUME OwnersOK, NEW s \in Slots, NEW t \in Threads, NEW j \in Idx, Pend(t, j, s)
    PROVE  /\ s < nextBlockIndex
           /\ ~InFree(s)
           /\ \A u \in Threads : ~InRel(u, s)
           /\ \A p \in Infos : ~Pub(p, s)
           /\ \A u \in Threads, i \in Idx : Pend(u, i, s) => u = t /\ i = j
<1>1. /\ Owns("pend", t, j, s) /\ t \in Holders /\ NULL \in Holders
      /\ 0 \in Places /\ j \in Places
  BY DEF Owns, Holders, Places
<1>2. /\ s < nextBlockIndex
      /\ \A d \in Kinds, y \in Holders, i \in Places :
             Owns(d, y, i, s) => d = "pend" /\ y = t /\ i = j
  BY <1>1, OneOwner DEF Kinds
<1>3. /\ InFree(s) => Owns("free", NULL, 0, s)
      /\ \A u \in Threads : u \in Holders /\ (InRel(u, s) => Owns("rel", u, 0, s))
      /\ \A p \in Infos : p \in Holders /\ (Pub(p, s) => Owns("pub", p, 0, s))
      /\ \A u \in Threads, i \in Idx : i \in Places /\ (Pend(u, i, s) => Owns("pend", u, i, s))
  BY DEF Owns, Holders, Places
<1> QED  BY <1>1, <1>2, <1>3 DEF Kinds

\* The new owner of a slot that a step moves.
LEMMA NowFree ==
    ASSUME NEW s, InFree(s)', \A u \in Threads : ~InRel(u, s)', \A p \in Infos : ~Pub(p, s)',
           \A u \in Threads, i \in Idx : ~Pend(u, i, s)'
    PROVE  OwnedOnce(s)'
<1>1. \A d \in Kinds, y \in Holders, j \in Places :
          Owns(d, y, j, s)' <=> d = "free" /\ y = NULL /\ j = 0
  BY DEF Owns, Kinds
<1>2. "free" \in Kinds /\ NULL \in Holders /\ 0 \in Places
  BY DEF Kinds, Holders, Places
<1> QED  BY <1>1, <1>2 DEF OwnedOnce

LEMMA NowRel ==
    ASSUME NEW s, NEW t \in Threads, ~InFree(s)', \A u \in Threads : InRel(u, s)' <=> u = t,
           \A p \in Infos : ~Pub(p, s)', \A u \in Threads, i \in Idx : ~Pend(u, i, s)'
    PROVE  OwnedOnce(s)'
<1>1. \A d \in Kinds, y \in Holders, j \in Places :
          Owns(d, y, j, s)' <=> d = "rel" /\ y = t /\ j = 0
  BY DEF Owns, Kinds
<1>2. "rel" \in Kinds /\ t \in Holders /\ 0 \in Places
  BY DEF Kinds, Holders, Places
<1> QED  BY <1>1, <1>2 DEF OwnedOnce

LEMMA NowPub ==
    ASSUME NEW s, NEW p \in Infos, ~InFree(s)', \A u \in Threads : ~InRel(u, s)',
           \A q \in Infos : Pub(q, s)' <=> q = p, \A u \in Threads, i \in Idx : ~Pend(u, i, s)'
    PROVE  OwnedOnce(s)'
<1>1. \A d \in Kinds, y \in Holders, j \in Places :
          Owns(d, y, j, s)' <=> d = "pub" /\ y = p /\ j = 0
  BY DEF Owns, Kinds
<1>2. "pub" \in Kinds /\ p \in Holders /\ 0 \in Places
  BY DEF Kinds, Holders, Places
<1> QED  BY <1>1, <1>2 DEF OwnedOnce

LEMMA NowPend ==
    ASSUME NEW s, NEW t \in Threads, NEW j \in Idx, ~InFree(s)',
           \A u \in Threads : ~InRel(u, s)', \A p \in Infos : ~Pub(p, s)',
           \A u \in Threads, i \in Idx : Pend(u, i, s)' <=> u = t /\ i = j
    PROVE  OwnedOnce(s)'
<1>1. \A d \in Kinds, y \in Holders, i \in Places :
          Owns(d, y, i, s)' <=> d = "pend" /\ y = t /\ i = j
  BY DEF Owns, Kinds
<1>2. "pend" \in Kinds /\ t \in Holders /\ j \in Places
  BY DEF Kinds, Holders, Places
<1> QED  BY <1>1, <1>2 DEF OwnedOnce
-----------------------------------------------------------------------------
(* Steps that move one slot                                                *)

LEMMA SlotTypes ==
    ASSUME TypeInv
    PROVE  /\ free_block_list \in Seq(Slots) /\ nextBlockIndex \in Nat
           /\ rel \in [Threads -> Seq(Slots)]
           /\ info \in [Infos -> Info]
           /\ \A p \in Infos : info[p].masterBlockIndex \in Slots
           /\ plan \in [Threads -> [Idx -> PlanEntry]]
           /\ NULL \notin Slots
  BY BoundsAssumption, NullAssumption
     DEF TypeInv, TypeOK, AllocType, WorkType, HeapType, Info, Slots

LEMMA OtherPend ==
    ASSUME NEW u, SameFrame(u), NEW i, NEW s
    PROVE  Pend(u, i, s)' <=> Pend(u, i, s)
  BY DEF SameFrame, Pend, OwnsPending, HoldsRef, IsMiss

\* The last reference goes: the slot of the MasterInfo waits for its release.
LEMMA DropOwners ==
    ASSUME RefInv, OwnersOK, ListsOK, NEW t \in Threads, NEW p \in heap, Published(p),
           DropRef(t, p), free_block_list' = free_block_list, nextBlockIndex' = nextBlockIndex,
           \A u \in Threads, i \in Idx, s \in Slots : Pend(u, i, s)' <=> Pend(u, i, s)
    PROVE  OwnersOK' /\ ListsOK'
<1>s. PICK s0 : s0 = info[p].masterBlockIndex
  OBVIOUS
<1>a. p \in Infos /\ s0 \in Slots /\ Pub(p, s0)
  BY <1>s, HeapFacts, SlotTypes DEF RefInv, Pub
<1>b. \A q \in Infos : info'[q].masterBlockIndex = info[q].masterBlockIndex
  <2>1. info' = [info EXCEPT ![p].refcount = DecRef(p)] /\ info \in [Infos -> Info]
    BY HeapFacts DEF DropRef, RefInv
  <2> QED  BY <2>1 DEF Info
<1>c. \A s : InFree(s)' <=> InFree(s)
  BY DEF InFree
<1>1. CASE ~IsLastRef(p)
  <2>1. rel' = rel /\ heap' = heap /\ hash_to_master' = hash_to_master
    BY <1>1 DEF DropRef
  <2>2. \A q \in Infos : info'[q].hash = info[q].hash
    BY <1>a, PublishedDrop DEF RefInv
  <2>3. \A q \in Infos, s \in Slots : Pub(q, s)' <=> Pub(q, s)
    BY <1>b, <2>1, <2>2 DEF Pub, Published
  <2>4. ASSUME NEW s \in Slots PROVE SameOwners(s)
    BY <1>c, <2>1, <2>3 DEF SameOwners, InRel
  <2> QED  BY <2>1, <2>4, OwnersMove DEF ListsOK
<1>2. CASE IsLastRef(p)
  <2>1. heap' = heap \ {p} /\ rel' = [rel EXCEPT ![t] = <<s0>> \o @]
    BY <1>2, <1>s DEF DropRef
  <2>2. /\ rel'[t] = <<s0>> \o rel[t] /\ rel[t] \in Seq(Slots)
        /\ \A u \in Threads \ {t} : rel'[u] = rel[u]
    BY <2>1, SlotTypes DEF RefInv
  <2>3. Range(rel'[t]) = {s0} \cup Range(rel[t])
    BY <1>a, <2>2, ConsFacts
  <2>4. \A u \in Threads, s \in Slots : InRel(u, s)' <=> InRel(u, s) \/ (u = t /\ s = s0)
    BY <2>2, <2>3 DEF InRel
  <2>5. \A q \in Infos, s \in Slots : Pub(q, s)' <=> Pub(q, s) /\ q # p
    BY <1>b, <2>1, PublishedDrop DEF RefInv, Pub, Published, PublishedAfter
  <2>6. ASSUME NEW s \in Slots, s # s0 PROVE SameOwners(s)
    <3>1. ~Pub(p, s)
      BY <1>s, <2>6 DEF Pub
    <3> QED  BY <1>c, <2>4, <2>5, <2>6, <3>1 DEF SameOwners
  <2>7. /\ s0 < nextBlockIndex /\ ~InFree(s0) /\ \A u \in Threads : ~InRel(u, s0)
        /\ \A q \in Infos : Pub(q, s0) => q = p
        /\ \A u \in Threads, i \in Idx : ~Pend(u, i, s0)
    BY <1>a, PubOnly
  <2>8. OwnedOnce(s0)'
    <3>1. \A u \in Threads : InRel(u, s0)' <=> u = t
      BY <1>a, <2>4, <2>7
    <3>2. \A q \in Infos : ~Pub(q, s0)'
      BY <1>a, <2>5, <2>7
    <3>3. ~InFree(s0)' /\ \A u \in Threads, i \in Idx : ~Pend(u, i, s0)'
      BY <1>a, <1>c, <2>7
    <3> QED  BY <3>1, <3>2, <3>3, NowRel
  <2>9. OwnersOK'
    BY <2>6, <2>7, <2>8, OwnersMove
  <2>10. NoRepeats(rel'[t])
    BY <1>a, <2>2, <2>7, ConsFacts DEF ListsOK, InRel
  <2> QED  BY <2>2, <2>9, <2>10 DEF ListsOK
<1> QED  BY <1>1, <1>2

LEMMA MapBlockOwners ==
    ASSUME SlotInv, NEW t \in Threads, \A u \in Threads \ {t} : SameFrame(u), MapBlock(t)
    PROVE  OwnersOK' /\ ListsOK'
<1>x. PICK x : x = KeyOf(t, k[t])
  OBVIOUS
<1>1. /\ pc[t] = "w_map" /\ k[t] < N(t) /\ pc' = pc /\ free_block_list' = free_block_list
      /\ nextBlockIndex' = nextBlockIndex
      /\ \/ file_to_master[x] # NULL /\ DropRef(t, file_to_master[x])
         \/ rel' = rel /\ hash_to_master' = hash_to_master /\ heap' = heap /\ info' = info
  BY <1>x DEF MapBlock, NextIter, allocVars, heapVars
<1>2. x \in Key
  BY <1>1, <1>x, IterFacts DEF SlotInv, RefInv, WritePCs
<1>3. ASSUME NEW u \in Threads, NEW i \in Idx, NEW s \in Slots
      PROVE  Pend(u, i, s)' <=> Pend(u, i, s)
  <2>1. CASE u = t
    BY <1>1, <2>1 DEF Pend, OwnsPending
  <2>2. CASE u # t
    BY <2>2, OtherPend
  <2> QED  BY <2>1, <2>2
<1>4. CASE file_to_master[x] # NULL /\ DropRef(t, file_to_master[x])
  <2>1. file_to_master[x] \in heap /\ Published(file_to_master[x])
    BY <1>2, <1>4 DEF SlotInv, RefInv, TablesOK
  <2> QED  BY <1>1, <1>3, <1>4, <2>1, DropOwners DEF SlotInv
<1>5. CASE rel' = rel /\ hash_to_master' = hash_to_master /\ heap' = heap /\ info' = info
  <2>1. ASSUME NEW s \in Slots PROVE SameOwners(s)
    BY <1>1, <1>3, <1>5 DEF SameOwners, InFree, InRel, Pub, Published
  <2> QED  BY <1>1, <1>5, <2>1, OwnersMove DEF SlotInv, ListsOK
<1> QED  BY <1>1, <1>4, <1>5

LEMMA RemoveBlockOwners ==
    ASSUME SlotInv, NEW t \in Threads, \A u \in Threads \ {t} : SameFrame(u), RemoveBlock(t)
    PROVE  OwnersOK' /\ ListsOK'
<1>x. PICK x : x = <<req[t].path, k[t]>>
  OBVIOUS
<1>1. /\ pc[t] = "rm_loop" /\ k[t] < lim[t] /\ pc' = pc /\ free_block_list' = free_block_list
      /\ nextBlockIndex' = nextBlockIndex
      /\ \/ file_to_master[x] # NULL /\ DropRef(t, file_to_master[x])
         \/ rel' = rel /\ hash_to_master' = hash_to_master /\ heap' = heap /\ info' = info
  BY <1>x DEF RemoveBlock, NextIter, allocVars, heapVars
<1>2. x \in Key
  <2>1. req[t] \in Requests
    BY <1>1 DEF SlotInv, RefInv, TypeInv, FramesOK, FrameOK
  <2>2. k[t] \in 0 .. MaxBlocks /\ lim[t] \in 0 .. MaxBlocks /\ MaxBlocks \in Nat
    BY BoundsAssumption DEF SlotInv, RefInv, TypeInv, TypeOK, ControlType
  <2>3. k[t] \in Blocks
    BY <1>1, <2>2 DEF Blocks
  <2> QED  BY <1>x, <2>1, <2>3, RequestFacts DEF Key
<1>3. ASSUME NEW u \in Threads, NEW i \in Idx, NEW s \in Slots
      PROVE  Pend(u, i, s)' <=> Pend(u, i, s)
  <2>1. CASE u = t
    BY <1>1, <2>1 DEF Pend, OwnsPending, HoldsRef
  <2>2. CASE u # t
    BY <2>2, OtherPend
  <2> QED  BY <2>1, <2>2
<1>4. CASE file_to_master[x] # NULL /\ DropRef(t, file_to_master[x])
  <2>1. file_to_master[x] \in heap /\ Published(file_to_master[x])
    BY <1>2, <1>4 DEF SlotInv, RefInv, TablesOK
  <2> QED  BY <1>1, <1>3, <1>4, <2>1, DropOwners DEF SlotInv
<1>5. CASE rel' = rel /\ hash_to_master' = hash_to_master /\ heap' = heap /\ info' = info
  <2>1. ASSUME NEW s \in Slots PROVE SameOwners(s)
    BY <1>1, <1>3, <1>5 DEF SameOwners, InFree, InRel, Pub, Published
  <2> QED  BY <1>1, <1>5, <2>1, OwnersMove DEF SlotInv, ListsOK
<1> QED  BY <1>1, <1>4, <1>5

LEMMA RbHitOwners ==
    ASSUME SlotInv, NEW t \in Threads, \A u \in Threads \ {t} : SameFrame(u), RbHit(t)
    PROVE  OwnersOK' /\ ListsOK'
<1>j. PICK j : j = k[t]
  OBVIOUS
<1>1. /\ pc[t] = "rb_hits" /\ j < N(t) /\ pc' = pc /\ free_block_list' = free_block_list
      /\ nextBlockIndex' = nextBlockIndex /\ plan' = plan
      /\ \/ IsHit(t, j) /\ DropRef(t, plan[t][j].info)
         \/ rel' = rel /\ hash_to_master' = hash_to_master /\ heap' = heap /\ info' = info
  BY <1>j DEF RbHit, NextIter, allocVars, heapVars
<1>2. j \in Idx /\ j \in Nat
  BY <1>1, <1>j, IterFacts DEF SlotInv, RefInv, WritePCs, Idx
<1>3. ASSUME NEW u \in Threads, NEW i \in Idx, NEW s \in Slots
      PROVE  Pend(u, i, s)' <=> Pend(u, i, s)
  <2>1. CASE u = t
    BY <1>1, <2>1 DEF Pend, OwnsPending, HoldsRef, IsMiss
  <2>2. CASE u # t
    BY <2>2, OtherPend
  <2> QED  BY <2>1, <2>2
<1>4. CASE IsHit(t, j) /\ DropRef(t, plan[t][j].info)
  <2>1. Holds(t, j) /\ ~OwnsPending(t, j)
    BY <1>1, <1>2, <1>4, <1>j DEF Holds, HoldsRef, Planned, IsHit, OwnsPending, IsMiss
  <2>2. plan[t][j].info \in heap /\ Published(plan[t][j].info)
    BY <1>2, <2>1 DEF SlotInv, RefInv, EntriesOK, EntryOK
  <2> QED  BY <1>1, <1>3, <1>4, <2>2, DropOwners DEF SlotInv
<1>5. CASE rel' = rel /\ hash_to_master' = hash_to_master /\ heap' = heap /\ info' = info
  <2>1. ASSUME NEW s \in Slots PROVE SameOwners(s)
    BY <1>1, <1>3, <1>5 DEF SameOwners, InFree, InRel, Pub, Published
  <2> QED  BY <1>1, <1>5, <2>1, OwnersMove DEF SlotInv, ListsOK
<1> QED  BY <1>1, <1>4, <1>5
\* The slot of a plan entry that stops being pending goes to whoever takes it.
LEMMA PendingEntry ==
    ASSUME SlotInv, RefcountsFit, NEW t \in Threads, NEW j \in Idx, OwnsPending(t, j),
           pc[t] \in SlottedPCs, NEW p, p = plan[t][j].info, NEW s0, s0 = plan[t][j].master_blk
    PROVE  /\ s0 \in Slots /\ Pend(t, j, s0) /\ info[p].masterBlockIndex = s0
           /\ p \in heap /\ p \in Infos /\ ~Published(p)
           /\ \A s : ~Pub(p, s)
<1>1. IsMiss(t, j)
  BY DEF OwnsPending
<1>2. s0 \in Slots
  BY <1>1, PlanFacts DEF SlotInv, RefInv
<1>3. p \in heap /\ ~Published(p)
  BY PrivateEntry DEF SlotInv
<1> QED  BY <1>2, <1>3, HeapFacts DEF SlotInv, RefInv, PendingOK, Pend, Pub

LEMMA PublishOursOwners ==
    ASSUME SlotInv, RefcountsFit, NEW t \in Threads, \A u \in Threads \ {t} : SameFrame(u),
           PublishOurs(t)
    PROVE  OwnersOK' /\ ListsOK'
<1>j. PICK j : j = k[t]
  OBVIOUS
<1>p. PICK p : p = plan[t][j].info
  OBVIOUS
<1>s. PICK s0 : s0 = plan[t][j].master_blk
  OBVIOUS
<1>1. j \in Idx /\ j \in Nat /\ IsMiss(t, j) /\ pc[t] = "w_publish" /\ j < N(t)
  BY <1>j, IterFacts DEF PublishOurs, SlotInv, RefInv, WritePCs, Idx
<1>2. OwnsPending(t, j)
  BY <1>1, <1>j DEF OwnsPending, HoldsRef
<1>3. /\ s0 \in Slots /\ Pend(t, j, s0) /\ info[p].masterBlockIndex = s0
      /\ p \in heap /\ p \in Infos /\ ~Published(p) /\ \A s : ~Pub(p, s)
  BY <1>1, <1>2, <1>p, <1>s, PendingEntry DEF SlottedPCs
<1>h. PICK h : h = info[p].hash
  OBVIOUS
<1>4. h \in Hashes /\ hash_to_master \in [Hashes -> Infos \cup {NULL}]
  BY <1>3, <1>h, HeapFacts DEF SlotInv, RefInv, TablesOK
<1>0. /\ pc' = pc /\ k'[t] = j + 1 /\ plan' = plan /\ heap' = heap /\ info' = info
      /\ free_block_list' = free_block_list /\ rel' = rel /\ nextBlockIndex' = nextBlockIndex
      /\ hash_to_master[h] = NULL /\ hash_to_master' = [hash_to_master EXCEPT ![h] = p]
  BY <1>j, <1>p, <1>h DEF PublishOurs, Winner, NextIter, SetK, heapVars, frameVars, allocVars,
     SlotInv, RefInv, TypeInv, TypeOK, ControlType
<1>5. ASSUME NEW q \in Infos, NEW s \in Slots
      PROVE  Pub(q, s)' <=> IF q = p THEN s = s0 ELSE Pub(q, s)
  BY <1>0, <1>3, <1>4, <1>h, NullAssumption DEF Pub, Published
<1>6. ASSUME NEW u \in Threads, NEW i \in Idx, NEW s \in Slots
      PROVE  Pend(u, i, s)' <=> Pend(u, i, s) /\ ~(u = t /\ i = j)
  <2>1. CASE u # t
    BY <2>1, OtherPend
  <2>2. CASE u = t
    <3>1. OwnsPending(t, i)' <=> OwnsPending(t, i) /\ i # j
      BY <1>0, <1>1, <1>j DEF OwnsPending, HoldsRef, IsMiss, Idx
    <3> QED  BY <1>0, <2>2, <3>1 DEF Pend
  <2> QED  BY <2>1, <2>2
<1>7. \A s : (InFree(s)' <=> InFree(s)) /\ \A u \in Threads : InRel(u, s)' <=> InRel(u, s)
  BY <1>0 DEF InFree, InRel
<1>8. ASSUME NEW s \in Slots, s # s0 PROVE SameOwners(s)
  <2>1. ~Pend(t, j, s)
    BY <1>s, <1>8 DEF Pend
  <2> QED  BY <1>3, <1>5, <1>6, <1>7, <1>8, <2>1 DEF SameOwners
<1>9. /\ s0 < nextBlockIndex /\ ~InFree(s0) /\ \A u \in Threads : ~InRel(u, s0)
      /\ \A q \in Infos : ~Pub(q, s0)
      /\ \A u \in Threads, i \in Idx : Pend(u, i, s0) => u = t /\ i = j
  BY <1>1, <1>3, PendOnly DEF SlotInv
<1>10. OwnedOnce(s0)'
  <2>1. \A q \in Infos : Pub(q, s0)' <=> q = p
    BY <1>3, <1>5, <1>9
  <2>2. \A u \in Threads, i \in Idx : ~Pend(u, i, s0)'
    BY <1>3, <1>6, <1>9
  <2> QED  BY <1>3, <1>7, <1>9, <2>1, <2>2, NowPub
<1>11. OwnersOK'
  BY <1>0, <1>8, <1>9, <1>10, OwnersMove DEF SlotInv
<1> QED  BY <1>0, <1>11 DEF SlotInv, ListsOK

LEMMA UseWinnerOwners ==
    ASSUME SlotInv, RefcountsFit, NEW t \in Threads, \A u \in Threads \ {t} : SameFrame(u),
           UseWinner(t)
    PROVE  OwnersOK' /\ ListsOK'
<1>j. PICK j : j = k[t]
  OBVIOUS
<1>p. PICK p : p = plan[t][j].info
  OBVIOUS
<1>s. PICK s0 : s0 = plan[t][j].master_blk
  OBVIOUS
<1>w. PICK w : w = Winner(t, j)
  OBVIOUS
<1>1. j \in Idx /\ j \in Nat /\ IsMiss(t, j) /\ pc[t] = "w_publish" /\ j < N(t) /\ w # NULL
  BY <1>j, <1>w, IterFacts DEF UseWinner, SlotInv, RefInv, WritePCs, Idx
<1>2. OwnsPending(t, j)
  BY <1>1, <1>j DEF OwnsPending, HoldsRef
<1>3. /\ s0 \in Slots /\ Pend(t, j, s0) /\ p \in Infos /\ ~Published(p) /\ \A s : ~Pub(p, s)
  BY <1>1, <1>2, <1>p, <1>s, PendingEntry DEF SlottedPCs
<1>0. /\ pc' = pc /\ k'[t] = j + 1 /\ heap' = heap \ {p}
      /\ info' = [info EXCEPT ![w].refcount = IncRef(w)]
      /\ plan' = [plan EXCEPT ![t][j].info = w]
      /\ free_block_list' = free_block_list /\ nextBlockIndex' = nextBlockIndex
      /\ rel' = [rel EXCEPT ![t] = <<s0>> \o @] /\ hash_to_master' = hash_to_master
  BY <1>j, <1>p, <1>s, <1>w DEF UseWinner, NextIter, SetK, allocVars, indexVars,
     SlotInv, RefInv, TypeInv, TypeOK, ControlType
<1>4. /\ \A q \in Infos : /\ info'[q].hash = info[q].hash
                          /\ info'[q].masterBlockIndex = info[q].masterBlockIndex
  BY <1>0, SlotTypes DEF SlotInv, RefInv, Info
<1>5. ASSUME NEW q \in Infos, NEW s \in Slots PROVE Pub(q, s)' <=> Pub(q, s)
  BY <1>0, <1>3, <1>4 DEF Pub, Published
<1>b. /\ \A i \in Idx : /\ plan'[t][i].kind = plan[t][i].kind
                        /\ plan'[t][i].master_blk = plan[t][i].master_blk
  BY <1>0, <1>1, SlotTypes DEF SlotInv, RefInv, PlanEntry
<1>6. ASSUME NEW u \in Threads, NEW i \in Idx, NEW s \in Slots
      PROVE  Pend(u, i, s)' <=> Pend(u, i, s) /\ ~(u = t /\ i = j)
  <2>1. CASE u # t
    BY <2>1, OtherPend
  <2>2. CASE u = t
    <3>1. OwnsPending(t, i)' <=> OwnsPending(t, i) /\ i # j
      BY <1>0, <1>1, <1>b, <1>j DEF OwnsPending, HoldsRef, IsMiss, Idx
    <3> QED  BY <1>b, <2>2, <3>1 DEF Pend
  <2> QED  BY <2>1, <2>2
<1>7. /\ rel'[t] = <<s0>> \o rel[t] /\ rel[t] \in Seq(Slots)
      /\ \A u \in Threads \ {t} : rel'[u] = rel[u]
  BY <1>0, SlotTypes DEF SlotInv, RefInv
<1>8. Range(rel'[t]) = {s0} \cup Range(rel[t])
  BY <1>3, <1>7, ConsFacts
<1>9. \A u \in Threads, s \in Slots : InRel(u, s)' <=> InRel(u, s) \/ (u = t /\ s = s0)
  BY <1>7, <1>8 DEF InRel
<1>10. \A s : InFree(s)' <=> InFree(s)
  BY <1>0 DEF InFree
<1>11. ASSUME NEW s \in Slots, s # s0 PROVE SameOwners(s)
  <2>1. ~Pend(t, j, s)
    BY <1>s, <1>11 DEF Pend
  <2> QED  BY <1>5, <1>6, <1>9, <1>10, <1>11, <2>1 DEF SameOwners
<1>12. /\ s0 < nextBlockIndex /\ ~InFree(s0) /\ \A u \in Threads : ~InRel(u, s0)
       /\ \A q \in Infos : ~Pub(q, s0)
       /\ \A u \in Threads, i \in Idx : Pend(u, i, s0) => u = t /\ i = j
  BY <1>1, <1>3, PendOnly DEF SlotInv
<1>13. OwnedOnce(s0)'
  <2>1. \A u \in Threads : InRel(u, s0)' <=> u = t
    BY <1>3, <1>9, <1>12
  <2>2. \A u \in Threads, i \in Idx : ~Pend(u, i, s0)'
    BY <1>3, <1>6, <1>12
  <2>3. ~InFree(s0)' /\ \A q \in Infos : ~Pub(q, s0)'
    BY <1>3, <1>5, <1>10, <1>12
  <2> QED  BY <2>1, <2>2, <2>3, NowRel
<1>14. OwnersOK'
  BY <1>0, <1>11, <1>12, <1>13, OwnersMove DEF SlotInv
<1>15. NoRepeats(rel'[t])
  BY <1>3, <1>7, <1>12, ConsFacts DEF SlotInv, ListsOK, InRel
<1> QED  BY <1>0, <1>7, <1>14, <1>15 DEF SlotInv, ListsOK

LEMMA RbMissOwners ==
    ASSUME SlotInv, RefcountsFit, NEW t \in Threads, \A u \in Threads \ {t} : SameFrame(u),
           RbMiss(t)
    PROVE  OwnersOK' /\ ListsOK'
<1>j. PICK j : j = k[t]
  OBVIOUS
<1>p. PICK p : p = plan[t][j].info
  OBVIOUS
<1>s. PICK s0 : s0 = plan[t][j].master_blk
  OBVIOUS
<1>0. /\ pc[t] = "rb_miss" /\ j < N(t) /\ pc' = pc /\ k'[t] = j + 1 /\ plan' = plan
      /\ rel' = rel /\ hash_to_master' = hash_to_master /\ info' = info
      /\ nextBlockIndex' = nextBlockIndex
      /\ \/ IsMiss(t, j) /\ free_block_list' = <<s0>> \o free_block_list /\ heap' = heap \ {p}
         \/ ~IsMiss(t, j) /\ free_block_list' = free_block_list /\ heap' = heap
  BY <1>j, <1>p, <1>s DEF RbMiss, NextIter, SetK, indexVars, frameVars,
     SlotInv, RefInv, TypeInv, TypeOK, ControlType
<1>1. j \in Idx /\ j \in Nat
  BY <1>0, <1>j, IterFacts DEF SlotInv, RefInv, WritePCs, Idx
<1>2. ASSUME NEW u \in Threads, NEW i \in Idx, NEW s \in Slots
      PROVE  Pend(u, i, s)' <=> Pend(u, i, s) /\ ~(u = t /\ i = j)
  <2>1. CASE u # t
    BY <2>1, OtherPend
  <2>2. CASE u = t
    <3>1. OwnsPending(t, i)' <=> OwnsPending(t, i) /\ i # j
      BY <1>0, <1>1, <1>j DEF OwnsPending, HoldsRef, IsMiss, Idx
    <3> QED  BY <1>0, <2>2, <3>1 DEF Pend
  <2> QED  BY <2>1, <2>2
<1>3. \A u \in Threads, s \in Slots : InRel(u, s)' <=> InRel(u, s)
  BY <1>0 DEF InRel
<1>4. CASE ~IsMiss(t, j)
  <2>1. free_block_list' = free_block_list /\ heap' = heap
    BY <1>0, <1>4
  <2>2. \A s : ~Pend(t, j, s)
    BY <1>4 DEF Pend, OwnsPending
  <2>3. ASSUME NEW s \in Slots PROVE SameOwners(s)
    BY <1>0, <1>2, <1>3, <2>1, <2>2 DEF SameOwners, InFree, Pub, Published
  <2> QED  BY <1>0, <2>1, <2>3, OwnersMove DEF SlotInv, ListsOK
<1>5. CASE IsMiss(t, j)
  <2>1. free_block_list' = <<s0>> \o free_block_list /\ heap' = heap \ {p}
    BY <1>0, <1>5
  <2>2. OwnsPending(t, j)
    BY <1>0, <1>1, <1>5, <1>j DEF OwnsPending, HoldsRef
  <2>3. s0 \in Slots /\ Pend(t, j, s0) /\ p \in Infos /\ ~Published(p) /\ \A s : ~Pub(p, s)
    BY <1>0, <1>1, <1>p, <1>s, <2>2, PendingEntry DEF SlottedPCs
  <2>4. ASSUME NEW q \in Infos, NEW s \in Slots PROVE Pub(q, s)' <=> Pub(q, s)
    BY <1>0, <2>1, <2>3 DEF Pub, Published
  <2>5. \A s \in Slots : InFree(s)' <=> InFree(s) \/ s = s0
    <3>1. Range(<<s0>> \o free_block_list) = {s0} \cup Range(free_block_list)
      BY <2>3, ConsFacts, SlotTypes DEF SlotInv, RefInv
    <3> QED  BY <2>1, <3>1 DEF InFree
  <2>6. ASSUME NEW s \in Slots, s # s0 PROVE SameOwners(s)
    <3>1. ~Pend(t, j, s)
      BY <1>s, <2>6 DEF Pend
    <3> QED  BY <1>2, <1>3, <2>4, <2>5, <2>6, <3>1 DEF SameOwners
  <2>7. /\ s0 < nextBlockIndex /\ ~InFree(s0) /\ \A u \in Threads : ~InRel(u, s0)
        /\ \A q \in Infos : ~Pub(q, s0)
        /\ \A u \in Threads, i \in Idx : Pend(u, i, s0) => u = t /\ i = j
    BY <1>1, <2>3, PendOnly DEF SlotInv
  <2>8. OwnedOnce(s0)'
    <3>1. \A u \in Threads, i \in Idx : ~Pend(u, i, s0)'
      BY <1>2, <2>3, <2>7
    <3>2. /\ InFree(s0)' /\ \A u \in Threads : ~InRel(u, s0)'
          /\ \A q \in Infos : ~Pub(q, s0)'
      BY <1>3, <2>3, <2>4, <2>5, <2>7
    <3> QED  BY <3>1, <3>2, NowFree
  <2>9. OwnersOK'
    BY <1>0, <2>6, <2>7, <2>8, OwnersMove DEF SlotInv
  <2>10. NoRepeats(free_block_list')
    BY <2>1, <2>3, <2>7, ConsFacts, SlotTypes DEF SlotInv, RefInv, ListsOK, InFree
  <2> QED  BY <1>0, <2>9, <2>10 DEF SlotInv, ListsOK
<1> QED  BY <1>4, <1>5
-----------------------------------------------------------------------------
(* Steps that move several slots                                           *)

\* The local list goes in front of the free list.
LEMMA ReleaseOwners ==
    ASSUME SlotInv, NEW t \in Threads, \A u \in Threads \ {t} : SameFrame(u),
           ReleaseAfterWrite(t) \/ ReleaseAndGo(t)
    PROVE  OwnersOK' /\ ListsOK'
<1>1. /\ free_block_list' = rel[t] \o free_block_list /\ rel' = [rel EXCEPT ![t] = <<>>]
      /\ hash_to_master' = hash_to_master /\ info' = info /\ heap' = heap
      /\ nextBlockIndex' = nextBlockIndex
  BY DEF ReleaseAfterWrite, ReleaseAndGo, Released, Return, indexVars, heapVars
<1>2. /\ rel'[t] = <<>> /\ \A u \in Threads \ {t} : rel'[u] = rel[u]
      /\ rel[t] \in Seq(Slots) /\ free_block_list \in Seq(Slots)
  BY <1>1, SlotTypes DEF SlotInv, RefInv
<1>3. ASSUME NEW u \in Threads, NEW i \in Idx, NEW s \in Slots
      PROVE  Pend(u, i, s)' <=> Pend(u, i, s)
  <2>1. CASE u # t
    BY <2>1, OtherPend
  <2>2. CASE u = t
    <3>1. /\ pc[t] \in {"w_release", "rm_release", "rb_release"}
          /\ pc[t] = "rb_release" => pc'[t] = "rb_mutex" /\ plan' = plan
          /\ pc[t] # "rb_release" => pc'[t] \in {"idle", "u_size", "t_size"}
      BY DEF ReleaseAfterWrite, ReleaseAndGo, Return, Goto, SlotInv, RefInv, TypeInv, TypeOK,
             ControlType
    <3> QED  BY <2>2, <3>1 DEF Pend, OwnsPending, HoldsRef, IsMiss
  <2> QED  BY <2>1, <2>2
<1>4. \A q \in Infos, s \in Slots : Pub(q, s)' <=> Pub(q, s)
  BY <1>1 DEF Pub, Published
<1>5. \A s \in Slots : InFree(s)' <=> InFree(s) \/ InRel(t, s)
  <2>1. Range(rel[t] \o free_block_list) = Range(rel[t]) \cup Range(free_block_list)
    BY <1>2, ConcatFacts
  <2> QED  BY <1>1, <2>1 DEF InFree, InRel
<1>6. \A u \in Threads, s \in Slots : InRel(u, s)' <=> InRel(u, s) /\ u # t
  BY <1>2 DEF InRel, Range
<1>7. ASSUME NEW s \in Slots, ~InRel(t, s) PROVE SameOwners(s)
  BY <1>3, <1>4, <1>5, <1>6, <1>7 DEF SameOwners
<1>8. ASSUME NEW s \in Slots, InRel(t, s) PROVE s < nextBlockIndex /\ OwnedOnce(s)'
  <2>1. /\ s < nextBlockIndex /\ \A u \in Threads : InRel(u, s) => u = t
        /\ \A p \in Infos : ~Pub(p, s)
        /\ \A u \in Threads, i \in Idx : ~Pend(u, i, s)
    BY <1>8, RelOnly DEF SlotInv
  <2>2. /\ InFree(s)' /\ \A u \in Threads : ~InRel(u, s)'
        /\ \A p \in Infos : ~Pub(p, s)'
        /\ \A u \in Threads, i \in Idx : ~Pend(u, i, s)'
    BY <1>3, <1>4, <1>5, <1>6, <1>8, <2>1
  <2> QED  BY <2>1, <2>2, NowFree
<1>9. OwnersOK'
  BY <1>1, <1>7, <1>8, OwnersMove DEF SlotInv
<1>10. NoRepeats(free_block_list')
  <2>1. \A s \in Slots : ~(s \in Range(rel[t]) /\ s \in Range(free_block_list))
    BY RelOnly DEF SlotInv, InRel, InFree
  <2> QED  BY <1>1, <1>2, <2>1, ConcatFacts DEF SlotInv, ListsOK
<1>11. NoRepeats(rel'[t])
  BY <1>2 DEF NoRepeats
<1> QED  BY <1>2, <1>9, <1>10, <1>11 DEF SlotInv, ListsOK

\* Recycled slots go from the head of the free list to the first MISSes, in order.
LEMMA DrainOwners ==
    ASSUME SlotInv, NEW t \in Threads, \A u \in Threads \ {t} : SameFrame(u), Drain(t)
    PROVE  OwnersOK' /\ ListsOK'
<1>n. PICK n : n = Taken(t)
  OBVIOUS
<1>l. PICK q : q = free_block_list
  OBVIOUS
<1>1. /\ pc[t] = "w_drain" /\ pc'[t] = "w_append"
      /\ free_block_list' = SubSeq(q, n + 1, Len(q))
      /\ hash_to_master' = hash_to_master /\ info' = info /\ heap' = heap /\ rel' = rel
      /\ nextBlockIndex' = nextBlockIndex
  BY <1>n, <1>l DEF Drain, Goto, indexVars, heapVars, SlotInv, RefInv, TypeInv, TypeOK,
     ControlType
<1>2. /\ q \in Seq(Slots) /\ NoRepeats(q) /\ Len(q) \in Nat /\ DOMAIN q = 1 .. Len(q)
      /\ n \in Nat /\ n <= Len(q) /\ n <= Cardinality(Unassigned(t))
  <2>1. q \in Seq(Slots)
    BY <1>l, SlotTypes DEF SlotInv, RefInv
  <2>2. Cardinality(Unassigned(t)) \in Nat /\ Len(q) \in Nat
    BY <2>1, UnassignedFinite
  <2> QED  BY <1>n, <1>l, <2>1, <2>2 DEF Taken, SlotInv, ListsOK
<1>3. ASSUME NEW i \in Idx
      PROVE  /\ plan'[t][i].kind = plan[t][i].kind
             /\ plan'[t][i].master_blk = IF i \in Unassigned(t) /\ Rank(t, i) < n
                                         THEN q[Rank(t, i) + 1] ELSE plan[t][i].master_blk
  <2>1. plan'[t][i] = IF i \in Unassigned(t) /\ Rank(t, i) < n
           THEN [plan[t][i] EXCEPT !.master_blk = q[Rank(t, i) + 1]]
           ELSE plan[t][i]
    BY <1>n, <1>l, SlotTypes DEF Drain, SlotInv, RefInv
  <2>2. plan[t][i] \in PlanEntry
    BY SlotTypes DEF SlotInv, RefInv
  <2> QED  BY <2>1, <2>2 DEF PlanEntry
<1>4. \A i \in Idx : (OwnsPending(t, i) <=> IsMiss(t, i)) /\ (OwnsPending(t, i)' <=> IsMiss(t, i))
  BY <1>1, <1>3 DEF OwnsPending, HoldsRef, IsMiss
<1>5. \A p \in Infos, s \in Slots : Pub(p, s)' <=> Pub(p, s)
  BY <1>1 DEF Pub, Published
<1>6. \A u \in Threads, s \in Slots : InRel(u, s)' <=> InRel(u, s)
  BY <1>1 DEF InRel
<1>r. PICK r : r = free_block_list'
  OBVIOUS
<1>t. /\ NoRepeats(r)
      /\ \A s : s \in Range(r) <=> s \in Range(q) /\ \A m \in 1 .. n : q[m] # s
  <2>1. r = SubSeq(q, n + 1, Len(q))
    BY <1>1, <1>r
  <2>2. q \in Seq(Slots) /\ n \in Nat /\ n <= Len(q) /\ NoRepeats(q)
    BY <1>2
  <2>3. NoRepeats(SubSeq(q, n + 1, Len(q)))
    BY <2>2, TailFacts
  <2>4. \A s : s \in Range(SubSeq(q, n + 1, Len(q))) <=> s \in Range(q) /\ \A m \in 1 .. n : q[m] # s
    BY <2>2, TailFacts
  <2> QED  BY <2>1, <2>3, <2>4
<1>7. \A s \in Slots : InFree(s)' <=> InFree(s) /\ \A m \in 1 .. n : q[m] # s
  BY <1>l, <1>r, <1>t DEF InFree
<1>8. ASSUME NEW s \in Slots, \A m \in 1 .. n : q[m] # s PROVE SameOwners(s)
  <2>1. ASSUME NEW i \in Idx PROVE Pend(t, i, s)' <=> Pend(t, i, s)
    <3>1. CASE i \in Unassigned(t) /\ Rank(t, i) < n
      <4>1. Rank(t, i) + 1 \in 1 .. n
        BY <1>2, <3>1, UnassignedFinite
      <4>2. plan'[t][i].master_blk # s
        BY <1>3, <1>8, <3>1, <4>1
      <4>3. plan[t][i].master_blk # s
        BY <3>1, SlotTypes DEF Unassigned, SlotInv, RefInv
      <4> QED  BY <4>2, <4>3 DEF Pend
    <3>2. CASE ~(i \in Unassigned(t) /\ Rank(t, i) < n)
      <4>1. plan'[t][i].master_blk = plan[t][i].master_blk
        BY <1>3, <3>2
      <4> QED  BY <1>4, <4>1 DEF Pend
    <3> QED  BY <3>1, <3>2
  <2>2. ASSUME NEW u \in Threads, NEW i \in Idx PROVE Pend(u, i, s)' <=> Pend(u, i, s)
    BY <2>1, OtherPend
  <2> QED  BY <1>5, <1>6, <1>7, <1>8, <2>2 DEF SameOwners
<1>9. ASSUME NEW s \in Slots, NEW m \in 1 .. n, q[m] = s
      PROVE  s < nextBlockIndex /\ OwnedOnce(s)'
  <2>1. InFree(s)
    BY <1>2, <1>9, <1>l DEF InFree, Range
  <2>2. /\ s < nextBlockIndex /\ \A u \in Threads : ~InRel(u, s)
        /\ \A p \in Infos : ~Pub(p, s)
        /\ \A u \in Threads, i \in Idx : ~Pend(u, i, s)
    BY <2>1, FreeOnly DEF SlotInv
  <2>3. m - 1 \in Nat /\ m - 1 < Cardinality(Unassigned(t)) /\ m - 1 < n /\ m \in 1 .. Len(q)
    BY <1>2, UnassignedFinite
  <2>4. PICK j \in Unassigned(t) : Rank(t, j) = m - 1
    BY <2>3, RankFacts
  <2>5. j \in Idx /\ IsMiss(t, j) /\ plan'[t][j].master_blk = s
    <3>1. j \in Idx /\ IsMiss(t, j) /\ Rank(t, j) + 1 = m
      BY <2>3, <2>4 DEF Unassigned
    <3> QED  BY <1>3, <1>9, <2>3, <2>4, <3>1
  <2>6. ASSUME NEW i \in Idx, Pend(t, i, s)' PROVE i = j
    <3>1. plan'[t][i].master_blk = s /\ IsMiss(t, i)
      BY <1>4, <2>6 DEF Pend
    <3>2. i \in Unassigned(t) /\ Rank(t, i) < n
      <4>1. SUFFICES ASSUME ~(i \in Unassigned(t) /\ Rank(t, i) < n) PROVE FALSE
        OBVIOUS
      <4>2. Pend(t, i, s)
        BY <1>3, <1>4, <3>1, <4>1 DEF Pend
      <4> QED  BY <2>2, <4>2
    <3>0. Rank(t, i) \in Nat /\ q[Rank(t, i) + 1] = s
      BY <1>3, <3>1, <3>2, UnassignedFinite
    <3>3. Rank(t, i) \in Nat /\ Rank(t, i) + 1 \in 1 .. Len(q) /\ q[Rank(t, i) + 1] = s
      BY <1>2, <3>0, <3>2
    <3>4. Rank(t, i) + 1 = m
      BY <1>2, <1>9, <2>3, <3>3 DEF NoRepeats
    <3>5. Rank(t, i) = m - 1
      BY <2>3, <3>3, <3>4
    <3> QED  BY <2>4, <3>2, <3>5, RankFacts
  <2>7. \A u \in Threads, i \in Idx : Pend(u, i, s)' <=> u = t /\ i = j
    <3>1. Pend(t, j, s)'
      BY <1>4, <2>5 DEF Pend
    <3>2. ASSUME NEW u \in Threads, u # t, NEW i \in Idx PROVE ~Pend(u, i, s)'
      BY <2>2, <3>2, OtherPend
    <3> QED  BY <2>6, <3>1, <3>2
  <2>8. /\ ~InFree(s)' /\ \A u \in Threads : ~InRel(u, s)'
        /\ \A p \in Infos : ~Pub(p, s)'
    BY <1>5, <1>6, <1>7, <1>9, <2>2
  <2> QED  BY <2>2, <2>5, <2>7, <2>8, NowPend
<1>10. OwnersOK'
  BY <1>1, <1>8, <1>9, OwnersMove DEF SlotInv
<1>11. NoRepeats(free_block_list')
  BY <1>r, <1>t
<1> QED  BY <1>1, <1>10, <1>11 DEF SlotInv, ListsOK
\* The remaining MISSes get new slots at the end of the master file.
LEMMA AppendPlan ==
    ASSUME TypeInv, NEW t \in Threads, AppendSlots(t), NEW i \in Idx
    PROVE  /\ plan'[t][i].kind = plan[t][i].kind /\ plan'[t][i].info = plan[t][i].info
           /\ plan'[t][i].master_blk = IF i \in Unassigned(t) THEN nextBlockIndex + Rank(t, i)
                                       ELSE plan[t][i].master_blk
<1>1. plan[t][i] \in PlanEntry
  BY SlotTypes
<1>2. plan'[t][i] = [plan[t][i] EXCEPT !.master_blk =
                        IF i \in Unassigned(t) THEN nextBlockIndex + Rank(t, i)
                        ELSE plan[t][i].master_blk]
  BY SlotTypes DEF AppendSlots
<1> QED  BY <1>1, <1>2 DEF PlanEntry

\* Each pending MasterInfo gets the slot of its plan entry, the others keep theirs.
LEMMA AppendInfo ==
    ASSUME SlotInv, RefcountsFit, NEW t \in Threads, AppendSlots(t)
    PROVE  /\ \A i \in Idx : IsMiss(t, i) =>
                  info'[plan[t][i].info].masterBlockIndex = plan'[t][i].master_blk
           /\ \A p \in Infos : info'[p].hash = info[p].hash
           /\ \A p \in Infos : (\A i \in Idx : ~(IsMiss(t, i) /\ plan[t][i].info = p)) =>
                  info'[p] = info[p]
<1> DEFINE SlotFor(i) == IF i \in Unassigned(t) THEN nextBlockIndex + Rank(t, i)
                         ELSE plan[t][i].master_blk
           MissOf(p) == {i \in Idx : IsMiss(t, i) /\ plan[t][i].info = p}
<1>1. info' = [p \in Infos |->
                    IF MissOf(p) = {} THEN info[p]
                    ELSE [info[p] EXCEPT !.masterBlockIndex =
                              SlotFor(CHOOSE i \in MissOf(p) : TRUE)]]
  BY DEF AppendSlots
<1>2. \A i \in Idx : plan'[t][i].master_blk = SlotFor(i)
  BY AppendPlan DEF SlotInv, RefInv
<1> HIDE DEF SlotFor
<1>3. ASSUME NEW i \in Idx, IsMiss(t, i)
      PROVE  info'[plan[t][i].info].masterBlockIndex = plan'[t][i].master_blk
  <2>p. PICK p : p = plan[t][i].info
    OBVIOUS
  <2>1. p \in Infos /\ info[p] \in Info
    BY <1>3, <2>p, PlanFacts, SlotTypes DEF SlotInv, RefInv
  <2>2. pc[t] = "w_append"
    BY DEF AppendSlots
  <2>3. ASSUME NEW j \in MissOf(p) PROVE j = i
    <3>1. OwnsPending(t, i) /\ Holds(t, j) /\ plan[t][j].info = p
      BY <1>3, <2>2, <2>3 DEF OwnsPending, HoldsRef, Holds, Planned, IsMiss
    <3> QED  BY <2>p, <2>3, <3>1, PrivateEntry DEF SlotInv
  <2>4. i \in MissOf(p)
    BY <1>3, <2>p
  <2>5. MissOf(p) = {i}
    BY <2>3, <2>4
  <2>6. (CHOOSE j \in MissOf(p) : TRUE) = i
    BY <2>5
  <2>7. info'[p] = [info[p] EXCEPT !.masterBlockIndex = SlotFor(i)]
    BY <1>1, <2>1, <2>4, <2>6
  <2> QED  BY <1>2, <2>1, <2>7, <2>p DEF Info
<1>4. ASSUME NEW p \in Infos PROVE info'[p].hash = info[p].hash
  BY SlotsOnly DEF SlotInv, RefInv
<1>5. ASSUME NEW p \in Infos, \A i \in Idx : ~(IsMiss(t, i) /\ plan[t][i].info = p)
      PROVE  info'[p] = info[p]
  <2>1. MissOf(p) = {}
    BY <1>5
  <2> QED  BY <1>1, <2>1
<1> QED  BY <1>3, <1>4, <1>5

LEMMA AppendOwners ==
    ASSUME SlotInv, RefcountsFit, NEW t \in Threads, \A u \in Threads \ {t} : SameFrame(u),
           AppendSlots(t)
    PROVE  OwnersOK' /\ ListsOK'
<1>n. PICK n : n = nextBlockIndex
  OBVIOUS
<1>c. PICK c : c = Cardinality(Unassigned(t))
  OBVIOUS
<1>1. /\ pc[t] = "w_append" /\ pc'[t] = "w_flush"
      /\ free_block_list' = free_block_list
      /\ hash_to_master' = hash_to_master /\ heap' = heap /\ rel' = rel
      /\ nextBlockIndex' = n + c
  BY <1>n, <1>c DEF AppendSlots, Goto, indexVars, SlotInv, RefInv, TypeInv, TypeOK, ControlType
<1>2. n \in Nat /\ c \in Nat /\ \A s \in Slots : s \in Nat
  BY <1>n, <1>c, UnassignedFinite, SlotTypes DEF SlotInv, RefInv, Slots
<1>3. \A i \in Unassigned(t) : Rank(t, i) \in Nat /\ Rank(t, i) < c
  BY <1>c, UnassignedFinite
<1>4. ASSUME NEW i \in Idx
      PROVE  /\ plan'[t][i].kind = plan[t][i].kind
             /\ plan'[t][i].master_blk = IF i \in Unassigned(t) THEN n + Rank(t, i)
                                         ELSE plan[t][i].master_blk
  BY <1>n, AppendPlan DEF SlotInv, RefInv
<1>5. \A i \in Idx : (OwnsPending(t, i) <=> IsMiss(t, i)) /\ (OwnsPending(t, i)' <=> IsMiss(t, i))
  BY <1>1, <1>4 DEF OwnsPending, HoldsRef, IsMiss
<1>6. ASSUME NEW p \in Infos, NEW s \in Slots PROVE Pub(p, s)' <=> Pub(p, s)
  <2>1. CASE \A i \in Idx : ~(IsMiss(t, i) /\ plan[t][i].info = p)
    <3>1. info'[p] = info[p]
      BY <2>1, AppendInfo
    <3> QED  BY <1>1, <3>1 DEF Pub, Published
  <2>2. ASSUME NEW i \in Idx, IsMiss(t, i), plan[t][i].info = p
        PROVE  Pub(p, s)' <=> Pub(p, s)
    <3>1. ~Published(p)
      BY <1>5, <2>2, PrivateEntry DEF SlotInv
    <3>2. info'[p].hash = info[p].hash
      BY AppendInfo
    <3> QED  BY <1>1, <3>1, <3>2 DEF Pub, Published
  <2> QED  BY <2>1, <2>2
<1>7. \A s \in Slots : (InFree(s)' <=> InFree(s)) /\ \A u \in Threads : InRel(u, s)' <=> InRel(u, s)
  BY <1>1 DEF InFree, InRel
<1>8. ASSUME NEW s \in Slots, s < n \/ s >= n + c
      PROVE  SameOwners(s) /\ (s < nextBlockIndex' <=> s < nextBlockIndex)
  <2>1. ASSUME NEW i \in Idx PROVE Pend(t, i, s)' <=> Pend(t, i, s)
    <3>1. CASE i \in Unassigned(t)
      <4>1. plan'[t][i].master_blk # s
        BY <1>2, <1>3, <1>4, <1>8, <3>1
      <4>2. plan[t][i].master_blk # s
        BY <3>1, SlotTypes DEF Unassigned, SlotInv, RefInv
      <4> QED  BY <4>1, <4>2 DEF Pend
    <3>2. CASE i \notin Unassigned(t)
      BY <1>4, <1>5, <3>2 DEF Pend
    <3> QED  BY <3>1, <3>2
  <2>2. \A u \in Threads, i \in Idx : Pend(u, i, s)' <=> Pend(u, i, s)
    BY <2>1, OtherPend
  <2>3. s < n + c <=> s < n
    BY <1>2, <1>8
  <2> QED  BY <1>1, <1>n, <1>6, <1>7, <2>2, <2>3 DEF SameOwners
<1>9. ASSUME NEW s \in Slots, n <= s, s < n + c PROVE OwnedOnce(s)'
  <2>1. ~(s < nextBlockIndex)
    BY <1>2, <1>9, <1>n
  <2>2. /\ ~InFree(s)
        /\ \A u \in Threads : ~InRel(u, s)
        /\ \A p \in Infos : ~Pub(p, s)
        /\ \A u \in Threads, i \in Idx : ~Pend(u, i, s)
    BY <2>1, FreeOnly, RelOnly, PubOnly, PendOnly DEF SlotInv
  <2>3. s - n \in Nat /\ s - n < c
    BY <1>2, <1>9
  <2>4. PICK j \in Unassigned(t) : Rank(t, j) = s - n
    BY <1>c, <2>3, RankFacts
  <2>5. j \in Idx /\ IsMiss(t, j) /\ plan'[t][j].master_blk = s
    <3>1. j \in Idx /\ IsMiss(t, j)
      BY DEF Unassigned
    <3>2. plan'[t][j].master_blk = n + (s - n)
      BY <1>4, <2>4, <3>1
    <3> QED  BY <1>2, <3>1, <3>2
  <2>6. ASSUME NEW i \in Idx, Pend(t, i, s)' PROVE i = j
    <3>1. plan'[t][i].master_blk = s /\ IsMiss(t, i)
      BY <1>5, <2>6 DEF Pend
    <3>2. i \in Unassigned(t)
      BY <1>4, <1>5, <2>2, <3>1 DEF Pend
    <3>3. Rank(t, i) = s - n
      BY <1>2, <1>3, <1>4, <3>1, <3>2
    <3> QED  BY <2>4, <3>2, <3>3, RankFacts
  <2>7. \A u \in Threads, i \in Idx : Pend(u, i, s)' <=> u = t /\ i = j
    <3>1. Pend(t, j, s)'
      BY <1>5, <2>5 DEF Pend
    <3>2. ASSUME NEW u \in Threads, u # t, NEW i \in Idx PROVE ~Pend(u, i, s)'
      BY <2>2, <3>2, OtherPend
    <3> QED  BY <2>6, <3>1, <3>2
  <2> QED  BY <1>6, <1>7, <2>2, <2>5, <2>7, NowPend
<1>10. OwnersOK'
  <2>1. \A s \in Slots : s < n \/ s >= n + c \/ (n <= s /\ s < n + c)
    BY <1>2
  <2> QED  BY <1>1, <1>8, <1>9, <2>1, OwnersGrow DEF SlotInv
<1> QED  BY <1>1, <1>10 DEF SlotInv, ListsOK
-----------------------------------------------------------------------------
(* Steps that move no slot                                                 *)

StillWrite(t) ==
    \/ PlanLock(t) \/ PlanHit(t) \/ PlanUnlock(t)
    \/ FlushRun(t) \/ FlushFail(t) \/ FlushDone(t) \/ WriteLock(t) \/ PublishSkip(t)
    \/ PublishDone(t) \/ Commit(t) \/ RbUnlock(t) \/ RbMutex(t) \/ RbDone(t)

LEMMA StillLists ==
    ASSUME TypeInv, ReleasesOK, NEW t \in Threads,
           Dispatch(t) \/ StillWrite(t) \/ QuietOther(t)
    PROVE  /\ free_block_list' = free_block_list /\ nextBlockIndex' = nextBlockIndex
           /\ rel' = rel /\ info' = info
<1>a. rel \in [Threads -> Seq(Slots)] /\ (pc[t] \notin ReleasingPCs => rel[t] = <<>>)
  BY SlotTypes DEF ReleasesOK
<1>b. rel[t] = <<>> => rel = [rel EXCEPT ![t] = <<>>]
  BY <1>a
<1> USE DEF dataVars, allocVars, heapVars, frameVars
<1>1. CASE Dispatch(t)
  BY <1>1 DEF Dispatch
<1>2. CASE PlanLock(t) \/ PlanHit(t) \/ PlanUnlock(t)
  BY <1>2 DEF PlanLock, PlanHit, PlanUnlock
<1>3. CASE FlushRun(t) \/ FlushFail(t) \/ FlushDone(t) \/ WriteLock(t) \/ PublishSkip(t)
  BY <1>3 DEF FlushRun, FlushRunAt, FlushFail, FlushFailAt, FlushDone, WriteLock, PublishSkip
<1>4. CASE PublishDone(t) \/ Commit(t) \/ RbUnlock(t) \/ RbMutex(t)
  BY <1>4 DEF PublishDone, Commit, RbUnlock, RbMutex
<1>5. CASE RbDone(t)
  BY <1>5, <1>a, <1>b DEF RbDone, Return, ReleasingPCs
<1>6. CASE UnlinkReadSize(t) \/ RemoveUnlock(t) \/ UnlinkDropSize(t) \/ ReadBlock(t)
  BY <1>6 DEF UnlinkReadSize, RemoveUnlock, UnlinkDropSize, ReadBlock
<1>7. CASE TruncateReadSize(t) \/ UnlinkBackend(t) \/ TruncateSetSize(t) \/ Create(t)
  BY <1>7, <1>a, <1>b DEF TruncateReadSize, UnlinkBackend, TruncateSetSize, Create, Return,
     ReleasingPCs
<1>8. CASE ReadLookup(t) \/ ReadReturn(t)
  BY <1>8, <1>a, <1>b DEF ReadLookup, ReadReturn, Return, ReleasingPCs
<1> QED
  BY <1>1, <1>2, <1>3, <1>4, <1>5, <1>6, <1>7, <1>8 DEF StillWrite, QuietOther

\* A handler's plan is left alone, filled further, or gone with its frame.
LEMMA StillPlan ==
    ASSUME TypeInv, NEW t \in Threads, Dispatch(t) \/ StillWrite(t) \/ QuietOther(t)
    PROVE  plan'[t] = plan[t] \/ pc'[t] = "idle" \/ PlanHit(t)
<1>a. pc \in [Threads -> PCs]
  BY DEF TypeInv, TypeOK, ControlType
<1> USE <1>a DEF frameVars, Return, Goto
<1>1. CASE Dispatch(t) \/ PlanLock(t) \/ PlanUnlock(t)
  BY <1>1 DEF Dispatch, PlanLock, PlanUnlock
<1>2. CASE FlushRun(t) \/ FlushFail(t) \/ FlushDone(t) \/ WriteLock(t) \/ PublishSkip(t)
  BY <1>2 DEF FlushRun, FlushRunAt, FlushFail, FlushFailAt, FlushDone, WriteLock, PublishSkip
<1>3. CASE PublishDone(t) \/ Commit(t) \/ RbUnlock(t) \/ RbMutex(t) \/ RbDone(t)
  BY <1>3 DEF PublishDone, Commit, RbUnlock, RbMutex, RbDone
<1>4. CASE UnlinkReadSize(t) \/ RemoveUnlock(t) \/ UnlinkDropSize(t) \/ ReadBlock(t)
  BY <1>4 DEF UnlinkReadSize, RemoveUnlock, UnlinkDropSize, ReadBlock
<1>5. CASE TruncateReadSize(t) \/ UnlinkBackend(t) \/ TruncateSetSize(t) \/ Create(t)
  BY <1>5 DEF TruncateReadSize, UnlinkBackend, TruncateSetSize, Create
<1>6. CASE ReadLookup(t) \/ ReadReturn(t)
  BY <1>6 DEF ReadLookup, ReadReturn
<1> QED  BY <1>1, <1>2, <1>3, <1>4, <1>5, <1>6 DEF StillWrite, QuietOther

\* A pending entry stays pending, with its slot.
KeepsPending(t, i) ==
    /\ OwnsPending(t, i)' <=> OwnsPending(t, i)
    /\ OwnsPending(t, i) => /\ plan'[t][i] = plan[t][i]
                            /\ Payload(t, i)' = Payload(t, i)

LEMMA StillPending ==
    ASSUME RefInv, ShapeOK', NEW t \in Threads,
           Dispatch(t) \/ StillWrite(t) \/ QuietOther(t), NEW i \in Idx
    PROVE  KeepsPending(t, i)
<1>1. KeepsEntry(t, i)
  BY QuietEntries DEF StillWrite, QuietWrite, RefInv
<1>2. OwnsPending(t, i)' <=> OwnsPending(t, i)
  BY <1>1 DEF KeepsEntry, Holds, OwnsPending, Planned, IsMiss
<1>3. ASSUME OwnsPending(t, i) PROVE plan'[t][i] = plan[t][i] /\ Payload(t, i)' = Payload(t, i)
  <2>1. pc'[t] # "idle"
    BY <1>2, <1>3 DEF OwnsPending, HoldsRef
  <2>2. plan'[t][i] = plan[t][i]
    <3>1. CASE plan'[t] = plan[t]
      BY <3>1
    <3>2. CASE PlanHit(t)
      <4>1. plan'[t] = [plan[t] EXCEPT ![k[t]] = plan'[t][k[t]]] /\ pc[t] = "w_plan" /\ k[t] < N(t)
        BY <3>2, SlotTypes DEF PlanHit, RefInv
      <4>2. PlanEnd(t) = k[t] /\ k[t] \in Idx /\ k[t] \in Nat
        BY <4>1, IterFacts DEF PlanEnd, PlannedPCs, WritePCs, RefInv, Idx
      <4>3. i # k[t]
        BY <1>3, <4>2 DEF RefInv, ShapeOK, NoEntry, OwnsPending, IsMiss
      <4> QED  BY <4>1, <4>3, SlotTypes DEF RefInv
    <3> QED  BY <2>1, <3>1, <3>2, StillPlan DEF RefInv
  <2>3. req'[t] = req[t]
    <3>1. pc[t] \in WritePCs
      BY <1>3 DEF OwnsPending, HoldsRef, WritePCs
    <3>2. ~Dispatch(t) /\ ~QuietOther(t)
      BY <3>1 DEF Dispatch, QuietOther, WritePCs, UnlinkReadSize, RemoveUnlock, UnlinkDropSize,
         ReadBlock, TruncateReadSize, UnlinkBackend, TruncateSetSize, Create, ReadLookup,
         ReadReturn
    <3>3. ~RbDone(t)
      BY <2>1 DEF RbDone, Return, Goto, RefInv, TypeInv, TypeOK, ControlType
    <3> QED  BY <3>2, <3>3 DEF StillWrite, frameVars, PlanLock, PlanHit, PlanUnlock, FlushRun,
         FlushRunAt, FlushFail, FlushFailAt, FlushDone, WriteLock, PublishSkip, PublishDone,
         Commit, RbUnlock, RbMutex
  <2> QED  BY <2>2, <2>3 DEF Payload
<1> QED  BY <1>2, <1>3 DEF KeepsPending

LEMMA CountHitPending ==
    ASSUME RefInv, NEW t \in Threads, CountHit(t), NEW i \in Idx
    PROVE  KeepsPending(t, i)
<1>1. /\ pc[t] = "w_hit" /\ pc'[t] = "w_plan" /\ plan' = plan /\ req' = req
  BY DEF CountHit, Goto, frameVars, RefInv, TypeInv, TypeOK, ControlType
<1>2. plan[t][k[t]].kind = "HIT"
  BY <1>1 DEF RefInv, TypeInv, FramesOK, FrameOK
<1> QED  BY <1>1, <1>2 DEF KeepsPending, OwnsPending, HoldsRef, IsMiss, Payload

\* A new MISS has no slot yet.
LEMMA PlanMissPending ==
    ASSUME RefInv, NEW t \in Threads, PlanMiss(t), NEW i \in Idx
    PROVE  \/ KeepsPending(t, i)
           \/ ~OwnsPending(t, i) /\ plan'[t][i].master_blk = NULL
<1>1. /\ pc[t] = "w_plan" /\ pc'[t] = "w_plan" /\ k[t] < N(t) /\ req' = req
  BY DEF PlanMiss, NextIter
<1>2. k[t] \in Idx /\ k[t] \in Nat /\ PlanEnd(t) = k[t]
  BY <1>1, IterFacts DEF PlanEnd, PlannedPCs, WritePCs, RefInv, Idx
<1>3. plan[t][k[t]] = NoEntry
  BY <1>2 DEF RefInv, ShapeOK
<1>4. /\ plan'[t][k[t]].master_blk = NULL
      /\ \A m \in Idx \ {k[t]} : plan'[t][m] = plan[t][m]
  BY <1>2, SlotTypes DEF PlanMiss, RefInv
<1>5. CASE i = k[t]
  BY <1>3, <1>4, <1>5 DEF OwnsPending, IsMiss, NoEntry
<1>6. CASE i # k[t]
  BY <1>1, <1>4, <1>6 DEF KeepsPending, OwnsPending, HoldsRef, IsMiss, Payload
<1> QED  BY <1>5, <1>6

LEMMA StillOwners ==
    ASSUME SlotInv, ShapeOK', NEW t \in Threads, \A u \in Threads \ {t} : SameFrame(u),
           Dispatch(t) \/ StillWrite(t) \/ QuietOther(t) \/ CountHit(t) \/ PlanMiss(t)
    PROVE  OwnersOK' /\ ListsOK'
<1>1. /\ free_block_list' = free_block_list /\ nextBlockIndex' = nextBlockIndex /\ rel' = rel
  BY StillLists DEF SlotInv, RefInv, CountHit, PlanMiss, allocVars, frameVars
<1>2. ASSUME NEW i \in Idx, NEW s \in Slots PROVE Pend(t, i, s)' <=> Pend(t, i, s)
  <2>1. KeepsPending(t, i) \/ (~OwnsPending(t, i) /\ plan'[t][i].master_blk = NULL)
    BY StillPending, CountHitPending, PlanMissPending DEF SlotInv
  <2> QED  BY <2>1, SlotTypes DEF KeepsPending, Pend, SlotInv, RefInv
<1>3. ASSUME NEW q \in Infos, NEW s \in Slots PROVE Pub(q, s)' <=> Pub(q, s)
  <2>1. CASE Dispatch(t) \/ StillWrite(t) \/ QuietOther(t)
    <3>1. SameIndex
      BY <2>1, QuietIndex DEF StillWrite, QuietWrite, SlotInv, RefInv
    <3>2. info' = info
      BY <2>1, StillLists DEF SlotInv, RefInv
    <3> QED  BY <3>1, <3>2 DEF SameIndex, Pub, Published
  <2>2. CASE CountHit(t)
    <3>1. heap' = heap /\ hash_to_master' = hash_to_master
      BY <2>2 DEF CountHit, indexVars
    <3>2. info'[q].hash = info[q].hash /\ info'[q].masterBlockIndex = info[q].masterBlockIndex
      BY <2>2, SlotTypes DEF CountHit, Info, SlotInv, RefInv
    <3> QED  BY <3>1, <3>2 DEF Pub, Published
  <2>3. CASE PlanMiss(t)
    <3>h. PICK h : h = HashAt(t, k[t])
      OBVIOUS
    <3>1. hash_to_master' = hash_to_master /\ hash_to_master[h] = NULL
      BY <2>3, <3>h DEF PlanMiss, indexVars, Existing
    <3>2. PICK p \in Infos \ heap :
              /\ heap' = heap \cup {p}
              /\ info' = [info EXCEPT ![p] = [hash |-> h, masterBlockIndex |-> 0, refcount |-> 1]]
      BY <2>3, <3>h DEF PlanMiss
    <3>3. CASE q = p
      <4>1. info'[p].hash = h
        BY <3>2, SlotTypes DEF SlotInv, RefInv
      <4> QED  BY <3>1, <3>2, <3>3, <4>1, NullAssumption DEF Pub, Published
    <3>4. CASE q # p
      <4>1. info'[q] = info[q]
        BY <3>2, <3>4, SlotTypes DEF SlotInv, RefInv
      <4> QED  BY <3>1, <3>2, <3>4, <4>1 DEF Pub, Published
    <3> QED  BY <3>3, <3>4
  <2> QED  BY <2>1, <2>2, <2>3
<1>4. ASSUME NEW s \in Slots PROVE SameOwners(s)
  <2>1. \A u \in Threads, i \in Idx : Pend(u, i, s)' <=> Pend(u, i, s)
    BY <1>2, OtherPend
  <2> QED  BY <1>1, <1>3, <2>1 DEF SameOwners, InFree, InRel
<1> QED  BY <1>1, <1>4, OwnersMove DEF SlotInv, ListsOK
-----------------------------------------------------------------------------
(* The invariant is inductive                                              *)

LEMMA OwnersStep ==
    ASSUME SlotInv, RefcountsFit, ShapeOK', NEW t \in Threads,
           \A u \in Threads \ {t} : SameFrame(u), Dispatch(t) \/ Step(t)
    PROVE  OwnersOK' /\ ListsOK'
<1>1. CASE Dispatch(t) \/ StillWrite(t) \/ QuietOther(t) \/ CountHit(t) \/ PlanMiss(t)
  BY <1>1, StillOwners
<1>2. CASE Drain(t) \/ AppendSlots(t) \/ ReleaseAfterWrite(t) \/ ReleaseAndGo(t)
  BY <1>2, DrainOwners, AppendOwners, ReleaseOwners
<1>3. CASE PublishOurs(t) \/ UseWinner(t) \/ MapBlock(t) \/ RemoveBlock(t)
  BY <1>3, PublishOursOwners, UseWinnerOwners, MapBlockOwners, RemoveBlockOwners
<1>4. CASE RbHit(t) \/ RbMiss(t)
  BY <1>4, RbHitOwners, RbMissOwners
<1> QED  BY <1>1, <1>2, <1>3, <1>4 DEF Step, StillWrite, QuietOther

LEMMA RelFrame ==
    ASSUME TypeInv, NEW t \in Threads, Dispatch(t) \/ Step(t), NEW u \in Threads, u # t
    PROVE  rel'[u] = rel[u]
<1>a. rel \in [Threads -> Seq(Slots)]
  BY SlotTypes
<1>d. ASSUME NEW p, DropRef(t, p) PROVE rel'[u] = rel[u]
  BY <1>a, <1>d DEF DropRef
<1> USE <1>a DEF frameVars, Return
<1>1. CASE Dispatch(t)
  BY <1>1 DEF Dispatch
<1>2. CASE PlanLock(t) \/ PlanHit(t) \/ PlanUnlock(t) \/ CountHit(t) \/ PlanMiss(t)
  BY <1>2 DEF PlanLock, PlanHit, PlanUnlock, CountHit, PlanMiss
<1>3. CASE FlushRun(t) \/ FlushFail(t) \/ FlushDone(t) \/ WriteLock(t) \/ PublishSkip(t)
  BY <1>3 DEF FlushRun, FlushRunAt, FlushFail, FlushFailAt, FlushDone, WriteLock, PublishSkip
<1>4. CASE PublishDone(t) \/ Commit(t) \/ RbUnlock(t) \/ RbMutex(t) \/ RbDone(t)
  BY <1>4 DEF PublishDone, Commit, RbUnlock, RbMutex, RbDone
<1>5. CASE UnlinkReadSize(t) \/ RemoveUnlock(t) \/ UnlinkDropSize(t) \/ ReadBlock(t)
  BY <1>5 DEF UnlinkReadSize, RemoveUnlock, UnlinkDropSize, ReadBlock
<1>6. CASE TruncateReadSize(t) \/ UnlinkBackend(t) \/ TruncateSetSize(t) \/ Create(t)
  BY <1>6 DEF TruncateReadSize, UnlinkBackend, TruncateSetSize, Create
<1>7. CASE ReadLookup(t) \/ ReadReturn(t)
  BY <1>7 DEF ReadLookup, ReadReturn
<1>8. CASE Drain(t) \/ AppendSlots(t) \/ ReleaseAfterWrite(t) \/ ReleaseAndGo(t)
  BY SMTT(30), <1>8 DEF Drain, AppendSlots, ReleaseAfterWrite, ReleaseAndGo
<1>9. CASE PublishOurs(t) \/ UseWinner(t) \/ RbMiss(t)
  <2>1. CASE PublishOurs(t) \/ RbMiss(t)
    BY <2>1 DEF PublishOurs, RbMiss
  <2>2. CASE UseWinner(t)
    <3>1. rel' = [rel EXCEPT ![t] = <<plan[t][k[t]].master_blk>> \o @]
      BY <2>2 DEF UseWinner
    <3> QED  BY <3>1
  <2> QED  BY SMTT(30), <1>9, <2>1, <2>2
<1>10. CASE MapBlock(t) \/ RemoveBlock(t) \/ RbHit(t)
  <2>1. rel' = rel \/ \E p : DropRef(t, p)
    BY <1>10 DEF MapBlock, RemoveBlock, RbHit
  <2> QED  BY <1>d, <2>1
<1> QED
  BY <1>1, <1>2, <1>3, <1>4, <1>5, <1>6, <1>7, <1>8, <1>9, <1>10 DEF Step

LEMMA ReleasesStep ==
    ASSUME TypeInv, ReleasesOK, NEW t \in Threads, \A u \in Threads \ {t} : SameFrame(u),
           Dispatch(t) \/ Step(t)
    PROVE  ReleasesOK'
<1>1. ASSUME NEW u \in Threads, u # t PROVE pc'[u] \in ReleasingPCs \/ rel'[u] = <<>>
  BY <1>1, RelFrame DEF SameFrame, ReleasesOK
<1>2. pc'[t] \in ReleasingPCs \/ rel'[t] = <<>>
  <2>a. /\ rel \in [Threads -> Seq(Slots)] /\ pc \in [Threads -> PCs]
        /\ pc[t] \in ReleasingPCs \/ rel[t] = <<>>
    BY SlotTypes DEF TypeInv, TypeOK, ControlType, ReleasesOK
  <2> USE <2>a DEF frameVars, Return, Goto, NextIter, SetK, ReleasingPCs
  <2>1. CASE Dispatch(t)
    <3>1. pc[t] = "idle" /\ rel' = rel
      BY <2>1 DEF Dispatch
    <3> QED  BY <3>1
  <2>2. CASE PlanLock(t) \/ PlanHit(t) \/ PlanUnlock(t) \/ CountHit(t) \/ PlanMiss(t)
    BY <2>2 DEF PlanLock, PlanHit, PlanUnlock, CountHit, PlanMiss
  <2>3. CASE FlushRun(t) \/ FlushFail(t) \/ FlushDone(t) \/ WriteLock(t) \/ PublishSkip(t)
    BY <2>3 DEF FlushRun, FlushRunAt, FlushFail, FlushFailAt, FlushDone, WriteLock, PublishSkip
  <2>4. CASE PublishDone(t) \/ Commit(t) \/ RbUnlock(t) \/ RbMutex(t) \/ RbDone(t)
    BY <2>4 DEF PublishDone, Commit, RbUnlock, RbMutex, RbDone
  <2>5. CASE UnlinkReadSize(t) \/ RemoveUnlock(t) \/ UnlinkDropSize(t) \/ ReadBlock(t)
    BY <2>5 DEF UnlinkReadSize, RemoveUnlock, UnlinkDropSize, ReadBlock
  <2>6. CASE TruncateReadSize(t) \/ UnlinkBackend(t) \/ TruncateSetSize(t) \/ Create(t)
    BY <2>6 DEF TruncateReadSize, UnlinkBackend, TruncateSetSize, Create
  <2>7. CASE ReadLookup(t) \/ ReadReturn(t)
    BY <2>7 DEF ReadLookup, ReadReturn
  <2>8. CASE Drain(t) \/ AppendSlots(t) \/ ReleaseAfterWrite(t) \/ ReleaseAndGo(t)
    BY <2>8 DEF Drain, AppendSlots, ReleaseAfterWrite, ReleaseAndGo
  <2>9. CASE PublishOurs(t) \/ UseWinner(t) \/ MapBlock(t)
    <3>0. /\ PublishOurs(t) => pc' = pc /\ pc[t] = "w_publish"
          /\ UseWinner(t) => pc' = pc /\ pc[t] = "w_publish"
          /\ MapBlock(t) => pc' = pc /\ pc[t] = "w_map"
      BY DEF PublishOurs, UseWinner, MapBlock
    <3>1. pc' = pc /\ pc[t] \in {"w_publish", "w_map"}
      BY <2>9, <3>0
    <3> QED  BY <3>1
  <2>10. CASE RemoveBlock(t) \/ RbHit(t) \/ RbMiss(t)
    BY <2>10 DEF RemoveBlock, RbHit, RbMiss
  <2> QED
    BY <2>1, <2>2, <2>3, <2>4, <2>5, <2>6, <2>7, <2>8, <2>9, <2>10 DEF Step
<1> QED  BY <1>1, <1>2 DEF ReleasesOK
LEMMA PendingStep ==
    ASSUME SlotInv, RefcountsFit, ShapeOK', NEW t \in Threads,
           \A u \in Threads \ {t} : SameFrame(u), Dispatch(t) \/ Step(t)
    PROVE  PendingOK'
<1> DEFINE Named(u, i) ==
        OwnsPending(u, i) /\ pc[u] \in SlottedPCs =>
            info[plan[u][i].info].masterBlockIndex = plan[u][i].master_blk
<1>0. SUFFICES ASSUME NEW u \in Threads, NEW i \in Idx PROVE Named(u, i)'
  BY DEF PendingOK
<1>a. Named(u, i) /\ TypeInv /\ RefInv
  BY DEF SlotInv, RefInv, PendingOK
<1>b. OwnsPending(u, i) => plan[u][i].info \in Infos
  BY <1>a, PlanFacts DEF OwnsPending
<1>c. u # t => KeepsPending(u, i) /\ pc'[u] = pc[u]
  BY DEF SameFrame, KeepsPending, OwnsPending, HoldsRef, IsMiss, Payload
\* An entry that stays pending, while no MasterInfo behind it gets another slot.
<1>1. ASSUME KeepsPending(u, i), pc'[u] \in SlottedPCs => pc[u] \in SlottedPCs,
             \A p \in Infos : info'[p].masterBlockIndex = info[p].masterBlockIndex
      PROVE  Named(u, i)'
  BY <1>a, <1>b, <1>1 DEF KeepsPending
<1>2. CASE Dispatch(t) \/ StillWrite(t) \/ QuietOther(t)
  <2>1. KeepsPending(u, i) /\ info' = info
    BY <1>a, <1>c, <1>2, StillPending, StillLists DEF SlotInv
  <2>2. OwnsPending(u, i) /\ pc'[u] \in SlottedPCs => pc[u] \in SlottedPCs
    <3>1. CASE u # t
      BY <1>c, <3>1
    <3>2. CASE u = t /\ PlanUnlock(t)
      <4>1. (\E m \in Idx : IsMiss(t, m)) => pc'[t] = "w_drain"
        BY <3>2 DEF PlanUnlock, Goto, SlotInv, RefInv, TypeInv, TypeOK, ControlType
      <4> QED  BY <3>2, <4>1 DEF OwnsPending, SlottedPCs
    <3>3. CASE u = t /\ ~PlanUnlock(t)
      <4>1. pc'[t] \in SlottedPCs => pc[t] \in SlottedPCs
        <5>a. pc \in [Threads -> PCs]
          BY <1>a DEF TypeInv, TypeOK, ControlType
        <5> USE <5>a DEF SlottedPCs, Goto, NextIter, SetK, Return
        <5>1. CASE Dispatch(t)
          BY <5>1, EntryRange DEF Dispatch
        <5>2. CASE StillWrite(t)
          BY <3>3, <5>2 DEF StillWrite, PlanLock, PlanHit, FlushRun, FlushRunAt, FlushFail,
             FlushFailAt, FlushDone, WriteLock, PublishSkip, PublishDone, Commit, RbUnlock,
             RbMutex, RbDone
        <5>3. CASE QuietOther(t)
          BY <5>3 DEF QuietOther, UnlinkReadSize, RemoveUnlock, UnlinkDropSize, BeginRemoval,
             ReadBlock, TruncateReadSize, UnlinkBackend, TruncateSetSize, Create, ReadLookup,
             ReadReturn
        <5> QED  BY <1>2, <5>1, <5>2, <5>3
      <4> QED  BY <3>3, <4>1
    <3> QED  BY <3>1, <3>2, <3>3
  <2> QED  BY <1>a, <1>b, <2>1, <2>2 DEF KeepsPending
<1>3. CASE CountHit(t)
  <2>1. KeepsPending(u, i)
    BY <1>a, <1>c, <1>3, CountHitPending
  <2>2. \A p \in Infos : info'[p].masterBlockIndex = info[p].masterBlockIndex
    BY <1>a, <1>3, SlotTypes DEF CountHit, Info
  <2>3. pc'[t] = "w_plan"
    BY <1>a, <1>3 DEF CountHit, Goto, TypeInv, TypeOK, ControlType
  <2> QED  BY <1>1, <1>c, <2>1, <2>2, <2>3 DEF SlottedPCs
<1>4. CASE PlanMiss(t)
  <2>1. pc'[t] = "w_plan"
    BY <1>4 DEF PlanMiss, NextIter
  <2>2. CASE u = t
    BY <2>1, <2>2 DEF SlottedPCs
  <2>3. CASE u # t
    <3>1. KeepsPending(u, i) /\ pc'[u] = pc[u]
      BY <1>c, <2>3
    <3>2. OwnsPending(u, i) => plan[u][i].info \in heap
      BY PrivateEntry DEF SlotInv
    <3>3. \A p \in heap : info'[p] = info[p]
      BY <1>a, <1>4, SlotTypes, HeapFacts DEF PlanMiss
    <3> QED  BY <1>a, <3>1, <3>2, <3>3 DEF KeepsPending
  <2> QED  BY <2>2, <2>3
<1>5. CASE Drain(t)
  <2>1. pc'[t] = "w_append" /\ info' = info
    BY <1>a, <1>5 DEF Drain, Goto, heapVars, TypeInv, TypeOK, ControlType
  <2>2. CASE u = t
    BY <2>1, <2>2 DEF SlottedPCs
  <2>3. CASE u # t
    BY <1>1, <1>c, <2>1, <2>3
  <2> QED  BY <2>2, <2>3
<1>6. CASE AppendSlots(t)
  <2>1. CASE u = t
    <3>1. plan'[t][i].kind = plan[t][i].kind /\ plan'[t][i].info = plan[t][i].info
      BY <1>6, AppendPlan DEF SlotInv, RefInv
    <3>2. IsMiss(t, i) => info'[plan[t][i].info].masterBlockIndex = plan'[t][i].master_blk
      BY <1>6, AppendInfo
    <3> QED  BY <2>1, <3>1, <3>2 DEF OwnsPending, IsMiss
  <2>2. CASE u # t
    <3>1. KeepsPending(u, i) /\ pc'[u] = pc[u]
      BY <1>c, <2>2
    <3>p. PICK p : p = plan[u][i].info
      OBVIOUS
    <3>2. ASSUME OwnsPending(u, i) PROVE info'[p] = info[p]
      <4>1. pc[t] = "w_append"
        BY <1>6 DEF AppendSlots
      <4>2. ASSUME NEW m \in Idx, IsMiss(t, m) PROVE plan[t][m].info # p
        <5>1. Holds(t, m)
          BY <4>1, <4>2 DEF Holds, HoldsRef, Planned, IsMiss
        <5> QED  BY <2>2, <3>2, <3>p, <5>1, PrivateEntry DEF SlotInv
      <4> QED  BY <1>b, <1>6, <3>2, <3>p, <4>2, AppendInfo
    <3> QED  BY <1>a, <3>1, <3>2, <3>p DEF KeepsPending
  <2> QED  BY <2>1, <2>2
<1>7. CASE \/ PublishOurs(t) \/ UseWinner(t) \/ MapBlock(t) \/ RemoveBlock(t) \/ RbHit(t)
           \/ RbMiss(t) \/ ReleaseAfterWrite(t) \/ ReleaseAndGo(t)
  <2>1. \A p \in Infos : info'[p].masterBlockIndex = info[p].masterBlockIndex
    <3>1. \/ info' = info
          \/ \E p, n : info' = [info EXCEPT ![p].refcount = n]
      <4>1. CASE PublishOurs(t) \/ RbMiss(t) \/ ReleaseAfterWrite(t) \/ ReleaseAndGo(t)
        BY <4>1 DEF PublishOurs, RbMiss, ReleaseAfterWrite, ReleaseAndGo, heapVars
      <4>2. CASE UseWinner(t)
        BY <4>2 DEF UseWinner
      <4>3. CASE MapBlock(t) \/ RemoveBlock(t) \/ RbHit(t)
        <5>1. info' = info \/ \E p : DropRef(t, p)
          BY <4>3 DEF MapBlock, RemoveBlock, RbHit, heapVars
        <5> QED  BY <5>1 DEF DropRef
      <4> QED  BY SMTT(30), <1>7, <4>1, <4>2, <4>3
    <3>2. CASE \E p, n : info' = [info EXCEPT ![p].refcount = n]
      <4>1. PICK p, n : info' = [info EXCEPT ![p].refcount = n]
        BY <3>2
      <4>2. \A q \in Infos : /\ info[q] \in Info
                            /\ info'[q] = IF q = p THEN [info[q] EXCEPT !.refcount = n] ELSE info[q]
        BY <1>a, <4>1, SlotTypes
      <4> QED  BY <4>2 DEF Info
    <3> QED  BY SMTT(30), <3>1, <3>2
  <2>2. CASE u # t
    BY <1>1, <1>c, <2>1, <2>2
  <2>3. CASE u = t
    <3>1. OwnsPending(t, i)' /\ pc'[t] \in SlottedPCs =>
              /\ OwnsPending(t, i) /\ pc[t] \in SlottedPCs /\ plan'[t][i] = plan[t][i]
      <4>a. /\ pc \in [Threads -> PCs] /\ k \in [Threads -> 0 .. MaxBlocks]
            /\ MaxBlocks \in Nat /\ i \in Nat /\ plan \in [Threads -> [Idx -> PlanEntry]]
        BY SMTT(30), <1>a, BoundsAssumption, SlotTypes DEF TypeInv, TypeOK, ControlType, Idx
      <4> USE <4>a DEF OwnsPending, HoldsRef, IsMiss, SlottedPCs, Goto, NextIter, SetK, frameVars
      <4>1. CASE PublishOurs(t)
        BY <4>1 DEF PublishOurs
      <4>2. CASE UseWinner(t)
        <5>1. /\ pc' = pc /\ pc[t] = "w_publish" /\ k'[t] = k[t] + 1
              /\ plan' = [plan EXCEPT ![t][k[t]].info = Winner(t, k[t])]
          BY <4>2 DEF UseWinner
        <5>2. i # k[t] => plan'[t][i] = plan[t][i]
          BY <5>1
        <5>3. i = k[t] => ~OwnsPending(t, i)'
          BY <5>1
        <5>4. i # k[t] /\ OwnsPending(t, i)' => OwnsPending(t, i)
          BY <5>1, <5>2
        <5> QED  BY <5>1, <5>2, <5>3, <5>4
      <4>3. CASE MapBlock(t) \/ RemoveBlock(t)
        <5>1. pc' = pc /\ pc[t] \in {"w_map", "rm_loop"}
          BY <4>3 DEF MapBlock, RemoveBlock
        <5> QED  BY <5>1
      <4>4. CASE RbHit(t)
        <5>1. pc' = pc /\ pc[t] = "rb_hits" /\ plan' = plan
          BY <4>4 DEF RbHit
        <5> QED  BY <5>1
      <4>5. CASE RbMiss(t)
        <5>1. pc' = pc /\ pc[t] = "rb_miss" /\ plan' = plan /\ k'[t] = k[t] + 1
          BY <4>5 DEF RbMiss
        <5> QED  BY <5>1
      <4>6. CASE ReleaseAfterWrite(t)
        <5>1. pc'[t] = "idle"
          BY <4>6 DEF ReleaseAfterWrite, Return
        <5> QED  BY <5>1
      <4>7. CASE ReleaseAndGo(t)
        <5>1. /\ (pc[t] = "rb_release" /\ pc'[t] = "rb_mutex") \/ pc'[t] \in {"u_size", "t_size"}
              /\ plan' = plan
          BY <4>7 DEF ReleaseAndGo
        <5> QED  BY <5>1
      <4> QED  BY <1>7, <4>1, <4>2, <4>3, <4>4, <4>5, <4>6, <4>7
    <3> QED  BY <1>a, <1>b, <2>1, <2>3, <3>1
  <2> QED  BY SMTT(30), <2>2, <2>3
<1> QED
  BY <1>2, <1>3, <1>4, <1>5, <1>6, <1>7 DEF Step, StillWrite, QuietOther
LEMMA SlotInit == ASSUME Fresh, RefcountsFit PROVE SlotInv
<1>1. RefInv
  BY RefInit
<1>2. /\ free_block_list = <<>> /\ nextBlockIndex = 0 /\ heap = {}
      /\ \A u \in Threads : rel[u] = <<>> /\ pc[u] = "idle"
  BY DEF Fresh, FreshInit
<1>3. ListsOK /\ ReleasesOK
  BY <1>2 DEF ListsOK, ReleasesOK, NoRepeats
<1>4. PendingOK
  BY <1>2 DEF PendingOK, SlottedPCs
<1>5. ASSUME NEW s \in Slots PROVE Unowned(s) /\ ~(s < nextBlockIndex)
  <2>1. /\ ~InFree(s)
        /\ \A u \in Threads : ~InRel(u, s)
        /\ \A p \in Infos : ~Pub(p, s)
        /\ \A u \in Threads, i \in Idx : ~Pend(u, i, s)
    BY <1>2 DEF InFree, InRel, Pub, Pend, OwnsPending, HoldsRef, Range
  <2>2. ~(s < 0)
    BY BoundsAssumption DEF Slots
  <2> QED  BY <1>2, <2>1, <2>2 DEF Unowned, Owns
<1> QED  BY <1>1, <1>3, <1>4, <1>5 DEF SlotInv, OwnersOK

LEMMA SlotStep ==
    ASSUME RefcountsFit, DistinctBatches, SlotInv, [Next]_vars
    PROVE  SlotInv'
<1>1. RefInv'
  BY RefStep DEF SlotInv
<1>2. CASE UNCHANGED vars
  <2>1. \A s : SameOwners(s)
    BY <1>2 DEF vars, dataVars, indexVars, heapVars, allocVars, frameVars, SameOwners, InFree,
       InRel, Pub, Published, Pend, OwnsPending, HoldsRef, IsMiss
  <2>2. /\ nextBlockIndex' = nextBlockIndex /\ free_block_list' = free_block_list
        /\ rel' = rel /\ pc' = pc /\ info' = info /\ plan' = plan
    BY <1>2 DEF vars, dataVars, heapVars, allocVars, frameVars
  <2>3. OwnersOK'
    BY <2>1, <2>2, OwnersMove DEF SlotInv
  <2>4. PendingOK'
    BY <1>2 DEF vars, dataVars, heapVars, frameVars, SlotInv, PendingOK, OwnsPending, HoldsRef,
       IsMiss
  <2> QED  BY <1>1, <2>2, <2>3, <2>4 DEF SlotInv, ListsOK, ReleasesOK
<1>3. ASSUME NEW t \in Threads, Dispatch(t) \/ Step(t) PROVE SlotInv'
  <2>1. \A u \in Threads \ {t} : SameFrame(u)
    BY <1>3, OthersUnchanged DEF SlotInv, RefInv, TypeInv
  <2>2. ShapeOK'
    BY <1>1 DEF RefInv
  <2>3. OwnersOK' /\ ListsOK'
    BY <1>3, <2>1, <2>2, OwnersStep
  <2>4. ReleasesOK'
    BY <1>3, <2>1, ReleasesStep DEF SlotInv, RefInv
  <2>5. PendingOK'
    BY <1>3, <2>1, <2>2, PendingStep
  <2> QED  BY <1>1, <2>3, <2>4, <2>5 DEF SlotInv
<1> QED  BY <1>2, <1>3 DEF Next, Quiet

LEMMA SlotAlways ==
    ASSUME RefcountsFit, DistinctBatches
    PROVE  Spec => []SlotInv
<1>1. Init => SlotInv
  BY InitFresh, SlotInit
<1>2. SlotInv /\ [Next]_vars => SlotInv'
  BY SlotStep
<1> QED  BY <1>1, <1>2, PTL DEF Spec

-----------------------------------------------------------------------------
(* Counting owners                                                         *)

FreeAt(s) == {j \in DOMAIN free_block_list : free_block_list[j] = s}
PubAt(s)  == {p \in heap : Published(p) /\ info[p].masterBlockIndex = s}
PendAt(s) == {y \in Threads \X Idx :
                  OwnsPending(y[1], y[2]) /\ plan[y[1]][y[2]].master_blk = s}
RelAt(s)  == {y \in Threads \X (1 .. MaxSlots) :
                  y[2] \in DOMAIN rel[y[1]] /\ rel[y[1]][y[2]] = s}

\* A list without repetitions is no longer than the master file.
LEMMA ShortList ==
    ASSUME NEW q \in Seq(Slots), NoRepeats(q), NEW j \in DOMAIN q
    PROVE  j \in 1 .. MaxSlots
<1>1. q \in Injection(1 .. Len(q), Slots)
  BY DEF NoRepeats, Injection, IsInjective
<1>2. IsFiniteSet(Slots) /\ Cardinality(Slots) = MaxSlots /\ MaxSlots \in Nat
  BY BoundsAssumption, FS_Interval DEF Slots
<1>3. Cardinality(1 .. Len(q)) <= MaxSlots
  BY <1>1, <1>2, FS_Injection
<1>4. Len(q) \in Nat /\ j \in 1 .. Len(q)
  OBVIOUS
<1>5. Cardinality(1 .. Len(q)) = Len(q)
  <2>1. Cardinality(1 .. Len(q)) = IF 1 > Len(q) THEN 0 ELSE Len(q) - 1 + 1
    BY <1>4, FS_Interval
  <2> QED  BY <1>4, <2>1
<1> QED  BY <1>2, <1>3, <1>4, <1>5

LEMMA OwnerSets ==
    ASSUME SlotInv, NEW s \in Slots
    PROVE  /\ IF InFree(s) THEN \E j : FreeAt(s) = {j} ELSE FreeAt(s) = {}
           /\ \A u \in Threads : InRel(u, s) => \E y : RelAt(s) = {y}
           /\ (\A u \in Threads : ~InRel(u, s)) => RelAt(s) = {}
           /\ \A p \in Infos : Pub(p, s) => PubAt(s) = {p}
           /\ (\A p \in Infos : ~Pub(p, s)) => PubAt(s) = {}
           /\ \A u \in Threads, i \in Idx : Pend(u, i, s) => PendAt(s) = {<<u, i>>}
           /\ (\A u \in Threads, i \in Idx : ~Pend(u, i, s)) => PendAt(s) = {}
<1>a. heap \subseteq Infos /\ rel \in [Threads -> Seq(Slots)]
  BY HeapFacts, SlotTypes DEF SlotInv, RefInv
<1>1. IF InFree(s) THEN \E j : FreeAt(s) = {j} ELSE FreeAt(s) = {}
  <2>1. CASE InFree(s)
    <3>1. PICK j \in DOMAIN free_block_list : free_block_list[j] = s
      BY <2>1 DEF InFree, Range
    <3>2. FreeAt(s) = {j}
      BY <3>1 DEF FreeAt, SlotInv, ListsOK, NoRepeats
    <3> QED  BY <2>1, <3>2
  <2>2. CASE ~InFree(s)
    BY <2>2 DEF InFree, Range, FreeAt
  <2> QED  BY <2>1, <2>2
<1>2. ASSUME NEW u \in Threads, InRel(u, s) PROVE \E y : RelAt(s) = {y}
  <2>1. PICK j \in DOMAIN rel[u] : rel[u][j] = s
    BY <1>2 DEF InRel, Range
  <2>2. j \in 1 .. MaxSlots
    BY <1>a, <2>1, ShortList DEF SlotInv, ListsOK
  <2>3. ASSUME NEW v \in Threads, NEW m \in DOMAIN rel[v], rel[v][m] = s PROVE v = u /\ m = j
    <3>1. InRel(v, s)
      BY <2>3 DEF InRel, Range
    <3>2. v = u
      BY <1>2, <3>1, RelOnly DEF SlotInv
    <3> QED  BY <2>1, <2>3, <3>2 DEF SlotInv, ListsOK, NoRepeats
  <2>4. RelAt(s) = {<<u, j>>}
    BY <2>1, <2>2, <2>3 DEF RelAt
  <2> QED  BY <2>4
<1>3. (\A u \in Threads : ~InRel(u, s)) => RelAt(s) = {}
  BY DEF InRel, Range, RelAt
<1>4. /\ \A p \in Infos : Pub(p, s) => PubAt(s) = {p}
      /\ (\A p \in Infos : ~Pub(p, s)) => PubAt(s) = {}
  <2>1. \A p \in Infos : p \in PubAt(s) <=> Pub(p, s)
    BY DEF PubAt, Pub
  <2>2. PubAt(s) \subseteq Infos
    BY <1>a DEF PubAt
  <2>3. \A p \in Infos : Pub(p, s) => \A q \in Infos : Pub(q, s) => q = p
    BY PubOnly DEF SlotInv
  <2> QED  BY <2>1, <2>2, <2>3
<1>5. /\ \A u \in Threads, i \in Idx : Pend(u, i, s) => PendAt(s) = {<<u, i>>}
      /\ (\A u \in Threads, i \in Idx : ~Pend(u, i, s)) => PendAt(s) = {}
  <2>1. ASSUME NEW u \in Threads, NEW i \in Idx, Pend(u, i, s) PROVE PendAt(s) = {<<u, i>>}
    <3>1. \A v \in Threads, m \in Idx : Pend(v, m, s) => v = u /\ m = i
      BY <2>1, PendOnly DEF SlotInv
    <3> QED  BY <2>1, <3>1 DEF PendAt, Pend
  <2> QED  BY <2>1 DEF PendAt, Pend
<1> QED  BY <1>1, <1>2, <1>3, <1>4, <1>5

\* One owner each, counted.
LEMMA OwnedPartition == SlotInv => SlotPartition
<1> SUFFICES ASSUME SlotInv, NEW s \in Slots
             PROVE  SlotOwners(s) = IF s < nextBlockIndex THEN 1 ELSE 0
  BY DEF SlotPartition
<1>1. SlotOwners(s) = Cardinality(FreeAt(s)) + Cardinality(PubAt(s))
                      + Cardinality(PendAt(s)) + Cardinality(RelAt(s))
  BY DEF SlotOwners, FreeAt, PubAt, PendAt, RelAt
<1>2. \A x : Cardinality({x}) = 1
  BY FS_Singleton
<1>3. Cardinality({}) = 0
  BY FS_EmptySet
<1>4. CASE s < nextBlockIndex
  <2>1. \/ InFree(s)
        \/ \E u \in Threads : InRel(u, s)
        \/ \E p \in Infos : Pub(p, s)
        \/ \E u \in Threads, i \in Idx : Pend(u, i, s)
    BY <1>4 DEF SlotInv, OwnersOK, OwnedOnce, Owns
  <2>2. CASE InFree(s)
    <3>1. /\ \E j : FreeAt(s) = {j}
          /\ RelAt(s) = {} /\ PubAt(s) = {} /\ PendAt(s) = {}
      BY <2>2, FreeOnly, OwnerSets DEF SlotInv
    <3>2. Cardinality(FreeAt(s)) = 1
      BY <1>2, <3>1
    <3>3. /\ Cardinality(RelAt(s)) = 0 /\ Cardinality(PubAt(s)) = 0
          /\ Cardinality(PendAt(s)) = 0
      BY <1>3, <3>1
    <3> QED  BY <1>1, <1>4, <3>2, <3>3
  <2>3. ASSUME NEW u \in Threads, InRel(u, s) PROVE SlotOwners(s) = 1
    <3>1. /\ \E y : RelAt(s) = {y}
          /\ FreeAt(s) = {} /\ PubAt(s) = {} /\ PendAt(s) = {}
      BY <2>3, RelOnly, OwnerSets DEF SlotInv
    <3>2. Cardinality(RelAt(s)) = 1
      BY <1>2, <3>1
    <3>3. /\ Cardinality(FreeAt(s)) = 0 /\ Cardinality(PubAt(s)) = 0
          /\ Cardinality(PendAt(s)) = 0
      BY <1>3, <3>1
    <3> QED  BY <1>1, <3>2, <3>3
  <2>4. ASSUME NEW p \in Infos, Pub(p, s) PROVE SlotOwners(s) = 1
    <3>1. PubAt(s) = {p} /\ FreeAt(s) = {} /\ RelAt(s) = {} /\ PendAt(s) = {}
      BY <2>4, PubOnly, OwnerSets DEF SlotInv
    <3>2. Cardinality(PubAt(s)) = 1
      BY <1>2, <3>1
    <3>3. /\ Cardinality(FreeAt(s)) = 0 /\ Cardinality(RelAt(s)) = 0
          /\ Cardinality(PendAt(s)) = 0
      BY <1>3, <3>1
    <3> QED  BY <1>1, <3>2, <3>3
  <2>5. ASSUME NEW u \in Threads, NEW i \in Idx, Pend(u, i, s) PROVE SlotOwners(s) = 1
    <3>1. PendAt(s) = {<<u, i>>} /\ FreeAt(s) = {} /\ RelAt(s) = {} /\ PubAt(s) = {}
      BY <2>5, PendOnly, OwnerSets DEF SlotInv
    <3>2. Cardinality(PendAt(s)) = 1
      BY <1>2, <3>1
    <3>3. /\ Cardinality(FreeAt(s)) = 0 /\ Cardinality(RelAt(s)) = 0
          /\ Cardinality(PubAt(s)) = 0
      BY <1>3, <3>1
    <3> QED  BY <1>1, <3>2, <3>3
  <2> QED  BY <1>4, <2>1, <2>2, <2>3, <2>4, <2>5
<1>5. CASE ~(s < nextBlockIndex)
  <2>1. FreeAt(s) = {} /\ RelAt(s) = {} /\ PubAt(s) = {} /\ PendAt(s) = {}
    BY <1>5, FreeOnly, RelOnly, PubOnly, PendOnly, OwnerSets DEF SlotInv
  <2> QED  BY <1>1, <1>3, <1>5, <2>1
<1> QED  BY <1>4, <1>5

\* No slot is leaked and none is handed out twice (dedup.c:292-322, 398-402).
THEOREM SlotsPartitioned ==
    ASSUME RefcountsFit, DistinctBatches
    PROVE  Spec => []SlotPartition
<1> QED  BY SlotAlways, OwnedPartition, PTL

-----------------------------------------------------------------------------
(* What the master file holds.  A block is published only after its        *)
(* payload reached its slot, and nobody writes a slot of another.          *)

\* The block is on disk: its run was written, or the batch has no run left.
Flushed(u, i) == \/ pc[u] \in {"w_wrlock", "w_publish"}
                 \/ pc[u] = "w_flush" /\ i < k[u]

FlushedOK ==
    \A u \in Threads, i \in Idx : OwnsPending(u, i) /\ Flushed(u, i) =>
        master[plan[u][i].master_blk] = Payload(u, i)

ContentsOK ==
    \A p \in heap : Published(p) =>
        /\ master[info[p].masterBlockIndex] # NULL
        /\ HashOf[master[info[p].masterBlockIndex]] = info[p].hash

ContentInv == SlotInv /\ FlushedOK /\ ContentsOK

-----------------------------------------------------------------------------
(* Runs of flush_plan                                                      *)

LEMMA NatMin ==
    ASSUME NEW T \in SUBSET Nat, T # {}
    PROVE  \E m \in T : \A n \in T : ~(n < m)
<1>0. T \subseteq Nat
  OBVIOUS
<1>1. PICK m \in T : \A n \in T : ~(<<n, m>> \in OpToRel(<, Nat))
  BY <1>0, NatLessThanWellFounded, WFMin, Zenon
<1>2. \A n \in T : ~(n < m)
  BY <1>1 DEF OpToRel
<1> QED  BY <1>2

\* A run is a stretch of MISSes on consecutive slots.
LEMMA RunSlots ==
    ASSUME TypeInv, NEW t \in Threads, pc[t] = "w_flush", NEW a \in Idx, NEW e \in Nat,
           RunStart(t, a), RunEnd(t, a, e), NEW b, b = plan[t][a].master_blk
    PROVE  /\ b \in Slots /\ e <= N(t) /\ N(t) <= MaxBlocks
           /\ \A j \in a .. e - 1 : /\ j \in Idx /\ IsMiss(t, j)
                                    /\ plan[t][j].master_blk = b + (j - a)
                                    /\ b + (j - a) \in Slots
<1>a. a \in Nat /\ MaxBlocks \in Nat /\ N(t) \in Nat /\ N(t) <= MaxBlocks
  BY RequestFacts, BoundsAssumption DEF TypeInv, FramesOK, FrameOK, WritePCs, N, Idx
<1>b. \A j \in Idx : IsMiss(t, j) => plan[t][j].master_blk \in Slots
  BY PlanFacts DEF SlottedPCs
<1>c. b \in Slots /\ e <= N(t) /\ a < e /\ \A s \in Slots : s \in Nat
  BY <1>b, BoundsAssumption DEF RunStart, RunEnd, Slots
<1> DEFINE Good(j) == IsMiss(t, j) /\ plan[t][j].master_blk = b + (j - a)
           T == {j \in Nat : a <= j /\ j < e /\ ~Good(j)}
<1>1. ASSUME T # {} PROVE FALSE
  <2>1. PICK m \in T : \A n \in T : ~(n < m)
    BY <1>1, NatMin
  <2>2. m # a
    BY <1>a, <1>c DEF RunStart, IsMiss
  <2>3. m \in a + 1 .. e - 1 /\ m - 1 \in Nat /\ a <= m - 1 /\ m - 1 < e /\ m - 1 < m
    BY <1>a, <2>2
  <2>4. Good(m - 1)
    BY <2>1, <2>3
  <2>5. Joins(t, m)
    BY <2>3 DEF RunEnd
  <2>6. Good(m)
    BY <1>a, <1>c, <2>3, <2>4, <2>5 DEF Joins
  <2> QED  BY <2>1, <2>6
<1>2. ASSUME NEW j \in a .. e - 1 PROVE j \in Idx /\ Good(j)
  <2>1. j \in Idx /\ j \in Nat
    BY <1>a, <1>c DEF Idx
  <2> QED  BY <1>1, <2>1
<1> QED  BY <1>a, <1>b, <1>c, <1>2

\* One pwrite puts each payload of the run into the slot of its entry and leaves
\* every other slot alone.
LEMMA PwriteSlots ==
    ASSUME TypeInv, NEW t \in Threads, pc[t] = "w_flush", NEW a \in Idx, NEW e \in Nat,
           RunStart(t, a), RunEnd(t, a, e), NEW len \in Nat, a + len <= e
    PROVE  /\ \A j \in a .. a + len - 1 :
                  Pwrite(t, a, len)[plan[t][j].master_blk] = Payload(t, j)
           /\ \A s \in Slots : (\A j \in a .. e - 1 : plan[t][j].master_blk # s) =>
                  Pwrite(t, a, len)[s] = master[s]
<1>b. PICK b : b = plan[t][a].master_blk
  OBVIOUS
<1>1. /\ b \in Slots
      /\ \A j \in a .. e - 1 : /\ j \in Idx /\ IsMiss(t, j)
                               /\ plan[t][j].master_blk = b + (j - a)
                               /\ b + (j - a) \in Slots
  BY <1>b, RunSlots
<1>2. a \in Nat /\ \A s \in Slots : s \in Nat
  BY BoundsAssumption DEF Idx, Slots
<1>3. Pwrite(t, a, len) = [s \in Slots |-> IF b <= s /\ s < b + len THEN Payload(t, a + (s - b))
                                           ELSE master[s]]
  BY <1>b DEF Pwrite
<1>4. ASSUME NEW j \in a .. a + len - 1
      PROVE  Pwrite(t, a, len)[plan[t][j].master_blk] = Payload(t, j)
  <2>1. j \in a .. e - 1
    BY <1>2
  <2>2. plan[t][j].master_blk = b + (j - a) /\ b + (j - a) \in Slots
    BY <1>1, <2>1
  <2>3. b <= b + (j - a) /\ b + (j - a) < b + len /\ a + ((b + (j - a)) - b) = j
    BY <1>1, <1>2
  <2> QED  BY <1>3, <2>2, <2>3
<1>5. ASSUME NEW s \in Slots, \A j \in a .. e - 1 : plan[t][j].master_blk # s
      PROVE  Pwrite(t, a, len)[s] = master[s]
  <2>1. ASSUME b <= s, s < b + len PROVE FALSE
    <3>1. a + (s - b) \in a .. e - 1 /\ b + ((a + (s - b)) - a) = s
      BY SMTT(30), <1>1, <1>2, <2>1
    <3> QED  BY <1>1, <1>5, <3>1
  <2> QED  BY <1>3, <2>1
<1> QED  BY <1>4, <1>5

-----------------------------------------------------------------------------
(* What stays as it is                                                     *)

LEMMA MasterKept ==
    ASSUME NEW t \in Threads, Dispatch(t) \/ Step(t), ~FlushRun(t), ~FlushFail(t)
    PROVE  master' = master
<1> USE DEF dataVars
<1>1. CASE \/ Dispatch(t) \/ PlanLock(t) \/ PlanHit(t) \/ CountHit(t) \/ PlanMiss(t)
           \/ PlanUnlock(t) \/ Drain(t) \/ AppendSlots(t) \/ FlushDone(t)
  BY SMTT(30), <1>1 DEF Dispatch, PlanLock, PlanHit, CountHit, PlanMiss, PlanUnlock, Drain, AppendSlots,
     FlushDone
<1>2. CASE \/ WriteLock(t) \/ PublishSkip(t) \/ PublishOurs(t) \/ UseWinner(t)
           \/ PublishDone(t) \/ MapBlock(t) \/ Commit(t)
  BY <1>2 DEF WriteLock, PublishSkip, PublishOurs, UseWinner, PublishDone, MapBlock, Commit
<1>3. CASE \/ ReleaseAfterWrite(t) \/ ReleaseAndGo(t) \/ RbHit(t) \/ RbUnlock(t) \/ RbMutex(t)
           \/ RbMiss(t) \/ RbDone(t)
  BY <1>3 DEF ReleaseAfterWrite, ReleaseAndGo, RbHit, RbUnlock, RbMutex, RbMiss, RbDone
<1>4. CASE QuietOther(t) \/ RemoveBlock(t)
  BY <1>4 DEF QuietOther, RemoveBlock, UnlinkReadSize, TruncateReadSize, RemoveUnlock,
     UnlinkDropSize, UnlinkBackend, TruncateSetSize, Create, ReadLookup, ReadBlock, ReadReturn
<1> QED  BY SMTT(30), <1>1, <1>2, <1>3, <1>4 DEF Step, QuietOther

\* The steps that drop a reference drop it from a published MasterInfo.
LEMMA DropsPublished ==
    ASSUME RefInv, NEW t \in Threads, MapBlock(t) \/ RemoveBlock(t) \/ RbHit(t)
    PROVE  \/ info' = info /\ heap' = heap /\ hash_to_master' = hash_to_master
           \/ \E p \in heap : Published(p) /\ DropRef(t, p)
<1>1. CASE MapBlock(t)
  <2>x. PICK x : x = KeyOf(t, k[t])
    OBVIOUS
  <2>1. /\ pc[t] = "w_map" /\ k[t] < N(t)
        /\ \/ file_to_master[x] # NULL /\ DropRef(t, file_to_master[x])
           \/ info' = info /\ heap' = heap /\ hash_to_master' = hash_to_master
    BY <1>1, <2>x DEF MapBlock, heapVars
  <2>2. x \in Key
    BY <2>1, <2>x, IterFacts DEF RefInv, WritePCs
  <2> QED  BY <2>1, <2>2 DEF RefInv, TablesOK
<1>2. CASE RemoveBlock(t)
  <2>x. PICK x : x = <<req[t].path, k[t]>>
    OBVIOUS
  <2>1. /\ pc[t] = "rm_loop" /\ k[t] < lim[t]
        /\ \/ file_to_master[x] # NULL /\ DropRef(t, file_to_master[x])
           \/ info' = info /\ heap' = heap /\ hash_to_master' = hash_to_master
    BY <1>2, <2>x DEF RemoveBlock, heapVars
  <2>2. x \in Key
    <3>1. k[t] \in 0 .. MaxBlocks /\ lim[t] \in 0 .. MaxBlocks /\ MaxBlocks \in Nat
      BY BoundsAssumption DEF RefInv, TypeInv, TypeOK, ControlType
    <3>2. req[t].path \in Paths
      BY <2>1, RequestFacts DEF RefInv, TypeInv, FramesOK, FrameOK
    <3> QED  BY <2>1, <2>x, <3>1, <3>2 DEF Key, Blocks
  <2> QED  BY <2>1, <2>2 DEF RefInv, TablesOK
<1>3. CASE RbHit(t)
  <2>j. PICK j : j = k[t]
    OBVIOUS
  <2>1. /\ pc[t] = "rb_hits" /\ j < N(t)
        /\ \/ IsHit(t, j) /\ DropRef(t, plan[t][j].info)
           \/ info' = info /\ heap' = heap /\ hash_to_master' = hash_to_master
    BY <1>3, <2>j DEF RbHit, heapVars
  <2>2. j \in Idx /\ j \in Nat
    BY <2>1, <2>j, IterFacts DEF RefInv, WritePCs, Idx
  <2>3. ASSUME IsHit(t, j) PROVE plan[t][j].info \in heap /\ Published(plan[t][j].info)
    <3>1. Holds(t, j) /\ ~OwnsPending(t, j)
      BY <2>1, <2>2, <2>3, <2>j DEF Holds, HoldsRef, Planned, OwnsPending, IsMiss, IsHit
    <3> QED  BY <2>2, <3>1 DEF RefInv, EntriesOK, EntryOK
  <2> QED  BY <2>1, <2>3
<1> QED  BY <1>1, <1>2, <1>3

\* The slot of a published MasterInfo never changes.
LEMMA SlotKept ==
    ASSUME SlotInv, RefcountsFit, NEW t \in Threads, Dispatch(t) \/ Step(t),
           NEW p \in heap, Published(p)
    PROVE  info'[p].masterBlockIndex = info[p].masterBlockIndex
<1>a. p \in Infos /\ info \in [Infos -> Info] /\ TypeInv /\ RefInv
  BY SMTT(30), HeapFacts DEF SlotInv, RefInv
<1>1. CASE Dispatch(t) \/ StillWrite(t) \/ QuietOther(t)
  BY SMTT(30), <1>1, <1>a, StillLists DEF SlotInv
<1>2. CASE CountHit(t) \/ UseWinner(t)
  BY SMTT(30), <1>2, <1>a DEF CountHit, UseWinner, Info
<1>3. CASE PlanMiss(t)
  BY SMTT(30), <1>3, <1>a DEF PlanMiss
<1>4. CASE PublishOurs(t) \/ RbMiss(t) \/ Drain(t) \/ ReleaseAfterWrite(t) \/ ReleaseAndGo(t)
  BY <1>4 DEF PublishOurs, RbMiss, Drain, ReleaseAfterWrite, ReleaseAndGo, heapVars
<1>5. CASE MapBlock(t) \/ RemoveBlock(t) \/ RbHit(t)
  <2>1. ASSUME NEW q \in heap, DropRef(t, q) PROVE info'[p].masterBlockIndex = info[p].masterBlockIndex
    BY <1>a, <2>1 DEF DropRef, Info
  <2> QED  BY <1>5, <1>a, <2>1, DropsPublished
<1>6. CASE AppendSlots(t)
  <2>1. ASSUME NEW i \in Idx, IsMiss(t, i), plan[t][i].info = p PROVE FALSE
    <3>1. OwnsPending(t, i)
      BY <1>6, <2>1 DEF AppendSlots, OwnsPending, HoldsRef
    <3> QED  BY <1>a, <2>1, <3>1, PrivateEntry
  <2> QED  BY <1>6, <1>a, <2>1, AppendInfo
<1> QED  BY <1>1, <1>2, <1>3, <1>4, <1>5, <1>6 DEF Step, StillWrite, QuietOther

\* Only pass 3 publishes, and only the MasterInfo of the entry it has reached.
LEMMA PubStep ==
    ASSUME SlotInv, RefcountsFit, NEW t \in Threads, Dispatch(t) \/ Step(t),
           NEW p \in heap', PublishedAfter(p)
    PROVE  \/ p \in heap /\ Published(p)
           \/ PublishOurs(t) /\ p = plan[t][k[t]].info
<1>a. /\ heap \subseteq Infos /\ info \in [Infos -> Info] /\ TypeInv /\ RefInv
      /\ hash_to_master \in [Hashes -> Infos \cup {NULL}]
  BY HeapFacts DEF SlotInv, RefInv
<1>1. CASE Dispatch(t) \/ QuietWrite(t) \/ QuietOther(t)
  BY <1>1, <1>a, QuietIndex DEF SameIndex, Published, PublishedAfter
<1>2. CASE CountHit(t)
  <2>1. /\ hash_to_master' = hash_to_master /\ heap' = heap
        /\ info' = [info EXCEPT ![plan[t][k[t]].info].refcount = IncRef(plan[t][k[t]].info)]
    BY <1>2 DEF CountHit, indexVars
  <2> QED  BY <1>a, <2>1 DEF Published, PublishedAfter, Info
<1>3. CASE UseWinner(t)
  <2>1. /\ hash_to_master' = hash_to_master /\ heap' = heap \ {plan[t][k[t]].info}
        /\ info' = [info EXCEPT ![Winner(t, k[t])].refcount = IncRef(Winner(t, k[t]))]
    BY <1>3 DEF UseWinner, indexVars
  <2> QED  BY <1>a, <2>1 DEF Published, PublishedAfter, Info
<1>4. CASE PlanMiss(t)
  <2>h. PICK h : h = HashAt(t, k[t])
    OBVIOUS
  <2>1. hash_to_master' = hash_to_master /\ hash_to_master[h] = NULL
    BY <1>4, <2>h DEF PlanMiss, indexVars, Existing
  <2>2. PICK q \in Infos \ heap :
            /\ heap' = heap \cup {q}
            /\ info' = [info EXCEPT ![q] = [hash |-> h, masterBlockIndex |-> 0, refcount |-> 1]]
    BY <1>4, <2>h DEF PlanMiss
  <2>3. CASE p = q
    BY <1>a, <2>1, <2>2, <2>3, NullAssumption DEF PublishedAfter
  <2>4. CASE p # q
    BY <1>a, <2>1, <2>2, <2>4 DEF Published, PublishedAfter
  <2> QED  BY <2>3, <2>4
<1>5. CASE PublishOurs(t)
  <2>q. PICK q : q = plan[t][k[t]].info
    OBVIOUS
  <2>1. /\ hash_to_master' = [hash_to_master EXCEPT ![info[q].hash] = q]
        /\ heap' = heap /\ info' = info
    BY <1>5, <2>q DEF PublishOurs, heapVars
  <2>2. info[p].hash \in Hashes
    BY <1>a, <2>1 DEF RefInv, TablesOK
  <2> QED  BY <1>5, <1>a, <2>q, <2>1, <2>2 DEF Published, PublishedAfter
<1>6. CASE RbMiss(t)
  BY <1>6 DEF RbMiss, indexVars, Published, PublishedAfter
<1>7. CASE MapBlock(t) \/ RemoveBlock(t) \/ RbHit(t)
  <2>1. ASSUME NEW q \in heap, Published(q), DropRef(t, q)
        PROVE  p \in heap /\ Published(p)
    <3>1. heap' \subseteq heap
      BY <2>1 DEF DropRef
    <3> QED  BY <1>a, <2>1, <3>1, PublishedDrop DEF RefInv
  <2> QED  BY <1>7, <1>a, <2>1, DropsPublished DEF Published, PublishedAfter
<1> QED  BY <1>1, <1>2, <1>3, <1>4, <1>5, <1>6, <1>7 DEF Step, QuietWrite, QuietOther

-----------------------------------------------------------------------------
(* The invariant is inductive                                              *)

\* A flush writes no slot that belongs to another entry or to the index.
LEMMA FlushElsewhere ==
    ASSUME SlotInv, NEW t \in Threads, FlushRun(t) \/ FlushFail(t), NEW s \in Slots,
           \A j \in Idx : Pend(t, j, s) => j < k[t]
    PROVE  master'[s] = master[s]
<1>1. ASSUME NEW a \in Idx, NEW e \in 1 .. MaxBlocks, pc[t] = "w_flush", RunStart(t, a),
             RunEnd(t, a, e), NEW len \in Nat, a + len <= e
      PROVE  Pwrite(t, a, len)[s] = master[s] /\ \A j \in a .. e - 1 : plan[t][j].master_blk # s
  <2>b. PICK b : b = plan[t][a].master_blk
    OBVIOUS
  <2>1. /\ e \in Nat /\ a \in Nat /\ k[t] \in Nat /\ a >= k[t] /\ TypeInv
    BY <1>1, BoundsAssumption DEF Idx, RunStart, SlotInv, RefInv, TypeInv, TypeOK, ControlType
  <2>2. \A j \in a .. e - 1 : j \in Idx /\ IsMiss(t, j)
    BY <1>1, <2>b, <2>1, RunSlots
  <2>3. ASSUME NEW j \in a .. e - 1 PROVE plan[t][j].master_blk # s
    <3>1. OwnsPending(t, j)
      BY <1>1, <2>2 DEF OwnsPending, HoldsRef
    <3>2. ~(j < k[t])
      BY <2>1
    <3> QED  BY <2>2, <3>1, <3>2 DEF Pend
  <2> QED  BY <1>1, <2>1, <2>3, PwriteSlots
<1>2. CASE FlushRun(t)
  <2>1. PICK a \in Idx, e \in 1 .. MaxBlocks : FlushRunAt(t, a, e)
    BY <1>2 DEF FlushRun
  <2>2. e - a \in Nat /\ a + (e - a) <= e
    BY <2>1, BoundsAssumption DEF FlushRunAt, RunEnd, Idx
  <2> QED  BY <1>1, <2>1, <2>2 DEF FlushRunAt
<1>3. CASE FlushFail(t)
  <2>1. PICK a \in Idx, e \in 1 .. MaxBlocks, done \in 0 .. MaxBlocks - 1, torn \in BOOLEAN :
            FlushFailAt(t, a, e, done, torn)
    BY <1>3 DEF FlushFail
  <2>b. PICK b : b = plan[t][a].master_blk
    OBVIOUS
  <2>2. /\ done \in Nat /\ a + done <= e /\ a + done \in a .. e - 1 /\ e \in Nat
        /\ pc[t] = "w_flush" /\ RunStart(t, a) /\ RunEnd(t, a, e) /\ TypeInv
        /\ (a + done) - a = done
    BY <2>1, BoundsAssumption DEF FlushFailAt, Idx, SlotInv, RefInv
  <2>3. plan[t][a + done].master_blk = b + done /\ plan[t][a + done].master_blk # s
    BY <1>1, <2>b, <2>2, RunSlots
  <2>4. Pwrite(t, a, done)[s] = master[s]
    BY <1>1, <2>2
  <2>5. \/ master' = Pwrite(t, a, done)
        \/ master' = [Pwrite(t, a, done) EXCEPT ![b + done] = NULL]
    BY <2>1, <2>b DEF FlushFailAt
  <2>6. DOMAIN Pwrite(t, a, done) = Slots
    BY DEF Pwrite
  <2> QED  BY <2>3, <2>4, <2>5, <2>6
<1> QED  BY <1>2, <1>3

\* The bytes of a published block never change.
LEMMA ContentKept ==
    ASSUME SlotInv, NEW t \in Threads, Dispatch(t) \/ Step(t), NEW p \in heap, Published(p)
    PROVE  master'[info[p].masterBlockIndex] = master[info[p].masterBlockIndex]
<1>s. PICK s : s = info[p].masterBlockIndex
  OBVIOUS
<1>1. p \in Infos /\ s \in Slots /\ Pub(p, s)
  BY <1>s, HeapFacts, SlotTypes DEF SlotInv, RefInv, Pub
<1>2. \A j \in Idx : ~Pend(t, j, s)
  BY <1>1, PubOnly DEF SlotInv
<1> QED  BY <1>s, <1>1, <1>2, FlushElsewhere, MasterKept

LEMMA ContentsStep ==
    ASSUME ContentInv, RefcountsFit, NEW t \in Threads, Dispatch(t) \/ Step(t)
    PROVE  ContentsOK'
<1> DEFINE Right(p) == /\ master'[info'[p].masterBlockIndex] # NULL
                       /\ HashOf[master'[info'[p].masterBlockIndex]] = info'[p].hash
<1>1. ASSUME NEW p \in heap', PublishedAfter(p) PROVE Right(p)
  <2>1. CASE p \in heap /\ Published(p)
    <3>1. /\ info'[p].masterBlockIndex = info[p].masterBlockIndex
          /\ info'[p].hash = info[p].hash
          /\ master'[info[p].masterBlockIndex] = master[info[p].masterBlockIndex]
      BY <2>1, SlotKept, HashKept, ContentKept DEF ContentInv, SlotInv
    <3> QED  BY <2>1, <3>1 DEF ContentInv, ContentsOK
  <2>2. CASE PublishOurs(t) /\ p = plan[t][k[t]].info
    <3>j. PICK j : j = k[t]
      OBVIOUS
    <3>s. PICK s : s = plan[t][j].master_blk
      OBVIOUS
    <3>1. pc[t] = "w_publish" /\ j < N(t) /\ IsMiss(t, j) /\ info' = info /\ master' = master
      BY <2>2, <3>j DEF PublishOurs, heapVars
    <3>2. j \in Idx /\ j \in Nat
      BY <3>1, <3>j, IterFacts DEF ContentInv, SlotInv, RefInv, WritePCs, Idx
    <3>3. OwnsPending(t, j)
      BY <3>1, <3>2, <3>j DEF OwnsPending, HoldsRef
    <3>4. info[p].masterBlockIndex = s
      BY <2>2, <3>1, <3>2, <3>3, <3>j, <3>s, PendingEntry DEF ContentInv, SlottedPCs
    <3>5. info[p].hash = HashAt(t, j)
      BY <2>2, <3>2, <3>3, <3>j, PrivateEntry DEF ContentInv, SlotInv
    <3>6. master[s] = Payload(t, j)
      BY <3>1, <3>2, <3>3, <3>s DEF ContentInv, FlushedOK, Flushed
    <3>7. Payload(t, j) \in Contents
      <4>1. req[t] \in Requests /\ req[t].op = "write"
        BY <3>1 DEF ContentInv, SlotInv, RefInv, TypeInv, FramesOK, FrameOK, WritePCs
      <4>2. j \in 0 .. NumBlocks(req[t]) - 1
        BY <3>1, <3>2, <4>1, RequestFacts, BoundsAssumption DEF N
      <4> QED  BY <4>1, <4>2, RequestFacts DEF Payload
    <3> QED  BY <3>1, <3>4, <3>5, <3>6, <3>7, NullAssumption DEF HashAt
  <2> QED  BY <1>1, <2>1, <2>2, PubStep DEF ContentInv
<1> QED  BY <1>1 DEF ContentsOK, Published, PublishedAfter

\* A pass that finds no run left has written every MISS.
LEMMA AllFlushed ==
    ASSUME TypeInv, NEW t \in Threads, FlushDone(t), NEW i \in Idx, IsMiss(t, i)
    PROVE  i < k[t]
<1>1. \A j \in Idx : j \in Nat /\ k[t] \in Nat
  BY BoundsAssumption DEF Idx, TypeInv, TypeOK, ControlType
<1> DEFINE T == {j \in Idx : IsMiss(t, j) /\ j >= k[t]}
<1>2. ASSUME T # {} PROVE FALSE
  <2>1. T \in SUBSET Nat
    BY <1>1
  <2> HIDE DEF T
  <2>2. PICK m \in T : \A n \in T : ~(n < m)
    BY <1>2, <2>1, NatMin
  <2> USE DEF T
  <2>3. m \in Idx /\ IsMiss(t, m) /\ m >= k[t]
    OBVIOUS
  <2>4. ASSUME NEW j \in k[t] .. m - 1 PROVE ~IsMiss(t, j)
    <3>1. j \in Idx /\ j >= k[t] /\ j < m
      BY <1>1, <2>3, BoundsAssumption DEF Idx
    <3> QED  BY <2>2, <3>1
  <2> QED  BY <2>3, <2>4 DEF FlushDone, RunStart
<1> QED  BY <1>1, <1>2

\* The handler's own entries: what is pending and flushed after a step that does
\* not write to the master file was so before, or has just been written.
LEMMA FlushedOwn ==
    ASSUME SlotInv, RefcountsFit, ShapeOK', NEW t \in Threads, Dispatch(t) \/ Step(t),
           ~FlushRun(t), NEW i \in Idx, OwnsPending(t, i)', Flushed(t, i)'
    PROVE  OwnsPending(t, i) /\ Flushed(t, i) /\ plan'[t][i] = plan[t][i] /\ req'[t] = req[t]
<1>a. /\ pc \in [Threads -> PCs] /\ k \in [Threads -> 0 .. MaxBlocks]
      /\ MaxBlocks \in Nat /\ i \in Nat /\ plan \in [Threads -> [Idx -> PlanEntry]]
      /\ TypeInv /\ RefInv
  BY SMTT(30), BoundsAssumption, SlotTypes DEF SlotInv, RefInv, TypeInv, TypeOK, ControlType, Idx
<1>b. pc'[t] \in {"w_flush", "w_wrlock", "w_publish"}
  BY DEF Flushed
<1>1. \/ PlanUnlock(t) \/ AppendSlots(t) \/ FlushDone(t) \/ WriteLock(t) \/ PublishSkip(t)
      \/ PublishOurs(t) \/ UseWinner(t)
  <2> USE <1>a DEF Goto, NextIter, Return
  <2>1. ~Dispatch(t)
    BY <1>b, EntryRange DEF Dispatch
  <2>2. ~PlanLock(t) /\ ~PlanHit(t) /\ ~CountHit(t) /\ ~PlanMiss(t) /\ ~Drain(t) /\ ~FlushFail(t)
    BY <1>b DEF PlanLock, PlanHit, CountHit, PlanMiss, Drain, FlushFail, FlushFailAt
  <2>3. /\ ~PublishDone(t) /\ ~MapBlock(t) /\ ~Commit(t) /\ ~ReleaseAfterWrite(t)
        /\ ~ReleaseAndGo(t)
    BY <1>b DEF PublishDone, MapBlock, Commit, ReleaseAfterWrite, ReleaseAndGo
  <2>4. ~RbHit(t) /\ ~RbUnlock(t) /\ ~RbMutex(t) /\ ~RbMiss(t) /\ ~RbDone(t) /\ ~RemoveBlock(t)
    BY <1>b DEF RbHit, RbUnlock, RbMutex, RbMiss, RbDone, RemoveBlock
  <2>5. ~QuietOther(t)
    BY <1>b DEF QuietOther, UnlinkReadSize, RemoveUnlock, UnlinkDropSize, BeginRemoval,
       ReadBlock, TruncateReadSize, UnlinkBackend, TruncateSetSize, Create, ReadLookup,
       ReadReturn
  <2> QED  BY <2>1, <2>2, <2>3, <2>4, <2>5 DEF Step, QuietOther
<1> USE <1>a DEF Goto, SetK, NextIter, frameVars
<1>2. CASE PlanUnlock(t)
  <2>1. plan' = plan /\ (IsMiss(t, i) => pc'[t] = "w_drain")
    BY <1>2 DEF PlanUnlock
  <2> QED  BY <1>b, <2>1 DEF OwnsPending, IsMiss
<1>3. CASE AppendSlots(t)
  <2>1. pc[t] = "w_append" /\ pc'[t] = "w_flush" /\ k' = k
    BY <1>3 DEF AppendSlots
  <2>2. k[t] = 0
    BY <2>1 DEF RefInv, LoopsOK
  <2> QED  BY <2>1, <2>2 DEF Flushed
<1>4. CASE FlushDone(t)
  <2>1. plan' = plan /\ req' = req /\ pc[t] = "w_flush"
    BY <1>4 DEF FlushDone
  <2>2. IsMiss(t, i)
    BY <2>1 DEF OwnsPending, IsMiss
  <2> QED  BY <1>4, <2>1, <2>2, AllFlushed DEF OwnsPending, HoldsRef, Flushed
<1>5. CASE WriteLock(t)
  <2>1. plan' = plan /\ req' = req /\ k' = k /\ pc[t] = "w_wrlock" /\ pc'[t] = "w_publish"
    BY SMTT(30), <1>5, <1>b DEF WriteLock
  <2> QED  BY <2>1 DEF OwnsPending, HoldsRef, Flushed, IsMiss
<1>6. CASE PublishSkip(t) \/ PublishOurs(t)
  <2>1. plan' = plan /\ req' = req /\ k'[t] = k[t] + 1 /\ pc[t] = "w_publish" /\ pc' = pc
    BY <1>6 DEF PublishSkip, PublishOurs
  <2> QED  BY <2>1 DEF OwnsPending, HoldsRef, Flushed, IsMiss
<1>7. CASE UseWinner(t)
  <2>1. /\ pc' = pc /\ pc[t] = "w_publish" /\ k'[t] = k[t] + 1 /\ req' = req
        /\ plan' = [plan EXCEPT ![t][k[t]].info = Winner(t, k[t])]
    BY <1>7 DEF UseWinner
  <2>2. i >= k[t] + 1
    BY <2>1 DEF OwnsPending
  <2>3. plan'[t][i] = plan[t][i]
    BY <2>1, <2>2
  <2> QED  BY <2>1, <2>2, <2>3 DEF OwnsPending, HoldsRef, Flushed, IsMiss
<1> QED  BY <1>1, <1>2, <1>3, <1>4, <1>5, <1>6, <1>7

LEMMA FlushedStep ==
    ASSUME ContentInv, RefcountsFit, ShapeOK', NEW t \in Threads,
           \A u \in Threads \ {t} : SameFrame(u), Dispatch(t) \/ Step(t)
    PROVE  FlushedOK'
<1> SUFFICES ASSUME NEW u \in Threads, NEW i \in Idx, OwnsPending(u, i)', Flushed(u, i)'
             PROVE  master'[plan'[u][i].master_blk] = Payload(u, i)'
  BY DEF FlushedOK
<1>a. SlotInv /\ RefInv /\ TypeInv
  BY DEF ContentInv, SlotInv, RefInv
<1>s. PICK s : s = plan[u][i].master_blk
  OBVIOUS
\* An entry that was flushed before, on a slot nobody else writes.
<1>1. ASSUME OwnsPending(u, i), Flushed(u, i), plan'[u][i] = plan[u][i], req'[u] = req[u],
             u = t => i < k[t] \/ (~FlushRun(t) /\ ~FlushFail(t))
      PROVE  master'[plan'[u][i].master_blk] = Payload(u, i)'
  <2>1. pc[u] \in SlottedPCs
    BY <1>1 DEF Flushed, SlottedPCs
  <2>2. s \in Slots /\ Pend(u, i, s)
    BY <1>1, <1>a, <1>s, <2>1, PlanFacts DEF Pend, OwnsPending
  <2>3. \A j \in Idx : Pend(t, j, s) => u = t /\ i = j
    BY <1>a, <2>2, PendOnly DEF SlotInv
  <2>4. master'[s] = master[s]
    BY <1>1, <1>a, <2>2, <2>3, FlushElsewhere, MasterKept
  <2>5. master[s] = Payload(u, i)
    BY <1>1, <1>s DEF ContentInv, FlushedOK
  <2> QED  BY <1>1, <1>s, <2>4, <2>5 DEF Payload
<1>2. CASE u # t
  <2>1. SameFrame(u)
    BY <1>2
  <2> QED  BY <1>1, <1>2, <2>1 DEF SameFrame, OwnsPending, HoldsRef, IsMiss, Flushed
<1>3. CASE u = t /\ ~FlushRun(t)
  <2>1. OwnsPending(t, i) /\ Flushed(t, i) /\ plan'[t][i] = plan[t][i] /\ req'[t] = req[t]
    BY <1>3, <1>a, FlushedOwn
  <2>2. ~FlushFail(t)
    BY <1>3, <1>a DEF FlushFail, FlushFailAt, Goto, Flushed, TypeInv, TypeOK, ControlType
  <2> QED  BY <1>1, <1>3, <2>1, <2>2
<1>4. CASE u = t /\ FlushRun(t)
  <2>1. PICK a \in Idx, e \in 1 .. MaxBlocks : FlushRunAt(t, a, e)
    BY <1>4 DEF FlushRun
  <2>2. /\ pc[t] = "w_flush" /\ pc' = pc /\ plan' = plan /\ req' = req /\ k'[t] = e
        /\ RunStart(t, a) /\ RunEnd(t, a, e) /\ master' = Pwrite(t, a, e - a)
    BY <1>a, <2>1 DEF FlushRunAt, frameVars, SetK, TypeInv, TypeOK, ControlType
  <2>3. e \in Nat /\ a \in Nat /\ i \in Nat /\ k[t] \in Nat /\ e - a \in Nat /\ a + (e - a) = e
    BY <1>a, <2>2, BoundsAssumption DEF RunEnd, Idx, TypeInv, TypeOK, ControlType
  <2>4. OwnsPending(t, i) /\ IsMiss(t, i) /\ i < e
    BY <1>4, <2>2 DEF OwnsPending, HoldsRef, IsMiss, Flushed
  <2>5. CASE i < k[t]
    BY <1>1, <1>4, <2>2, <2>4, <2>5 DEF Flushed
  <2>6. CASE k[t] <= i /\ i < a
    BY <2>2, <2>3, <2>4, <2>6 DEF RunStart
  <2>7. CASE a <= i
    <3>1. i \in a .. a + (e - a) - 1
      BY <2>3, <2>4, <2>7
    <3>2. a + (e - a) <= e
      BY <2>3
    <3>3. Pwrite(t, a, e - a)[plan[t][i].master_blk] = Payload(t, i)
      BY <1>a, <2>2, <2>3, <3>1, <3>2, PwriteSlots
    <3> QED  BY <1>4, <2>2, <3>3 DEF Payload
  <2> QED  BY <2>3, <2>5, <2>6, <2>7
<1> QED  BY <1>2, <1>3, <1>4

LEMMA ContentInit == ASSUME Fresh, RefcountsFit PROVE ContentInv
<1>1. SlotInv
  BY SlotInit
<1>2. heap = {} /\ \A u \in Threads : pc[u] = "idle"
  BY DEF Fresh, FreshInit
<1> QED  BY <1>1, <1>2 DEF ContentInv, FlushedOK, Flushed, ContentsOK

LEMMA ContentStep ==
    ASSUME RefcountsFit, DistinctBatches, ContentInv, [Next]_vars
    PROVE  ContentInv'
<1>1. SlotInv'
  BY SlotStep DEF ContentInv
<1>2. CASE UNCHANGED vars
  <2>1. /\ hash_to_master' = hash_to_master /\ heap' = heap /\ info' = info /\ master' = master
        /\ pc' = pc /\ k' = k /\ plan' = plan /\ req' = req
    BY <1>2 DEF vars, dataVars, indexVars, heapVars, frameVars
  <2> QED
    BY <1>1, <2>1 DEF ContentInv, FlushedOK, Flushed, ContentsOK, Published, OwnsPending,
       HoldsRef, IsMiss, Payload
<1>3. ASSUME NEW t \in Threads, Dispatch(t) \/ Step(t) PROVE ContentInv'
  <2>1. \A u \in Threads \ {t} : SameFrame(u)
    BY <1>3, OthersUnchanged DEF ContentInv, SlotInv, RefInv, TypeInv
  <2>2. ShapeOK'
    BY <1>1 DEF SlotInv, RefInv
  <2>3. FlushedOK' /\ ContentsOK'
    BY <1>3, <2>1, <2>2, FlushedStep, ContentsStep
  <2> QED  BY <1>1, <2>3 DEF ContentInv
<1> QED  BY <1>2, <1>3 DEF Next, Quiet

LEMMA RightContents == ContentInv => ContentMatchesHash
BY DEF ContentInv, SlotInv, RefInv, TablesOK, ContentsOK, Published, ContentMatchesHash

\* The index never points at a block that did not reach the master file, and the
\* block it points at keeps the payload of that hash (dedup.c:28-29): whatever
\* runs are written, fail halfway or are recycled at the same time.
THEOREM ContentsMatch ==
    ASSUME RefcountsFit, DistinctBatches
    PROVE  Spec => []ContentMatchesHash
<1>1. Init => ContentInv
  BY InitFresh, ContentInit
<1>2. ContentInv /\ [Next]_vars => ContentInv'
  BY ContentStep
<1> QED  BY <1>1, <1>2, RightContents, PTL DEF Spec
=============================================================================
