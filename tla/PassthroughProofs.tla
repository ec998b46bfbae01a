------------------------- MODULE PassthroughProofs -------------------------
(***************************************************************************)
(* What users see: for any number of threads, files and blocks, every path *)
(* that no call beside the index has named shows what POSIX says of its    *)
(* inode.  The index side is the refinement of DedupFiles: here each step  *)
(* of FlatFS is followed together with the backend and the history.        *)
(***************************************************************************)
EXTENDS Passthrough, DedupFiles

-----------------------------------------------------------------------------
(* The inductive invariant *)

\* The files that no call beside the index has named.
Plain == names \ touched

\* An inode has no second name.
OwnInode == \A p \in Plain, q \in Paths : ino[q] = ino[p] => q = p

\* The write of t has taken effect on p and not returned yet.
WroteTo(t, p)   == t \in Wrote /\ req[t].path = p
WroteOn(t, p, b) ==
    WroteTo(t, p) /\ StartBlock(req[t]) <= b /\ b < StartBlock(req[t]) + N(t)
EndOf(t)        == StartBlock(req[t]) + N(t)

\* What POSIX says of a block, as a digest.
PosixHash(p, b) ==
    IF pdata[ino[p]][b] = NULL THEN NULL ELSE HashOf[pdata[ino[p]][b]]

\* A removal in flight has, or is going to have, taken the block or the size away.
Going(p, b)  == \E t \in Threads : req[t] # NULL /\ Flat!Doomed(req[t], <<p, b>>)
Unlinking(p) == \E t \in Threads : req[t] # NULL /\ req[t].op = "unlink" /\ req[t].path = p

\* A block shows what POSIX has, or what the write that is about to return has
\* put there, or nothing while it is being removed.
BlockAgrees(p, b) ==
    /\ \A t \in Threads : WroteOn(t, p, b) =>
          FlatContent[<<p, b>>] = HashAt(t, b - StartBlock(req[t]))
    /\ (\A t \in Threads : ~WroteOn(t, p, b)) =>
          \/ FlatContent[<<p, b>>] = PosixHash(p, b)
          \/ FlatContent[<<p, b>>] = NULL /\ Going(p, b)

Larger(m, n) == IF m > n THEN m ELSE n

SizeAgrees(p) ==
    /\ \A t \in Threads : WroteTo(t, p) => FlatSize[p] = Larger(EndOf(t), psize[ino[p]])
    /\ (\A t \in Threads : ~WroteTo(t, p)) =>
          \/ FlatSize[p] = psize[ino[p]]
          \/ FlatSize[p] = NULL /\ psize[ino[p]] = 0 /\ bsize[ino[p]] = 0
          \/ FlatSize[p] = NULL /\ Unlinking(p)

Agrees == \A p \in Plain : SizeAgrees(p) /\ \A b \in Blocks : BlockAgrees(p, b)

\* A path without a name has left nothing in the index.
ShowsNothing(p) == FlatSize[p] = NULL /\ \A b \in Blocks : FlatContent[<<p, b>>] = NULL
AbsentOK == \A p \in Paths \ (names \cup touched) : ShowsNothing(p)

IndexInv == ContentInv /\ FileInv
PassInv  == /\ IndexInv /\ PassTypeOK
            /\ OwnInode /\ Agrees /\ AbsentOK

-----------------------------------------------------------------------------
(* Steps beside the index                                                  *)

\* The tables, the lists, the master file and the locks stay as they are.
Aside == /\ UNCHANGED <<indexVars, heapVars, allocVars, master, accepted, lockVars>>
         /\ names' \subseteq Paths

\* What a handler does to the names alone keeps everything the index promises.
LEMMA NamesOnlyKeeps ==
    ASSUME IndexInv, Aside, UNCHANGED <<pc, k, frameVars>>
    PROVE  /\ ContentInv' /\ TypeInv' /\ LockDiscipline'
           /\ OpsOK' /\ Exclusive' /\ CoverOK' /\ RemovalsOK'
<1>1. /\ hash_to_master' = hash_to_master /\ file_to_master' = file_to_master
      /\ file_to_sizes' = file_to_sizes /\ heap' = heap /\ info' = info /\ master' = master
      /\ free_block_list' = free_block_list /\ nextBlockIndex' = nextBlockIndex
      /\ readers' = readers /\ writer' = writer /\ freelist_mutex' = freelist_mutex
      /\ pc' = pc /\ k' = k /\ req' = req /\ lim' = lim /\ plan' = plan /\ rel' = rel
      /\ rd' = rd /\ accepted' = accepted /\ names' \subseteq Paths
  BY DEF Aside, indexVars, heapVars, allocVars, lockVars, frameVars
<1>2. TypeInv'
  BY <1>1 DEF IndexInv, FileInv, TypeInv, TypeOK, IndexType, HeapType, AllocType, DiskType,
     OuterType, LockType, ControlType, WorkType, FramesOK, FrameOK, PlansOK, PlanOK, PublishedOK,
     MappedOK, N
<1>3. LockDiscipline' /\ OpsOK' /\ Exclusive' /\ CoverOK' /\ RemovalsOK'
  BY SMTT(30), <1>1 DEF IndexInv, FileInv, LockDiscipline, OpsOK, OpOK, N, Exclusive, Modifies,
     CoverOK, Shows, Covered, Mapping, RemovalsOK, RemovalOK, Survives, Remaining
<1>4. ShapeOK' /\ LoopsOK' /\ EntriesOK' /\ HitsOK' /\ TablesOK'
  BY <1>1 DEF IndexInv, ContentInv, SlotInv, RefInv, ShapeOK, PlanEnd, Planned, N, LoopsOK,
     EntriesOK, Holds, HoldsRef, IsMiss, EntryOK, HashAt, Payload, OwnsPending, Published, HitsOK,
     TablesOK
<1>5. RefcountExact'
  BY <1>1 DEF IndexInv, ContentInv, SlotInv, RefInv, RefcountExact, MappedRefs, HeldRefs,
     HoldsRef, IsMiss
<1>6. OwnersOK' /\ ListsOK' /\ ReleasesOK' /\ PendingOK'
  BY <1>1 DEF IndexInv, ContentInv, SlotInv, OwnersOK, OwnedOnce, Unowned, Owns, InFree, InRel,
     Pub, Pend, OwnsPending, HoldsRef, IsMiss, Published, ListsOK, NoRepeats, ReleasesOK,
     PendingOK
<1>7. FlushedOK' /\ ContentsOK'
  BY <1>1 DEF IndexInv, ContentInv, FlushedOK, Flushed, OwnsPending, HoldsRef, IsMiss, Payload,
     ContentsOK, Published
<1> QED  BY <1>2, <1>3, <1>4, <1>5, <1>6, <1>7 DEF ContentInv, SlotInv, RefInv

\* A handler that owns nothing returns: unlink(2) has failed.
LEMMA FailedUnlinkKeeps ==
    ASSUME IndexInv, NEW t \in Threads, UnlinkFails(t)
    PROVE  IndexInv' /\ (\A u \in Threads \ {t} : SameFrame(u))
<1>a. /\ TypeInv /\ LockDiscipline /\ ShapeOK /\ ReleasesOK
      /\ pc \in [Threads -> PCs] /\ req \in [Threads -> Requests \cup {NULL}]
      /\ plan \in [Threads -> [Idx -> PlanEntry]] /\ rel \in [Threads -> Seq(Slots)]
      /\ k \in [Threads -> 0 .. MaxBlocks] /\ lim \in [Threads -> 0 .. MaxBlocks]
      /\ pc[t] = "u_backend"
  BY DEF IndexInv, ContentInv, SlotInv, RefInv, FileInv, TypeInv, TypeOK, ControlType, WorkType,
     UnlinkFails
<1>1. /\ hash_to_master' = hash_to_master /\ file_to_master' = file_to_master
      /\ file_to_sizes' = file_to_sizes /\ heap' = heap /\ info' = info /\ master' = master
      /\ free_block_list' = free_block_list /\ nextBlockIndex' = nextBlockIndex
      /\ readers' = readers /\ writer' = writer /\ freelist_mutex' = freelist_mutex
      /\ accepted' = accepted /\ names' = names /\ Return(t)
  BY DEF UnlinkFails, dataVars, indexVars, heapVars, allocVars, outerVars, lockVars
<1>2. /\ pc' = [pc EXCEPT ![t] = "idle"] /\ req' = [req EXCEPT ![t] = NULL]
      /\ k' = [k EXCEPT ![t] = 0] /\ lim' = [lim EXCEPT ![t] = 0]
  BY <1>1 DEF Return, Goto
<1>3. plan' = plan
  <2>1. \A i \in Idx : plan[t][i] = NoEntry
    <3>1. PlanEnd(t) = 0
      BY <1>a DEF PlanEnd, PlannedPCs, WritePCs
    <3>2. \A i \in Idx : ~(i < 0)
      BY BoundsAssumption DEF Idx
    <3> QED  BY <1>a, <3>1, <3>2 DEF ShapeOK
  <2>2. plan[t] = NoPlan
    BY <1>a, <2>1 DEF NoPlan
  <2> QED  BY <1>1, <1>a, <2>2 DEF Return
<1>4. rel' = rel
  <2>1. rel[t] = <<>>
    BY <1>a DEF ReleasesOK, ReleasingPCs
  <2> QED  BY <1>1, <1>a, <2>1 DEF Return
<1>5. \A u \in Threads \ {t} : SameFrame(u)
  BY <1>a, <1>2, <1>3 DEF SameFrame
<1>6. pc'[t] = "idle" /\ req'[t] = NULL /\ k'[t] = 0 /\ lim'[t] = 0
  BY <1>a, <1>2
<1>7. ASSUME NEW u \in Threads, NEW i
      PROVE  /\ HoldsRef(u, i)' <=> HoldsRef(u, i)
             /\ OwnsPending(u, i)' <=> OwnsPending(u, i)
             /\ HoldsRef(u, i) \/ OwnsPending(u, i) => u # t
  <2>1. CASE u = t
    BY <1>a, <1>6, <2>1 DEF HoldsRef, OwnsPending
  <2>2. CASE u # t
    BY <1>3, <1>5, <2>2 DEF HoldsRef, OwnsPending, IsMiss, SameFrame
  <2> QED  BY <2>1, <2>2
<1>8. TypeInv'
  <2>1. ControlType' /\ WorkType'
    BY <1>1, ReturnType DEF TypeInv, IndexInv, FileInv
  <2>2. TypeOK'
    BY <1>a, <1>1, <2>1 DEF TypeInv, TypeOK, IndexType, HeapType, AllocType, DiskType, OuterType,
       LockType
  <2>3. FramesOK'
    <3>1. FrameOK(t)'
      BY <1>6 DEF FrameOK, WritePCs
    <3>2. ASSUME NEW u \in Threads, u # t PROVE FrameOK(u)'
      BY <1>a, <1>5, <3>2 DEF TypeInv, FramesOK, FrameOK, SameFrame, N
    <3> QED  BY <3>1, <3>2 DEF FramesOK
  <2>4. PlansOK'
    <3>1. \A i \in Idx : plan'[t][i].kind # "MISS" \/ pc'[t] \notin SlottedPCs
      BY <1>6 DEF SlottedPCs
    <3>2. PlanOK(t)'
      BY <1>a, <1>1, <1>3, <1>6 DEF TypeInv, PlansOK, PlanOK, SlottedPCs
    <3>3. ASSUME NEW u \in Threads, u # t PROVE PlanOK(u)'
      BY <1>a, <1>1, <1>3, <1>5, <3>3 DEF TypeInv, PlansOK, PlanOK, SameFrame
    <3> QED  BY <3>2, <3>3 DEF PlansOK
  <2>5. PublishedOK' /\ MappedOK'
    BY <1>a, <1>1 DEF TypeInv, PublishedOK, MappedOK
  <2> QED  BY <2>2, <2>3, <2>4, <2>5 DEF TypeInv
<1>9. LockDiscipline'
  BY <1>a, <1>1, <1>2 DEF LockDiscipline, ReadLocked, WriteLocked
<1>10. OpsOK' /\ Exclusive' /\ NamesOK'
  <2>1. OpOK(t)'
    BY <1>6 DEF OpOK, PlannedPCs, WritePCs
  <2>2. ASSUME NEW u \in Threads, u # t PROVE OpOK(u)' /\ (Modifies(u)' <=> Modifies(u))
    BY <1>5, <2>2 DEF OpOK, SameFrame, N, IndexInv, FileInv, OpsOK, Modifies
  <2>3. ~Modifies(t)'
    BY <1>6 DEF Modifies
  <2>4. Exclusive' /\ NamesOK'
    BY <1>1, <1>5, <2>2, <2>3 DEF Exclusive, NamesOK, IndexInv, FileInv, SameFrame
  <2> QED  BY <2>1, <2>2, <2>4 DEF OpsOK
<1>11. CoverOK'
  <2>1. ASSUME NEW u \in Threads, NEW f, NEW b, Mapping(u, f, b) PROVE Mapping(u, f, b)'
    BY <1>a, <1>5, <2>1 DEF Mapping, SameFrame
  <2> QED  BY <1>1, <2>1 DEF CoverOK, Shows, Covered, IndexInv, FileInv
<1>12. RemovalsOK'
  <2>1. RemovalOK(t)'
    BY <1>6 DEF RemovalOK, RemovalPCs
  <2>2. ASSUME NEW u \in Threads, u # t PROVE RemovalOK(u)'
    BY <1>1, <1>5, <2>2 DEF RemovalOK, SameFrame, Shows, Survives, Remaining, N, IndexInv, FileInv,
       RemovalsOK
  <2> QED  BY <2>1, <2>2 DEF RemovalsOK

<1>13. ShapeOK' /\ LoopsOK'
  <2>1. ASSUME NEW u \in Threads PROVE PlanEnd(u)' = PlanEnd(u)
    <3>1. CASE u = t
      BY <1>a, <1>6, <3>1 DEF PlanEnd, PlannedPCs, WritePCs
    <3>2. CASE u # t
      BY <1>5, <3>2 DEF PlanEnd, SameFrame, N
    <3> QED  BY <3>1, <3>2
  <2>2. ShapeOK'
    BY <1>a, <1>3, <2>1 DEF ShapeOK, Planned
  <2>3. LoopsOK'
    BY <1>a, <1>2, <1>6 DEF LoopsOK, IndexInv, ContentInv, SlotInv, RefInv
  <2> QED  BY <2>2, <2>3
<1>14. ASSUME NEW u \in Threads, u # t, NEW i
       PROVE  HashAt(u, i)' = HashAt(u, i) /\ Payload(u, i)' = Payload(u, i)
  BY <1>5, <1>14 DEF HashAt, Payload, SameFrame
<1>15. EntriesOK' /\ HitsOK' /\ TablesOK'
  <2>1. EntriesOK'
    BY <1>1, <1>3, <1>7, <1>14 DEF EntriesOK, Holds, Planned, EntryOK, Published, IndexInv,
       ContentInv, SlotInv, RefInv
  <2>2. HitsOK'
    BY <1>a, <1>1, <1>3, <1>2, <1>6, <1>14 DEF HitsOK, IndexInv, ContentInv, SlotInv, RefInv
  <2>3. TablesOK'
    BY <1>1 DEF TablesOK, Published, IndexInv, ContentInv, SlotInv, RefInv
  <2> QED  BY <2>1, <2>2, <2>3
<1>16. RefcountExact'
  <2>1. ASSUME NEW p PROVE HeldRefs(p)' = HeldRefs(p) /\ MappedRefs(p)' = MappedRefs(p)
    BY <1>1, <1>3, <1>7 DEF HeldRefs, MappedRefs
  <2> QED  BY <1>1, <2>1 DEF RefcountExact, IndexInv, ContentInv, SlotInv, RefInv
<1>17. ASSUME NEW u \in Threads, NEW i, NEW s PROVE Pend(u, i, s)' <=> Pend(u, i, s)
  BY <1>3, <1>7 DEF Pend
<1>18. OwnersOK'
  <2>1. ASSUME NEW c, NEW x, NEW i, NEW s PROVE Owns(c, x, i, s)' <=> Owns(c, x, i, s)
    BY <1>1, <1>4, <1>17 DEF Owns, InFree, InRel, Pub, Published
  <2> QED
    BY <1>1, <2>1 DEF OwnersOK, OwnedOnce, Unowned, IndexInv, ContentInv, SlotInv
<1>19. ListsOK' /\ ReleasesOK'
  <2>1. ListsOK'
    BY <1>1, <1>4 DEF ListsOK, NoRepeats, IndexInv, ContentInv, SlotInv
  <2>2. ReleasesOK'
    BY <1>a, <1>2, <1>4 DEF ReleasesOK, ReleasingPCs
  <2> QED  BY <2>1, <2>2
<1>20. PendingOK'
  BY <1>1, <1>3, <1>5, <1>7 DEF PendingOK, SameFrame, IndexInv, ContentInv, SlotInv
<1>21. FlushedOK' /\ ContentsOK'
  <2>1. ASSUME NEW u \in Threads, u # t, NEW i PROVE Flushed(u, i)' <=> Flushed(u, i)
    BY <1>5, <2>1 DEF Flushed, SameFrame
  <2>2. FlushedOK'
    BY <1>1, <1>3, <1>7, <1>14, <2>1 DEF FlushedOK, IndexInv, ContentInv
  <2>3. ContentsOK'
    BY <1>1 DEF ContentsOK, Published, IndexInv, ContentInv
  <2> QED  BY <2>2, <2>3
<1> QED
  BY <1>5, <1>8, <1>9, <1>10, <1>11, <1>12, <1>13, <1>15, <1>16, <1>18, <1>19, <1>20, <1>21
  DEF IndexInv, ContentInv, SlotInv, RefInv, FileInv

-----------------------------------------------------------------------------
(* Requests in flight                                                      *)

Removing(u, p) == req[u] # NULL /\ req[u].path = p /\ req[u].op \in {"unlink", "truncate"}

LEMMA FlightFacts ==
    ASSUME IndexInv, NEW t \in Threads
    PROVE  /\ pc[t] = "idle" <=> req[t] = NULL
           /\ req[t] # NULL =>
                /\ req[t] \in Requests /\ req[t].path \in Paths
                /\ StartBlock(req[t]) \in Nat /\ N(t) \in Nat /\ EndOf(t) \in 0 .. MaxBlocks
           /\ t \in Wrote => req[t] # NULL /\ req[t].op = "write" /\ Modifies(t)
           /\ \A p : Removing(t, p) => Modifies(t)
<1>1. /\ pc[t] # "idle" => req[t] \in Requests
      /\ pc[t] = "idle" => req[t] = NULL
      /\ pc[t] \in PlannedPCs => req[t].op = "write"
      /\ req[t] \in Requests \cup {NULL}
  BY DEF IndexInv, FileInv, TypeInv, TypeOK, ControlType, FramesOK, FrameOK, OpsOK, OpOK
<1>2. NULL \notin Requests
  BY NullAssumption
<1>3. req[t] # NULL =>
        /\ req[t] \in Requests /\ req[t].path \in Paths
        /\ StartBlock(req[t]) \in Nat /\ N(t) \in Nat /\ EndOf(t) \in 0 .. MaxBlocks
  BY <1>1, RequestsAssumption, BoundsAssumption DEF N, EndOf
<1>4. t \in Wrote => pc[t] \in PlannedPCs /\ pc[t] # "idle"
  BY DEF Wrote, WrotePCs, PlannedPCs, WritePCs
<1> QED  BY <1>1, <1>2, <1>3, <1>4 DEF Modifies, Removing

\* Nobody else writes to a file, or removes it, while a handler modifies it.
LEMMA AloneOn ==
    ASSUME IndexInv, NEW t \in Threads, Modifies(t), NEW p, p = req[t].path,
           NEW u \in Threads, u # t
    PROVE  ~WroteTo(u, p) /\ ~Removing(u, p)
  BY FlightFacts DEF IndexInv, FileInv, Exclusive, WroteTo, Removing, Modifies

LEMMA GoingIff ==
    ASSUME NEW p, NEW b
    PROVE  /\ Going(p, b) <=> \E u \in Threads :
                /\ Removing(u, p)
                /\ req[u].op = "truncate" => b >= N(u)
           /\ Unlinking(p) <=> \E u \in Threads : Removing(u, p) /\ req[u].op = "unlink"
  BY DEF Going, Unlinking, Removing, Flat!Doomed, N

\* What a step does to the handlers that are at work on p: it ends none of them.
KeepsOn(u, p) ==
    /\ WroteTo(u, p)' <=> WroteTo(u, p)
    /\ WroteTo(u, p) \/ Removing(u, p) => req'[u] = req[u]

SamePosix(p) ==
    /\ ino'[p] = ino[p]
    /\ bsize'[ino[p]] = bsize[ino[p]] /\ psize'[ino[p]] = psize[ino[p]]
    /\ pdata'[ino[p]] = pdata[ino[p]]

SameShown(p) ==
    /\ FlatSize'[p] = FlatSize[p]
    /\ \A b \in Blocks : FlatContent'[<<p, b>>] = FlatContent[<<p, b>>]

\* A path that a step leaves alone still agrees.
LEMMA AgreesKept ==
    ASSUME NEW p, SizeAgrees(p), \A b \in Blocks : BlockAgrees(p, b),
           SameShown(p), SamePosix(p), \A u \in Threads : KeepsOn(u, p)
    PROVE  SizeAgrees(p)' /\ \A b \in Blocks : BlockAgrees(p, b)'
<1>1. ASSUME NEW u \in Threads
      PROVE  /\ WroteTo(u, p)' <=> WroteTo(u, p)
             /\ WroteTo(u, p) => EndOf(u)' = EndOf(u) /\ req'[u] = req[u]
             /\ Removing(u, p) => Removing(u, p)' /\ req'[u] = req[u]
  BY DEF KeepsOn, Removing, EndOf, N
<1>2. ASSUME NEW b PROVE Going(p, b) => Going(p, b)'
  BY <1>1 DEF Going, Removing, Flat!Doomed
<1>3. Unlinking(p) => Unlinking(p)'
  BY <1>1 DEF Unlinking, Removing
<1>4. SizeAgrees(p)'
  BY <1>1, <1>3 DEF SizeAgrees, SameShown, SamePosix
<1>5. ASSUME NEW b \in Blocks PROVE BlockAgrees(p, b)'
  <2>1. PosixHash(p, b)' = PosixHash(p, b)
    BY DEF PosixHash, SamePosix
  <2>2. ASSUME NEW u \in Threads
        PROVE  /\ WroteOn(u, p, b)' <=> WroteOn(u, p, b)
               /\ WroteOn(u, p, b) => HashAt(u, b - StartBlock(req[u]))'
                                        = HashAt(u, b - StartBlock(req[u]))
    BY <1>1 DEF WroteOn, WroteTo, N, HashAt, Payload
  <2> QED  BY <1>2, <2>1, <2>2 DEF BlockAgrees, SameShown
<1> QED  BY <1>4, <1>5

-----------------------------------------------------------------------------
(* What a step of a handler does to its path                               *)

LEMMA ReturnPCs ==
    ASSUME TypeOK, NEW t \in Threads, Step(t), pc'[t] = "idle"
    PROVE  \/ /\ names' = names
              /\ pc[t] \in {"w_release", "rb_miss", "t_read", "t_size", "r_lookup", "r_pread"}
           \/ pc[t] = "u_backend" /\ names' = names \ {req[t].path}
           \/ pc[t] = "c_open" /\ names' = names \cup {req[t].path}
<1>a. pc \in [Threads -> PCs]
  BY DEF TypeOK, ControlType
<1> USE <1>a DEF Goto, NextIter, dataVars, outerVars
<1>1. ~PlanLock(t) /\ ~PlanHit(t) /\ ~CountHit(t) /\ ~PlanMiss(t) /\ ~PlanUnlock(t)
  BY DEF PlanLock, PlanHit, CountHit, PlanMiss, PlanUnlock
<1>2. ~Drain(t) /\ ~AppendSlots(t) /\ ~FlushRun(t) /\ ~FlushFail(t) /\ ~FlushDone(t)
  BY DEF Drain, AppendSlots, FlushRun, FlushRunAt, FlushFail, FlushFailAt, FlushDone
<1>3. ~PublishSkip(t) /\ ~PublishOurs(t) /\ ~PublishDone(t) /\ ~UseWinner(t) /\ ~WriteLock(t)
  <2>1. ~UseWinner(t)
    BY DEF UseWinner
  <2> QED  BY <2>1 DEF PublishSkip, PublishOurs, PublishDone, WriteLock
<1>4. ~MapBlock(t) /\ ~Commit(t) /\ ~ReleaseAndGo(t)
  BY DEF MapBlock, Commit, ReleaseAndGo
<1>5. ~RbHit(t) /\ ~RbUnlock(t) /\ ~RbMutex(t) /\ ~RbMiss(t)
  BY DEF RbHit, RbUnlock, RbMutex, RbMiss
<1>6. ~UnlinkReadSize(t) /\ ~RemoveBlock(t) /\ ~RemoveUnlock(t) /\ ~UnlinkDropSize(t)
  BY DEF UnlinkReadSize, BeginRemoval, RemoveBlock, RemoveUnlock, UnlinkDropSize
<1>7. ~ReadBlock(t)
  BY DEF ReadBlock
<1>8. CASE ReleaseAfterWrite(t) \/ RbDone(t) \/ TruncateReadSize(t) \/ TruncateSetSize(t)
  BY <1>8 DEF ReleaseAfterWrite, RbDone, TruncateReadSize, TruncateSetSize
<1>9. CASE ReadLookup(t) \/ ReadReturn(t) \/ UnlinkBackend(t) \/ Create(t)
  BY <1>9 DEF ReadLookup, ReadReturn, UnlinkBackend, Create
<1> QED  BY <1>1, <1>2, <1>3, <1>4, <1>5, <1>6, <1>7, <1>8, <1>9 DEF Step

LEMMA StepBusy ==
    ASSUME NEW t \in Threads, Step(t)
    PROVE  pc[t] # "idle"
<1>1. CASE PlanLock(t) \/ PlanHit(t) \/ CountHit(t) \/ PlanMiss(t) \/ PlanUnlock(t)
  BY <1>1 DEF PlanLock, PlanHit, CountHit, PlanMiss, PlanUnlock
<1>2. CASE Drain(t) \/ AppendSlots(t) \/ FlushRun(t) \/ FlushFail(t) \/ FlushDone(t)
  BY <1>2 DEF Drain, AppendSlots, FlushRun, FlushRunAt, FlushFail, FlushFailAt, FlushDone
<1>3. CASE WriteLock(t) \/ PublishSkip(t) \/ PublishOurs(t) \/ UseWinner(t) \/ PublishDone(t)
  <2>1. UseWinner(t) => pc[t] = "w_publish"
    BY DEF UseWinner
  <2> QED  BY <1>3, <2>1 DEF WriteLock, PublishSkip, PublishOurs, PublishDone
<1>4. CASE MapBlock(t) \/ Commit(t) \/ ReleaseAfterWrite(t) \/ ReleaseAndGo(t)
  BY <1>4 DEF MapBlock, Commit, ReleaseAfterWrite, ReleaseAndGo
<1>5. CASE RbHit(t) \/ RbUnlock(t) \/ RbMutex(t) \/ RbMiss(t) \/ RbDone(t)
  BY <1>5 DEF RbHit, RbUnlock, RbMutex, RbMiss, RbDone
<1>6. CASE UnlinkReadSize(t) \/ TruncateReadSize(t) \/ RemoveBlock(t) \/ RemoveUnlock(t)
  BY <1>6 DEF UnlinkReadSize, TruncateReadSize, RemoveBlock, RemoveUnlock
<1>7. CASE UnlinkDropSize(t) \/ UnlinkBackend(t) \/ TruncateSetSize(t) \/ Create(t)
  BY <1>7 DEF UnlinkDropSize, UnlinkBackend, TruncateSetSize, Create
<1>8. CASE ReadLookup(t) \/ ReadBlock(t) \/ ReadReturn(t)
  BY <1>8 DEF ReadLookup, ReadBlock, ReadReturn
<1> QED
  BY <1>1, <1>2, <1>3, <1>4, <1>5, <1>6, <1>7, <1>8 DEF Step

\* A step inside a handler shows nothing, or is the one at which a batch, a removal
\* or the end of an unlinked file's size takes effect.
LEMMA InsideStep ==
    ASSUME IndexInv, IndexInv', NEW t \in Threads, Step(t), pc'[t] # "idle"
    PROVE  /\ req[t] # NULL /\ req' = req /\ names' = names
           /\ Unseen \/ Flat!Put(t) \/ Flat!Remove(t) \/ (Flat!Resize(t) /\ req[t].op = "unlink")
<1>a. pc \in [Threads -> PCs] /\ req \in [Threads -> Requests \cup {NULL}] /\ ImplInv /\ TypeOK
  BY DEF IndexInv, ContentInv, SlotInv, RefInv, FileInv, ImplInv, TypeInv, TypeOK, ControlType
<1>1. req[t] # NULL
  BY StepBusy, FlightFacts
<1>2. req' = req
  <2>1. req'[t] = req[t]
    BY <1>a, ReqStep
  <2>2. \A u \in Threads \ {t} : req'[u] = req[u]
    BY <1>a, OthersUnchanged DEF SameFrame
  <2>3. req' \in [Threads -> Requests \cup {NULL}]
    BY DEF IndexInv, FileInv, TypeInv, TypeOK, ControlType
  <2> QED  BY <1>a, <2>1, <2>2, <2>3
<1>3. names' = names
  <2>1. ~UnlinkBackend(t) /\ ~Create(t)
    BY <1>a DEF UnlinkBackend, Create, Return, Goto
  <2> QED  BY <2>1, FileChanges
<1>4. ~Flat!Hangup(t)
  BY <1>a, <1>1, <1>2 DEF Flat!Hangup
<1>5. ~Flat!Call(t) /\ ~Flat!Reply(t) /\ (Flat!Resize(t) => req[t].op = "unlink")
  BY <1>1, <1>4 DEF Flat!Call, Flat!Reply, Flat!Resize
<1> QED  BY <1>a, <1>1, <1>2, <1>3, <1>5, FlatStep

\* The step with which a handler returns.
LEMMA ReturnStep ==
    ASSUME IndexInv, IndexInv', NEW t \in Threads, Step(t), pc'[t] = "idle"
    PROVE  /\ req[t] # NULL /\ req' = [req EXCEPT ![t] = NULL] /\ Wrote' = Wrote \ {t}
           /\ FlatContent' = FlatContent
           /\ Flat!Reply(t) \/ (Flat!Resize(t) /\ req[t].op = "truncate")
<1>a. pc \in [Threads -> PCs] /\ req \in [Threads -> Requests \cup {NULL}] /\ ImplInv /\ TypeOK
  BY DEF IndexInv, ContentInv, SlotInv, RefInv, FileInv, ImplInv, TypeInv, TypeOK, ControlType
<1>1. req[t] # NULL
  BY StepBusy, FlightFacts
<1>2. req'[t] = NULL
  BY DEF IndexInv, FileInv, OpsOK, OpOK
<1>3. req' # req
  BY <1>1, <1>2
<1>4. Flat!Reply(t) \/ (Flat!Resize(t) /\ req[t].op = "truncate")
  BY <1>a, <1>1, <1>3, FlatStep DEF Unseen, Flat!Call, Flat!Put, Flat!Remove, Flat!Resize
<1>5. Flat!Hangup(t) /\ FlatContent' = FlatContent
  BY <1>3, <1>4 DEF Flat!Reply, Flat!Resize
<1> QED  BY <1>1, <1>4, <1>5 DEF Flat!Hangup, Wrote, WrotePCs

\* Other paths show the same, and the handlers at work on them stay at work.
LEMMA Elsewhere ==
    ASSUME IndexInv, IndexInv', NEW t \in Threads, Step(t),
           NEW p \in Paths, p # req[t].path
    PROVE  SameShown(p) /\ \A u \in Threads : KeepsOn(u, p)
<1>k. \A b \in Blocks : <<p, b>> \in DOMAIN FlatContent
  BY FlatAt DEF Key
<1>s. DOMAIN FlatSize = Paths
  BY FlatAt
<1>1. CASE pc'[t] # "idle"
  <2>1. /\ req' = req
        /\ Unseen \/ Flat!Put(t) \/ Flat!Remove(t) \/ (Flat!Resize(t) /\ req[t].op = "unlink")
    BY <1>1, InsideStep
  <2>2. SameShown(p) /\ (Wrote' = Wrote \/ Wrote' = Wrote \cup {t})
    <3>1. CASE Unseen
      BY <3>1 DEF Unseen, SameFlat, SameShown
    <3>2. CASE Flat!Put(t)
      BY <1>k, <1>s, <3>2 DEF Flat!Put, SameShown, Wrote, WrotePCs
    <3>3. CASE Flat!Remove(t)
      BY <1>k, <1>s, <3>3 DEF Flat!Remove, Flat!Doomed, SameShown, Wrote, WrotePCs
    <3>4. CASE Flat!Resize(t) /\ req[t].op = "unlink"
      BY <1>k, <1>s, <3>4 DEF Flat!Resize, SameShown, Wrote, WrotePCs
    <3> QED  BY <2>1, <3>1, <3>2, <3>3, <3>4
  <2> QED  BY <2>1, <2>2 DEF KeepsOn, WroteTo, Removing
<1>2. CASE pc'[t] = "idle"
  <2>1. /\ req' = [req EXCEPT ![t] = NULL] /\ Wrote' = Wrote \ {t} /\ FlatContent' = FlatContent
        /\ Flat!Reply(t) \/ (Flat!Resize(t) /\ req[t].op = "truncate")
    BY <1>2, ReturnStep
  <2>2. SameShown(p)
    BY <1>s, <2>1 DEF Flat!Reply, Flat!Resize, SameShown
  <2> QED  BY <2>1, <2>2 DEF KeepsOn, WroteTo, Removing
<1> QED  BY <1>1, <1>2

\* Before a handler that modifies p takes effect, p shows what POSIX has.
LEMMA BeforeEffect ==
    ASSUME IndexInv, NEW t \in Threads, Modifies(t), t \notin Wrote, NEW p, p = req[t].path,
           SizeAgrees(p), \A b \in Blocks : BlockAgrees(p, b)
    PROVE  /\ \A u \in Threads : ~WroteTo(u, p)
           /\ \/ FlatSize[p] = psize[ino[p]]
              \/ FlatSize[p] = NULL /\ psize[ino[p]] = 0 /\ bsize[ino[p]] = 0
              \/ FlatSize[p] = NULL /\ req[t].op = "unlink"
           /\ \A b \in Blocks :
                \/ FlatContent[<<p, b>>] = PosixHash(p, b)
                \/ FlatContent[<<p, b>>] = NULL /\ Flat!Doomed(req[t], <<p, b>>)
<1>1. \A u \in Threads : ~WroteTo(u, p)
  BY AloneOn DEF WroteTo
<1>2. \A u \in Threads : Removing(u, p) => u = t
  BY AloneOn
<1>3. Unlinking(p) => req[t].op = "unlink"
  BY <1>2, GoingIff
<1>4. ASSUME NEW b, Going(p, b) PROVE Flat!Doomed(req[t], <<p, b>>)
  BY <1>2, <1>4 DEF Going, Removing, Flat!Doomed
<1> QED  BY <1>1, <1>3, <1>4 DEF SizeAgrees, BlockAgrees, WroteOn

LEMMA PutAgrees ==
    ASSUME IndexInv, NEW t \in Threads, Flat!Put(t), NEW p, p = req[t].path,
           SizeAgrees(p), \A b \in Blocks : BlockAgrees(p, b),
           SamePosix(p), psize[ino[p]] \in Nat
    PROVE  SizeAgrees(p)' /\ \A b \in Blocks : BlockAgrees(p, b)'
<1>1. /\ req[t] # NULL /\ req[t].op = "write" /\ t \notin Wrote /\ req' = req
      /\ Wrote' = Wrote \cup {t} /\ Modifies(t)
  BY DEF Flat!Put, Wrote, WrotePCs, Modifies
<1>2. /\ p \in Paths /\ StartBlock(req[t]) \in Nat /\ N(t) \in Nat /\ EndOf(t) \in Nat
      /\ EndOf(t) = StartBlock(req[t]) + NumBlocks(req[t])
  BY <1>1, FlightFacts, BoundsAssumption DEF EndOf, N
<1>3. /\ \A u \in Threads : ~WroteTo(u, p)
      /\ FlatSize[p] = psize[ino[p]] \/ (FlatSize[p] = NULL /\ psize[ino[p]] = 0)
      /\ \A b \in Blocks : FlatContent[<<p, b>>] = PosixHash(p, b)
  BY <1>1, BeforeEffect DEF Flat!Doomed
<1>4. \A u \in Threads : (WroteTo(u, p)' <=> u = t) /\ EndOf(u)' = EndOf(u)
  BY <1>1, <1>3 DEF WroteTo, EndOf, N
<1>5. SizeAgrees(p)'
  <2>1. FlatSize'[p] = IF FlatSize[p] # NULL /\ FlatSize[p] > EndOf(t) THEN FlatSize[p]
                       ELSE EndOf(t)
    BY <1>2, FlatAt DEF Flat!Put
  <2>2. FlatSize'[p] = Larger(EndOf(t), psize[ino[p]])
    BY <1>2, <1>3, <2>1, NullAssumption DEF Larger
  <2> QED  BY <1>4, <2>2 DEF SizeAgrees, SamePosix
<1>6. ASSUME NEW b \in Blocks PROVE BlockAgrees(p, b)'
  <2>1. <<p, b>> \in DOMAIN FlatContent /\ b \in Nat
    BY <1>2, FlatAt, BoundsAssumption DEF Key, Blocks
  <2>2. FlatContent'[<<p, b>>] = IF StartBlock(req[t]) <= b /\ b < EndOf(t)
                                 THEN HashAt(t, b - StartBlock(req[t]))
                                 ELSE FlatContent[<<p, b>>]
    BY <1>2, <2>1 DEF Flat!Put, DatumOf, HashAt, Payload
  <2>3. PosixHash(p, b)' = PosixHash(p, b)
    BY DEF PosixHash, SamePosix
  <2>4. \A u \in Threads :
           WroteOn(u, p, b)' <=> u = t /\ StartBlock(req[t]) <= b /\ b < EndOf(t)
    BY <1>1, <1>4 DEF WroteOn, EndOf, N
  <2>5. HashAt(t, b - StartBlock(req[t]))' = HashAt(t, b - StartBlock(req[t]))
    BY <1>1 DEF HashAt, Payload
  <2>6. req'[t] = req[t]
    BY <1>1
  <2> QED  BY <1>3, <2>2, <2>3, <2>4, <2>5, <2>6 DEF BlockAgrees
<1> QED  BY <1>5, <1>6

LEMMA RemoveAgrees ==
    ASSUME IndexInv, NEW t \in Threads, Flat!Remove(t), NEW p, p = req[t].path,
           SizeAgrees(p), \A b \in Blocks : BlockAgrees(p, b), SamePosix(p)
    PROVE  SizeAgrees(p)' /\ \A b \in Blocks : BlockAgrees(p, b)'
<1>1. /\ req[t] # NULL /\ req[t].op \in {"unlink", "truncate"} /\ t \notin Wrote /\ req' = req
      /\ Wrote' = Wrote /\ Modifies(t) /\ p \in Paths /\ FlatSize' = FlatSize
  BY FlightFacts DEF Flat!Remove, Wrote, WrotePCs, Modifies
<1>2. /\ \A u \in Threads : ~WroteTo(u, p)
      /\ \/ FlatSize[p] = psize[ino[p]]
         \/ FlatSize[p] = NULL /\ psize[ino[p]] = 0 /\ bsize[ino[p]] = 0
         \/ FlatSize[p] = NULL /\ req[t].op = "unlink"
      /\ \A b \in Blocks :
           \/ FlatContent[<<p, b>>] = PosixHash(p, b)
           \/ FlatContent[<<p, b>>] = NULL /\ Flat!Doomed(req[t], <<p, b>>)
  BY <1>1, BeforeEffect
<1>3. \A u \in Threads : ~WroteTo(u, p)'
  BY <1>1, <1>2 DEF WroteTo
<1>4. Unlinking(p)' <=> Unlinking(p)
  BY <1>1 DEF Unlinking
<1>5. req[t].op = "unlink" => Unlinking(p)
  BY SMTT(30), <1>1 DEF Unlinking
<1>6. SizeAgrees(p)'
  BY <1>1, <1>2, <1>3, <1>4, <1>5 DEF SizeAgrees, SamePosix
<1>7. ASSUME NEW b \in Blocks PROVE BlockAgrees(p, b)'
  <2>1. <<p, b>> \in DOMAIN FlatContent
    BY <1>1, FlatAt DEF Key
  <2>2. FlatContent'[<<p, b>>] = IF Flat!Doomed(req[t], <<p, b>>) THEN NULL
                                 ELSE FlatContent[<<p, b>>]
    BY <2>1 DEF Flat!Remove
  <2>3. PosixHash(p, b)' = PosixHash(p, b)
    BY DEF PosixHash, SamePosix
  <2>4. Flat!Doomed(req[t], <<p, b>>) => Going(p, b)'
    BY <1>1 DEF Going, Flat!Doomed
  <2> QED  BY <1>2, <1>3, <2>2, <2>3, <2>4 DEF BlockAgrees, WroteOn
<1> QED  BY <1>6, <1>7

\* The size of an unlinked file goes after its blocks.
LEMMA UnsizeAgrees ==
    ASSUME IndexInv, NEW t \in Threads, Flat!Resize(t), req[t].op = "unlink",
           NEW p, p = req[t].path,
           SizeAgrees(p), \A b \in Blocks : BlockAgrees(p, b), SamePosix(p)
    PROVE  SizeAgrees(p)' /\ \A b \in Blocks : BlockAgrees(p, b)'
<1>1. /\ req[t] # NULL /\ t \notin Wrote /\ req' = req
      /\ Wrote' = Wrote /\ Modifies(t) /\ p \in Paths /\ FlatContent' = FlatContent
      /\ FlatSize'[p] = NULL
  BY FlightFacts, FlatAt DEF Flat!Resize, Wrote, WrotePCs, Modifies
<1>2. /\ \A u \in Threads : ~WroteTo(u, p)
      /\ \A b \in Blocks :
           \/ FlatContent[<<p, b>>] = PosixHash(p, b)
           \/ FlatContent[<<p, b>>] = NULL /\ Flat!Doomed(req[t], <<p, b>>)
  BY <1>1, BeforeEffect
<1>3. \A u \in Threads : ~WroteTo(u, p)'
  BY <1>1, <1>2 DEF WroteTo
<1>4. Unlinking(p)'
  BY <1>1 DEF Unlinking
<1>5. \A b : Flat!Doomed(req[t], <<p, b>>) => Going(p, b)'
  BY <1>1 DEF Going, Flat!Doomed
<1>6. \A b : PosixHash(p, b)' = PosixHash(p, b)
  BY DEF PosixHash, SamePosix
<1> QED  BY <1>1, <1>2, <1>3, <1>4, <1>5, <1>6 DEF SizeAgrees, BlockAgrees, WroteOn

\* A write that is done returns, and POSIX catches up.
LEMMA WrittenAgrees ==
    ASSUME IndexInv, PassTypeOK, NEW t \in Threads, t \in Wrote, NEW p, p = req[t].path,
           p \in Plain, SizeAgrees(p), \A b \in Blocks : BlockAgrees(p, b),
           req' = [req EXCEPT ![t] = NULL], Wrote' = Wrote \ {t},
           FlatContent' = FlatContent, FlatSize' = FlatSize, WriteDone(t, ino[p])
    PROVE  SizeAgrees(p)' /\ \A b \in Blocks : BlockAgrees(p, b)'
<1>1. /\ req[t] # NULL /\ req[t].op = "write" /\ Modifies(t) /\ req[t] \in Requests
      /\ p \in Paths /\ StartBlock(req[t]) \in Nat /\ N(t) \in Nat
      /\ EndOf(t) = StartBlock(req[t]) + N(t) /\ N(t) = NumBlocks(req[t])
  BY FlightFacts DEF EndOf, N
<1>2. \A u \in Threads \ {t} : ~WroteTo(u, p) /\ ~Removing(u, p)
  BY <1>1, AloneOn
<1>3. \A u \in Threads : ~WroteTo(u, p)'
  BY <1>2 DEF WroteTo
<1>4. ino[p] \in Inodes /\ ino' = ino
  BY DEF PassTypeOK, WriteDone, Plain
<1>5. SizeAgrees(p)'
  <2>1. FlatSize[p] = Larger(EndOf(t), psize[ino[p]])
    BY DEF SizeAgrees, WroteTo
  <2>2. psize'[ino[p]] = Larger(EndOf(t), psize[ino[p]])
    BY <1>1, <1>4 DEF WriteDone, Larger, PassTypeOK
  <2> QED  BY <1>3, <1>4, <2>1, <2>2 DEF SizeAgrees
<1>6. ASSUME NEW b \in Blocks PROVE BlockAgrees(p, b)'
  <2>1. b \in Nat
    BY BoundsAssumption DEF Blocks
  <2>2. pdata'[ino[p]][b] = IF b >= StartBlock(req[t]) /\ b < EndOf(t)
                            THEN req[t].data[b - StartBlock(req[t]) + 1] ELSE pdata[ino[p]][b]
    BY <1>1, <1>4 DEF WriteDone, PassTypeOK
  <2>3. CASE StartBlock(req[t]) <= b /\ b < EndOf(t)
    <3>1. FlatContent[<<p, b>>] = HashAt(t, b - StartBlock(req[t]))
      BY <1>1, <2>3 DEF BlockAgrees, WroteOn, WroteTo
    <3>2. b - StartBlock(req[t]) \in 0 .. NumBlocks(req[t]) - 1
      BY <1>1, <2>1, <2>3
    <3>3. req[t].data[b - StartBlock(req[t]) + 1] \in Contents
      BY <1>1, <3>2, RequestFacts
    <3>4. PosixHash(p, b)' = HashAt(t, b - StartBlock(req[t]))
      BY <1>1, <1>4, <2>1, <2>2, <2>3, <3>3, NullAssumption DEF PosixHash, HashAt, Payload
    <3> QED  BY <1>3, <3>1, <3>4 DEF BlockAgrees, WroteOn
  <2>4. CASE ~(StartBlock(req[t]) <= b /\ b < EndOf(t))
    <3>1. \A u \in Threads : ~WroteOn(u, p, b)
      BY <1>1, <1>2, <2>4 DEF WroteOn
    <3>2. ~Going(p, b)
      BY <1>1, <1>2, GoingIff DEF Removing
    <3>3. PosixHash(p, b)' = PosixHash(p, b)
      BY <1>1, <1>4, <2>1, <2>2, <2>4 DEF PosixHash
    <3> QED  BY <1>3, <3>1, <3>2, <3>3 DEF BlockAgrees, WroteOn
  <2> QED  BY <2>3, <2>4
<1> QED  BY <1>5, <1>6

\* A truncate returns: nothing is left beyond its size.
LEMMA TruncatedAgrees ==
    ASSUME IndexInv, PassTypeOK, NEW t \in Threads, req[t].op = "truncate", req[t] # NULL,
           NEW p, p = req[t].path, p \in Plain, p \notin touched',
           SizeAgrees(p), \A b \in Blocks : BlockAgrees(p, b),
           req' = [req EXCEPT ![t] = NULL], Wrote' = Wrote \ {t}, FlatContent' = FlatContent,
           Flat!Reply(t) \/ Flat!Resize(t), TruncateDone(t, ino[p])
    PROVE  SizeAgrees(p)' /\ \A b \in Blocks : BlockAgrees(p, b)'
<1>1. /\ Modifies(t) /\ t \notin Wrote /\ p \in Paths /\ N(t) \in Nat /\ N(t) = NumBlocks(req[t])
  BY FlightFacts DEF Modifies, N
<1>2. /\ \A u \in Threads : ~WroteTo(u, p)
      /\ FlatSize[p] = psize[ino[p]] \/ (FlatSize[p] = NULL /\ psize[ino[p]] = 0)
      /\ \A b \in Blocks :
           \/ FlatContent[<<p, b>>] = PosixHash(p, b)
           \/ FlatContent[<<p, b>>] = NULL /\ Flat!Doomed(req[t], <<p, b>>)
  BY <1>1, BeforeEffect
<1>3. \A u \in Threads : ~WroteTo(u, p)'
  BY SMTT(30), <1>2 DEF WroteTo
<1>4. /\ ino[p] \in Inodes /\ psize[ino[p]] \in Nat
  BY BoundsAssumption DEF PassTypeOK, Plain
<1>5. /\ ino' = ino /\ N(t) <= psize[ino[p]]
      /\ bsize' = [bsize EXCEPT ![ino[p]] = N(t)] /\ psize' = [psize EXCEPT ![ino[p]] = N(t)]
      /\ pdata' = [pdata EXCEPT ![ino[p]] = [b \in Blocks |-> IF b < N(t) THEN @[b] ELSE NULL]]
  BY <1>1, <1>4 DEF TruncateDone, Touch
<1>6. SizeAgrees(p)'
  <2>1. \/ FlatSize' = FlatSize /\ (FlatSize[p] = NULL \/ FlatSize[p] <= N(t))
        \/ FlatSize[p] # NULL /\ FlatSize' = [FlatSize EXCEPT ![p] = N(t)]
    BY <1>1 DEF Flat!Reply, Flat!Resize
  <2>2. FlatSize'[p] = N(t) \/ (FlatSize'[p] = NULL /\ N(t) = 0)
    BY <1>1, <1>2, <1>4, <1>5, <2>1, FlatAt, NullAssumption
  <2>3. psize'[ino[p]] = N(t) /\ bsize'[ino[p]] = N(t)
    BY <1>4, <1>5 DEF PassTypeOK
  <2> QED  BY <1>3, <1>5, <2>2, <2>3 DEF SizeAgrees
<1>7. ASSUME NEW b \in Blocks PROVE BlockAgrees(p, b)'
  <2>1. b \in Nat /\ <<p, b>> \in DOMAIN FlatContent
    BY <1>1, FlatAt, BoundsAssumption DEF Blocks, Key
  <2>2. pdata'[ino[p]][b] = IF b < N(t) THEN pdata[ino[p]][b] ELSE NULL
    BY <1>4, <1>5 DEF PassTypeOK
  <2>3. CASE b < N(t)
    <3>1. ~Flat!Doomed(req[t], <<p, b>>)
      BY <1>1, <2>1, <2>3 DEF Flat!Doomed
    <3>2. FlatContent[<<p, b>>] = PosixHash(p, b)
      BY <1>2, <3>1
    <3>3. PosixHash(p, b)' = PosixHash(p, b)
      BY <1>5, <2>2, <2>3 DEF PosixHash
    <3> QED  BY <1>3, <3>2, <3>3 DEF BlockAgrees, WroteOn
  <2>4. CASE ~(b < N(t))
    <3>1. Flat!Doomed(req[t], <<p, b>>)
      BY <1>1, <2>1, <2>4 DEF Flat!Doomed
    <3>2. FlatContent[<<p, b>>] = NULL
      BY <2>1, <3>1 DEF Flat!Reply, Flat!Resize, Flat!Left
    <3> QED  BY <1>3, <1>5, <2>2, <2>4, <3>2 DEF BlockAgrees, WroteOn, PosixHash
  <2> QED  BY <2>3, <2>4
<1> QED  BY <1>6, <1>7

-----------------------------------------------------------------------------
(* A handler's step, with its effect on the backend and on the history     *)

SameBackend == ino' = ino /\ bsize' = bsize /\ psize' = psize /\ pdata' = pdata

LEMMA HandlerCases ==
    ASSUME IndexInv, IndexInv', NEW t \in Threads, Handler(t)
    PROVE  /\ Step(t) /\ opened' = opened /\ req[t] \in Requests /\ req[t].path \in Paths
           /\ touched \subseteq touched'
           /\ \/ pc'[t] # "idle" /\ SameBackend /\ touched' = touched /\ names' = names
              \/ /\ pc'[t] = "idle"
                 /\ \/ pc[t] = "w_release" /\ WriteDone(t, ino[req[t].path]) /\ names' = names
                    \/ /\ pc[t] \in {"t_read", "t_size"} /\ names' = names
                       /\ TruncateDone(t, ino[req[t].path])
                    \/ pc[t] = "u_backend" /\ UnlinkDone(t) /\ names' = names \ {req[t].path}
                    \/ pc[t] = "c_open" /\ CreateDone(t) /\ names' = names \cup {req[t].path}
                    \/ /\ pc[t] \in {"rb_miss", "r_lookup", "r_pread"}
                       /\ SameBackend /\ touched' = touched /\ names' = names
<1>1. Step(t) /\ opened' = opened /\ req[t] # NULL
  BY StepBusy, FlightFacts DEF Handler
<1>2. req[t] \in Requests /\ req[t].path \in Paths
  BY <1>1, FlightFacts
<1>3. CASE pc'[t] # "idle"
  BY <1>1, <1>2, <1>3, InsideStep DEF Handler, SameBackend, posixVars
<1>4. CASE pc'[t] = "idle"
  <2>1. Returned(t)
    BY <1>4 DEF Handler
  <2>2. \/ /\ names' = names
           /\ pc[t] \in {"w_release", "rb_miss", "t_read", "t_size", "r_lookup", "r_pread"}
        \/ pc[t] = "u_backend" /\ names' = names \ {req[t].path}
        \/ pc[t] = "c_open" /\ names' = names \cup {req[t].path}
    BY <1>1, <1>4, ReturnPCs DEF IndexInv, FileInv, TypeInv
  <2>3. CASE pc[t] = "w_release"
    BY <1>1, <1>2, <1>4, <2>1, <2>2, <2>3 DEF Returned, WriteDone
  <2>4. CASE pc[t] \in {"t_read", "t_size"}
    BY <1>1, <1>2, <1>4, <2>1, <2>2, <2>4 DEF Returned, TruncateDone, Touch
  <2>5. CASE pc[t] = "u_backend"
    BY <1>1, <1>2, <1>4, <2>1, <2>2, <2>5 DEF Returned, UnlinkDone, posixVars
  <2>6. CASE pc[t] = "c_open"
    BY <1>1, <1>2, <1>4, <2>1, <2>2, <2>6 DEF Returned, CreateDone, NewFile
  <2>7. CASE pc[t] \in {"rb_miss", "r_lookup", "r_pread"}
    BY <1>1, <1>2, <1>4, <2>1, <2>2, <2>7 DEF Returned, SameBackend, posixVars
  <2> QED  BY <2>2, <2>3, <2>4, <2>5, <2>6, <2>7
<1> QED  BY <1>3, <1>4

LEMMA PlainHasInode ==
    ASSUME PassTypeOK, NEW p \in Plain
    PROVE  /\ p \in Paths /\ ino[p] \in Inodes /\ ino[p] # NULL
           /\ psize[ino[p]] \in Nat /\ bsize[ino[p]] \in Nat
  BY BoundsAssumption, PassthroughAssumption DEF PassTypeOK, Plain

\* The inode of another plain file is not the one a request is about.
LEMMA PosixElsewhere ==
    ASSUME PassInv, IndexInv', NEW t \in Threads, Handler(t),
           NEW p \in Plain, p # req[t].path
    PROVE  SamePosix(p)
<1>1. ino[p] \in Inodes /\ p \in Paths
  BY PlainHasInode DEF PassInv
<1>2. ino[req[t].path] # ino[p] /\ req[t].path \in Paths
  <2>1. req[t].path \in Paths
    BY HandlerCases DEF PassInv
  <2> QED  BY <2>1 DEF PassInv, OwnInode
<1>3. ino \in [Paths -> Inodes \cup {NULL}]
  BY DEF PassInv, PassTypeOK
<1>4. CASE SameBackend
  BY <1>4 DEF SameBackend, SamePosix
<1>5. CASE WriteDone(t, ino[req[t].path])
  BY <1>1, <1>2, <1>5 DEF WriteDone, SamePosix, PassInv, PassTypeOK
<1>6. CASE TruncateDone(t, ino[req[t].path])
  BY <1>1, <1>2, <1>6 DEF TruncateDone, SamePosix, PassInv, PassTypeOK
<1>7. CASE UnlinkDone(t)
  BY <1>1, <1>3, <1>7 DEF UnlinkDone, SamePosix, posixVars
<1>8. CASE CreateDone(t)
  <2>1. CASE NewFile(req[t].path)
    <3>1. PICK i \in Inodes :
             /\ Unused(i) /\ ino' = [ino EXCEPT ![req[t].path] = i]
             /\ bsize' = [bsize EXCEPT ![i] = 0] /\ psize' = [psize EXCEPT ![i] = 0]
             /\ pdata' = [pdata EXCEPT ![i] = NoData]
      BY <2>1 DEF NewFile
    <3>2. i # ino[p]
      BY <1>1, <3>1 DEF Unused
    <3> QED  BY <1>1, <1>3, <3>1, <3>2 DEF SamePosix, PassInv, PassTypeOK
  <2> QED  BY <1>8, <2>1 DEF CreateDone, SamePosix
<1> QED  BY <1>4, <1>5, <1>6, <1>7, <1>8, HandlerCases DEF PassInv

\* The file of the request agrees after the step, if it is plain then.
LEMMA OwnPathAgrees ==
    ASSUME PassInv, IndexInv', NEW t \in Threads, Handler(t),
           NEW p, p = req[t].path, p \in names', p \notin touched'
    PROVE  SizeAgrees(p)' /\ \A b \in Blocks : BlockAgrees(p, b)'
<1>1. /\ Step(t) /\ req[t] \in Requests /\ p \in Paths /\ p \notin touched
      /\ IndexInv /\ PassTypeOK /\ req[t] # NULL
  BY HandlerCases, RequestFacts DEF PassInv
<1>2. p \in names => /\ p \in Plain /\ SizeAgrees(p) /\ \A b \in Blocks : BlockAgrees(p, b)
                     /\ psize[ino[p]] \in Nat
  BY <1>1, PlainHasInode DEF PassInv, Agrees, Plain
<1>3. CASE pc'[t] # "idle"
  <2>1. /\ SameBackend /\ names' = names /\ req' = req
        /\ Unseen \/ Flat!Put(t) \/ Flat!Remove(t) \/ (Flat!Resize(t) /\ req[t].op = "unlink")
    BY <1>1, <1>3, HandlerCases, InsideStep
  <2>2. SamePosix(p)
    BY <2>1 DEF SameBackend, SamePosix
  <2>3. CASE Unseen
    <3>1. SameShown(p) /\ \A u \in Threads : KeepsOn(u, p)
      BY <2>3 DEF Unseen, SameFlat, SameShown, KeepsOn, WroteTo
    <3> QED  BY <1>2, <2>1, <2>2, <3>1, AgreesKept
  <2>4. CASE Flat!Put(t)
    BY <1>1, <1>2, <2>1, <2>2, <2>4, PutAgrees
  <2>5. CASE Flat!Remove(t)
    BY <1>1, <1>2, <2>1, <2>2, <2>5, RemoveAgrees
  <2>6. CASE Flat!Resize(t) /\ req[t].op = "unlink"
    BY <1>1, <1>2, <2>1, <2>2, <2>6, UnsizeAgrees
  <2> QED  BY <2>1, <2>3, <2>4, <2>5, <2>6
<1>4. CASE pc'[t] = "idle"
  <2>1. /\ req' = [req EXCEPT ![t] = NULL] /\ Wrote' = Wrote \ {t} /\ FlatContent' = FlatContent
        /\ Flat!Reply(t) \/ (Flat!Resize(t) /\ req[t].op = "truncate")
    BY <1>1, <1>4, ReturnStep
  <2>2. OpOK(t)
    BY <1>1 DEF IndexInv, FileInv, OpsOK
  <2>3. req[t].op # "truncate" => FlatSize' = FlatSize
    BY <2>1 DEF Flat!Reply
  <2>4. ASSUME t \notin Wrote, ~Removing(t, p), req[t].op # "truncate" PROVE
           SameShown(p) /\ \A u \in Threads : KeepsOn(u, p)
    BY <2>1, <2>3, <2>4 DEF SameShown, KeepsOn, WroteTo
  <2>5. CASE pc[t] = "w_release"
    <3>1. t \in Wrote /\ req[t].op = "write"
      BY <2>5, <2>2 DEF Wrote, WrotePCs, OpOK, PlannedPCs, WritePCs
    <3>2. WriteDone(t, ino[p]) /\ names' = names
      BY <1>1, <1>4, <2>5, HandlerCases
    <3> QED  BY <1>1, <1>2, <2>1, <2>3, <3>1, <3>2, WrittenAgrees
  <2>6. CASE pc[t] \in {"t_read", "t_size"}
    <3>1. req[t].op = "truncate"
      BY <2>2, <2>6 DEF OpOK
    <3>2. TruncateDone(t, ino[p]) /\ names' = names
      BY <1>1, <1>4, <2>6, HandlerCases
    <3> QED  BY <1>1, <1>2, <2>1, <3>1, <3>2, TruncatedAgrees
  <2>7. CASE pc[t] = "u_backend"
    BY <1>1, <1>4, <2>7, HandlerCases
  <2>8. CASE pc[t] \in {"rb_miss", "r_lookup", "r_pread"}
    <3>1. t \notin Wrote /\ req[t].op \in {"write", "read"}
      BY <2>2, <2>8 DEF Wrote, WrotePCs, OpOK, PlannedPCs, WritePCs
    <3>2. SameBackend /\ names' = names
      BY <1>1, <1>4, <2>8, HandlerCases
    <3>3. SamePosix(p)
      BY <3>2 DEF SameBackend, SamePosix
    <3> QED  BY <1>2, <2>4, <3>1, <3>2, <3>3, AgreesKept DEF Removing
  <2>9. CASE pc[t] = "c_open"
    <3>1. t \notin Wrote /\ req[t].op = "create" /\ Modifies(t)
      BY <1>1, <2>2, <2>9 DEF Wrote, WrotePCs, OpOK, Modifies
    <3>2. SameShown(p) /\ \A u \in Threads : KeepsOn(u, p)
      BY <2>4, <3>1 DEF Removing
    <3>3. CreateDone(t)
      BY <1>1, <1>4, <2>9, HandlerCases
    <3>4. CASE ino[p] # NULL
      <4>1. SameBackend /\ p \in names
        BY <1>1, <3>3, <3>4 DEF CreateDone, NewFile, SameBackend, PassTypeOK
      <4>2. SamePosix(p)
        BY <4>1 DEF SameBackend, SamePosix
      <4> QED  BY <1>2, <3>2, <4>1, <4>2, AgreesKept
    <3>5. CASE ino[p] = NULL
      <4>1. p \notin names
        BY <1>1, <3>5 DEF PassTypeOK
      <4>2. ShowsNothing(p)
        BY <1>1, <4>1 DEF PassInv, AbsentOK
      <4>3. PICK i \in Inodes :
               /\ ino' = [ino EXCEPT ![p] = i]
               /\ bsize' = [bsize EXCEPT ![i] = 0] /\ psize' = [psize EXCEPT ![i] = 0]
               /\ pdata' = [pdata EXCEPT ![i] = NoData]
        BY <3>3, <3>5 DEF CreateDone, NewFile
      <4>4. ino'[p] = i /\ bsize'[i] = 0 /\ psize'[i] = 0 /\ pdata'[i] = NoData
        BY <1>1, <4>3 DEF PassTypeOK
      <4>5. \A u \in Threads : ~WroteTo(u, p)'
        BY <1>1, <2>1, <3>1, <3>2, AloneOn DEF KeepsOn, WroteTo
      <4>6. SizeAgrees(p)'
        BY <3>2, <4>2, <4>4, <4>5 DEF SizeAgrees, ShowsNothing, SameShown
      <4>7. \A b \in Blocks : BlockAgrees(p, b)'
        BY <3>2, <4>2, <4>4, <4>5
        DEF BlockAgrees, WroteOn, PosixHash, NoData, ShowsNothing, SameShown
      <4> QED  BY <4>6, <4>7
    <3> QED  BY <3>4, <3>5
  <2> QED  BY <1>1, <1>4, <2>5, <2>6, <2>7, <2>8, <2>9, HandlerCases
<1> QED  BY <1>3, <1>4

\* A new file takes an inode that no path has.
LEMMA NewFileTypes ==
    ASSUME PassTypeOK, OwnInode, TypeOK', NEW f \in Paths, names' = names \cup {f},
           opened' = opened, NewFile(f)
    PROVE  PassTypeOK' /\ OwnInode'
<1>1. PICK i \in Inodes :
         /\ Unused(i) /\ ino' = [ino EXCEPT ![f] = i]
         /\ bsize' = [bsize EXCEPT ![i] = 0] /\ psize' = [psize EXCEPT ![i] = 0]
         /\ pdata' = [pdata EXCEPT ![i] = NoData]
  BY DEF NewFile
<1>2. touched' = touched /\ NULL \notin Inodes /\ MaxBlocks \in Nat
  BY PassthroughAssumption, BoundsAssumption DEF NewFile
<1>3. NoData \in [Blocks -> Contents \cup {NULL}]
  BY DEF NoData
<1>4. PassTypeOK'
  BY <1>1, <1>2, <1>3 DEF PassTypeOK
<1>5. ASSUME NEW p \in Plain', NEW q \in Paths, ino'[q] = ino'[p] PROVE q = p
  <2>1. p \in Paths /\ p \notin touched /\ (p = f \/ p \in names)
    BY <1>2 DEF Plain, PassTypeOK, TypeOK, OuterType
  <2>2. ino'[f] = i /\ \A x \in Paths : ino[x] # i /\ (x # f => ino'[x] = ino[x])
    BY <1>1 DEF PassTypeOK, Unused
  <2> QED  BY <1>5, <2>1, <2>2 DEF OwnInode, Plain
<1> QED  BY <1>4, <1>5 DEF OwnInode

LEMMA HandlerTypes ==
    ASSUME PassInv, IndexInv', NEW t \in Threads, Handler(t)
    PROVE  PassTypeOK' /\ OwnInode'
<1>a. /\ IndexInv /\ PassTypeOK /\ OwnInode /\ req[t] \in Requests /\ req[t].path \in Paths
      /\ TypeOK' /\ touched \subseteq touched' /\ opened' = opened
      /\ StartBlock(req[t]) \in Nat /\ N(t) \in Nat /\ StartBlock(req[t]) + N(t) <= MaxBlocks
      /\ N(t) = NumBlocks(req[t]) /\ MaxBlocks \in Nat
  BY HandlerCases, RequestsAssumption, BoundsAssumption DEF PassInv, IndexInv, FileInv, TypeInv, N
<1>b. N(t) \in 0 .. MaxBlocks /\ StartBlock(req[t]) + NumBlocks(req[t]) \in 0 .. MaxBlocks
  BY <1>a
<1>1. CASE SameBackend /\ names' = names /\ touched' = touched
  BY <1>a, <1>1 DEF SameBackend, PassTypeOK, OwnInode, Plain
<1>2. CASE pc[t] = "w_release" /\ WriteDone(t, ino[req[t].path]) /\ names' = names
  <2>1. req[t].op = "write"
    BY <1>a, <1>2 DEF IndexInv, FileInv, OpsOK, OpOK, PlannedPCs, WritePCs
  <2>2. psize' \in [Inodes -> 0 .. MaxBlocks]
    <3>1. \E n \in 0 .. MaxBlocks : psize' = psize
             \/ psize' = [psize EXCEPT ![ino[req[t].path]] = n]
      BY <1>a, <1>b, <1>2 DEF WriteDone, PassTypeOK
    <3> QED  BY <1>a, <3>1 DEF PassTypeOK
  <2>3. ASSUME NEW b \in Blocks, b >= StartBlock(req[t]), b < StartBlock(req[t]) + NumBlocks(req[t])
        PROVE  req[t].data[b - StartBlock(req[t]) + 1] \in Contents
    <3>1. b - StartBlock(req[t]) \in 0 .. NumBlocks(req[t]) - 1
      BY <1>a, <2>3, BoundsAssumption DEF Blocks
    <3> QED  BY <1>a, <2>1, <3>1, RequestFacts
  <2>4. pdata' \in [Inodes -> [Blocks -> Contents \cup {NULL}]]
    <3> DEFINE New == [b \in Blocks |->
             IF b >= StartBlock(req[t]) /\ b < StartBlock(req[t]) + NumBlocks(req[t])
             THEN req[t].data[b - StartBlock(req[t]) + 1] ELSE pdata[ino[req[t].path]][b]]
    <3>1. pdata' = [pdata EXCEPT ![ino[req[t].path]] = New]
      BY <1>2 DEF WriteDone
    <3>2. ino[req[t].path] \in Inodes => New \in [Blocks -> Contents \cup {NULL}]
      BY <1>a, <2>3 DEF PassTypeOK
    <3> HIDE DEF New
    <3> QED  BY <1>a, <3>1, <3>2 DEF PassTypeOK
  <2> QED  BY <1>a, <1>2, <2>2, <2>4 DEF WriteDone, PassTypeOK, OwnInode, Plain
<1>3. CASE names' = names /\ TruncateDone(t, ino[req[t].path])
  <2>1. touched' \subseteq Paths /\ ino' = ino
    BY <1>a, <1>3 DEF TruncateDone, Touch, PassTypeOK
  <2>2. bsize' \in [Inodes -> 0 .. MaxBlocks] /\ psize' \in [Inodes -> 0 .. MaxBlocks]
    <3>1. \/ bsize' = bsize /\ psize' = psize
          \/ /\ bsize' = [bsize EXCEPT ![ino[req[t].path]] = N(t)]
             /\ psize' = [psize EXCEPT ![ino[req[t].path]] = N(t)]
      BY <1>3 DEF TruncateDone
    <3> QED  BY <1>a, <1>b, <3>1 DEF PassTypeOK
  <2>3. pdata' \in [Inodes -> [Blocks -> Contents \cup {NULL}]]
    <3> DEFINE New == [b \in Blocks |-> IF b < N(t) THEN pdata[ino[req[t].path]][b] ELSE NULL]
    <3>1. pdata' = pdata \/ pdata' = [pdata EXCEPT ![ino[req[t].path]] = New]
      BY <1>3 DEF TruncateDone
    <3>2. ino[req[t].path] \in Inodes => New \in [Blocks -> Contents \cup {NULL}]
      BY <1>a DEF PassTypeOK
    <3> HIDE DEF New
    <3> QED  BY <1>a, <3>1, <3>2 DEF PassTypeOK
  <2> QED  BY <1>a, <1>3, <2>1, <2>2, <2>3 DEF PassTypeOK, OwnInode, Plain
<1>4. CASE UnlinkDone(t) /\ names' = names \ {req[t].path}
  <2>1. /\ ino' = [ino EXCEPT ![req[t].path] = NULL]
        /\ bsize' = bsize /\ psize' = psize /\ pdata' = pdata /\ touched' = touched
    BY <1>4 DEF UnlinkDone, posixVars
  <2>2. PassTypeOK'
    BY <1>a, <1>4, <2>1 DEF PassTypeOK
  <2>3. ASSUME NEW p \in Plain', NEW q \in Paths, ino'[q] = ino'[p] PROVE q = p
    <3>1. p \in Plain /\ p # req[t].path /\ ino'[p] = ino[p] /\ ino[p] # NULL
      BY <1>a, <1>4, <2>1, <2>3, PlainHasInode DEF Plain, PassTypeOK
    <3>2. q # req[t].path
      BY <1>a, <2>1, <2>3, <3>1 DEF PassTypeOK
    <3> QED  BY <1>a, <2>1, <2>3, <3>1, <3>2 DEF PassTypeOK, OwnInode
  <2> QED  BY <2>2, <2>3 DEF OwnInode
<1>5. CASE CreateDone(t) /\ names' = names \cup {req[t].path}
  <2>1. CASE ino[req[t].path] # NULL
    <3>1. SameBackend /\ touched' = touched /\ names' = names
      BY <1>a, <1>5, <2>1 DEF CreateDone, SameBackend, PassTypeOK
    <3> QED  BY <1>1, <3>1
  <2>2. CASE ino[req[t].path] = NULL
    <3>1. NewFile(req[t].path)
      BY <1>5, <2>2 DEF CreateDone
    <3> QED  BY <1>a, <1>5, <3>1, NewFileTypes
  <2> QED  BY <2>1, <2>2
<1> QED  BY <1>a, <1>1, <1>2, <1>3, <1>4, <1>5, HandlerCases

\* What a handler's step shows keeps agreeing with what POSIX says.
LEMMA HandlerKeeps ==
    ASSUME PassInv, IndexInv', NEW t \in Threads, Handler(t)
    PROVE  PassInv'
<1>a. /\ IndexInv /\ PassTypeOK /\ Step(t) /\ touched \subseteq touched'
      /\ \A p \in names' : p # req[t].path => p \in names
      /\ names' \subseteq Paths
  <2>1. names' \subseteq Paths
    BY DEF IndexInv, FileInv, TypeInv, TypeOK, OuterType
  <2> QED  BY <2>1, HandlerCases DEF PassInv
<1>1. ASSUME NEW p \in Plain' PROVE SizeAgrees(p)' /\ \A b \in Blocks : BlockAgrees(p, b)'
  <2>0. p \in names' /\ p \notin touched' /\ p \in Paths
    BY <1>a DEF Plain
  <2>1. CASE p = req[t].path
    BY <2>0, <2>1, OwnPathAgrees
  <2>2. CASE p # req[t].path
    <3>1. p \in Plain
      BY <1>a, <2>0, <2>2 DEF Plain
    <3>2. SizeAgrees(p) /\ \A b \in Blocks : BlockAgrees(p, b)
      BY <3>1 DEF PassInv, Agrees
    <3>3. SamePosix(p)
      BY <2>2, <3>1, PosixElsewhere
    <3>4. SameShown(p) /\ \A u \in Threads : KeepsOn(u, p)
      BY <1>a, <2>0, <2>2, Elsewhere
    <3> QED  BY <3>2, <3>3, <3>4, AgreesKept
  <2> QED  BY <2>1, <2>2
<1>2. Agrees'
  BY <1>1 DEF Agrees
<1>3. ASSUME NEW p \in Paths, p \notin names', p \notin touched' PROVE ShowsNothing(p)'
  <2>1. CASE p # req[t].path
    <3>1. SameShown(p)
      BY <1>a, <2>1, Elsewhere
    <3>2. p \notin names
      BY <1>a, <1>3, <2>1, HandlerCases
    <3> QED  BY <1>a, <1>3, <3>1, <3>2 DEF PassInv, AbsentOK, ShowsNothing, SameShown
  <2>2. CASE p = req[t].path /\ pc[t] = "u_backend" /\ pc'[t] = "idle"
    <3>1. req[t].op = "unlink"
      BY <1>a, <2>2 DEF IndexInv, FileInv, OpsOK, OpOK
    <3>2. Flat!Reply(t) /\ FlatContent' = FlatContent
      BY <1>a, <2>2, <3>1, ReturnStep
    <3>3. FlatSize'[p] = NULL /\ Flat!Left(req[t]) = {}
      BY <2>2, <3>1, <3>2 DEF Flat!Reply
    <3>4. ASSUME NEW b \in Blocks PROVE FlatContent[<<p, b>>] = NULL
      <4>1. <<p, b>> \in DOMAIN FlatContent
        BY <1>3, FlatAt DEF Key
      <4>2. Flat!Doomed(req[t], <<p, b>>)
        BY <2>2, <3>1 DEF Flat!Doomed
      <4> QED  BY <3>3, <4>1, <4>2 DEF Flat!Left
    <3> QED  BY <3>2, <3>3, <3>4 DEF ShowsNothing
  <2>3. CASE p = req[t].path /\ ~(pc[t] = "u_backend" /\ pc'[t] = "idle")
    <3>1. names' = names
      BY <1>a, <1>3, <2>3, HandlerCases
    <3>2. ShowsNothing(p)
      BY <1>a, <1>3, <3>1 DEF PassInv, AbsentOK
    <3>3. OpOK(t) /\ req[t] # NULL
      BY <1>a, HandlerCases, RequestFacts DEF IndexInv, FileInv, OpsOK
    <3>4. ~Modifies(t) \/ req[t].op = "create"
      BY <1>a, <1>3, <2>3, <3>1 DEF IndexInv, FileInv, NamesOK
    <3>5. req[t].op \in {"read", "create"}
      BY <3>3, <3>4 DEF Modifies
    <3>6. FlatContent' = FlatContent /\ FlatSize' = FlatSize
      BY <1>a, <3>5, InsideStep, ReturnStep
      DEF Unseen, SameFlat, Flat!Put, Flat!Remove, Flat!Reply
    <3> QED  BY <3>2, <3>6 DEF ShowsNothing
  <2> QED  BY <2>1, <2>2, <2>3
<1>4. AbsentOK'
  BY <1>3 DEF AbsentOK
<1> QED  BY <1>2, <1>4, HandlerTypes DEF PassInv

-----------------------------------------------------------------------------
(* Requests that arrive, and an unlink that fails                          *)

LEMMA AcceptKeeps ==
    ASSUME PassInv, IndexInv', NEW t \in Threads, Accept(t)
    PROVE  PassInv'
<1>a. /\ pc \in [Threads -> PCs] /\ req \in [Threads -> Requests \cup {NULL}]
      /\ ImplInv /\ TypeInv /\ IndexInv /\ Dispatch(t) /\ TypeOK'
      /\ names' = names /\ ino' = ino /\ opened' = opened /\ bsize' = bsize
      /\ psize' = psize /\ pdata' = pdata /\ touched' = touched
  BY DEF PassInv, IndexInv, ContentInv, SlotInv, RefInv, FileInv, ImplInv, TypeInv, TypeOK,
     ControlType, Accept, Dispatch, ptVars, posixVars
<1>1. \A u \in Threads \ {t} : SameFrame(u)
  BY <1>a, OthersUnchanged DEF TypeInv
<1>2. req[t] = NULL /\ (Unseen \/ Flat!Call(t))
  BY <1>a, <1>1, CallStep, FlightFacts DEF Dispatch
<1>3. FlatContent' = FlatContent /\ FlatSize' = FlatSize /\ Wrote' = Wrote
  BY <1>2 DEF Unseen, SameFlat, Flat!Call, Wrote, WrotePCs
<1>4. ASSUME NEW p, NEW u \in Threads PROVE KeepsOn(u, p)
  <2>1. t \notin Wrote
    BY <1>a, <1>2, FlightFacts
  <2>2. u # t => req'[u] = req[u]
    BY <1>1 DEF SameFrame
  <2> QED  BY <1>2, <1>3, <2>1, <2>2 DEF KeepsOn, WroteTo, Removing
<1>5. ASSUME NEW p \in Plain PROVE SizeAgrees(p)' /\ \A b \in Blocks : BlockAgrees(p, b)'
  <2>1. SameShown(p) /\ SamePosix(p)
    BY <1>a, <1>3 DEF SameShown, SamePosix
  <2> QED  BY <1>4, <2>1, AgreesKept DEF PassInv, Agrees
<1>6. Plain' = Plain
  BY <1>a DEF Plain
<1>7. Agrees'
  BY <1>5, <1>6 DEF Agrees
<1>8. OwnInode' /\ AbsentOK' /\ PassTypeOK'
  BY <1>a, <1>3, <1>6 DEF PassInv, OwnInode, AbsentOK, ShowsNothing, PassTypeOK
<1> QED  BY <1>7, <1>8 DEF PassInv

LEMMA UnlinkFailsKeeps ==
    ASSUME PassInv, NEW t \in Threads, UnlinkFails(t)
    PROVE  PassInv'
<1>1. IndexInv' /\ \A u \in Threads \ {t} : SameFrame(u)
  BY FailedUnlinkKeeps DEF PassInv
<1>2. /\ hash_to_master' = hash_to_master /\ file_to_master' = file_to_master
      /\ file_to_sizes' = file_to_sizes /\ info' = info
      /\ writer' = writer /\ names' = names /\ touched' = touched \cup {req[t].path}
      /\ ino' = ino /\ opened' = opened /\ bsize' = bsize /\ psize' = psize /\ pdata' = pdata
  BY DEF UnlinkFails, dataVars, indexVars, heapVars, outerVars, lockVars, Touch
<1>3. /\ pc[t] = "u_backend" /\ pc \in [Threads -> PCs] /\ writer \in Threads \cup {NULL}
      /\ LockDiscipline /\ OpOK(t) /\ req[t] \in Requests /\ req[t].path \in Paths /\ TypeOK'
      /\ pc' = [pc EXCEPT ![t] = "idle"]
  <2>1. pc[t] = "u_backend" /\ pc' = [pc EXCEPT ![t] = "idle"]
    BY DEF UnlinkFails, Return, Goto
  <2> QED
    BY <1>1, <2>1, FlightFacts DEF PassInv, IndexInv, FileInv, TypeInv, TypeOK, ControlType,
       LockType, OpsOK
<1>4. writer # t
  BY <1>3 DEF LockDiscipline, WriteLocked
<1>5. SameFlat
  <2>1. writer # NULL => SameFrame(writer)
    BY <1>1, <1>3, <1>4
  <2>2. \A x \in Key : View(x)' = View(x)
    BY <1>2 DEF View
  <2>3. ASSUME NEW x \in Key PROVE At(x)' = At(x)
    BY <1>2, <2>1, <2>2 DEF At, ToMap, ToUnmap, SameFrame, HashAt, Payload, N
  <2>4. ASSUME NEW f \in Paths PROVE SizeAt(f)' = SizeAt(f)
    BY <1>2, <2>1 DEF SizeAt, SameFrame, GrownSize, N
  <2> QED  BY <2>3, <2>4, SameAt
<1>6. Wrote' = Wrote /\ t \notin Wrote
  BY <1>3 DEF Wrote, WrotePCs
<1>7. ASSUME NEW p, p # req[t].path, NEW u \in Threads PROVE KeepsOn(u, p)
  BY <1>1, <1>6, <1>7 DEF KeepsOn, WroteTo, Removing, SameFrame
<1>8. ASSUME NEW p \in Plain' PROVE SizeAgrees(p)' /\ \A b \in Blocks : BlockAgrees(p, b)'
  <2>1. p \in Plain /\ p # req[t].path
    BY <1>2 DEF Plain
  <2>2. SameShown(p) /\ SamePosix(p)
    BY <1>2, <1>5 DEF SameShown, SamePosix, SameFlat
  <2> QED  BY <1>7, <2>1, <2>2, AgreesKept DEF PassInv, Agrees
<1>9. Agrees'
  BY <1>8 DEF Agrees
<1>10. OwnInode' /\ AbsentOK' /\ PassTypeOK'
  BY <1>2, <1>3, <1>5
  DEF PassInv, OwnInode, AbsentOK, ShowsNothing, PassTypeOK, Plain, SameFlat
<1> QED  BY <1>1, <1>9, <1>10 DEF PassInv

-----------------------------------------------------------------------------
(* Handlers that leave the index alone                                     *)

\* A name that has just been made for an empty inode.
NewName(p) ==
    /\ p \in Paths \ (names \cup touched) /\ \A u \in Threads : ~WroteTo(u, p)
    /\ bsize'[ino'[p]] = 0 /\ psize'[ino'[p]] = 0 /\ pdata'[ino'[p]] = NoData

\* What such a handler has to keep for the rest to follow.
LEMMA AsideKeeps ==
    ASSUME PassInv, IndexSame, names' \subseteq Paths, touched \subseteq touched',
           names \subseteq names' \cup touched',
           NamesOK', TypeOK' => PassTypeOK' /\ OwnInode',
           \A p \in Plain' : (p \in Plain /\ SamePosix(p)) \/ NewName(p)
    PROVE  PassInv'
<1>1. /\ Aside /\ UNCHANGED <<pc, k, frameVars>>
      /\ req' = req /\ pc' = pc
  BY DEF IndexSame, Aside, frameVars
<1>2. IndexInv'
  BY <1>1, NamesOnlyKeeps DEF IndexInv, FileInv, PassInv
<1>3. SameFlat /\ Wrote' = Wrote
  BY DEF IndexSame, SameFlat, FlatContent, FlatSize, View, ToMap, ToUnmap, HashAt, Payload, N,
     GrownSize, Wrote, indexVars, heapVars, lockVars, frameVars
<1>4. ASSUME NEW p, NEW u \in Threads PROVE KeepsOn(u, p)
  BY <1>1, <1>3 DEF KeepsOn, WroteTo, Removing
<1>5. ASSUME NEW p PROVE SameShown(p)
  BY <1>3 DEF SameFlat, SameShown
<1>6. ASSUME NEW p \in Plain' PROVE SizeAgrees(p)' /\ \A b \in Blocks : BlockAgrees(p, b)'
  <2>1. CASE p \in Plain /\ SamePosix(p)
    BY <1>4, <1>5, <2>1, AgreesKept DEF PassInv, Agrees
  <2>2. CASE NewName(p)
    <3>1. ShowsNothing(p) /\ \A u \in Threads : ~WroteTo(u, p)'
      BY <1>4, <2>2 DEF NewName, PassInv, AbsentOK, KeepsOn
    <3>2. SizeAgrees(p)'
      BY <1>5, <2>2, <3>1 DEF SizeAgrees, ShowsNothing, SameShown, NewName
    <3>3. ASSUME NEW b \in Blocks PROVE BlockAgrees(p, b)'
      BY <1>5, <2>2, <3>1 DEF BlockAgrees, WroteOn, PosixHash, NoData, ShowsNothing, SameShown,
         NewName
    <3> QED  BY <3>2, <3>3
  <2> QED  BY <2>1, <2>2
<1>7. Agrees'
  BY <1>6 DEF Agrees
<1>8. AbsentOK'
  BY <1>5 DEF PassInv, AbsentOK, ShowsNothing, SameShown
<1>9. TypeOK'
  BY <1>2 DEF IndexInv, FileInv, TypeInv
<1> QED  BY <1>2, <1>7, <1>8, <1>9 DEF PassInv

\* A handler at work on a path that is not in S loses it from no directory.
LEMMA NamesKept ==
    ASSUME PassInv, IndexSame, NEW call, NEW S, Enabled(call, S), names \ S \subseteq names'
    PROVE  NamesOK'
<1>1. req' = req
  BY DEF IndexSame, frameVars
<1>2. NamesOK
  BY DEF PassInv, IndexInv, FileInv
<1> QED  BY <1>1, <1>2 DEF NamesOK, Modifies, Enabled

\* Two names change, and the inode moves or gets a second name.
LEMMA TwoNamesKeep ==
    ASSUME PassInv, IndexSame, NEW call, NEW from \in names, NEW to \in Paths, from # to,
           Enabled(call, {from, to}), Touch({from, to}), UNCHANGED <<opened, bsize, psize, pdata>>,
           \/ /\ ino' = [ino EXCEPT ![to] = ino[from], ![from] = NULL]
              /\ names' = (names \ {from}) \cup {to}
           \/ /\ ino' = [ino EXCEPT ![to] = ino[from]]
              /\ names' = names \cup {to}
    PROVE  PassInv'
<1>a. /\ ino \in [Paths -> Inodes \cup {NULL}] /\ names = {p \in Paths : ino[p] # NULL}
      /\ opened \subseteq Inodes /\ touched \subseteq Paths /\ from \in Paths
      /\ NULL \notin Inodes
      /\ touched' = touched \cup {from, to} /\ names' \subseteq Paths
      /\ opened' = opened /\ bsize' = bsize /\ psize' = psize /\ pdata' = pdata
  BY PassthroughAssumption DEF PassInv, PassTypeOK, Touch
<1>1. NamesOK'
  BY NamesKept
<1>2. TypeOK' => PassTypeOK'
  <2>1. ino' \in [Paths -> Inodes \cup {NULL}]
    BY <1>a
  <2>2. names' = {p \in Paths : ino'[p] # NULL}
    BY <1>a
  <2> QED  BY <1>a, <2>1, <2>2 DEF PassInv, PassTypeOK
<1>3. ASSUME NEW p \in Plain' PROVE p \in Plain /\ SamePosix(p) /\ p \notin {from, to}
  BY <1>a DEF Plain, SamePosix
<1>4. OwnInode'
  <2>1. ASSUME NEW p \in Plain', NEW q \in Paths, ino'[q] = ino'[p] PROVE q = p
    <3>1. p \in Plain /\ p \notin {from, to} /\ ino'[p] = ino[p] /\ p \in Paths /\ ino[p] # NULL
      BY <1>a, <1>3 DEF SamePosix, Plain
    <3>2. ino[from] # ino[p]
      BY <1>a, <3>1 DEF PassInv, OwnInode
    <3>3. q \notin {from, to}
      BY <1>a, <2>1, <3>1, <3>2 DEF PassInv, OwnInode
    <3> QED  BY <1>a, <2>1, <3>1, <3>3 DEF PassInv, OwnInode
  <2> QED  BY <2>1 DEF OwnInode
<1>5. names \subseteq names' \cup touched'
  BY <1>a
<1> QED  BY <1>a, <1>1, <1>2, <1>3, <1>4, <1>5, AsideKeeps

LEMMA OpenTruncKeeps ==
    ASSUME PassInv, NEW f \in Paths, OpenTrunc(f)
    PROVE  PassInv'
<1>a. /\ f \in names /\ ino[f] \in Inodes /\ ino' = ino /\ names' = names
      /\ touched' = touched \cup {f} /\ opened' = opened \cup {ino[f]}
      /\ bsize' = [bsize EXCEPT ![ino[f]] = 0] /\ psize' = [psize EXCEPT ![ino[f]] = 0]
      /\ pdata' = [pdata EXCEPT ![ino[f]] = NoData]
      /\ Enabled("otrunc", {f}) /\ IndexSame /\ names \subseteq Paths
  BY DEF OpenTrunc, PassInv, PassTypeOK, Touch
<1>1. NamesOK'
  BY <1>a, NamesKept
<1>2. TypeOK' => PassTypeOK'
  <2>1. NoData \in [Blocks -> Contents \cup {NULL}] /\ MaxBlocks \in Nat
    BY BoundsAssumption DEF NoData
  <2> QED  BY <1>a, <2>1 DEF PassInv, PassTypeOK
<1>3. ASSUME NEW p \in Plain' PROVE p \in Plain /\ SamePosix(p)
  <2>1. p \in Plain /\ p # f /\ p \in Paths
    BY <1>a DEF Plain
  <2>2. ino[p] # ino[f]
    BY <2>1 DEF PassInv, OwnInode
  <2> QED  BY <1>a, <2>1, <2>2 DEF SamePosix, PassInv, PassTypeOK
<1>4. OwnInode'
  BY <1>a, <1>3 DEF PassInv, OwnInode
<1> QED  BY <1>a, <1>1, <1>2, <1>3, <1>4, AsideKeeps

LEMMA MknodKeeps ==
    ASSUME PassInv, NEW f \in Paths, Mknod(f)
    PROVE  PassInv'
<1>a. /\ f \notin names /\ names' = names \cup {f} /\ NewFile(f) /\ opened' = opened
      /\ Enabled("mknod", {f}) /\ IndexSame /\ names \subseteq Paths /\ touched' = touched
      /\ PassTypeOK /\ OwnInode /\ ino \in [Paths -> Inodes \cup {NULL}]
  BY DEF Mknod, NewFile, PassInv, PassTypeOK
<1>1. NamesOK'
  BY <1>a, NamesKept
<1>2. TypeOK' => PassTypeOK' /\ OwnInode'
  BY <1>a, NewFileTypes
<1>3. PICK i \in Inodes :
         /\ Unused(i) /\ ino' = [ino EXCEPT ![f] = i]
         /\ bsize' = [bsize EXCEPT ![i] = 0] /\ psize' = [psize EXCEPT ![i] = 0]
         /\ pdata' = [pdata EXCEPT ![i] = NoData]
  BY <1>a DEF NewFile
<1>4. ASSUME NEW p \in Plain' PROVE (p \in Plain /\ SamePosix(p)) \/ NewName(p)
  <2>1. CASE p = f
    <3>1. \A u \in Threads : ~WroteTo(u, f)
      BY <1>a, FlightFacts DEF WroteTo, Enabled, PassInv
    <3>2. ino'[f] = i /\ bsize'[i] = 0 /\ psize'[i] = 0 /\ pdata'[i] = NoData
      BY <1>a, <1>3 DEF PassTypeOK
    <3> QED  BY <1>a, <2>1, <3>1, <3>2 DEF NewName, Plain
  <2>2. CASE p # f
    <3>1. p \in Plain /\ p \in Paths
      BY <1>a, <2>2 DEF Plain
    <3>2. ino[p] # i /\ ino'[p] = ino[p] /\ ino[p] \in Inodes
      BY <1>a, <1>3, <2>2, <3>1, PlainHasInode DEF Unused
    <3> QED  BY <1>a, <1>3, <3>1, <3>2 DEF SamePosix, PassTypeOK
  <2> QED  BY <2>1, <2>2
<1> QED  BY <1>a, <1>1, <1>2, <1>4, AsideKeeps

LEMMA HandlesKeep ==
    ASSUME PassInv, (\E p \in Paths : Open(p)) \/ (\E i \in Inodes : Release(i))
    PROVE  PassInv'
<1>a. /\ ino' = ino /\ names' = names /\ touched' = touched /\ bsize' = bsize /\ psize' = psize
      /\ pdata' = pdata /\ IndexSame /\ opened' \subseteq Inodes /\ names \subseteq Paths
  BY DEF Open, Release, posixVars, PassInv, PassTypeOK
<1>1. NamesOK'
  BY <1>a DEF NamesOK, Modifies, IndexSame, frameVars, PassInv, IndexInv, FileInv
<1>2. TypeOK' => PassTypeOK' /\ OwnInode'
  BY <1>a DEF PassInv, PassTypeOK, OwnInode, Plain
<1>3. \A p \in Plain' : p \in Plain /\ SamePosix(p)
  BY <1>a DEF Plain, SamePosix
<1> QED  BY <1>a, <1>1, <1>2, <1>3, AsideKeeps

-----------------------------------------------------------------------------
(* The theorems                                                            *)

\* SHA-512 tells the payloads apart.
HashesTellApart == \A c, d \in Contents : HashOf[c] = HashOf[d] => c = d

LEMMA PassInitInv ==
    ASSUME RefcountsFit, PassInit
    PROVE  PassInv
<1>1. Fresh
  BY DEF PassInit, Fresh
<1>2. IndexInv
  BY <1>1, ContentInit, FileInit DEF IndexInv
<1>3. /\ ino \in [Paths -> Inodes \cup {NULL}] /\ names = Paths \ {Hidden}
      /\ \A p \in names, q \in names : ino[p] \in Inodes /\ (ino[p] = ino[q] => p = q)
      /\ ino[Hidden] = NULL /\ Hidden \in Paths /\ NULL \notin Inodes
      /\ opened = {} /\ touched = {}
      /\ bsize = [i \in Inodes |-> 0] /\ psize = [i \in Inodes |-> 0]
      /\ pdata = [i \in Inodes |-> NoData] /\ TypeOK
  BY <1>2, PassthroughAssumption DEF PassInit, IndexInv, FileInv, TypeInv
<1>4. PassTypeOK
  <2>1. names = {p \in Paths : ino[p] # NULL}
    BY <1>3
  <2>2. NoData \in [Blocks -> Contents \cup {NULL}] /\ MaxBlocks \in Nat
    BY BoundsAssumption DEF NoData
  <2> QED  BY <1>3, <2>1, <2>2 DEF PassTypeOK
<1>5. OwnInode
  BY <1>3 DEF OwnInode, Plain
<1>6. /\ \A x \in Key : FlatContent[x] = NULL
      /\ \A f \in Paths : FlatSize[f] = NULL
      /\ Wrote = {}
  BY <1>1 DEF Fresh, FreshInit, FlatContent, FlatSize, View, Wrote, WrotePCs
<1>7. AbsentOK
  BY <1>6 DEF AbsentOK, ShowsNothing, Key
<1>8. ASSUME NEW p \in Plain PROVE SizeAgrees(p) /\ \A b \in Blocks : BlockAgrees(p, b)
  <2>1. p \in Paths /\ ino[p] \in Inodes
    BY <1>3 DEF Plain
  <2> QED  BY <1>3, <1>6, <2>1
           DEF SizeAgrees, BlockAgrees, WroteOn, WroteTo, PosixHash, NoData, Key
<1> QED  BY <1>2, <1>4, <1>5, <1>7, <1>8 DEF PassInv, Agrees

LEMMA PassStep ==
    ASSUME RefcountsFit, DistinctBatches, SerializePaths, PassInv, [PassNext]_passVars
    PROVE  PassInv'
<1>1. CASE UNCHANGED passVars
  <2>1. /\ UNCHANGED vars /\ ino' = ino /\ names' = names /\ opened' = opened /\ bsize' = bsize
        /\ psize' = psize /\ pdata' = pdata /\ touched' = touched /\ IndexSame
    BY <1>1 DEF passVars, ptVars, posixVars, vars, dataVars, outerVars, IndexSame
  <2>2. NamesOK'
    BY <2>1 DEF NamesOK, Modifies, IndexSame, frameVars, PassInv, IndexInv, FileInv
  <2>3. (TypeOK' => PassTypeOK' /\ OwnInode') /\ names \subseteq Paths
    BY <2>1 DEF PassInv, PassTypeOK, OwnInode, Plain
  <2>4. \A p \in Plain' : p \in Plain /\ SamePosix(p)
    BY <2>1 DEF Plain, SamePosix
  <2> QED  BY <2>1, <2>2, <2>3, <2>4, AsideKeeps
<1>2. ASSUME NEW t \in Threads, Dispatch(t) \/ Step(t) PROVE IndexInv'
  <2>1. Next
    BY <1>2 DEF Next
  <2> QED  BY <1>2, <2>1, ContentStep, FileStep DEF PassInv, IndexInv
<1>3. ASSUME NEW t \in Threads, Accept(t) \/ Handler(t) \/ UnlinkFails(t) PROVE PassInv'
  <2>1. CASE Accept(t)
    BY <1>2, <2>1, AcceptKeeps DEF Accept
  <2>2. CASE Handler(t)
    BY <1>2, <2>2, HandlerKeeps DEF Handler
  <2> QED  BY <1>3, <2>1, <2>2, UnlinkFailsKeeps
<1>4. ASSUME NEW p \in Paths, NEW q \in Paths, Rename(p, q) \/ Link(p, q) PROVE PassInv'
  <2>1. CASE Rename(p, q)
    BY <2>1, TwoNamesKeep DEF Rename, Move
  <2>2. CASE Link(p, q)
    BY <2>2, TwoNamesKeep DEF Link
  <2> QED  BY <1>4, <2>1, <2>2
<1>5. ASSUME NEW p \in Paths, UnlinkOpen(p) PROVE PassInv'
  <2>1. p # Hidden /\ Hidden \in Paths
    BY <1>5, PassthroughAssumption DEF UnlinkOpen, PassInv, PassTypeOK
  <2> QED  BY <1>5, <2>1, TwoNamesKeep DEF UnlinkOpen, Move
<1> QED
  BY <1>1, <1>3, <1>4, <1>5, OpenTruncKeeps, MknodKeeps, HandlesKeep DEF PassNext, PassQuiet

LEMMA PassAlways ==
    ASSUME RefcountsFit, DistinctBatches, SerializePaths
    PROVE  PassSpec => []PassInv
<1>1. PassInit => PassInv
  BY PassInitInv
<1>2. PassInv /\ [PassNext]_passVars => PassInv'
  BY PassStep
<1> QED  BY <1>1, <1>2, PTL DEF PassSpec

\* Names and inodes agree under all handlers of passthrough.c that touch either, and
\* every size stays within the bound (passthrough.c:75-683).
THEOREM PassTypes ==
    ASSUME RefcountsFit, DistinctBatches, SerializePaths
    PROVE  PassSpec => []PassTypeOK
<1>1. PassInv => PassTypeOK
  BY DEF PassInv
<1> QED  BY <1>1, PassAlways, PTL

LEMMA AtRest ==
    ASSUME PassInv, HashesTellApart, Still, NEW p \in names \ touched
    PROVE  PosixAt(p)
<1>a. /\ TypeInv /\ LockDiscipline /\ TablesOK /\ ContentsOK /\ TypeOK
      /\ p \in Plain /\ p \in Paths /\ ino[p] \in Inodes /\ psize[ino[p]] \in Nat
      /\ pdata \in [Inodes -> [Blocks -> Contents \cup {NULL}]]
      /\ SizeAgrees(p) /\ \A b \in Blocks : BlockAgrees(p, b)
  BY PlainHasInode DEF PassInv, IndexInv, ContentInv, SlotInv, RefInv, FileInv, Plain, Agrees,
     TypeInv, PassTypeOK
<1>1. \A t \in Threads : pc[t] = "idle" /\ req[t] = NULL
  BY FlightFacts DEF Still, PassInv
<1>2. writer = NULL
  BY <1>a, <1>1 DEF LockDiscipline, WriteLocked, TypeOK, LockType
<1>3. FlatSize[p] = file_to_sizes[p] /\ \A b \in Blocks : FlatContent[<<p, b>>] = View(<<p, b>>)
  BY <1>a, <1>2 DEF FlatSize, FlatContent, Key
<1>4. /\ \A t \in Threads : ~WroteTo(t, p) /\ \A b \in Blocks : ~WroteOn(t, p, b)
      /\ ~Unlinking(p) /\ \A b \in Blocks : ~Going(p, b)
  BY <1>1 DEF WroteOn, WroteTo, Wrote, WrotePCs, Unlinking, Going
<1>5. GetattrSize(p) = psize[ino[p]]
  BY <1>a, <1>3, <1>4, NullAssumption DEF SizeAgrees, GetattrSize
<1>6. ASSUME NEW b \in Blocks PROVE ReadBack(p, b) = pdata[ino[p]][b]
  <2>1. View(<<p, b>>) = PosixHash(p, b)
    BY <1>a, <1>3, <1>4 DEF BlockAgrees
  <2>2. pdata[ino[p]][b] \in Contents \cup {NULL}
    BY <1>a
  <2>3. \A c \in Contents : HashOf[c] # NULL
    BY HashAssumption, NullAssumption
  <2>4. CASE file_to_master[<<p, b>>] = NULL
    BY <2>1, <2>2, <2>3, <2>4 DEF View, PosixHash, ReadBack
  <2>5. CASE file_to_master[<<p, b>>] # NULL
    <3>1. <<p, b>> \in Key
      BY <1>a DEF Key
    <3>2. PICK i : i = file_to_master[<<p, b>>]
      OBVIOUS
    <3>3. i \in heap /\ Published(i)
      BY <1>a, <2>5, <3>1, <3>2 DEF TablesOK
    <3>4. /\ master[info[i].masterBlockIndex] # NULL
          /\ HashOf[master[info[i].masterBlockIndex]] = info[i].hash
      BY <1>a, <3>3 DEF ContentsOK
    <3>5. master[info[i].masterBlockIndex] \in Contents
      BY <1>a, <3>3, <3>4 DEF TypeOK, HeapType, Info, DiskType
    <3>6. info[i].hash = PosixHash(p, b) /\ info[i].hash # NULL
      BY <2>1, <2>3, <2>5, <3>2, <3>4, <3>5 DEF View
    <3>7. pdata[ino[p]][b] \in Contents /\ HashOf[pdata[ino[p]][b]] = info[i].hash
      BY <2>2, <3>6 DEF PosixHash
    <3> QED  BY <2>5, <3>2, <3>4, <3>5, <3>7 DEF ReadBack, HashesTellApart
  <2> QED  BY <2>4, <2>5
<1> QED  BY <1>5, <1>6 DEF PosixAt

\* Between requests every path that no rename, link, O_TRUNC, unlink of an open file
\* or failed backend call has named shows the size and the data POSIX gives its inode
\* (xmp_getattr, xmp_read, xmp_write, xmp_truncate, xmp_unlink, xmp_create and
\* mknod_wrapper, passthrough.c:75-683), for any number of threads and files.
THEOREM UntouchedShow ==
    ASSUME RefcountsFit, DistinctBatches, SerializePaths, HashesTellApart
    PROVE  PassSpec => []UntouchedShowPosix
<1>1. PassInv => UntouchedShowPosix
  BY AtRest DEF UntouchedShowPosix
<1> QED  BY <1>1, PassAlways, PTL
=============================================================================
