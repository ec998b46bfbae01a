-------------------------- MODULE DedupProperties --------------------------
(***************************************************************************)
(* What the deduplication layer promises, as invariants and action         *)
(* properties of Dedup.                                                    *)
(***************************************************************************)
EXTENDS Dedup

\* Plan entry i of t accounts for one unit of its MasterInfo's refcount: from the
\* moment pass 1 counted it until pass 3 maps it or the rollback drops it.
HoldsRef(t, i) ==
    \/ pc[t] \in {"w_plan", "w_drain", "w_append", "w_flush", "w_wrlock",
                  "w_publish", "rb_wrlock"}
    \/ pc[t] = "w_hit" /\ i # k[t]
    \/ pc[t] = "w_map" /\ i >= k[t]
    \/ pc[t] = "rb_hits" /\ (IsMiss(t, i) \/ i >= k[t])
    \/ pc[t] \in {"rb_release", "rb_mutex"} /\ IsMiss(t, i)
    \/ pc[t] = "rb_miss" /\ IsMiss(t, i) /\ i >= k[t]

\* Plan entry i of t is a MISS whose MasterInfo is private to t and whose slot,
\* once it has one, no index and no list knows of.
OwnsPending(t, i) ==
    /\ IsMiss(t, i) /\ HoldsRef(t, i)
    /\ pc[t] = "w_publish" => i >= k[t]
    /\ pc[t] # "w_map"

HeldRefs(p)   == {y \in Threads \X Idx : HoldsRef(y[1], y[2]) /\ plan[y[1]][y[2]].info = p}
MappedRefs(p) == {x \in Key : file_to_master[x] = p}
Published(p)  == hash_to_master[info[p].hash] = p

\* A MasterInfo that an index or a running handler can still dereference has not
\* been freed (dedup.c:245, 423, 451, 612, 651).
NoDanglingInfo ==
    /\ \A h \in Hashes : hash_to_master[h] \in heap \cup {NULL}
    /\ \A x \in Key : file_to_master[x] \in heap \cup {NULL}
    /\ \A t \in Threads, i \in Idx :
         HoldsRef(t, i) => plan[t][i].info \in heap \cup {NULL}

\* metadata_rwlock is held in read mode exactly by the threads in pass 1, in write
\* mode exactly by the one publishing, mapping, removing or rolling back, never in
\* both; freelist_mutex exactly by the one returning the slots of a failed batch.
ReadLocked  == {"w_plan", "w_hit"}
WriteLocked == {"w_publish", "w_map", "rb_hits", "rm_loop"}
LockDiscipline ==
    /\ \A t \in Threads : /\ t \in readers <=> pc[t] \in ReadLocked
                          /\ writer = t <=> pc[t] \in WriteLocked
                          /\ freelist_mutex = t <=> pc[t] = "rb_miss"
    /\ writer # NULL => readers = {}

\* While any thread is in pass 1 the three tables stand still: all the look-ups of
\* a batch, and the increments they lead to, see one state of the index.
SnapshotWhileReading == [][readers # {} => UNCHANGED indexVars]_vars

\* refcount counts the (file, block) references, metaindex.h:28, plus one per
\* plan entry of a write in flight: what the atomic increments of pass 1, the
\* double check, overwrites, removals and rollbacks add up to.
RefcountExact ==
    \A p \in heap :
        info[p].refcount = Cardinality(MappedRefs(p)) + Cardinality(HeldRefs(p))

SlotOwners(s) ==
    Cardinality({j \in DOMAIN free_block_list : free_block_list[j] = s})
    + Cardinality({p \in heap : Published(p) /\ info[p].masterBlockIndex = s})
    + Cardinality({y \in Threads \X Idx :
                       OwnsPending(y[1], y[2]) /\ plan[y[1]][y[2]].master_blk = s})
    + Cardinality({y \in Threads \X (1 .. MaxSlots) :
                       y[2] \in DOMAIN rel[y[1]] /\ rel[y[1]][y[2]] = s})

\* Every slot below nextBlockIndex has exactly one owner: the free list, a
\* published MasterInfo, a write in flight or a list about to be released.  No
\* slot is leaked, none is allocated twice (comment at dedup.c:398-402).
SlotPartition ==
    \A s \in Slots : SlotOwners(s) = IF s < nextBlockIndex THEN 1 ELSE 0

\* The index never points at a block that did not reach the master file
\* (dedup.c:28-29): the slot of a published MasterInfo holds a payload with the
\* hash it is published under.
ContentMatchesHash ==
    \A h \in Hashes :
        LET p == hash_to_master[h]
        IN p # NULL =>
             /\ info[p].hash = h
             /\ master[info[p].masterBlockIndex] # NULL
             /\ HashOf[master[info[p].masterBlockIndex]] = h

\* Every mapped block is found again by its hash, so two blocks with the same
\* content share one MasterInfo ("zero duplicados em hash_to_master").
MappedIsPublished ==
    \A x \in Key : file_to_master[x] # NULL => Published(file_to_master[x])

\* When the kernel orders the modifications of one file, the logical size covers
\* every mapped block whenever no handler holds the write lock: what unlink and
\* truncate rely on when they compute the range to remove from the size.
SizeCoversBlocks ==
    writer = NULL =>
        \A x \in Key : file_to_master[x] # NULL =>
            file_to_sizes[x[1]] # NULL /\ x[2] < file_to_sizes[x[1]]

\* A path that no longer exists has left neither a size nor a block behind, so a
\* file created later under that name starts empty.
UnlinkLeavesNothing ==
    \A f \in Paths \ names :
        file_to_sizes[f] = NULL /\ \A b \in Blocks : file_to_master[<<f, b>>] = NULL

\* A block that a running request may map or unmap: one that lies inside the byte
\* range of a write, or at or beyond the new size of a truncate.
InRange(r, b) ==
    CASE r.op = "write" -> /\ r.offset <= b * BLOCK_SIZE
                           /\ (b + 1) * BLOCK_SIZE <= r.offset + r.size
      [] r.op = "truncate" -> b * BLOCK_SIZE >= r.size
      [] OTHER -> r.op = "unlink"

\* A step changes the content a file shows at a block only while a request that
\* names the file and covers the block holds the write lock.  The content is the
\* one behind the MasterInfo, so sharing and recycling of blocks by other files
\* must not show either.
View(x) == IF file_to_master[x] = NULL THEN NULL ELSE info[file_to_master[x]].hash
ChangesInRange ==
    [][\A x \in Key : View(x)' # View(x) =>
           /\ writer # NULL
           /\ req[writer].path = x[1]
           /\ InRange(req[writer], x[2])]_vars

\* Every request that entered a handler returns, whatever the interleaving with
\* the other threads' locks and whatever pwrite fails.
RequestsReturn == \A t \in Threads : pc[t] # "idle" ~> pc[t] = "idle"
=============================================================================
