-------------------------- MODULE DedupRefinement --------------------------
(***************************************************************************)
(* Dedup implements FlatFS.  A batch takes effect when its thread, holding *)
(* the write lock, has published every new block and starts to map them; a *)
(* removal takes effect when it gets the write lock.  The loops that then  *)
(* walk the blocks one by one, refcounts, slots, the free list, the master *)
(* file and the rollback do not show.                                      *)
(***************************************************************************)
EXTENDS DedupProperties

\* A block that the thread with the write lock is still going to map or unmap.
ToMap(t, x) ==
    pc[t] = "w_map" /\ x[1] = req[t].path /\ x[2] - StartBlock(req[t]) \in k[t] .. N(t) - 1
ToUnmap(t, x) ==
    pc[t] = "rm_loop" /\ x[1] = req[t].path /\ x[2] \in k[t] .. lim[t] - 1

FlatContent == [x \in Key |->
    IF writer = NULL THEN View(x)
    ELSE IF ToMap(writer, x) THEN HashAt(writer, x[2] - StartBlock(req[writer]))
    ELSE IF ToUnmap(writer, x) THEN NULL
    ELSE View(x)]

FlatSize == [p \in Paths |->
    IF writer # NULL /\ pc[writer] = "w_map" /\ req[writer].path = p
    THEN GrownSize(writer) ELSE file_to_sizes[p]]

DatumOf(r, i) == HashOf[r.data[i + 1]]

Flat == INSTANCE FlatFS WITH
            First <- StartBlock, Count <- NumBlocks, Datum <- DatumOf,
            content <- FlatContent, size <- FlatSize, job <- req,
            wrote <- {t \in Threads : pc[t] \in {"w_map", "w_release"}}

\* Every behaviour of the deduplicating file system is one of the flat file
\* system, when the kernel orders the modifications of one file: batches and
\* removals are atomic, a failed write leaves no trace, a removal returns only
\* when everything is gone.
ImplementsFlatFS == Flat!FlatSpec
=============================================================================
