---------------------------- MODULE DedupHistory ----------------------------
(***************************************************************************)
(* Dedup with two history variables: for each read in flight, whether the  *)
(* mapping of a block it covers changed after its look-up; for each batch  *)
(* about to extend the master file, the slots that other handlers released *)
(* after it had drained the free list.                                     *)
(***************************************************************************)
EXTENDS DedupProperties

VARIABLES
    overtaken,  \* readers whose range was remapped while they were reading
    since       \* per thread, slots released after its draining

historyVars == <<vars, overtaken, since>>

Covers(t, x) == x[1] = req[t].path /\ x[2] - StartBlock(req[t]) \in 0 .. N(t) - 1
Listed == {free_block_list[i] : i \in DOMAIN free_block_list}

HistoryInit == Init /\ overtaken = {} /\ since = [t \in Threads |-> {}]

HistoryNext ==
    /\ Next
    /\ overtaken' = {t \in Threads :
           /\ pc[t] = "r_pread" /\ pc'[t] = "r_pread"
           /\ \/ t \in overtaken
              \/ \E x \in Key : Covers(t, x) /\ file_to_master'[x] # file_to_master[x]}
    /\ since' = [t \in Threads |->
           IF pc[t] = "w_append" /\ pc'[t] = "w_append"
           THEN since[t] \cup (Listed' \ Listed) ELSE {}]

HistorySpec == HistoryInit /\ [][HistoryNext]_historyVars

\* A read that no writer of the same blocks overtakes returns, for each block, a
\* payload with the hash the file maps there, although it holds no lock during
\* its preads (dedup.c:111-167) and other files free and reuse slots meanwhile.
StableRead ==
    \A t \in Threads \ overtaken : pc[t] = "r_pread" =>
        \A i \in 0 .. N(t) - 1 :
            (Mapped(t, i) /\ rd[t][i].slot = NULL) =>
                rd[t][i].data # NULL
                /\ HashOf[rd[t][i].data] = info[file_to_master[KeyOf(t, i)]].hash

\* storage-first with any number of handlers: when a batch extends the master file
\* (the fetch_add at dedup.c:317), every slot on the free list was released by
\* another handler after the batch had drained the list (:307).  It never passes
\* over a slot it could have had.  docs/ARQUITETURA.md:217 says more, that the list
\* is empty then, which the gap between the two steps refutes.
StorageFirst ==
    [][nextBlockIndex' > nextBlockIndex =>
           \E t \in Threads :
               pc[t] = "w_append" /\ pc'[t] # "w_append" /\ Listed \subseteq since[t]]_historyVars
=============================================================================
