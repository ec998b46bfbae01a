----------------------------- MODULE ReadBatch ------------------------------
(***************************************************************************)
(* Phases 2 to 5 of read_dedup (src/src/dedup.c:111-171): the slots found  *)
(* by phase 1 are sorted with insertion_sort (src/includes/dedup.h), cut   *)
(* into groups of consecutive slots, each group read with one pread and    *)
(* copied block by block to its place in the caller's buffer.  Dedup takes *)
(* this for granted: its ReadBlock copies each block from its own slot.    *)
(*                                                                         *)
(* The slots are the input and never change here: the pairs are local.  A  *)
(* block of the master file is its slot number.  Sequences start at 1, as  *)
(* does every index below.                                                 *)
(***************************************************************************)
EXTENDS Integers, Sequences, FiniteSets

CONSTANTS
    MaxBlocks,   \* bound: blocks in one read
    Slots        \* slots of the master file

ASSUME BatchAssumption == MaxBlocks \in Nat \ {0} /\ Slots \subseteq Nat

NULL == -1   \* a block of the caller's buffer not written yet

VARIABLES
    slots,         \* input: slot of each block of the range
    pairs,         \* BlockPair[]: [logical_idx, master_block_index]
    i, j, tmp,     \* insertion_sort: outer and inner position, element lifted out
    group_start,
    master_buf,    \* blocks the last pread brought in
    copied,        \* blocks of the group copied so far
    buf,           \* the caller's buffer
    preads,        \* history: number of preads
    pc             \* "outer", "shift", "group", "copy", "done" or "error"

batchVars == <<slots, pairs, i, j, tmp, group_start, master_buf, copied, buf, preads, pc>>

N == Len(slots)
Slot(n) == pairs[n].master_block_index

BatchInit ==
    /\ slots \in UNION {[1 .. n -> Slots] : n \in 1 .. MaxBlocks}
    /\ pairs = [n \in 1 .. N |-> [logical_idx |-> n, master_block_index |-> slots[n]]]
    /\ i = 2 /\ j = 2 /\ tmp = pairs[1]
    /\ group_start = 1 /\ master_buf = <<>> /\ copied = 0
    /\ buf = [n \in 1 .. N |-> NULL] /\ preads = 0 /\ pc = "outer"

-----------------------------------------------------------------------------
(* Phase 2: insertion_sort                                                 *)

\* Mutant: the fast path goes on without advancing.
SortNextStays ==
    /\ pc = "outer" /\ i <= N
    /\ IF Slot(i - 1) <= Slot(i)
       THEN UNCHANGED <<i, j, tmp, pc>>
       ELSE tmp' = pairs[i] /\ j' = i /\ pc' = "shift" /\ UNCHANGED i
    /\ UNCHANGED <<slots, pairs, group_start, master_buf, copied, buf, preads>>

\* The outer loop: an element already in order is left alone.
SortNext ==
    /\ pc = "outer" /\ i <= N
    /\ IF Slot(i - 1) <= Slot(i)
       THEN i' = i + 1 /\ UNCHANGED <<j, tmp, pc>>
       ELSE tmp' = pairs[i] /\ j' = i /\ pc' = "shift" /\ UNCHANGED i
    /\ UNCHANGED <<slots, pairs, group_start, master_buf, copied, buf, preads>>

\* The inner loop moves larger elements up, then puts tmp in the hole.
Shift ==
    /\ pc = "shift"
    /\ IF j > 1 /\ Slot(j - 1) > tmp.master_block_index
       THEN pairs' = [pairs EXCEPT ![j] = pairs[j - 1]] /\ j' = j - 1 /\ UNCHANGED <<i, pc>>
       ELSE pairs' = [pairs EXCEPT ![j] = tmp] /\ i' = i + 1 /\ pc' = "outer" /\ UNCHANGED j
    /\ UNCHANGED <<slots, tmp, group_start, master_buf, copied, buf, preads>>

\* qsort above INSERTION_SORT_THRESHOLD, and malloc of master_buf, which may fail.
SortDone ==
    /\ pc = "outer" /\ i > N
    /\ pc' \in {"group", "error"} /\ i' = 2
    /\ UNCHANGED <<slots, pairs, j, tmp, group_start, master_buf, copied, buf, preads>>

-----------------------------------------------------------------------------
(* Phases 3 to 5                                                           *)

\* Mutant: equal slots are taken for consecutive ones.
ConsecutiveOrEqual(n) == n <= N /\ Slot(n) <= Slot(n - 1) + 1

Consecutive(n) == n <= N /\ Slot(n) = Slot(n - 1) + 1

\* The group grows.
Grow ==
    /\ pc = "group" /\ group_start <= N /\ Consecutive(i)
    /\ i' = i + 1
    /\ UNCHANGED <<slots, pairs, j, tmp, group_start, master_buf, copied, buf, preads, pc>>

\* The group ends before i: one pread of as many blocks as it has, straight into
\* the caller's buffer when it is one block.  A short pread is an error.
ReadGroup ==
    LET count == i - group_start
        read == [n \in 1 .. count |-> Slot(group_start) + n - 1]
    IN /\ pc = "group" /\ group_start <= N /\ ~Consecutive(i)
       /\ \/ pc' = "error" /\ UNCHANGED <<master_buf, copied, buf, preads, group_start, i>>
          \/ /\ count = 1
             /\ buf' = [buf EXCEPT ![pairs[group_start].logical_idx] = read[1]]
             /\ preads' = preads + 1 /\ group_start' = i /\ i' = i + 1
             /\ UNCHANGED <<master_buf, copied, pc>>
          \/ /\ count > 1
             /\ master_buf' = read /\ copied' = 0 /\ preads' = preads + 1
             /\ pc' = "copy" /\ UNCHANGED <<buf, group_start, i>>
       /\ UNCHANGED <<slots, pairs, j, tmp>>

\* Mutant: the slot itself is used as the place in the staging buffer.
offset_of_slot(n) == Slot(n)

offset_in_range(n) == Slot(n) - Slot(group_start)

\* Phase 5: one memcpy.
CopyBlock ==
    LET n == group_start + copied
    IN /\ pc = "copy"
       /\ \/ /\ n < i
             /\ buf' = [buf EXCEPT ![pairs[n].logical_idx] = master_buf[offset_in_range(n) + 1]]
             /\ copied' = copied + 1 /\ UNCHANGED <<group_start, i, pc>>
          \/ /\ n = i
             /\ group_start' = i /\ i' = i + 1 /\ pc' = "group" /\ UNCHANGED <<buf, copied>>
       /\ UNCHANGED <<slots, pairs, j, tmp, master_buf, preads>>

Return ==
    /\ pc = "group" /\ group_start > N
    /\ pc' = "done"
    /\ UNCHANGED <<slots, pairs, i, j, tmp, group_start, master_buf, copied, buf, preads>>

Ended == pc \in {"done", "error"} /\ UNCHANGED batchVars

BatchNext == SortNext \/ Shift \/ SortDone \/ Grow \/ ReadGroup \/ CopyBlock \/ Return \/ Ended

BatchSpec == BatchInit /\ [][BatchNext]_batchVars /\ WF_batchVars(BatchNext)

-----------------------------------------------------------------------------
(* Properties                                                              *)

\* Whatever slots the blocks of the range are in, repeated ones included, a read
\* that returns has each block of the caller's buffer from that block's slot,
\* and never a byte of the staging buffer that the pread did not bring in.
BlocksInPlace ==
    /\ pc = "done" => buf = slots
    /\ pc = "copy" /\ group_start + copied < i =>
         offset_in_range(group_start + copied) + 1 \in DOMAIN master_buf

\* The batching is exact: a read that returns made one pread for each maximal
\* run of consecutive slots and one more for each repetition of a slot.
OnePreadPerRun ==
    pc = "done" =>
        LET distinct == {slots[n] : n \in 1 .. N}
            runs == {s \in distinct : s - 1 \notin distinct}
        IN preads = Cardinality(runs) + (N - Cardinality(distinct))

\* Every read returns: the loops of insertion_sort and the loop over the groups end.
ReadEnds == <>(pc \in {"done", "error"})
=============================================================================
