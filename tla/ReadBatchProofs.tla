-------------------------- MODULE ReadBatchProofs --------------------------
(***************************************************************************)
(* What ReadBatch promises, for reads of any length and any slots:         *)
(* insertion_sort permutes and orders the pairs, and the loop over groups  *)
(* then fills the caller's buffer with one pread for each run.             *)
(***************************************************************************)
EXTENDS ReadBatch, FiniteSetTheorems, FunctionTheorems, NaturalsInduction,
        WellFoundedInduction, TLAPS

Pair == [logical_idx : 1 .. N, master_block_index : Nat]

BatchType ==
    /\ N \in Nat \ {0} /\ slots \in [1 .. N -> Nat] /\ pairs \in [1 .. N -> Pair] /\ tmp \in Pair
    /\ i \in Nat /\ j \in Nat /\ group_start \in Nat /\ copied \in Nat
    /\ buf \in [1 .. N -> Nat \cup {NULL}]
    /\ pc \in {"outer", "shift", "group", "copy", "done", "error"}

\* Every pair carries the slot of its block.
PairsMatch ==
    /\ \A n \in 1 .. N : Slot(n) = slots[pairs[n].logical_idx]
    /\ tmp.master_block_index = slots[tmp.logical_idx]

\* No block of the range is lost; the inner loop has one of them in tmp, and a
\* hole at j.
NoneLost ==
    \A b \in 1 .. N :
        \/ \E n \in 1 .. N : pairs[n].logical_idx = b /\ (pc = "shift" => n # j)
        \/ pc = "shift" /\ tmp.logical_idx = b

\* The part sorted so far, around the hole while the inner loop runs.
Ordered(m, hole) ==
    \A a, b \in (1 .. m) \ {hole} : a < b => Slot(a) <= Slot(b)
SortOK ==
    /\ pc = "outer" => i \in 2 .. N + 1 /\ Ordered(i - 1, 0)
    /\ pc = "shift" =>
         /\ i \in 2 .. N /\ j \in 1 .. i /\ Ordered(i, j)
         /\ \A n \in j + 1 .. i : tmp.master_block_index <= Slot(n)
    /\ pc \notin {"outer", "shift"} => Ordered(N, 0)

\* The first position of each group.
IsStart(n) == n = 1 \/ Slot(n) # Slot(n - 1) + 1

\* The group at hand is a run of consecutive slots, and the last pread brought in
\* exactly that run.
GroupOK ==
    /\ pc \in {"outer", "shift"} => group_start = 1
    /\ pc \in {"group", "copy"} =>
         /\ group_start \in 1 .. N + 1 /\ i > group_start /\ i <= group_start + N
         /\ group_start <= N =>
              /\ i <= N + 1 /\ IsStart(group_start)
              /\ \A n \in group_start .. i - 1 : Slot(n) = Slot(group_start) + n - group_start
    /\ pc = "copy" =>
         /\ group_start <= N /\ group_start + copied <= i /\ ~Consecutive(i)
         /\ master_buf = [n \in 1 .. i - group_start |-> Slot(group_start) + n - 1]
    /\ pc = "done" => group_start = N + 1

\* Positions whose block is in the caller's buffer.
Copied == IF pc = "copy" THEN group_start + copied ELSE group_start
PlacedOK ==
    \A n \in 1 .. N : n < Copied => buf[pairs[n].logical_idx] = Slot(n)

BatchInv == BatchType /\ PairsMatch /\ NoneLost /\ SortOK /\ GroupOK /\ PlacedOK

-----------------------------------------------------------------------------
(* The blocks of the range                                                 *)

LEMMA InitInv == BatchInit => BatchInv
<1> SUFFICES ASSUME BatchInit PROVE BatchInv
  OBVIOUS
<1>1. PICK m \in 1 .. MaxBlocks : slots \in [1 .. m -> Slots]
  BY DEF BatchInit
<1>2. m \in Nat \ {0} /\ slots \in [1 .. m -> Nat]
  <2>1. m \in Nat \ {0} /\ Slots \subseteq Nat
    BY BatchAssumption
  <2> QED  BY <1>1, <2>1
<1>3. slots \in Seq(Nat)
  BY <1>2
<1>4. N = m
  BY <1>2, <1>3 DEF N
<1>5. pairs = [n \in 1 .. N |-> [logical_idx |-> n, master_block_index |-> slots[n]]]
  BY DEF BatchInit
<1>6. BatchType
  BY <1>2, <1>4, <1>5 DEF BatchInit, BatchType, Pair
<1>7. PairsMatch /\ NoneLost
  BY <1>2, <1>4, <1>5 DEF BatchInit, PairsMatch, NoneLost, Slot
<1>8. SortOK /\ GroupOK /\ PlacedOK
  BY <1>2, <1>4 DEF BatchInit, SortOK, Ordered, GroupOK, PlacedOK, Copied
<1> QED  BY <1>6, <1>7, <1>8 DEF BatchInv

\* The sort.
LEMMA SortInv ==
    ASSUME BatchInv, SortNext \/ Shift \/ SortDone
    PROVE  BatchInv'
<1>n. N' = N /\ slots' = slots
  BY DEF SortNext, Shift, SortDone, N
<1>t. BatchType
  BY DEF BatchInv
<1>1. CASE SortNext
  <2>1. /\ pc = "outer" /\ i \in 2 .. N /\ pairs' = pairs /\ Ordered(i - 1, 0)
        /\ buf' = buf /\ group_start' = group_start /\ copied' = copied
    BY <1>1, <1>t DEF SortNext, BatchInv, BatchType, SortOK
  <2>i. i \in 1 .. N /\ i \in Nat /\ i + 1 \in Nat
    BY <1>t, <2>1 DEF BatchType
  <2>p. pairs[i] \in Pair
    BY <1>t, <2>i DEF BatchType
  <2>2. BatchType'
    <3>1. /\ i' \in {i, i + 1} /\ j' \in {i, j} /\ tmp' \in {tmp, pairs[i]}
          /\ pc' \in {"outer", "shift"}
      BY <1>1 DEF SortNext
    <3>2. Pair' = Pair
      BY <1>n DEF Pair
    <3> QED  BY <1>n, <1>t, <2>1, <2>i, <2>p, <3>1, <3>2 DEF BatchType
  <2>3. PairsMatch'
    BY <1>1, <1>n, <2>1 DEF SortNext, BatchInv, PairsMatch, Slot
  <2>4. NoneLost'
    <3>1. ASSUME NEW b \in 1 .. N
          PROVE  \/ \E n \in 1 .. N : pairs[n].logical_idx = b /\ (pc' = "shift" => n # j')
                 \/ pc' = "shift" /\ tmp'.logical_idx = b
      <4>1. PICK n \in 1 .. N : pairs[n].logical_idx = b
        BY <2>1, <3>1 DEF BatchInv, NoneLost
      <4>2. pc' = "shift" => tmp' = pairs[i] /\ j' = i
        BY <1>1, <2>1 DEF SortNext
      <4> QED  BY <4>1, <4>2
    <3> QED  BY <1>n, <2>1, <3>1 DEF NoneLost
  <2>5. SortOK'
    <3>1. CASE Slot(i - 1) <= Slot(i)
      <4>1. i' = i + 1 /\ pc' = "outer"
        BY <1>1, <2>1, <3>1 DEF SortNext
      <4>2. \A n \in 1 .. N : Slot(n) \in Nat
        BY <1>t DEF BatchType, Pair, Slot
      <4>3. ASSUME NEW a \in 1 .. i, NEW b \in 1 .. i, a < b PROVE Slot(a) <= Slot(b)
        <5>1. /\ a \in 1 .. N /\ b \in 1 .. N /\ i - 1 \in 1 .. N /\ a \in 1 .. i - 1
              /\ Slot(a) <= Slot(i - 1)
          BY <1>t, <2>1, <4>2, <4>3 DEF Ordered, BatchType
        <5>2. CASE b = i
          BY <2>i, <3>1, <4>2, <5>1, <5>2
        <5>3. CASE b # i
          BY <2>i, <2>1, <4>3, <5>1, <5>3 DEF Ordered
        <5> QED  BY <5>2, <5>3
      <4> QED  BY <1>n, <1>t, <2>1, <4>1, <4>3 DEF SortOK, Ordered, Slot, BatchType
    <3>2. CASE ~(Slot(i - 1) <= Slot(i))
      <4>1. i' = i /\ pc' = "shift" /\ j' = i
        BY <1>1, <2>1, <3>2 DEF SortNext
      <4> QED  BY <1>n, <1>t, <2>1, <4>1 DEF SortOK, Ordered, Slot, BatchType
    <3> QED  BY <3>1, <3>2
  <2>6. GroupOK' /\ PlacedOK'
    BY <1>1, <1>n, <1>t, <2>1 DEF SortNext, BatchInv, GroupOK, PlacedOK, Copied, BatchType
  <2> QED  BY <2>2, <2>3, <2>4, <2>5, <2>6 DEF BatchInv
<1>2. CASE Shift
  <2>1. /\ pc = "shift" /\ i \in 2 .. N /\ j \in 1 .. i /\ Ordered(i, j) /\ tmp' = tmp
        /\ \A n \in j + 1 .. i : tmp.master_block_index <= Slot(n)
        /\ buf' = buf /\ group_start' = group_start /\ copied' = copied
    BY <1>2 DEF Shift, BatchInv, SortOK
  <2>s. \A n \in 1 .. N : Slot(n) \in Nat
    BY <1>t DEF BatchType, Pair, Slot
  <2>2. BatchType' /\ PairsMatch'
    <3>1. PICK p \in Pair : p.master_block_index = slots[p.logical_idx]
                            /\ pairs' = [pairs EXCEPT ![j] = p]
      <4>1. CASE j > 1 /\ Slot(j - 1) > tmp.master_block_index
        <5>1. j - 1 \in 1 .. N /\ pairs' = [pairs EXCEPT ![j] = pairs[j - 1]]
          BY <1>2, <1>t, <2>1, <4>1 DEF Shift, BatchType
        <5>2. pairs[j - 1] \in Pair
          BY <1>t, <5>1 DEF BatchType
        <5> QED  BY <5>1, <5>2 DEF BatchInv, PairsMatch, Slot
      <4>2. CASE ~(j > 1 /\ Slot(j - 1) > tmp.master_block_index)
        BY <1>2, <1>t, <4>2 DEF Shift, BatchType, BatchInv, PairsMatch
      <4> QED  BY <4>1, <4>2
    <3>2. Pair' = Pair /\ i' \in Nat /\ j' \in Nat /\ pc' \in {"outer", "shift"}
      <4>1. Pair' = Pair
        BY <1>n DEF Pair
      <4>2. i' \in {i, i + 1} /\ (j' = j \/ (j > 1 /\ j' = j - 1)) /\ pc' \in {"outer", "shift"}
        <5>1. CASE j > 1 /\ Slot(j - 1) > tmp.master_block_index
          BY <1>2, <5>1 DEF Shift
        <5>2. CASE ~(j > 1 /\ Slot(j - 1) > tmp.master_block_index)
          BY <1>2, <5>2 DEF Shift
        <5> QED  BY <5>1, <5>2
      <4> QED  BY <1>t, <4>1, <4>2 DEF BatchType
    <3>3. BatchType'
      BY <1>n, <1>t, <2>1, <3>1, <3>2 DEF BatchType
    <3>4. \A n \in 1 .. N : pairs'[n] = IF n = j THEN p ELSE pairs[n]
      BY <1>t, <3>1 DEF BatchType
    <3>5. PairsMatch'
      BY <1>n, <2>1, <3>1, <3>4 DEF BatchInv, PairsMatch, Slot
    <3> QED  BY <3>3, <3>5
  <2>4. CASE j > 1 /\ Slot(j - 1) > tmp.master_block_index
    <3>1. /\ pairs' = [pairs EXCEPT ![j] = pairs[j - 1]] /\ j' = j - 1 /\ i' = i
          /\ pc' = "shift" /\ j - 1 \in 1 .. N /\ j \in 1 .. N
      BY <1>2, <1>t, <2>1, <2>4 DEF Shift, BatchType
    <3>2. \A n \in 1 .. N : Slot(n)' = IF n = j THEN Slot(j - 1) ELSE Slot(n)
      BY <1>t, <3>1 DEF BatchType, Slot
    <3>3. NoneLost'
      <4>1. ASSUME NEW b \in 1 .. N
            PROVE  \/ \E n \in 1 .. N : pairs'[n].logical_idx = b /\ n # j - 1
                   \/ tmp.logical_idx = b
        <5>1. CASE tmp.logical_idx = b
          BY <5>1
        <5>2. ASSUME NEW n \in 1 .. N, pairs[n].logical_idx = b, n # j
              PROVE  \E q \in 1 .. N : pairs'[q].logical_idx = b /\ q # j - 1
          <6>1. CASE n = j - 1
            <7>1. pairs'[j].logical_idx = b /\ j # j - 1 /\ j \in 1 .. N
              BY <1>t, <3>1, <5>2, <6>1 DEF BatchType
            <7> QED  BY <7>1
          <6>2. CASE n # j - 1
            <7>1. pairs'[n].logical_idx = b
              BY <1>t, <3>1, <5>2 DEF BatchType
            <7> QED  BY <6>2, <7>1
          <6> QED  BY <6>1, <6>2
        <5> QED  BY <2>1, <5>1, <5>2 DEF BatchInv, NoneLost
      <4> QED  BY <1>n, <2>1, <3>1, <4>1 DEF NoneLost
    <3>4. SortOK'
      <4>1. ASSUME NEW a \in 1 .. i, NEW b \in 1 .. i, a # j - 1, b # j - 1, a < b
            PROVE  Slot(a)' <= Slot(b)'
        <5>1. a \in 1 .. N /\ b \in 1 .. N
          BY <2>1, <1>t DEF BatchType
        <5>2. CASE a = j
          BY <2>1, <2>s, <3>1, <3>2, <4>1, <5>1, <5>2 DEF Ordered
        <5>3. CASE b = j
          BY <2>1, <2>s, <3>1, <3>2, <4>1, <5>1, <5>3 DEF Ordered
        <5>4. CASE a # j /\ b # j
          BY <2>1, <2>s, <3>1, <3>2, <4>1, <5>1, <5>4 DEF Ordered
        <5> QED  BY <5>2, <5>3, <5>4
      <4>2. ASSUME NEW n \in j .. i PROVE tmp.master_block_index <= Slot(n)'
        <5>1. n \in 1 .. N
          BY <2>1, <1>t DEF BatchType
        <5>2. tmp.master_block_index \in Nat
          BY <1>t DEF BatchType, Pair
        <5> QED  BY <2>1, <2>4, <2>s, <3>1, <3>2, <5>1, <5>2
      <4> QED  BY <1>n, <2>1, <3>1, <4>1, <4>2 DEF SortOK, Ordered
    <3>5. GroupOK' /\ PlacedOK'
      BY <1>n, <1>t, <2>1, <3>1 DEF BatchInv, GroupOK, PlacedOK, Copied, BatchType
    <3> QED  BY <2>2, <3>3, <3>4, <3>5 DEF BatchInv
  <2>5. CASE ~(j > 1 /\ Slot(j - 1) > tmp.master_block_index)
    <3>1. /\ pairs' = [pairs EXCEPT ![j] = tmp] /\ i' = i + 1 /\ pc' = "outer" /\ j \in 1 .. N
      BY <1>2, <1>t, <2>1, <2>5 DEF Shift, BatchType
    <3>2. \A n \in 1 .. N : Slot(n)' = IF n = j THEN tmp.master_block_index ELSE Slot(n)
      BY <1>t, <3>1 DEF BatchType, Slot
    <3>3. NoneLost'
      <4>1. ASSUME NEW b \in 1 .. N PROVE \E n \in 1 .. N : pairs'[n].logical_idx = b
        <5>1. CASE tmp.logical_idx = b
          <6>1. pairs'[j].logical_idx = b
            BY <1>t, <3>1, <5>1 DEF BatchType
          <6> QED  BY <3>1, <6>1
        <5>2. ASSUME NEW n \in 1 .. N, pairs[n].logical_idx = b, n # j
              PROVE  pairs'[n].logical_idx = b
          BY <1>t, <3>1, <5>2 DEF BatchType
        <5> QED  BY <2>1, <5>1, <5>2 DEF BatchInv, NoneLost
      <4> QED  BY <1>n, <3>1, <4>1 DEF NoneLost
    <3>4. SortOK'
      <4>1. ASSUME NEW a \in 1 .. i, NEW b \in 1 .. i, a < b PROVE Slot(a)' <= Slot(b)'
        <5>1. a \in 1 .. N /\ b \in 1 .. N /\ tmp.master_block_index \in Nat
          <6>1. tmp.master_block_index \in Nat
            BY <1>t DEF BatchType, Pair
          <6> QED  BY <1>t, <2>1, <6>1 DEF BatchType
        <5>2. CASE a = j
          BY <2>1, <2>s, <3>1, <3>2, <4>1, <5>1, <5>2
        <5>3. CASE b = j
          <6>1. j - 1 \in 1 .. i /\ j > 1 /\ j - 1 \in 1 .. N
            BY <1>t, <2>1, <3>1, <4>1, <5>1, <5>3 DEF BatchType
          <6>2. Slot(a) <= Slot(j - 1)
            <7>1. CASE a = j - 1
              BY <2>s, <6>1, <7>1
            <7>2. CASE a # j - 1
              BY <2>1, <4>1, <5>1, <5>3, <6>1, <7>2 DEF Ordered
            <7> QED  BY <7>1, <7>2
          <6>3. Slot(j - 1) <= tmp.master_block_index
            BY <2>5, <2>s, <5>1, <6>1
          <6> QED  BY <2>s, <3>2, <5>1, <5>3, <6>1, <6>2, <6>3
        <5>4. CASE a # j /\ b # j
          BY <2>1, <2>s, <3>1, <3>2, <4>1, <5>1, <5>4 DEF Ordered
        <5> QED  BY <5>2, <5>3, <5>4
      <4> QED  BY <1>n, <2>1, <1>t, <3>1, <4>1 DEF SortOK, Ordered, BatchType
    <3>5. GroupOK' /\ PlacedOK'
      BY <1>n, <1>t, <2>1, <3>1 DEF BatchInv, GroupOK, PlacedOK, Copied, BatchType
    <3> QED  BY <2>2, <3>3, <3>4, <3>5 DEF BatchInv
  <2> QED  BY <2>4, <2>5
<1>3. CASE SortDone
  <2>1. /\ pc = "outer" /\ i = N + 1 /\ pc' \in {"group", "error"} /\ i' = 2 /\ pairs' = pairs
        /\ tmp' = tmp /\ Ordered(N, 0)
    BY <1>3, <1>t DEF SortDone, BatchInv, SortOK, BatchType
  <2>2. BatchType'
    <3>1. Pair' = Pair
      BY <1>n DEF Pair
    <3> QED  BY <1>3, <1>n, <1>t, <2>1, <3>1 DEF SortDone, BatchType
  <2>6. PairsMatch' /\ NoneLost'
    BY <1>n, <2>1 DEF BatchInv, PairsMatch, NoneLost, Slot
  <2>3. SortOK'
    BY <1>n, <2>1 DEF SortOK, Ordered, Slot
  <2>4. group_start = 1 /\ \A n \in 1 .. N : Slot(n) \in Nat
    BY <1>t, <2>1 DEF BatchInv, GroupOK, BatchType, Pair, Slot
  <2>5. GroupOK' /\ PlacedOK'
    BY <1>3, <1>n, <1>t, <2>1, <2>4 DEF SortDone, GroupOK, PlacedOK, Copied, IsStart, Slot, BatchType
  <2> QED  BY <2>2, <2>3, <2>5, <2>6 DEF BatchInv
<1> QED  BY <1>1, <1>2, <1>3

\* The loop over the groups, up to the pread.
LEMMA GroupInv ==
    ASSUME BatchInv, Grow \/ ReadGroup
    PROVE  BatchInv'
<1>n. N' = N /\ slots' = slots /\ pairs' = pairs /\ tmp' = tmp /\ j' = j
  BY DEF Grow, ReadGroup, N
<1>t. BatchType
  BY DEF BatchInv
<1>s. \A n \in 1 .. N : Slot(n) \in Nat /\ Slot(n)' = Slot(n)
  BY <1>n, <1>t DEF BatchType, Pair, Slot
<1>1. /\ pc = "group" /\ group_start \in 1 .. N /\ i \in group_start + 1 .. N + 1
      /\ IsStart(group_start) /\ Ordered(N, 0)
      /\ \A n \in group_start .. i - 1 : Slot(n) = Slot(group_start) + n - group_start
  BY <1>t DEF Grow, ReadGroup, BatchInv, BatchType, GroupOK, SortOK
<1>2. PairsMatch' /\ (pc' # "shift" => NoneLost' /\ (pc' # "outer" => SortOK'))
  <2>1. PairsMatch'
    BY <1>n DEF BatchInv, PairsMatch, Slot
  <2>2. \A b \in 1 .. N : \E n \in 1 .. N : pairs[n].logical_idx = b
    BY <1>1 DEF BatchInv, NoneLost
  <2>3. Ordered(N, 0)'
    BY <1>n, <1>1 DEF Ordered, Slot
  <2> QED  BY <1>n, <2>1, <2>2, <2>3 DEF NoneLost, SortOK
<1>p. Pair' = Pair
  BY <1>n DEF Pair
<1>3. CASE Grow
  <2>1. /\ i' = i + 1 /\ pc' = "group" /\ group_start' = group_start /\ buf' = buf
        /\ copied' = copied /\ i <= N /\ Slot(i) = Slot(i - 1) + 1
    BY <1>3, <1>1 DEF Grow, Consecutive
  <2>2. BatchType'
    BY <1>n, <1>t, <1>p, <2>1 DEF BatchType
  <2>3. \A n \in group_start .. i : Slot(n) = Slot(group_start) + n - group_start
    <3>1. Slot(i - 1) = Slot(group_start) + (i - 1) - group_start /\ i \in Nat
      BY <1>1, <1>t DEF BatchType
    <3>2. Slot(i) = Slot(group_start) + i - group_start
      BY SMTT(30), <1>1, <1>s, <1>t, <2>1, <3>1 DEF BatchType
    <3> QED  BY <1>1, <1>t, <3>1, <3>2 DEF BatchType
  <2>4. IsStart(group_start)'
    BY <1>1, <1>n, <2>1 DEF IsStart, Slot
  <2>5. GroupOK'
    BY <1>1, <1>n, <1>s, <1>t, <2>1, <2>3, <2>4 DEF GroupOK, BatchType, Slot
  <2>6. PlacedOK'
    BY <1>1, <1>n, <2>1 DEF BatchInv, PlacedOK, Copied, Slot
  <2> QED  BY <1>2, <2>1, <2>2, <2>5, <2>6 DEF BatchInv
<1>4. CASE ReadGroup
  <2>c. ~Consecutive(i) /\ i \in Nat /\ i > group_start /\ group_start <= N /\ i <= N + 1
    BY <1>4, <1>1, <1>t DEF ReadGroup, BatchType
  <2>1. CASE pc' = "error" /\ UNCHANGED <<master_buf, copied, buf, preads, group_start, i>>
    <3>1. BatchType'
      BY <1>n, <1>t, <1>p, <2>1 DEF BatchType
    <3>2. GroupOK' /\ PlacedOK'
      BY <1>1, <1>n, <2>1 DEF BatchInv, GroupOK, PlacedOK, Copied, Slot
    <3> QED  BY <1>2, <2>1, <3>1, <3>2 DEF BatchInv
  <2>2. CASE /\ i - group_start = 1
             /\ buf' = [buf EXCEPT ![pairs[group_start].logical_idx] = Slot(group_start)]
             /\ group_start' = i /\ i' = i + 1
             /\ UNCHANGED <<copied, pc>>
    <3>1. pairs[group_start].logical_idx \in 1 .. N /\ Slot(group_start) \in Nat
      BY <1>1, <1>s, <1>t DEF BatchType, Pair
    <3>2. BatchType'
      BY <1>n, <1>t, <1>p, <2>2, <3>1 DEF BatchType
    <3>3. i <= N => IsStart(i)
      BY <2>2, <2>c, <1>1, <1>t DEF Consecutive, IsStart, BatchType
    <3>4. (i <= N => IsStart(i)) => (group_start' <= N => IsStart(group_start)')
      BY <1>n, <2>2 DEF IsStart, Slot
    <3>5. GroupOK'
      BY <1>1, <1>n, <1>s, <1>t, <2>2, <2>c, <3>3, <3>4 DEF GroupOK, BatchType, Slot
    <3>6. PlacedOK'
      <4>1. ASSUME NEW n \in 1 .. N, n < i PROVE buf'[pairs[n].logical_idx] = Slot(n)
        <5>1. pairs[n].logical_idx \in 1 .. N
          BY <1>t DEF BatchType, Pair
        <5>2. Slot(n) = slots[pairs[n].logical_idx]
              /\ Slot(group_start) = slots[pairs[group_start].logical_idx]
          BY <1>1 DEF BatchInv, PairsMatch
        <5>3. CASE pairs[n].logical_idx = pairs[group_start].logical_idx
          BY <1>t, <2>2, <3>1, <5>1, <5>2, <5>3 DEF BatchType
        <5>4. CASE pairs[n].logical_idx # pairs[group_start].logical_idx
          <6>1. n # group_start /\ n < group_start
            BY <1>1, <1>t, <2>2, <4>1, <5>4 DEF BatchType
          <6>2. buf[pairs[n].logical_idx] = Slot(n)
            BY <1>1, <6>1 DEF BatchInv, PlacedOK, Copied
          <6> QED  BY <1>t, <2>2, <5>1, <5>4, <6>2 DEF BatchType
        <5> QED  BY <5>3, <5>4
      <4> QED  BY <1>1, <1>n, <2>2, <4>1 DEF PlacedOK, Copied, Slot
    <3> QED  BY <1>1, <1>2, <2>2, <3>2, <3>5, <3>6 DEF BatchInv
  <2>3. CASE /\ i - group_start > 1
             /\ master_buf' = [n \in 1 .. i - group_start |-> Slot(group_start) + n - 1]
             /\ copied' = 0 /\ pc' = "copy" /\ UNCHANGED <<buf, group_start, i>>
    <3>1. BatchType'
      BY <1>n, <1>t, <1>p, <2>3 DEF BatchType
    <3>2. IsStart(group_start)' /\ ~Consecutive(i)'
      BY <1>1, <1>n, <2>3, <2>c DEF IsStart, Slot, Consecutive
    <3>3. Slot(group_start)' = Slot(group_start)
          /\ \A n \in group_start .. i - 1 : Slot(n)' = Slot(n)
      BY <1>n, <2>3 DEF Slot
    <3>4. GroupOK'
      BY <1>1, <1>n, <1>t, <2>3, <2>c, <3>2, <3>3 DEF GroupOK, BatchType
    <3>5. PlacedOK'
      BY <1>1, <1>n, <1>t, <2>3 DEF BatchInv, PlacedOK, Copied, Slot, BatchType
    <3> QED  BY <1>2, <2>3, <3>1, <3>4, <3>5 DEF BatchInv
  <2>4. i - group_start > 0 /\ [n \in 1 .. i - group_start |-> Slot(group_start) + n - 1][1]
                                  = Slot(group_start)
    BY <1>1, <1>s, <1>t DEF BatchType
  <2> QED  BY <1>4, <2>1, <2>2, <2>3, <2>4 DEF ReadGroup
<1> QED  BY <1>3, <1>4

\* The copies out of the staging buffer, and the return.
LEMMA CopyInv ==
    ASSUME BatchInv, CopyBlock \/ Return
    PROVE  BatchInv'
<1>n. N' = N /\ slots' = slots /\ pairs' = pairs /\ tmp' = tmp /\ j' = j /\ master_buf' = master_buf
  BY DEF CopyBlock, Return, N
<1>t. BatchType
  BY DEF BatchInv
<1>s. \A n \in 1 .. N : Slot(n) \in Nat /\ Slot(n)' = Slot(n)
  BY <1>n, <1>t DEF BatchType, Pair, Slot
<1>p. Pair' = Pair
  BY <1>n DEF Pair
<1>1. pc \in {"group", "copy"} /\ Ordered(N, 0)
  BY DEF CopyBlock, Return, BatchInv, SortOK
<1>2. PairsMatch' /\ (pc' # "shift" => NoneLost' /\ (pc' # "outer" => SortOK'))
  <2>1. PairsMatch'
    BY <1>n DEF BatchInv, PairsMatch, Slot
  <2>2. \A b \in 1 .. N : \E n \in 1 .. N : pairs[n].logical_idx = b
    BY <1>1 DEF BatchInv, NoneLost
  <2>3. Ordered(N, 0)'
    BY <1>n, <1>1 DEF Ordered, Slot
  <2> QED  BY <1>n, <2>1, <2>2, <2>3 DEF NoneLost, SortOK
<1>3. CASE CopyBlock
  <2>1. /\ pc = "copy" /\ group_start \in 1 .. N /\ i \in group_start + 1 .. N + 1
        /\ group_start + copied <= i /\ ~Consecutive(i) /\ IsStart(group_start)
        /\ master_buf = [n \in 1 .. i - group_start |-> Slot(group_start) + n - 1]
        /\ \A n \in group_start .. i - 1 : Slot(n) = Slot(group_start) + n - group_start
    BY <1>3, <1>t DEF CopyBlock, BatchInv, BatchType, GroupOK
  <2>g. PICK g : g = group_start + copied
    OBVIOUS
  <2>2. CASE /\ g < i /\ copied' = copied + 1 /\ UNCHANGED <<group_start, i, pc>>
             /\ buf' = [buf EXCEPT ![pairs[g].logical_idx] = master_buf[offset_in_range(g) + 1]]
    <3>1. g \in 1 .. N /\ g \in group_start .. i - 1
      BY <1>t, <2>1, <2>2, <2>g DEF BatchType
    <3>2. offset_in_range(g) + 1 = g - group_start + 1
      BY <1>s, <2>1, <3>1 DEF offset_in_range
    <3>3. master_buf[offset_in_range(g) + 1] = Slot(g)
      BY <1>s, <2>1, <3>1, <3>2
    <3>4. pairs[g].logical_idx \in 1 .. N /\ Slot(g) \in Nat
      BY <1>s, <1>t, <3>1 DEF BatchType, Pair
    <3>5. BatchType'
      BY <1>n, <1>t, <1>p, <2>2, <3>3, <3>4 DEF BatchType
    <3>6. IsStart(group_start)' /\ ~Consecutive(i)'
      BY <1>n, <2>1, <2>2 DEF IsStart, Slot, Consecutive
    <3>7. Slot(group_start)' = Slot(group_start)
          /\ \A n \in group_start .. i - 1 : Slot(n)' = Slot(n)
      BY <1>n, <2>2 DEF Slot
    <3>8. GroupOK'
      BY <1>n, <1>t, <2>1, <2>2, <2>g, <3>6, <3>7 DEF GroupOK, BatchType
    <3>9. PlacedOK'
      <4>1. ASSUME NEW n \in 1 .. N, n < g + 1 PROVE buf'[pairs[n].logical_idx] = Slot(n)
        <5>1. pairs[n].logical_idx \in 1 .. N
          BY <1>t DEF BatchType, Pair
        <5>2. Slot(n) = slots[pairs[n].logical_idx] /\ Slot(g) = slots[pairs[g].logical_idx]
          BY <3>1 DEF BatchInv, PairsMatch
        <5>3. CASE pairs[n].logical_idx = pairs[g].logical_idx
          BY <1>t, <2>2, <3>3, <5>1, <5>2, <5>3 DEF BatchType
        <5>4. CASE pairs[n].logical_idx # pairs[g].logical_idx
          <6>1. n # g /\ n < g
            BY <1>t, <3>1, <4>1, <5>4 DEF BatchType
          <6>2. buf[pairs[n].logical_idx] = Slot(n)
            BY <2>1, <2>g, <6>1 DEF BatchInv, PlacedOK, Copied
          <6> QED  BY <1>t, <2>2, <5>1, <5>4, <6>2 DEF BatchType
        <5> QED  BY <5>3, <5>4
      <4>2. Copied' = g + 1
        BY <1>t, <2>1, <2>2, <2>g DEF Copied, BatchType
      <4> QED  BY <1>n, <4>1, <4>2 DEF PlacedOK, Slot
    <3> QED  BY <1>2, <2>1, <2>2, <3>5, <3>8, <3>9 DEF BatchInv
  <2>3. CASE /\ g = i /\ group_start' = i /\ i' = i + 1 /\ pc' = "group"
             /\ UNCHANGED <<buf, copied>>
    <3>1. BatchType'
      BY <1>n, <1>t, <1>p, <2>3 DEF BatchType
    <3>2. i <= N => IsStart(i)
      BY <2>1, <1>t DEF Consecutive, IsStart, BatchType
    <3>3. (i <= N => IsStart(i)) => (group_start' <= N => IsStart(group_start)')
      BY <1>n, <2>3 DEF IsStart, Slot
    <3>4. GroupOK'
      BY <1>n, <1>s, <1>t, <2>1, <2>3, <3>2, <3>3 DEF GroupOK, BatchType, Slot
    <3>5. PlacedOK'
      BY <1>n, <2>1, <2>3, <2>g DEF BatchInv, PlacedOK, Copied, Slot
    <3> QED  BY <1>2, <2>3, <3>1, <3>4, <3>5 DEF BatchInv
  <2> QED  BY <1>3, <2>2, <2>3, <2>g DEF CopyBlock
<1>4. CASE Return
  <2>1. /\ pc = "group" /\ group_start = N + 1 /\ pc' = "done"
        /\ UNCHANGED <<i, group_start, copied, buf>>
    BY <1>4, <1>t DEF Return, BatchInv, BatchType, GroupOK
  <2>2. BatchType'
    BY <1>n, <1>t, <1>p, <2>1 DEF BatchType
  <2>3. GroupOK' /\ PlacedOK'
    BY <1>n, <2>1 DEF BatchInv, GroupOK, PlacedOK, Copied, Slot
  <2> QED  BY <1>2, <2>1, <2>2, <2>3 DEF BatchInv
<1> QED  BY <1>3, <1>4

LEMMA BatchAlways == BatchSpec => []BatchInv
<1>1. BatchInv /\ [BatchNext]_batchVars => BatchInv'
  <2> SUFFICES ASSUME BatchInv, [BatchNext]_batchVars PROVE BatchInv'
    OBVIOUS
  <2>1. CASE UNCHANGED batchVars
    BY ZenonT(30), <2>1 DEF batchVars, BatchInv, BatchType, Pair, PairsMatch, NoneLost, SortOK, Ordered,
       GroupOK, IsStart, Consecutive, PlacedOK, Copied, Slot, N
  <2> QED  BY <2>1, SortInv, GroupInv, CopyInv DEF BatchNext, Ended
<1> QED  BY InitInv, <1>1, PTL DEF BatchSpec

\* Every block of the caller's buffer comes from the slot phase 1 found for it, and
\* no memcpy reads beyond what the pread brought in (dedup.c:114-170).
THEOREM ReadsInPlace == BatchSpec => []BlocksInPlace
<1>1. BatchInv => BlocksInPlace
  <2> SUFFICES ASSUME BatchInv PROVE BlocksInPlace
    OBVIOUS
  <2>t. BatchType
    BY DEF BatchInv
  <2>s. \A n \in 1 .. N : Slot(n) \in Nat
    BY <2>t DEF BatchType, Pair, Slot
  <2>1. ASSUME pc = "done" PROVE buf = slots
    <3>1. ASSUME NEW b \in 1 .. N PROVE buf[b] = slots[b]
      <4>1. PICK n \in 1 .. N : pairs[n].logical_idx = b
        BY <2>1 DEF BatchInv, NoneLost
      <4>2. n < Copied
        BY <2>1, <2>t DEF BatchInv, GroupOK, Copied, BatchType
      <4> QED  BY <4>1, <4>2 DEF BatchInv, PlacedOK, PairsMatch
    <3> QED  BY <2>t, <3>1 DEF BatchType
  <2>2. ASSUME pc = "copy", NEW g, g = group_start + copied, g < i
        PROVE  offset_in_range(g) + 1 \in DOMAIN master_buf
    <3>1. /\ group_start \in 1 .. N /\ i \in group_start + 1 .. N + 1
          /\ master_buf = [n \in 1 .. i - group_start |-> Slot(group_start) + n - 1]
          /\ \A n \in group_start .. i - 1 : Slot(n) = Slot(group_start) + n - group_start
      BY <2>2, <2>t DEF BatchInv, BatchType, GroupOK
    <3>2. g \in group_start .. i - 1 /\ g \in 1 .. N
      BY <2>2, <2>t, <3>1 DEF BatchType
    <3>3. offset_in_range(g) + 1 = g - group_start + 1
      BY <2>s, <3>1, <3>2 DEF offset_in_range
    <3> QED  BY <2>t, <3>1, <3>2, <3>3 DEF BatchType
  <2> QED  BY <2>1, <2>2 DEF BlocksInPlace
<1> QED  BY BatchAlways, <1>1, PTL

-----------------------------------------------------------------------------
(* The number of preads                                                    *)

Starts(m) == {n \in 1 .. m : IsStart(n)}

\* One pread for each group behind group_start, and one for the group being copied.
PreadsOK ==
    /\ pc \in {"outer", "shift"} => preads = 0
    /\ pc \in {"group", "done"} => preads = Cardinality(Starts(group_start - 1))
    /\ pc = "copy" => preads = Cardinality(Starts(group_start - 1)) + 1

LEMMA StartsFinite ==
    ASSUME NEW m \in Nat
    PROVE  IsFiniteSet(Starts(m)) /\ Cardinality(Starts(m)) \in Nat
<1>1. IsFiniteSet(1 .. m)
  BY FS_Interval
<1>2. IsFiniteSet(Starts(m))
  BY <1>1, FS_Subset DEF Starts
<1> QED  BY <1>2, FS_CardinalityType

\* A whole group adds one start.
LEMMA OneStart ==
    ASSUME BatchInv, pc \in {"group", "copy"}, group_start <= N
    PROVE  Cardinality(Starts(i - 1)) = Cardinality(Starts(group_start - 1)) + 1
<1>t. BatchType
  BY DEF BatchInv
<1>s. \A n \in 1 .. N : Slot(n) \in Nat
  BY <1>t DEF BatchType, Pair, Slot
<1>1. /\ group_start \in 1 .. N /\ i \in group_start + 1 .. N + 1 /\ IsStart(group_start)
      /\ \A n \in group_start .. i - 1 : Slot(n) = Slot(group_start) + n - group_start
  BY <1>t DEF BatchInv, BatchType, GroupOK
<1>2. ASSUME NEW n \in group_start + 1 .. i - 1 PROVE ~IsStart(n)
  <2>1. n \in 1 .. N /\ n - 1 \in 1 .. N /\ n # 1
    BY <1>1, <1>t DEF BatchType
  <2>2. n \in group_start .. i - 1 /\ n - 1 \in group_start .. i - 1
    BY <1>1, <1>t, <2>1 DEF BatchType
  <2>3. Slot(n) = Slot(n - 1) + 1
    BY <1>1, <1>s, <2>1, <2>2
  <2> QED  BY <2>1, <2>3 DEF IsStart
<1>3. Starts(i - 1) = Starts(group_start - 1) \cup {group_start}
  <2>1. ASSUME NEW n \in Starts(i - 1) PROVE n \in Starts(group_start - 1) \cup {group_start}
    <3>1. n \in 1 .. i - 1 /\ IsStart(n)
      BY DEF Starts
    <3>2. n \notin group_start + 1 .. i - 1
      BY <1>2, <3>1
    <3>3. n \in 1 .. group_start
      BY <1>1, <1>t, <3>1, <3>2 DEF BatchType
    <3> QED  BY <1>1, <3>1, <3>3 DEF Starts
  <2>2. ASSUME NEW n \in Starts(group_start - 1) \cup {group_start} PROVE n \in Starts(i - 1)
    BY <1>1, <1>t DEF Starts, BatchType
  <2> QED  BY <2>1, <2>2
<1>4. group_start - 1 \in Nat /\ group_start \notin Starts(group_start - 1)
  BY <1>1 DEF Starts
<1> QED  BY <1>3, <1>4, StartsFinite, FS_AddElement

LEMMA StartsKept ==
    ASSUME BatchInv, BatchNext, pc \notin {"outer", "shift"}, NEW m
    PROVE  Starts(m)' = Starts(m)
<1>1. pairs' = pairs
  BY DEF BatchNext, SortNext, Shift, SortDone, Grow, ReadGroup, CopyBlock, Return, Ended, batchVars
<1> QED  BY <1>1 DEF Starts, IsStart, Slot

LEMMA PreadsStep ==
    ASSUME BatchInv, PreadsOK, BatchNext
    PROVE  PreadsOK'
<1>t. BatchType
  BY DEF BatchInv
<1>0. ASSUME NEW m \in Nat, pc \notin {"outer", "shift"}, group_start' = m + 1
      PROVE  Cardinality(Starts(group_start - 1))' = Cardinality(Starts(m))
  <2>1. Starts(m)' = Starts(m)
    BY <1>0, StartsKept
  <2>2. group_start' - 1 = m
    BY <1>0
  <2> QED  BY <2>1, <2>2 DEF Starts
<1>1. CASE SortNext \/ Shift
  <2>1. pc' \in {"outer", "shift"} /\ preads' = preads /\ pc \in {"outer", "shift"}
    BY <1>1 DEF SortNext, Shift
  <2> QED  BY <2>1 DEF PreadsOK
<1>2. CASE SortDone
  <2>1. pc' \in {"group", "error"} /\ preads' = 0 /\ group_start' = 1
    BY <1>2 DEF SortDone, PreadsOK, BatchInv, GroupOK
  <2>2. Starts(group_start - 1)' = {}
    BY <2>1 DEF Starts
  <2> QED  BY <2>1, <2>2, FS_EmptySet DEF PreadsOK
<1>3. CASE Grow
  <2>1. /\ pc = "group" /\ pc' = "group" /\ group_start' = group_start /\ preads' = preads
        /\ group_start \in Nat \ {0}
    BY <1>3, <1>t DEF Grow, BatchInv, BatchType, GroupOK
  <2>2. Cardinality(Starts(group_start - 1))' = Cardinality(Starts(group_start - 1))
    BY <1>0, <2>1
  <2> QED  BY <2>1, <2>2 DEF PreadsOK
<1>4. CASE ReadGroup
  <2>1. /\ pc = "group" /\ group_start <= N /\ group_start \in Nat \ {0} /\ i \in Nat \ {0}
        /\ preads = Cardinality(Starts(group_start - 1))
    BY <1>4, <1>t DEF ReadGroup, BatchInv, BatchType, GroupOK, PreadsOK
  <2>2. Cardinality(Starts(i - 1)) = preads + 1
    BY <2>1, OneStart
  <2>3. \/ pc' = "error"
        \/ pc' = "group" /\ preads' = preads + 1 /\ group_start' = i
        \/ pc' = "copy" /\ preads' = preads + 1 /\ group_start' = group_start
    BY <1>4, <2>1 DEF ReadGroup
  <2>4. CASE pc' = "error"
    BY <2>4 DEF PreadsOK
  <2>5. CASE pc' = "group" /\ preads' = preads + 1 /\ group_start' = i
    <3>1. Cardinality(Starts(group_start - 1))' = Cardinality(Starts(i - 1))
      BY <1>0, <2>1, <2>5
    <3> QED  BY <2>2, <2>5, <3>1 DEF PreadsOK
  <2>6. CASE pc' = "copy" /\ preads' = preads + 1 /\ group_start' = group_start
    <3>1. Cardinality(Starts(group_start - 1))' = Cardinality(Starts(group_start - 1))
      BY <1>0, <2>1, <2>6
    <3> QED  BY <2>1, <2>6, <3>1 DEF PreadsOK
  <2> QED  BY <2>3, <2>4, <2>5, <2>6
<1>5. CASE CopyBlock
  <2>1. /\ pc = "copy" /\ group_start <= N /\ group_start \in Nat \ {0} /\ i \in Nat \ {0}
        /\ preads = Cardinality(Starts(group_start - 1)) + 1 /\ preads' = preads
    BY <1>5, <1>t DEF CopyBlock, BatchInv, BatchType, GroupOK, PreadsOK
  <2>2. Cardinality(Starts(i - 1)) = preads
    BY <2>1, OneStart
  <2>3. (pc' = "copy" /\ group_start' = group_start) \/ (pc' = "group" /\ group_start' = i)
    BY <1>5, <2>1 DEF CopyBlock
  <2>4. CASE pc' = "copy" /\ group_start' = group_start
    <3>1. Cardinality(Starts(group_start - 1))' = Cardinality(Starts(group_start - 1))
      BY <1>0, <2>1, <2>4
    <3> QED  BY <2>1, <2>4, <3>1 DEF PreadsOK
  <2>5. CASE pc' = "group" /\ group_start' = i
    <3>1. Cardinality(Starts(group_start - 1))' = Cardinality(Starts(i - 1))
      BY <1>0, <2>1, <2>5
    <3> QED  BY <2>1, <2>2, <2>5, <3>1 DEF PreadsOK
  <2> QED  BY <2>3, <2>4, <2>5
<1>6. CASE Return
  <2>1. /\ pc = "group" /\ pc' = "done" /\ group_start' = group_start /\ preads' = preads
        /\ group_start \in Nat \ {0}
    BY <1>6, <1>t DEF Return, BatchInv, BatchType, GroupOK
  <2>2. Cardinality(Starts(group_start - 1))' = Cardinality(Starts(group_start - 1))
    BY <1>0, <2>1
  <2> QED  BY <2>1, <2>2 DEF PreadsOK
<1>7. CASE Ended
  BY <1>7 DEF Ended, batchVars, PreadsOK, Starts, IsStart, Slot
<1> QED  BY <1>1, <1>2, <1>3, <1>4, <1>5, <1>6, <1>7 DEF BatchNext

LEMMA PreadsAlways == BatchSpec => []PreadsOK
<1>1. BatchInit => PreadsOK
  BY DEF BatchInit, PreadsOK
<1>2. BatchInv /\ PreadsOK /\ [BatchNext]_batchVars => PreadsOK'
  <2> SUFFICES ASSUME BatchInv, PreadsOK, [BatchNext]_batchVars PROVE PreadsOK'
    OBVIOUS
  <2>1. CASE UNCHANGED batchVars
    BY <2>1 DEF batchVars, PreadsOK, Starts, IsStart, Slot
  <2> QED  BY <2>1, PreadsStep
<1> QED  BY BatchAlways, <1>1, <1>2, PTL DEF BatchSpec

-----------------------------------------------------------------------------
(* Counting runs and repetitions                                           *)

Distinct == {slots[n] : n \in 1 .. N}
Runs     == {s \in Distinct : s - 1 \notin Distinct}

\* In the sorted order a start begins a run or repeats the slot before it; the
\* first occurrence of each slot is what does not repeat.
Repeats == {n \in 2 .. N : Slot(n) = Slot(n - 1)}
Heads   == {n \in 1 .. N : n = 1 \/ Slot(n) > Slot(n - 1) + 1}
Firsts  == {n \in 1 .. N : n = 1 \/ Slot(n) # Slot(n - 1)}

LEMMA LeastOf ==
    ASSUME NEW T \in SUBSET Nat, T # {}
    PROVE  \E m \in T : \A n \in T : ~(n < m)
<1>0. T \subseteq Nat
  OBVIOUS
<1>1. PICK m \in T : \A n \in T : ~(<<n, m>> \in OpToRel(<, Nat))
  BY <1>0, NatLessThanWellFounded, WFMin, Zenon
<1>2. \A n \in T : ~(n < m)
  BY <1>1 DEF OpToRel
<1> QED  BY <1>2

\* After the sort a slot has a first position, and all smaller slots are before it.
LEMMA SortedSlots ==
    ASSUME BatchInv, pc = "done"
    PROVE  /\ N \in Nat \ {0} /\ Distinct = {Slot(n) : n \in 1 .. N}
           /\ \A n \in 1 .. N : Slot(n) \in Nat
           /\ \A a, b \in 1 .. N : a <= b => Slot(a) <= Slot(b)
           /\ \A s \in Distinct : \E n \in Firsts : Slot(n) = s
<1>t. BatchType
  BY DEF BatchInv
<1>s. N \in Nat \ {0} /\ \A n \in 1 .. N : Slot(n) \in Nat
  BY <1>t DEF BatchType, Pair, Slot
<1>1. Distinct = {Slot(n) : n \in 1 .. N}
  <2>1. \A n \in 1 .. N : Slot(n) = slots[pairs[n].logical_idx] /\ pairs[n].logical_idx \in 1 .. N
    BY <1>t DEF BatchInv, PairsMatch, BatchType, Pair
  <2>2. \A b \in 1 .. N : \E n \in 1 .. N : pairs[n].logical_idx = b
    BY DEF BatchInv, NoneLost
  <2>3. \A b \in 1 .. N : \E n \in 1 .. N : Slot(n) = slots[b]
    BY <2>1, <2>2
  <2> QED  BY <2>1, <2>3 DEF Distinct
<1>2. \A a, b \in 1 .. N : a <= b => Slot(a) <= Slot(b)
  <2>1. Ordered(N, 0)
    BY DEF BatchInv, SortOK
  <2> QED  BY <1>s, <2>1 DEF Ordered
<1>3. ASSUME NEW s \in Distinct PROVE \E n \in Firsts : Slot(n) = s
  <2> DEFINE T == {n \in 1 .. N : Slot(n) = s}
  <2>1. T # {} /\ T \in SUBSET Nat
    BY <1>1, <1>s
  <2> HIDE DEF T
  <2>2. PICK m \in T : \A n \in T : ~(n < m)
    BY <2>1, LeastOf
  <2>3. m \in 1 .. N /\ Slot(m) = s
    BY <2>2 DEF T
  <2>4. m = 1 \/ Slot(m) # Slot(m - 1)
    <3>1. ASSUME m # 1 PROVE m - 1 \notin T /\ m - 1 \in 1 .. N
      BY <1>s, <2>2, <2>3, <3>1
    <3> QED  BY <2>3, <3>1 DEF T
  <2> QED  BY <2>3, <2>4 DEF Firsts
<1> QED  BY <1>s, <1>1, <1>2, <1>3

LEMMA CountFirsts ==
    ASSUME BatchInv, pc = "done"
    PROVE  IsFiniteSet(Distinct) /\ Cardinality(Distinct) = Cardinality(Firsts)
<1>s. /\ N \in Nat \ {0} /\ Distinct = {Slot(n) : n \in 1 .. N}
      /\ \A n \in 1 .. N : Slot(n) \in Nat
      /\ \A a, b \in 1 .. N : a <= b => Slot(a) <= Slot(b)
      /\ \A s \in Distinct : \E n \in Firsts : Slot(n) = s
  BY SortedSlots
<1> DEFINE F == [n \in Firsts |-> Slot(n)]
<1>1. F \in [Firsts -> Distinct]
  BY <1>s DEF Firsts
<1>2. ASSUME NEW a \in Firsts, NEW b \in Firsts, a < b PROVE Slot(a) # Slot(b)
  <2>1. a \in 1 .. N /\ b \in 1 .. N /\ b # 1 /\ b - 1 \in 1 .. N /\ a <= b - 1
    BY <1>s, <1>2 DEF Firsts
  <2>2. Slot(b) # Slot(b - 1) /\ Slot(b - 1) <= Slot(b) /\ Slot(a) <= Slot(b - 1)
    BY <1>s, <2>1 DEF Firsts
  <2> QED  BY <1>s, <2>1, <2>2
<1>3. ASSUME NEW a \in Firsts, NEW b \in Firsts, F[a] = F[b] PROVE a = b
  <2>1. a \in Nat /\ b \in Nat /\ Slot(a) = Slot(b)
    BY <1>3, <1>s DEF Firsts
  <2> QED  BY <1>2, <2>1
<1>4. \A s \in Distinct : \E n \in Firsts : F[n] = s
  BY <1>s
<1> HIDE DEF F
<1>5. F \in Bijection(Firsts, Distinct)
  BY <1>1, <1>3, <1>4, Fun_IsBij
<1>6. IsFiniteSet(Firsts)
  <2>1. Firsts \in SUBSET (1 .. N)
    BY DEF Firsts
  <2> QED  BY <1>s, <2>1, FS_Interval, FS_Subset
<1> QED  BY <1>5, <1>6, FS_Bijection, Fun_ExistsBij

LEMMA CountHeads ==
    ASSUME BatchInv, pc = "done"
    PROVE  Cardinality(Runs) = Cardinality(Heads)
<1>s. /\ N \in Nat \ {0} /\ Distinct = {Slot(n) : n \in 1 .. N}
      /\ \A n \in 1 .. N : Slot(n) \in Nat
      /\ \A a, b \in 1 .. N : a <= b => Slot(a) <= Slot(b)
      /\ \A s \in Distinct : \E n \in Firsts : Slot(n) = s
  BY SortedSlots
<1> DEFINE F == [n \in Heads |-> Slot(n)]
<1>0. ASSUME NEW a \in 1 .. N, NEW b \in Heads, a < b PROVE Slot(a) < Slot(b) - 1
  <2>1. b \in 1 .. N /\ b # 1 /\ b - 1 \in 1 .. N /\ a <= b - 1
    BY <1>s, <1>0 DEF Heads
  <2>2. Slot(b) > Slot(b - 1) + 1 /\ Slot(a) <= Slot(b - 1)
    BY <1>s, <2>1 DEF Heads
  <2> QED  BY <1>s, <2>1, <2>2
<1>1. F \in [Heads -> Runs]
  <2>1. ASSUME NEW n \in Heads PROVE Slot(n) \in Runs
    <3>1. n \in 1 .. N /\ Slot(n) \in Distinct
      BY <1>s DEF Heads
    <3>2. ASSUME NEW a \in 1 .. N, Slot(a) = Slot(n) - 1 PROVE FALSE
      <4>1. CASE a < n
        BY <1>0, <1>s, <3>1, <3>2, <4>1
      <4>2. CASE n <= a
        BY <1>s, <3>1, <3>2, <4>2
      <4> QED  BY <3>1, <4>1, <4>2
    <3> QED  BY <1>s, <3>1, <3>2 DEF Runs
  <2> QED  BY <2>1
<1>2. ASSUME NEW a \in Heads, NEW b \in Heads, F[a] = F[b] PROVE a = b
  <2>1. a \in 1 .. N /\ b \in 1 .. N /\ Slot(a) = Slot(b)
    BY <1>2 DEF Heads
  <2> QED  BY <1>0, <1>s, <2>1
<1>3. ASSUME NEW s \in Runs PROVE \E n \in Heads : F[n] = s
  <2>1. PICK n \in Firsts : Slot(n) = s
    BY <1>s DEF Runs
  <2>2. n \in 1 .. N /\ (n = 1 \/ Slot(n) # Slot(n - 1)) /\ s - 1 \notin Distinct
    BY <2>1 DEF Firsts, Runs
  <2>3. ASSUME n # 1 PROVE Slot(n) > Slot(n - 1) + 1
    <3>1. n - 1 \in 1 .. N /\ Slot(n - 1) <= Slot(n) /\ Slot(n - 1) \in Distinct
      BY <1>s, <2>2, <2>3
    <3>2. Slot(n - 1) # s - 1 /\ Slot(n - 1) # Slot(n)
      BY <2>2, <2>3, <3>1
    <3> QED  BY <1>s, <2>1, <2>2, <3>1, <3>2
  <2>4. n \in Heads
    BY <2>2, <2>3 DEF Heads
  <2> QED  BY <2>1, <2>4
<1> HIDE DEF F
<1>5. F \in Bijection(Heads, Runs)
  BY <1>1, <1>2, <1>3, Fun_IsBij
<1>6. IsFiniteSet(Heads)
  <2>1. Heads \in SUBSET (1 .. N)
    BY DEF Heads
  <2> QED  BY <1>s, <2>1, FS_Interval, FS_Subset
<1> QED  BY <1>5, <1>6, FS_Bijection, Fun_ExistsBij

\* The number of preads that a read costs: one for each maximal run of consecutive
\* slots, and one more for each repetition of a slot (dedup.c:127-168).
THEOREM PreadsPerRun == BatchSpec => []OnePreadPerRun
<1>1. BatchInv /\ PreadsOK => OnePreadPerRun
  <2> SUFFICES ASSUME BatchInv, PreadsOK, pc = "done"
               PROVE  preads = Cardinality(Runs) + (N - Cardinality(Distinct))
    BY DEF OnePreadPerRun, Runs, Distinct
  <2>s. /\ N \in Nat \ {0} /\ \A n \in 1 .. N : Slot(n) \in Nat
        /\ \A a, b \in 1 .. N : a <= b => Slot(a) <= Slot(b)
    BY SortedSlots
  <2>f. IsFiniteSet(Repeats) /\ IsFiniteSet(Heads) /\ IsFiniteSet(Firsts)
    <3>1. IsFiniteSet(1 .. N) /\ IsFiniteSet(2 .. N)
      BY <2>s, FS_Interval
    <3>2. Repeats \in SUBSET (2 .. N) /\ Heads \in SUBSET (1 .. N) /\ Firsts \in SUBSET (1 .. N)
      BY DEF Repeats, Heads, Firsts
    <3> QED  BY <3>1, <3>2, FS_Subset
  <2>c. /\ Cardinality(Repeats) \in Nat /\ Cardinality(Heads) \in Nat
        /\ Cardinality(Firsts) \in Nat
    BY <2>f, FS_CardinalityType
  <2>1. preads = Cardinality(Starts(N))
    <3>1. group_start - 1 = N
      BY <2>s DEF BatchInv, GroupOK
    <3> QED  BY <3>1 DEF PreadsOK
  <2>2. Starts(N) = Heads \cup Repeats /\ Heads \cap Repeats = {}
    <3>1. ASSUME NEW n \in 2 .. N PROVE n - 1 \in 1 .. N /\ n \in 1 .. N /\ Slot(n - 1) <= Slot(n)
      BY <2>s
    <3>2. ASSUME NEW n \in 1 .. N
          PROVE  /\ IsStart(n) <=> n \in Heads \/ n \in Repeats
                 /\ ~(n \in Heads /\ n \in Repeats)
      <4>1. CASE n = 1
        BY <2>s, <4>1 DEF IsStart, Heads, Repeats
      <4>2. CASE n # 1
        <5>1. /\ n \in 2 .. N /\ n - 1 \in 1 .. N /\ Slot(n - 1) <= Slot(n)
              /\ Slot(n) \in Nat /\ Slot(n - 1) \in Nat
          BY <2>s, <3>1, <4>2
        <5> QED  BY <4>2, <5>1 DEF IsStart, Heads, Repeats
      <4> QED  BY <4>1, <4>2
    <3>3. Heads \subseteq 1 .. N /\ Repeats \subseteq 1 .. N
      BY <3>1 DEF Heads, Repeats
    <3> QED  BY <3>2, <3>3 DEF Starts
  <2>3. 1 .. N = Firsts \cup Repeats /\ Firsts \cap Repeats = {}
    BY <2>s DEF Firsts, Repeats
  <2>4. Cardinality(Starts(N)) = Cardinality(Heads) + Cardinality(Repeats)
    <3>1. Cardinality(Heads \cup Repeats) = Cardinality(Heads) + Cardinality(Repeats) - 0
      BY <2>2, <2>f, FS_Union, FS_EmptySet
    <3> QED  BY <2>2, <2>c, <3>1
  <2>5. N = Cardinality(Firsts) + Cardinality(Repeats)
    <3>1. Cardinality(Firsts \cup Repeats) = Cardinality(Firsts) + Cardinality(Repeats) - 0
      BY <2>3, <2>f, FS_Union, FS_EmptySet
    <3>2. Cardinality(1 .. N) = N
      BY <2>s, FS_Interval
    <3>3. Cardinality(1 .. N) = Cardinality(Firsts \cup Repeats)
      BY <2>3
    <3> QED  BY <2>c, <2>s, <3>1, <3>2, <3>3
  <2>6. Cardinality(Runs) = Cardinality(Heads) /\ Cardinality(Distinct) = Cardinality(Firsts)
    BY CountHeads, CountFirsts
  <2> QED  BY <2>1, <2>4, <2>5, <2>6, <2>c
<1> QED  BY BatchAlways, PreadsAlways, <1>1, PTL
=============================================================================
