---------------------------- MODULE MountProofs ----------------------------
(***************************************************************************)
(* Mounts: what the index promises over any number of sessions, saves,     *)
(* crashes and loads, for any number of threads, files and blocks.         *)
(***************************************************************************)
EXTENDS Mount, DedupProofs

-----------------------------------------------------------------------------
(* Sessions *)

\* A session runs the handlers of Dedup and nothing else.
LEMMA SessionSteps ==
    ASSUME NEW t \in Threads, Session(t)
    PROVE  /\ phase = "mounted" /\ UNCHANGED mountVars
           /\ Dispatch(t) \/ Step(t)
           /\ Next
<1>1. phase = "mounted" /\ UNCHANGED mountVars
  BY DEF Session
<1>2. Dispatch(t) \/ Step(t)
  BY DEF Session, Step, FlushRun, FlushFail, Idx
<1> QED  BY <1>1, <1>2 DEF Next

\* What a session does to the size of the master file.
LEMMA SessionSize ==
    ASSUME NEW t \in Threads, Session(t)
    PROVE  \/ msize' = msize /\ ~FlushRun(t) /\ ~FlushFail(t)
           \/ \E i \in Idx, e \in 1 .. MaxBlocks : FlushRunAt(t, i, e) /\ Extend(t, i, e - i)
           \/ \E i \in Idx, e \in 1 .. MaxBlocks, done \in Idx, torn \in BOOLEAN :
                /\ PwriteFails /\ FlushFailAt(t, i, e, done, torn)
                /\ IF done > 0 \/ torn THEN Extend(t, i, done) ELSE UNCHANGED msize
<1>1. FlushDone(t) => ~FlushRun(t) /\ ~FlushFail(t)
  BY DEF FlushDone, FlushRun, FlushRunAt, FlushFail, FlushFailAt
<1>2. pc[t] # "w_flush" => ~FlushRun(t) /\ ~FlushFail(t)
  BY DEF FlushRun, FlushRunAt, FlushFail, FlushFailAt
<1> QED  BY <1>1, <1>2 DEF Session

\* The larger size covers what was written, and ends at the slot of some MISS.
LEMMA ExtendFacts ==
    ASSUME TypeInv, msize \in Nat, NEW t \in Threads, pc[t] = "w_flush",
           NEW a \in Idx, NEW e \in Nat, RunStart(t, a), RunEnd(t, a, e),
           NEW len \in Nat, a + len <= e, Extend(t, a, len)
    PROVE  /\ msize' \in Nat /\ msize <= msize' /\ plan[t][a].master_blk + len <= msize'
           /\ \/ msize' = msize
              \/ \E j \in Idx : IsMiss(t, j) /\ msize' <= plan[t][j].master_blk + 1
<1>b. PICK b : b = plan[t][a].master_blk
  OBVIOUS
<1>1. /\ b \in Slots
      /\ \A j \in a .. e - 1 : /\ j \in Idx /\ IsMiss(t, j)
                               /\ plan[t][j].master_blk = b + (j - a)
  BY <1>b, RunSlots
<1>2. a \in Nat /\ b \in Nat /\ a < e
  BY <1>1, BoundsAssumption DEF Idx, Slots, RunEnd
<1>3. msize' = IF msize > b + len THEN msize ELSE b + len
  BY <1>b DEF Extend, Larger
<1>4. e - 1 \in a .. e - 1 /\ b + len <= b + ((e - 1) - a) + 1
  BY <1>2
<1>5. IsMiss(t, e - 1) /\ e - 1 \in Idx /\ plan[t][e - 1].master_blk = b + ((e - 1) - a)
  BY <1>1, <1>4
<1>6. msize' # msize => msize' <= plan[t][e - 1].master_blk + 1
  BY <1>3, <1>4, <1>5
<1>7. msize' \in Nat /\ msize <= msize' /\ b + len <= msize'
  BY <1>2, <1>3
<1> QED  BY <1>b, <1>5, <1>6, <1>7

\* What has been written lies inside the master file.
Written == \A s \in Slots : master[s] # NULL => s < msize

SizeOK == msize \in 0 .. MaxSlots /\ Written

\* A pwrite of whole blocks leaves the rest of the file as it is.
LEMMA PwriteElsewhere ==
    ASSUME NEW t, NEW a, NEW len, NEW s \in Slots,
           ~(plan[t][a].master_blk <= s /\ s < plan[t][a].master_blk + len)
    PROVE  Pwrite(t, a, len)[s] = master[s]
BY DEF Pwrite

LEMMA SizeStep ==
    ASSUME TypeInv, SizeOK, NEW t \in Threads, Session(t)
    PROVE  /\ SizeOK' /\ msize <= msize'
           /\ \/ msize' = msize
              \/ \E j \in Idx : /\ pc[t] = "w_flush" /\ IsMiss(t, j)
                                /\ msize' <= plan[t][j].master_blk + 1
<1>a. MaxSlots \in Nat /\ msize \in Nat /\ \A s \in Slots : s \in Nat /\ s + 1 <= MaxSlots
  BY BoundsAssumption DEF SizeOK, Slots
<1>b. /\ master \in [Slots -> Contents \cup {NULL}]
      /\ \A a \in Idx : IsMiss(t, a) /\ pc[t] = "w_flush" => plan[t][a].master_blk \in Slots
  BY PlanFacts DEF TypeInv, TypeOK, DiskType, SlottedPCs
<1>c. \A a \in Idx : a \in Nat /\ a < MaxBlocks
  BY BoundsAssumption DEF Idx
<1>1. ASSUME NEW a \in Idx, NEW e \in 1 .. MaxBlocks, FlushRunAt(t, a, e), Extend(t, a, e - a)
      PROVE  /\ SizeOK' /\ msize <= msize'
             /\ \/ msize' = msize
                \/ \E j \in Idx : /\ pc[t] = "w_flush" /\ IsMiss(t, j)
                                  /\ msize' <= plan[t][j].master_blk + 1
  <2>1. pc[t] = "w_flush" /\ RunStart(t, a) /\ RunEnd(t, a, e) /\ master' = Pwrite(t, a, e - a)
    BY <1>1 DEF FlushRunAt
  <2>2. e \in Nat /\ e - a \in Nat /\ a + (e - a) <= e
    BY <2>1, <1>c, BoundsAssumption DEF RunEnd
  <2>3. /\ msize' \in Nat /\ msize <= msize' /\ plan[t][a].master_blk + (e - a) <= msize'
        /\ \/ msize' = msize
           \/ \E j \in Idx : IsMiss(t, j) /\ msize' <= plan[t][j].master_blk + 1
    BY <1>1, <2>1, <2>2, <1>a, ExtendFacts
  <2>4. msize' <= MaxSlots
    BY <2>1, <2>3, <1>a, <1>b DEF SizeOK
  <2>5. plan[t][a].master_blk \in Nat
    BY <2>1, <1>a, <1>b DEF RunStart
  <2>6. ASSUME NEW s \in Slots, ~(s < msize') PROVE master'[s] = NULL
    <3>1. ~(plan[t][a].master_blk <= s /\ s < plan[t][a].master_blk + (e - a)) /\ ~(s < msize)
      BY <2>2, <2>3, <2>5, <2>6, <1>a
    <3> QED  BY <2>1, <3>1, PwriteElsewhere DEF SizeOK, Written
  <2> QED  BY <2>1, <2>3, <2>4, <2>6, <1>a DEF SizeOK, Written
<1>2. ASSUME NEW a \in Idx, NEW e \in 1 .. MaxBlocks, NEW done \in Idx, NEW torn \in BOOLEAN,
             FlushFailAt(t, a, e, done, torn),
             IF done > 0 \/ torn THEN Extend(t, a, done) ELSE UNCHANGED msize
      PROVE  /\ SizeOK' /\ msize <= msize'
             /\ \/ msize' = msize
                \/ \E j \in Idx : /\ pc[t] = "w_flush" /\ IsMiss(t, j)
                                  /\ msize' <= plan[t][j].master_blk + 1
  <2>1. /\ pc[t] = "w_flush" /\ RunStart(t, a) /\ RunEnd(t, a, e) /\ done < e - a
        /\ master' = IF torn
              THEN [Pwrite(t, a, done) EXCEPT ![plan[t][a].master_blk + done] = NULL]
              ELSE Pwrite(t, a, done)
    BY <1>2 DEF FlushFailAt
  <2>2. e \in Nat /\ done \in Nat /\ a + done <= e
    BY <2>1, <1>c, BoundsAssumption DEF RunEnd
  <2>3. CASE done > 0 \/ torn
    <3>1. /\ msize' \in Nat /\ msize <= msize' /\ plan[t][a].master_blk + done <= msize'
          /\ \/ msize' = msize
             \/ \E j \in Idx : IsMiss(t, j) /\ msize' <= plan[t][j].master_blk + 1
      BY <1>2, <2>1, <2>2, <2>3, <1>a, ExtendFacts
    <3>2. msize' <= MaxSlots
      BY <2>1, <3>1, <1>a, <1>b DEF SizeOK
    <3>3. plan[t][a].master_blk \in Nat
      BY <2>1, <1>a, <1>b DEF RunStart
    <3>4. ASSUME NEW s \in Slots, ~(s < msize') PROVE master'[s] = NULL
      <4>1. ~(plan[t][a].master_blk <= s /\ s < plan[t][a].master_blk + done) /\ ~(s < msize)
        BY <2>2, <3>1, <3>3, <3>4, <1>a
      <4>2. Pwrite(t, a, done)[s] = NULL
        BY <4>1, PwriteElsewhere DEF SizeOK, Written
      <4> QED  BY <2>1, <4>2 DEF Pwrite
    <3> QED  BY <2>1, <3>1, <3>2, <3>4, <1>a DEF SizeOK, Written
  <2>4. CASE ~(done > 0 \/ torn)
    <3>1. done = 0 /\ ~torn /\ msize' = msize
      BY <1>2, <2>2, <2>4
    <3>2. plan[t][a].master_blk \in Nat
      BY <2>1, <1>a, <1>b DEF RunStart
    <3>3. \A s \in Slots : master'[s] = master[s]
      BY <2>1, <3>1, <3>2, <1>a, PwriteElsewhere
    <3> QED  BY <3>1, <3>3, <1>a DEF SizeOK, Written
  <2> QED  BY <2>3, <2>4
<1>3. CASE msize' = msize /\ ~FlushRun(t) /\ ~FlushFail(t)
  <2>1. master' = master
    BY <1>3, SessionSteps, MasterKept
  <2> QED  BY <1>3, <2>1, <1>a DEF SizeOK, Written
<1> QED  BY <1>1, <1>2, <1>3, SessionSize

-----------------------------------------------------------------------------
(* What is on disk, and the values array behind it *)

SavedInfo == {r \in Info : r.hash \in Hashes}
SavedEntry == [pos : Nat, was : Info]
Disk == [infos : Seq(SavedInfo), hash : [Hashes -> SavedEntry \cup {NULL}],
         file : [Key -> SavedEntry \cup {NULL}],
         sizes : [Paths -> (0 .. MaxBlocks) \cup {NULL}], free : Seq(Slots)]

\* While the pair of indexed tables is written the values array lists every
\* MasterInfo that a table knows, once.
SavingPair == {"open2", "infos", "hash", "file"}
Known(p) == /\ p # NULL
            /\ (\E h \in Hashes : hash_to_master[h] = p) \/ (\E x \in Key : file_to_master[x] = p)
Lists(q) == /\ q \in Seq(Infos)
            /\ \A p : Known(p) <=> \E i \in DOMAIN q : q[i] = p
            /\ \A i, j \in DOMAIN q : q[i] = q[j] => i = j
ValuesOK == phase \in SavingPair => Lists(values)

\* Every enumeration of a finite set names each member once.
LEMMA OrderFacts ==
    ASSUME NEW S, IsFiniteSet(S), NEW q \in Orders(S)
    PROVE  /\ q \in Seq(S) /\ DOMAIN q = 1 .. Cardinality(S) /\ Cardinality(S) \in Nat
           /\ \A p : p \in S <=> \E i \in DOMAIN q : q[i] = p
           /\ \A i, j \in DOMAIN q : q[i] = q[j] => i = j
<1>n. PICK n : n = Cardinality(S)
  OBVIOUS
<1>1. n \in Nat
  BY <1>n, FS_CardinalityType
<1>2. q \in [1 .. n -> S] /\ \A p \in S : \E i \in DOMAIN q : q[i] = p
  BY <1>n DEF Orders
<1>3. q \in Surjection(1 .. n, S)
  BY <1>2 DEF Surjection
<1>4. IsFiniteSet(1 .. n) /\ Cardinality(1 .. n) = n
  BY <1>1, FS_Interval
<1>5. q \in Injection(1 .. n, S)
  BY <1>3, <1>4, <1>n, FS_SurjSameCardinalityImpliesInj
<1>6. \A i, j \in 1 .. n : q[i] = q[j] => i = j
  BY <1>5 DEF Injection, IsInjective
<1>7. q \in Seq(S)
  BY <1>1, <1>2
<1> QED  BY <1>1, <1>2, <1>6, <1>7, <1>n

\* collect_value_index over both tables.
LEMMA CollectedFacts ==
    ASSUME TypeInv, Collect, NEW q, q = values'
    PROVE  Lists(q)
<1> DEFINE first == {hash_to_master[h] : h \in Hashes} \ {NULL}
           more  == {file_to_master[x] : x \in Key} \ (first \cup {NULL})
<1>1. first \subseteq Infos /\ more \subseteq Infos
  BY DEF TypeInv, TypeOK, IndexType
<1>2. IsFiniteSet(first) /\ IsFiniteSet(more)
  BY <1>1, MountAssumption, FS_Subset
<1>3. \E a \in Orders(first), b \in Orders(more) : q = a \o b
  BY DEF Collect
<1>4. \A p : p \in first \cup more <=> Known(p)
  BY DEF Known
<1>5. first \cap more = {}
  OBVIOUS
<1> HIDE DEF first, more
<1>q. PICK a \in Orders(first), b \in Orders(more) : q = a \o b
  BY <1>3
<1>6. /\ a \in Seq(first)
      /\ \A p : p \in first <=> \E i \in DOMAIN a : a[i] = p
      /\ \A i, j \in DOMAIN a : a[i] = a[j] => i = j
  BY <1>2, OrderFacts
<1>7. /\ b \in Seq(more)
      /\ \A p : p \in more <=> \E i \in DOMAIN b : b[i] = p
      /\ \A i, j \in DOMAIN b : b[i] = b[j] => i = j
  BY <1>2, OrderFacts
<1>8. a \in Seq(Infos) /\ b \in Seq(Infos)
  BY <1>1, <1>6, <1>7
<1>9. /\ q \in Seq(Infos) /\ Len(q) = Len(a) + Len(b)
      /\ \A i \in 1 .. Len(a) + Len(b) : q[i] = IF i <= Len(a) THEN a[i] ELSE b[i - Len(a)]
  BY <1>q, <1>8, ConcatProperties
<1>10. /\ Len(a) \in Nat /\ Len(b) \in Nat /\ DOMAIN q = 1 .. Len(a) + Len(b)
       /\ DOMAIN a = 1 .. Len(a) /\ DOMAIN b = 1 .. Len(b)
  BY <1>8, <1>9
<1>11. ASSUME NEW i \in DOMAIN q
       PROVE  \/ i \in DOMAIN a /\ q[i] = a[i] /\ q[i] \in first
              \/ i - Len(a) \in DOMAIN b /\ q[i] = b[i - Len(a)] /\ q[i] \in more
  BY <1>6, <1>7, <1>9, <1>10
<1>12. ASSUME NEW i \in DOMAIN a PROVE i \in DOMAIN q /\ q[i] = a[i]
  BY <1>9, <1>10
<1>13. ASSUME NEW i \in DOMAIN b PROVE Len(a) + i \in DOMAIN q /\ q[Len(a) + i] = b[i]
  BY <1>9, <1>10
<1>14. \A p : Known(p) <=> \E i \in DOMAIN q : q[i] = p
  BY <1>4, <1>6, <1>7, <1>11, <1>12, <1>13
<1>15. ASSUME NEW i \in DOMAIN q, NEW j \in DOMAIN q, q[i] = q[j] PROVE i = j
  <2>1. i \in Int /\ j \in Int
    BY <1>10
  <2> QED  BY <1>5, <1>6, <1>7, <1>10, <1>11, <1>15, <2>1
<1> QED  BY <1>9, <1>14, <1>15 DEF Lists

\* The position of a known MasterInfo names it.
LEMMA PosFacts ==
    ASSUME Lists(values), NEW p, Known(p)
    PROVE  PosOf(p) \in DOMAIN values /\ values[PosOf(p)] = p
<1>1. \E i \in DOMAIN values : values[i] = p
  BY DEF Lists
<1> QED  BY <1>1 DEF PosOf

\* The infos file holds records with a digest: a table knows each of them.
LEMMA InfosFileType ==
    ASSUME TypeInv, Lists(values)
    PROVE  /\ InfosFile \in Seq(SavedInfo) /\ DOMAIN InfosFile = DOMAIN values
           /\ \A i \in DOMAIN values : InfosFile[i] = info[values[i]]
<1>1. values \in Seq(Infos) /\ DOMAIN values = 1 .. Len(values) /\ Len(values) \in Nat
  BY DEF Lists
<1>2. ASSUME NEW i \in DOMAIN values PROVE info[values[i]] \in SavedInfo
  <2>1. values[i] \in Infos /\ Known(values[i])
    BY <1>1 DEF Lists
  <2>2. info[values[i]].hash \in Hashes
    BY <2>1 DEF Known, TypeInv, PublishedOK, MappedOK
  <2> QED  BY <2>1, <2>2 DEF SavedInfo, TypeInv, TypeOK, HeapType
<1>3. InfosFile \in [1 .. Len(values) -> SavedInfo]
  BY <1>1, <1>2 DEF InfosFile
<1> QED  BY <1>1, <1>3 DEF InfosFile

\* An entry of an indexed table names the MasterInfo that its key maps to.
GoodEntry(e) == /\ e \in SavedEntry /\ e.pos \in DOMAIN values
                /\ e.was = info[values[e.pos]]

LEMMA IndexedFacts ==
    ASSUME TypeInv, Lists(values), NEW S, NEW table \in [S -> Infos \cup {NULL}],
           \A x \in S : table[x] # NULL => Known(table[x])
    PROVE  /\ Indexed(table) \in [S -> SavedEntry \cup {NULL}]
           /\ \A x \in S : IF table[x] = NULL THEN Indexed(table)[x] = NULL
                           ELSE /\ GoodEntry(Indexed(table)[x])
                                /\ values[Indexed(table)[x].pos] = table[x]
                                /\ Indexed(table)[x] # NULL
<1>1. values \in Seq(Infos) /\ DOMAIN values \subseteq Nat
  BY DEF Lists
<1>2. ASSUME NEW x \in S, table[x] # NULL
      PROVE  /\ EntryOf(PosOf(table[x]), table[x]) \in SavedEntry
             /\ PosOf(table[x]) \in DOMAIN values /\ values[PosOf(table[x])] = table[x]
  <2>1. PosOf(table[x]) \in DOMAIN values /\ values[PosOf(table[x])] = table[x]
    BY <1>2, PosFacts
  <2>2. info[table[x]] \in Info /\ PosOf(table[x]) \in Nat
    BY <1>1, <1>2, <2>1 DEF TypeInv, TypeOK, HeapType
  <2> QED  BY <2>1, <2>2 DEF EntryOf, SavedEntry
<1>3. DOMAIN table = S
  OBVIOUS
<1>4. NULL \notin SavedEntry
  BY MountAssumption DEF SavedEntry
<1>5. \A x \in S : Indexed(table)[x] = IF table[x] = NULL THEN NULL
                                       ELSE EntryOf(PosOf(table[x]), table[x])
  BY <1>3 DEF Indexed
<1>6. Indexed(table) \in [S -> SavedEntry \cup {NULL}]
  BY <1>2, <1>3 DEF Indexed
<1>7. ASSUME NEW x \in S, table[x] # NULL
      PROVE  /\ GoodEntry(Indexed(table)[x]) /\ values[Indexed(table)[x].pos] = table[x]
             /\ Indexed(table)[x] # NULL
  <2>e. PICK e : e = Indexed(table)[x]
    OBVIOUS
  <2>1. e = EntryOf(PosOf(table[x]), table[x]) /\ e \in SavedEntry
    BY <2>e, <1>2, <1>5, <1>7
  <2>2. e.pos = PosOf(table[x]) /\ e.was = info[table[x]]
    BY <2>1 DEF EntryOf
  <2>3. e.pos \in DOMAIN values /\ values[e.pos] = table[x]
    BY <1>2, <1>7, <2>2
  <2>4. GoodEntry(e)
    BY <2>1, <2>2, <2>3 DEF GoodEntry
  <2> QED  BY <2>e, <2>1, <2>3, <2>4, <1>4
<1> QED  BY <1>5, <1>6, <1>7

LEMMA TablesKnown ==
    ASSUME TypeInv
    PROVE  /\ hash_to_master \in [Hashes -> Infos \cup {NULL}]
           /\ file_to_master \in [Key -> Infos \cup {NULL}]
           /\ \A h \in Hashes : hash_to_master[h] # NULL => Known(hash_to_master[h])
           /\ \A x \in Key : file_to_master[x] # NULL => Known(file_to_master[x])
BY DEF TypeInv, TypeOK, IndexType, Known

\* What a stopped write leaves of a list, and of a table.
LEMMA PrefixFacts ==
    ASSUME NEW S, NEW s \in Seq(S), NEW q \in Prefixes(s)
    PROVE  /\ q \in Seq(S) /\ DOMAIN q \subseteq DOMAIN s
           /\ \A i \in DOMAIN q : q[i] = s[i]
<1>1. PICK n \in 0 .. Len(s) : q = SubSeq(s, 1, n)
  BY DEF Prefixes
<1>2. /\ Len(s) \in Nat /\ n \in Int /\ 0 <= n /\ n <= Len(s) /\ DOMAIN s = 1 .. Len(s)
      /\ \A i \in 1 .. n : s[i] \in S
  OBVIOUS
<1>3. /\ q \in Seq(S) /\ Len(q) = IF 1 <= n THEN n - 1 + 1 ELSE 0
      /\ \A i \in 1 .. n - 1 + 1 : q[i] = s[1 + i - 1]
  BY <1>1, <1>2, SubSeqProperties
<1>4. DOMAIN q = 1 .. n
  BY <1>2, <1>3
<1>5. ASSUME NEW i \in 1 .. n PROVE q[i] = s[i]
  BY SMTT(30), <1>2, <1>3
<1> QED  BY <1>2, <1>3, <1>4, <1>5

LEMMA FullPrefix ==
    ASSUME NEW S, NEW s \in Seq(S)
    PROVE  s \in Prefixes(s)
<1>1. SubSeq(s, 1, Len(s)) = s /\ Len(s) \in 0 .. Len(s)
  BY SubSeqFull
<1> QED  BY <1>1 DEF Prefixes

LEMMA PartFacts ==
    ASSUME NEW S, NEW T, NEW table \in [S -> T \cup {NULL}], NEW f \in Parts(table)
    PROVE  /\ f \in [S -> T \cup {NULL}]
           /\ \A x \in S : f[x] # NULL => f[x] = table[x]
BY DEF Parts, Part

-----------------------------------------------------------------------------
(* Types over mounts *)

\* What a step of the save, or a crash in it, may leave on disk.
Leaves(d) ==
    /\ d \in Disk
    /\ d.infos = disk.infos \/ (phase = "infos" /\ d.infos \in Prefixes(InfosFile))
    /\ \A h \in Hashes : \/ d.hash[h] \in {disk.hash[h], NULL}
                         \/ phase = "hash" /\ GoodEntry(d.hash[h])
    /\ \A x \in Key : \/ d.file[x] \in {disk.file[x], NULL}
                      \/ phase = "file" /\ GoodEntry(d.file[x])

LEMMA DiskFields ==
    ASSUME disk \in Disk
    PROVE  /\ \A q \in Seq(SavedInfo) : LET d == [disk EXCEPT !.infos = q] IN
                d \in Disk /\ d.infos = q /\ d.hash = disk.hash /\ d.file = disk.file
           /\ \A f \in [Hashes -> SavedEntry \cup {NULL}] :
                LET d == [disk EXCEPT !.hash = f] IN
                d \in Disk /\ d.infos = disk.infos /\ d.hash = f /\ d.file = disk.file
           /\ \A f \in [Key -> SavedEntry \cup {NULL}] :
                LET d == [disk EXCEPT !.file = f] IN
                d \in Disk /\ d.infos = disk.infos /\ d.hash = disk.hash /\ d.file = f
           /\ \A f \in [Paths -> (0 .. MaxBlocks) \cup {NULL}] :
                LET d == [disk EXCEPT !.sizes = f] IN
                d \in Disk /\ d.infos = disk.infos /\ d.hash = disk.hash /\ d.file = disk.file
           /\ \A q \in Seq(Slots) : LET d == [disk EXCEPT !.free = q] IN
                d \in Disk /\ d.infos = disk.infos /\ d.hash = disk.hash /\ d.file = disk.file
<1>1. ASSUME NEW q \in Seq(SavedInfo)
      PROVE  LET d == [disk EXCEPT !.infos = q] IN
                d \in Disk /\ d.infos = q /\ d.hash = disk.hash /\ d.file = disk.file
  BY DEF Disk
<1>2. ASSUME NEW f \in [Hashes -> SavedEntry \cup {NULL}]
      PROVE  LET d == [disk EXCEPT !.hash = f] IN
                d \in Disk /\ d.infos = disk.infos /\ d.hash = f /\ d.file = disk.file
  BY DEF Disk
<1>3. ASSUME NEW f \in [Key -> SavedEntry \cup {NULL}]
      PROVE  LET d == [disk EXCEPT !.file = f] IN
                d \in Disk /\ d.infos = disk.infos /\ d.hash = disk.hash /\ d.file = f
  BY DEF Disk
<1>4. ASSUME NEW f \in [Paths -> (0 .. MaxBlocks) \cup {NULL}]
      PROVE  LET d == [disk EXCEPT !.sizes = f] IN
                d \in Disk /\ d.infos = disk.infos /\ d.hash = disk.hash /\ d.file = disk.file
  BY DEF Disk
<1>5. ASSUME NEW q \in Seq(Slots)
      PROVE  LET d == [disk EXCEPT !.free = q] IN
                d \in Disk /\ d.infos = disk.infos /\ d.hash = disk.hash /\ d.file = disk.file
  BY DEF Disk
<1> QED  BY <1>1, <1>2, <1>3, <1>4, <1>5

\* The complete files, and every part of one that is left behind.
LEMMA LeavesFull ==
    ASSUME TypeInv, disk \in Disk, ValuesOK
    PROVE  /\ phase = "infos" => Leaves([disk EXCEPT !.infos = InfosFile])
           /\ phase = "hash" => Leaves([disk EXCEPT !.hash = HashFile])
           /\ phase = "file" => Leaves([disk EXCEPT !.file = FileFile])
           /\ phase = "sizes" => Leaves([disk EXCEPT !.sizes = file_to_sizes])
           /\ phase = "free" => Leaves([disk EXCEPT !.free = free_block_list])
           /\ Leaves(disk)
<1>1. ASSUME phase = "infos" PROVE Leaves([disk EXCEPT !.infos = InfosFile])
  <2>1. InfosFile \in Seq(SavedInfo) /\ InfosFile \in Prefixes(InfosFile)
    BY <1>1, InfosFileType, FullPrefix DEF ValuesOK, SavingPair
  <2> QED  BY <1>1, <2>1, DiskFields DEF Leaves
<1>2. ASSUME phase = "hash" PROVE Leaves([disk EXCEPT !.hash = HashFile])
  <2>1. /\ HashFile \in [Hashes -> SavedEntry \cup {NULL}]
        /\ \A h \in Hashes : HashFile[h] = NULL \/ GoodEntry(HashFile[h])
    BY <1>2, IndexedFacts, TablesKnown DEF ValuesOK, SavingPair, HashFile
  <2> QED  BY <1>2, <2>1, DiskFields DEF Leaves
<1>3. ASSUME phase = "file" PROVE Leaves([disk EXCEPT !.file = FileFile])
  <2>1. /\ FileFile \in [Key -> SavedEntry \cup {NULL}]
        /\ \A x \in Key : FileFile[x] = NULL \/ GoodEntry(FileFile[x])
    BY <1>3, IndexedFacts, TablesKnown DEF ValuesOK, SavingPair, FileFile
  <2> QED  BY <1>3, <2>1, DiskFields DEF Leaves
<1>4. Leaves([disk EXCEPT !.sizes = file_to_sizes])
  BY DiskFields DEF Leaves, TypeInv, TypeOK, IndexType
<1>5. Leaves([disk EXCEPT !.free = free_block_list])
  BY DiskFields DEF Leaves, TypeInv, TypeOK, AllocType
<1>6. Leaves(disk)
  BY DEF Leaves
<1> QED  BY <1>1, <1>2, <1>3, <1>4, <1>5, <1>6

LEMMA LeavesStopped ==
    ASSUME TypeInv, disk \in Disk, ValuesOK, NEW d \in Stopped
    PROVE  Leaves(d)
<1>1. CASE phase = "infos"
  <2>1. PICK q \in Prefixes(InfosFile) : d = [disk EXCEPT !.infos = q]
    BY <1>1 DEF Stopped
  <2>2. q \in Seq(SavedInfo)
    BY <1>1, InfosFileType, PrefixFacts DEF ValuesOK, SavingPair
  <2> QED  BY <1>1, <2>1, <2>2, DiskFields DEF Leaves
<1>2. CASE phase = "hash"
  <2>1. PICK f \in Parts(HashFile) : d = [disk EXCEPT !.hash = f]
    BY <1>2 DEF Stopped
  <2>2. /\ HashFile \in [Hashes -> SavedEntry \cup {NULL}]
        /\ \A h \in Hashes : HashFile[h] = NULL \/ GoodEntry(HashFile[h])
    BY <1>2, IndexedFacts, TablesKnown DEF ValuesOK, SavingPair, HashFile
  <2>3. /\ f \in [Hashes -> SavedEntry \cup {NULL}]
        /\ \A h \in Hashes : f[h] = NULL \/ GoodEntry(f[h])
    BY <2>2, PartFacts
  <2> QED  BY <1>2, <2>1, <2>3, DiskFields DEF Leaves
<1>3. CASE phase = "file"
  <2>1. PICK f \in Parts(FileFile) : d = [disk EXCEPT !.file = f]
    BY <1>3 DEF Stopped
  <2>2. /\ FileFile \in [Key -> SavedEntry \cup {NULL}]
        /\ \A x \in Key : FileFile[x] = NULL \/ GoodEntry(FileFile[x])
    BY <1>3, IndexedFacts, TablesKnown DEF ValuesOK, SavingPair, FileFile
  <2>3. /\ f \in [Key -> SavedEntry \cup {NULL}]
        /\ \A x \in Key : f[x] = NULL \/ GoodEntry(f[x])
    BY <2>2, PartFacts
  <2> QED  BY <1>3, <2>1, <2>3, DiskFields DEF Leaves
<1>4. CASE phase = "sizes"
  <2>1. PICK f \in Parts(file_to_sizes) : d = [disk EXCEPT !.sizes = f]
    BY <1>4 DEF Stopped
  <2>2. f \in [Paths -> (0 .. MaxBlocks) \cup {NULL}]
    BY PartFacts DEF TypeInv, TypeOK, IndexType
  <2> QED  BY <2>1, <2>2, DiskFields DEF Leaves
<1>5. CASE phase = "free"
  <2>1. PICK q \in Prefixes(free_block_list) : d = [disk EXCEPT !.free = q]
    BY <1>5 DEF Stopped
  <2>2. q \in Seq(Slots)
    BY PrefixFacts DEF TypeInv, TypeOK, AllocType
  <2> QED  BY <2>1, <2>2, DiskFields DEF Leaves
<1>6. CASE phase \notin {"infos", "hash", "file", "sizes", "free"}
  BY <1>6, LeavesFull DEF Stopped
<1> QED  BY <1>1, <1>2, <1>3, <1>4, <1>5, <1>6

\* No handler is running and nothing is left of one.
NoFrames ==
    /\ readers = {} /\ writer = NULL /\ freelist_mutex = NULL
    /\ pc = [t \in Threads |-> "idle"] /\ req = [t \in Threads |-> NULL]
    /\ k = [t \in Threads |-> 0] /\ lim = [t \in Threads |-> 0]
    /\ plan = [t \in Threads |-> NoPlan] /\ rel = [t \in Threads |-> <<>>]
    /\ rd = [t \in Threads |-> NoPairs]

MountInv ==
    /\ TypeInv /\ SizeOK /\ disk \in Disk /\ ValuesOK
    /\ phase \in Phases /\ mounts \in 0 .. MaxMounts
    /\ phase = "down" => NoFrames

\* Frames of handlers that returned, or never ran, are in order.
LEMMA NoFramesType ==
    NoFrames => LockType /\ ControlType /\ WorkType /\ FramesOK /\ PlansOK
<1> SUFFICES ASSUME NoFrames PROVE LockType /\ ControlType /\ WorkType /\ FramesOK /\ PlansOK
  OBVIOUS
<1> USE NullAssumption, BoundsAssumption DEF NoFrames
<1>1. LockType /\ ControlType
  BY DEF LockType, ControlType, PCs
<1>2. WorkType
  BY DEF WorkType, NoPlan, NoPairs, NoEntry, NoPair, PlanEntry, Pair
<1>3. FramesOK
  BY DEF FramesOK, FrameOK, WritePCs
<1>4. PlansOK
  BY DEF PlansOK, PlanOK, NoPlan, NoEntry
<1> QED  BY <1>1, <1>2, <1>3, <1>4

LEMMA ForgetType ==
    ASSUME TypeInv, Forget
    PROVE  TypeInv' /\ NoFrames' /\ phase' = "down" /\ UNCHANGED <<master, msize, mounts>>
<1>1. NoFrames' /\ phase' = "down" /\ UNCHANGED <<master, msize, mounts>>
  BY DEF Forget, NoFrames
<1>2. (LockType /\ ControlType /\ WorkType /\ FramesOK /\ PlansOK)'
  BY <1>1, NoFramesType, PTL
<1>3. IndexType' /\ AllocType' /\ PublishedOK' /\ MappedOK'
  BY BoundsAssumption DEF Forget, IndexType, AllocType, PublishedOK, MappedOK, NoTable
<1>4. HeapType'
  BY NullAssumption, BoundsAssumption DEF Forget, HeapType, Info, NoInfo, Slots
<1>5. DiskType' /\ OuterType'
  BY DEF Forget, TypeInv, TypeOK, DiskType, OuterType
<1> QED  BY <1>1, <1>2, <1>3, <1>4, <1>5 DEF TypeInv, TypeOK

\* What a load puts into memory: record i of the infos file at address adr[i].
LEMMA LoadFacts ==
    ASSUME disk \in Disk, Load
    PROVE  \E adr \in [DOMAIN disk.infos -> Infos] :
             /\ \A i, j \in DOMAIN adr : adr[i] = adr[j] => i = j
             /\ heap' = {adr[i] : i \in DOMAIN adr} /\ heap' \subseteq Infos
             /\ info' \in [Infos -> Info]
             /\ \A i \in DOMAIN adr : info'[adr[i]] = disk.infos[i]
             /\ \A h \in Hashes : hash_to_master'[h] = Resolve(disk.hash[h], adr)
             /\ \A x \in Key : file_to_master'[x] = Resolve(disk.file[x], adr)
             /\ hash_to_master' \in [Hashes -> heap' \cup {NULL}]
             /\ file_to_master' \in [Key -> heap' \cup {NULL}]
<1>1. PICK adr \in [DOMAIN disk.infos -> Infos] :
         /\ \A i, j \in DOMAIN adr : adr[i] = adr[j] => i = j
         /\ heap' = {adr[i] : i \in DOMAIN adr}
         /\ info' = [p \in Infos |->
                IF p \in heap' THEN LoadedInfo(disk.infos[CHOOSE i \in DOMAIN adr : adr[i] = p])
                ELSE NoInfo]
         /\ hash_to_master' = [h \in Hashes |-> Resolve(disk.hash[h], adr)]
         /\ file_to_master' = [x \in Key |-> Resolve(disk.file[x], adr)]
  BY DEF Load
<1>2. heap' \subseteq Infos
  BY <1>1
<1>3. ASSUME NEW p \in heap'
      PROVE  \E i \in DOMAIN adr : adr[i] = p /\ info'[p] = disk.infos[i]
  <2>1. \E i \in DOMAIN adr : adr[i] = p
    BY <1>1
  <2>2. PICK i : i = CHOOSE j \in DOMAIN adr : adr[j] = p
    OBVIOUS
  <2>3. i \in DOMAIN adr /\ adr[i] = p
    BY <2>1, <2>2
  <2>4. info'[p] = disk.infos[i]
    BY <1>1, <1>2, <2>2 DEF LoadedInfo
  <2> QED  BY <2>3, <2>4
<1>4. ASSUME NEW i \in DOMAIN adr PROVE info'[adr[i]] = disk.infos[i]
  <2>1. adr[i] \in heap'
    BY <1>1
  <2> QED  BY <1>1, <1>3, <2>1
<1>5. \A i \in DOMAIN disk.infos : disk.infos[i] \in Info
  BY DEF Disk, SavedInfo
<1>6. NoInfo \in Info
  BY NullAssumption, BoundsAssumption DEF Info, NoInfo, Slots
<1>7. info' \in [Infos -> Info]
  <2>1. \A p \in Infos : info'[p] \in Info
    BY <1>1, <1>3, <1>5, <1>6
  <2> QED  BY <1>1, <2>1
<1>8. \A e : Resolve(e, adr) \in heap' \cup {NULL}
  BY <1>1 DEF Resolve
<1> QED  BY <1>1, <1>2, <1>4, <1>7, <1>8

LEMMA LoadType ==
    ASSUME MountInv, Load
    PROVE  TypeInv' /\ NoFrames'
<1>a. disk \in Disk /\ TypeInv /\ NoFrames
  BY DEF MountInv, Load
<1>1. NoFrames'
  BY <1>a DEF Load, NoFrames, lockVars, frameVars
<1>2. (LockType /\ ControlType /\ WorkType /\ FramesOK /\ PlansOK)'
  BY <1>1, NoFramesType, PTL
<1>3. PICK adr \in [DOMAIN disk.infos -> Infos] :
             /\ heap' = {adr[i] : i \in DOMAIN adr} /\ heap' \subseteq Infos
             /\ info' \in [Infos -> Info]
             /\ \A i \in DOMAIN adr : info'[adr[i]] = disk.infos[i]
             /\ hash_to_master' \in [Hashes -> heap' \cup {NULL}]
             /\ file_to_master' \in [Key -> heap' \cup {NULL}]
  BY <1>a, LoadFacts
<1>4. /\ file_to_sizes' = disk.sizes /\ free_block_list' = disk.free /\ nextBlockIndex' = msize
      /\ UNCHANGED <<master, names, accepted>>
  BY DEF Load, LoadedFree, AppendAt, outerVars
<1>5. HeapType'
  BY <1>3 DEF HeapType
<1>6. IndexType'
  BY <1>3, <1>4, <1>a DEF IndexType, Disk
<1>7. AllocType'
  BY <1>4, <1>a DEF AllocType, Disk, MountInv, SizeOK
<1>8. DiskType' /\ OuterType'
  BY <1>4, <1>a DEF TypeInv, TypeOK, DiskType, OuterType
<1>9. \A p \in heap' : info'[p].hash \in Hashes
  <2>1. \A i \in DOMAIN disk.infos : disk.infos[i].hash \in Hashes
    BY <1>a DEF Disk, SavedInfo
  <2> QED  BY <1>3, <2>1
<1>10. PublishedOK' /\ MappedOK'
  BY <1>3, <1>9 DEF PublishedOK, MappedOK
<1> QED  BY <1>1, <1>2, <1>5, <1>6, <1>7, <1>8, <1>10 DEF TypeInv, TypeOK

\* The steps of a save but the last leave memory and master file alone.
Saves == \/ Unmount \/ OpenSecond \/ SaveInfos \/ SaveHash \/ SaveFile \/ SaveSizes

LEMMA SavesFacts ==
    ASSUME MountInv, Saves
    PROVE  /\ UNCHANGED <<vars, msize, mounts, damaged>> /\ Leaves(disk')
           /\ phase' \in Phases \ {"down", "mounted"} /\ ValuesOK'
           /\ phase # "mounted" => UNCHANGED <<values, shown>>
<1>a. TypeInv /\ disk \in Disk /\ ValuesOK
  BY DEF MountInv
<1>b. ASSUME NEW now, NEW full, Save(now, full), Leaves(full) PROVE Leaves(disk')
  BY <1>a, <1>b, LeavesFull, LeavesStopped DEF Save
<1>c. ASSUME NEW next, Then(next), next \in SavingPair => phase \in SavingPair PROVE ValuesOK'
  <2>1. next \in SavingPair => Lists(values)
    BY <1>a, <1>c DEF ValuesOK
  <2>2. /\ values' = values /\ phase' = next
        /\ hash_to_master' = hash_to_master /\ file_to_master' = file_to_master
    BY <1>c DEF Then, vars, dataVars, indexVars
  <2> QED  BY <2>1, <2>2 DEF ValuesOK, Lists, Known
<1>1. CASE Unmount
  <2>1. UNCHANGED <<vars, msize, mounts, damaged>> /\ phase = "mounted"
    BY <1>1 DEF Unmount
  <2>2. disk' = disk \/ disk' = [disk EXCEPT !.hash = NoTable(Hashes)]
    BY <1>1 DEF Unmount
  <2>3. Leaves([disk EXCEPT !.hash = NoTable(Hashes)])
    <3>1. /\ NoTable(Hashes) \in [Hashes -> SavedEntry \cup {NULL}]
          /\ \A h \in Hashes : NoTable(Hashes)[h] = NULL
      BY DEF NoTable
    <3> QED  BY <1>a, <3>1, DiskFields DEF Leaves
  <2>4. Leaves(disk')
    BY <1>a, <2>2, <2>3, LeavesFull
  <2>5. Lists(values')
    BY <1>1, <1>a, CollectedFacts DEF Unmount
  <2>6. hash_to_master' = hash_to_master /\ file_to_master' = file_to_master
    BY <2>1 DEF vars, dataVars, indexVars
  <2>7. ValuesOK'
    BY <2>5, <2>6 DEF ValuesOK, Lists, Known
  <2> QED  BY <1>1, <2>1, <2>4, <2>7 DEF Unmount, Phases
<1>2. CASE OpenSecond
  <2>1. phase = "open2" /\ (Then("infos") \/ Then("sizes"))
        /\ (disk' = disk \/ disk' = [disk EXCEPT !.file = NoTable(Key)])
    BY <1>2 DEF OpenSecond
  <2>2. Leaves([disk EXCEPT !.file = NoTable(Key)])
    <3>1. /\ NoTable(Key) \in [Key -> SavedEntry \cup {NULL}]
          /\ \A x \in Key : NoTable(Key)[x] = NULL
      BY DEF NoTable
    <3> QED  BY <1>a, <3>1, DiskFields DEF Leaves
  <2>3. Leaves(disk')
    BY <1>a, <2>1, <2>2, LeavesFull
  <2>4. ValuesOK'
    BY <2>1, <1>c DEF SavingPair
  <2> QED  BY <2>1, <2>3, <2>4 DEF Then, Phases
<1>3. CASE SaveInfos
  <2>1. Leaves(disk')
    BY <1>3, <1>a, <1>b, LeavesFull DEF SaveInfos, Save
  <2>2. Then("hash") /\ phase = "infos"
    BY <1>3 DEF SaveInfos, Save
  <2> QED  BY <2>1, <2>2, <1>c DEF Then, Phases, SavingPair
<1>4. CASE SaveHash
  <2>1. Leaves(disk')
    BY <1>4, <1>a, <1>b, LeavesFull DEF SaveHash, Save
  <2>2. Then("file") /\ phase = "hash"
    BY <1>4 DEF SaveHash, Save
  <2> QED  BY <2>1, <2>2, <1>c DEF Then, Phases, SavingPair
<1>5. CASE SaveFile
  <2>1. Leaves(disk')
    BY <1>5, <1>a, <1>b, LeavesFull DEF SaveFile, Save
  <2>2. Then("sizes") /\ phase = "file"
    BY <1>5 DEF SaveFile, Save
  <2> QED  BY <2>1, <2>2, <1>c DEF Then, Phases, SavingPair
<1>6. CASE SaveSizes
  <2>1. Leaves(disk')
    BY <1>6, <1>a, <1>b, LeavesFull DEF SaveSizes, Save
  <2>2. Then("free") /\ phase = "sizes"
    BY <1>6 DEF SaveSizes, Save
  <2> QED  BY <2>1, <2>2, <1>c DEF Then, Phases, SavingPair
<1> QED  BY <1>1, <1>2, <1>3, <1>4, <1>5, <1>6 DEF Saves

\* The process ends, after its last write or in the middle of anything.
LEMMA EndFacts ==
    ASSUME MountInv, SaveFree \/ Crash
    PROVE  Forget /\ Leaves(disk') /\ phase # "down"
<1>a. TypeInv /\ disk \in Disk /\ ValuesOK
  BY DEF MountInv
<1>1. CASE SaveFree
  BY <1>1, <1>a, LeavesFull, LeavesStopped DEF SaveFree, Save
<1>2. CASE Crash
  BY <1>2, <1>a, LeavesStopped DEF Crash
<1> QED  BY <1>1, <1>2

LEMMA MountInvInit == MountInit => MountInv
<1> SUFFICES ASSUME MountInit PROVE MountInv
  OBVIOUS
<1>1. TypeInv
  BY InitFresh, TypeInvInit DEF MountInit
<1>2. SizeOK
  BY BoundsAssumption DEF MountInit, Init, FreshInit, SizeOK, Written
<1>3. disk \in Disk
  BY DEF MountInit, Disk, NoTable
<1>4. ValuesOK /\ phase \in Phases /\ phase # "down"
  BY DEF MountInit, ValuesOK, SavingPair, Phases
<1>5. mounts \in 0 .. MaxMounts
  BY MountAssumption DEF MountInit
<1> QED  BY <1>1, <1>2, <1>3, <1>4, <1>5 DEF MountInv

LEMMA MountInvStep ==
    ASSUME MountInv, [MountNext]_allVars
    PROVE  MountInv'
<1>a. /\ TypeInv /\ SizeOK /\ disk \in Disk /\ ValuesOK /\ phase \in Phases
      /\ mounts \in 0 .. MaxMounts
  BY DEF MountInv
<1>s. ASSUME UNCHANGED <<master, msize>> PROVE SizeOK'
  BY <1>a, <1>s DEF SizeOK, Written
<1>1. ASSUME NEW t \in Threads, Session(t) PROVE MountInv'
  <2>1. phase = "mounted" /\ UNCHANGED mountVars /\ Next
    BY <1>1, SessionSteps
  <2>2. TypeInv'
    BY <1>a, <2>1, TypeInvStep
  <2>3. SizeOK'
    BY <1>a, <1>1, SizeStep
  <2>4. ValuesOK'
    BY <2>1 DEF ValuesOK, SavingPair, mountVars
  <2> QED  BY <1>a, <2>1, <2>2, <2>3, <2>4 DEF MountInv, mountVars
<1>2. CASE Saves
  <2>1. /\ UNCHANGED <<vars, msize, mounts>> /\ Leaves(disk')
        /\ phase' \in Phases \ {"down", "mounted"} /\ ValuesOK'
    BY <1>2, SavesFacts
  <2>2. TypeInv'
    BY <1>a, <2>1, TypeInvStep
  <2>3. SizeOK'
    BY <1>s, <2>1 DEF vars, dataVars
  <2> QED  BY <1>a, <2>1, <2>2, <2>3 DEF MountInv, Leaves
<1>3. CASE SaveFree \/ Crash
  <2>1. Forget /\ Leaves(disk')
    BY <1>3, EndFacts
  <2>2. TypeInv' /\ NoFrames' /\ phase' = "down" /\ UNCHANGED <<master, msize, mounts>>
    BY <1>a, <2>1, ForgetType
  <2>3. SizeOK' /\ ValuesOK'
    BY <1>s, <2>2 DEF ValuesOK, SavingPair
  <2> QED  BY <1>a, <2>1, <2>2, <2>3 DEF MountInv, Leaves, Phases
<1>4. CASE Load
  <2>1. TypeInv' /\ NoFrames'
    BY <1>4, LoadType
  <2>2. /\ UNCHANGED <<master, msize, disk>> /\ phase' = "mounted" /\ mounts' = mounts + 1
        /\ mounts < MaxMounts
    BY <1>4 DEF Load
  <2>3. mounts' \in 0 .. MaxMounts
    BY <1>a, <2>2, MountAssumption
  <2>4. SizeOK' /\ ValuesOK'
    BY <1>s, <2>2 DEF ValuesOK, SavingPair
  <2> QED  BY <1>a, <2>1, <2>2, <2>3, <2>4 DEF MountInv, Phases
<1>5. CASE UNCHANGED allVars
  <2>1. UNCHANGED vars /\ UNCHANGED <<msize, disk, phase, values, mounts>>
    BY <1>5 DEF allVars, mountVars
  <2>2. TypeInv'
    BY <1>a, <2>1, TypeInvStep
  <2>3. SizeOK'
    BY <1>s, <2>1 DEF vars, dataVars
  <2>4. ValuesOK'
    BY <1>a, <2>1 DEF ValuesOK, Lists, Known, vars, dataVars, indexVars
  <2>5. NoFrames => NoFrames'
    BY <2>1 DEF NoFrames, vars, lockVars, frameVars
  <2> QED  BY <1>a, <2>1, <2>2, <2>3, <2>4, <2>5 DEF MountInv
<1> QED  BY <1>1, <1>2, <1>3, <1>4, <1>5 DEF MountNext, Saves, Over

\* Over any number of sessions, saves, crashes and loads, whatever writes fail,
\* every variable keeps its type and the files hold what a save can write: no load
\* resolves an entry to anything but a MasterInfo it read, no append starts beyond
\* the master file's bound.
THEOREM MountTypes == MountSpec => []MountTypeOK
<1>1. MountInv => MountTypeOK
  <2> SUFFICES ASSUME MountInv PROVE MountTypeOK
    OBVIOUS
  <2>1. disk \in Disk /\ TypeInv /\ SizeOK
    BY DEF MountInv
  <2>2. disk.infos \in Seq(Info)
    BY <2>1 DEF Disk, SavedInfo
  <2>3. /\ DOMAIN disk = {"infos", "hash", "file", "sizes", "free"}
        /\ disk.free \in Seq(Slots)
        /\ disk.sizes \in [Paths -> (0 .. MaxBlocks) \cup {NULL}]
        /\ DOMAIN disk.hash = Hashes /\ DOMAIN disk.file = Key
    BY <2>1 DEF Disk
  <2> QED  BY <2>1, <2>2, <2>3 DEF MountInv, MountTypeOK, TypeInv, SizeOK
<1> QED  BY MountInvInit, MountInvStep, <1>1, PTL DEF MountSpec

-----------------------------------------------------------------------------
(* Entries and the values they name *)

\* An entry that a load resolves stands for the record at its position.
Fits(d, e) == e # NULL /\ e.pos \in DOMAIN d.infos => d.infos[e.pos] = e.was
AllFit(d) == /\ \A h \in Hashes : Fits(d, d.hash[h])
             /\ \A x \in Key : Fits(d, d.file[x])

Good(e) == e = NULL \/ GoodEntry(e)
EntriesGood == (\A h \in Hashes : Good(disk.hash[h])) /\ (\A x \in Key : Good(disk.file[x]))

\* Both tables are empty before the values are written; while they are written
\* the values on disk are those that their entries are numbered by.
ResolveInv ==
    /\ MountInv /\ stale \in BOOLEAN
    /\ phase \in {"open2", "infos"} => \A h \in Hashes : disk.hash[h] = NULL
    /\ phase = "infos" => \A x \in Key : disk.file[x] = NULL
    /\ phase \in {"hash", "file"} =>
          EntriesGood /\ (stale \/ disk.infos \in Prefixes(InfosFile))
    /\ ~stale => AllFit(disk)

LEMMA GoodFits ==
    ASSUME MountInv, phase \in SavingPair, NEW d, d.infos \in Prefixes(InfosFile),
           NEW e, GoodEntry(e)
    PROVE  Fits(d, e)
<1>1. TypeInv /\ Lists(values)
  BY DEF MountInv, ValuesOK
<1>2. /\ InfosFile \in Seq(SavedInfo) /\ DOMAIN InfosFile = DOMAIN values
      /\ \A i \in DOMAIN values : InfosFile[i] = info[values[i]]
  BY <1>1, InfosFileType
<1>3. \A i \in DOMAIN d.infos : i \in DOMAIN InfosFile /\ d.infos[i] = InfosFile[i]
  BY <1>2, PrefixFacts
<1> QED  BY <1>2, <1>3 DEF Fits, GoodEntry

LEMMA LeavesFit ==
    ASSUME ResolveInv, NEW d, Leaves(d), phase = "infos" \/ ~stale
    PROVE  AllFit(d)
<1>a. MountInv
  BY DEF ResolveInv
<1>n. Fits(d, NULL)
  BY DEF Fits
<1>1. CASE phase = "infos"
  <2>1. (\A h \in Hashes : d.hash[h] = NULL) /\ (\A x \in Key : d.file[x] = NULL)
    BY <1>1 DEF ResolveInv, Leaves
  <2> QED  BY <1>n, <2>1 DEF AllFit
<1>2. CASE phase \in {"hash", "file"} /\ ~stale
  <2>1. d.infos \in Prefixes(InfosFile)
    BY <1>2 DEF ResolveInv, Leaves
  <2>2. (\A h \in Hashes : Good(d.hash[h])) /\ (\A x \in Key : Good(d.file[x]))
    BY <1>2 DEF ResolveInv, EntriesGood, Leaves, Good
  <2>3. \A e : Good(e) => Fits(d, e)
    BY <1>2, <1>a, <1>n, <2>1, GoodFits DEF SavingPair, Good
  <2> QED  BY <2>2, <2>3 DEF AllFit
<1>3. CASE phase \notin {"infos", "hash", "file"} /\ ~stale
  <2>1. /\ d.infos = disk.infos
        /\ \A h \in Hashes : d.hash[h] \in {disk.hash[h], NULL}
        /\ \A x \in Key : d.file[x] \in {disk.file[x], NULL}
    BY <1>3 DEF Leaves
  <2>2. AllFit(disk)
    BY <1>3 DEF ResolveInv
  <2> QED  BY <1>n, <2>1, <2>2 DEF AllFit, Fits
<1> QED  BY <1>1, <1>2, <1>3

LEMMA ResolveInit == MountInit => ResolveInv
<1> SUFFICES ASSUME MountInit PROVE ResolveInv
  OBVIOUS
<1>1. (\A h \in Hashes : disk.hash[h] = NULL) /\ (\A x \in Key : disk.file[x] = NULL)
  BY DEF MountInit, NoTable
<1>2. AllFit(disk)
  BY <1>1 DEF AllFit, Fits
<1> QED  BY <1>1, <1>2, MountInvInit DEF MountInit, ResolveInv

LEMMA ResolveSaves ==
    ASSUME ResolveInv, Saves
    PROVE  ResolveInv'
<1>a. MountInv /\ TypeInv /\ disk \in Disk /\ ValuesOK
  BY DEF ResolveInv, MountInv
<1>1. MountInv'
  BY <1>a, MountInvStep DEF MountNext, Saves
<1>2. /\ UNCHANGED vars /\ Leaves(disk') /\ phase' \notin {"down", "mounted"}
      /\ phase # "mounted" => values' = values
  BY <1>a, SavesFacts
<1>3. hash_to_master' = hash_to_master /\ file_to_master' = file_to_master /\ info' = info
  BY <1>2 DEF vars, dataVars, indexVars, heapVars
<1>4. CASE Unmount \/ OpenSecond
  <2>1. stale' = stale
    BY <1>4 DEF Unmount, OpenSecond
  <2>2. phase \notin {"infos", "hash", "file"} /\ phase' \in {"open2", "infos", "sizes"}
    BY <1>4 DEF Unmount, OpenSecond, Then
  <2>3. ~stale' => AllFit(disk)'
    BY <1>2, <2>1, LeavesFit DEF AllFit, Fits
  <2>4. phase' = "open2" => \A h \in Hashes : disk'.hash[h] = NULL
    <3>1. phase' = "open2" => disk' = [disk EXCEPT !.hash = NoTable(Hashes)]
      BY <1>4 DEF Unmount, OpenSecond, Then
    <3>2. NoTable(Hashes) \in [Hashes -> SavedEntry \cup {NULL}]
      BY DEF NoTable
    <3>3. phase' = "open2" => disk'.hash = NoTable(Hashes)
      BY <1>a, <3>1, <3>2, DiskFields
    <3> QED  BY <3>3 DEF NoTable
  <2>5. phase' = "infos" => /\ \A h \in Hashes : disk'.hash[h] = NULL
                            /\ \A x \in Key : disk'.file[x] = NULL
    <3>1. phase' = "infos" => phase = "open2" /\ disk' = [disk EXCEPT !.file = NoTable(Key)]
      BY <1>4 DEF Unmount, OpenSecond, Then
    <3>2. NoTable(Key) \in [Key -> SavedEntry \cup {NULL}]
      BY DEF NoTable
    <3>3. phase' = "infos" => disk'.file = NoTable(Key) /\ disk'.hash = disk.hash
      BY ZenonT(30), <1>a, <3>1, <3>2, DiskFields
    <3> QED  BY <3>1, <3>3 DEF NoTable, ResolveInv
  <2> QED  BY <1>1, <2>1, <2>2, <2>3, <2>4, <2>5 DEF ResolveInv
<1>5. CASE SaveInfos
  <2>1. phase = "infos" /\ phase' = "hash" /\ stale' = (disk'.infos \notin Prefixes(InfosFile))
    BY <1>5 DEF SaveInfos, Save, Then
  <2>2. (\A h \in Hashes : disk'.hash[h] = NULL) /\ (\A x \in Key : disk'.file[x] = NULL)
    BY <1>2, <2>1 DEF ResolveInv, Leaves
  <2>3. InfosFile' = InfosFile
    BY <1>2, <1>3, <2>1 DEF InfosFile
  <2>4. AllFit(disk)'
    BY <2>2 DEF AllFit, Fits
  <2> QED  BY <1>1, <2>1, <2>2, <2>3, <2>4 DEF ResolveInv, EntriesGood, Good
<1>6. CASE SaveHash \/ SaveFile
  <2>1. phase \in {"hash", "file"} /\ phase' \in {"file", "sizes"} /\ stale' = stale
    BY <1>6 DEF SaveHash, SaveFile, Save, Then
  <2>2. InfosFile' = InfosFile /\ \A e : Good(e)' <=> Good(e)
    BY <1>2, <1>3, <2>1 DEF InfosFile, Good, GoodEntry
  <2>3. EntriesGood'
    BY <1>2, <2>1, <2>2 DEF ResolveInv, EntriesGood, Leaves, Good
  <2>4. disk'.infos = disk.infos
    BY <1>2, <2>1 DEF Leaves
  <2>5. ~stale' => AllFit(disk)'
    BY <1>2, <2>1, LeavesFit DEF AllFit, Fits
  <2> QED  BY <1>1, <2>1, <2>2, <2>3, <2>4, <2>5 DEF ResolveInv
<1>7. CASE SaveSizes
  <2>1. phase = "sizes" /\ phase' = "free" /\ stale' = stale
    BY <1>7 DEF SaveSizes, Save, Then
  <2>2. ~stale' => AllFit(disk)'
    BY <1>2, <2>1, LeavesFit DEF AllFit, Fits
  <2> QED  BY <1>1, <2>1, <2>2 DEF ResolveInv
<1> QED  BY <1>4, <1>5, <1>6, <1>7 DEF Saves

LEMMA ResolveStep ==
    ASSUME ResolveInv, [MountNext]_allVars
    PROVE  ResolveInv'
<1>a. MountInv /\ MountInv'
  BY MountInvStep DEF ResolveInv
<1>1. ASSUME NEW t \in Threads, Session(t) PROVE ResolveInv'
  <2>1. phase = "mounted" /\ UNCHANGED <<disk, phase, stale>>
    BY <1>1, SessionSteps DEF mountVars
  <2> QED  BY <1>a, <2>1 DEF ResolveInv, AllFit, Fits
<1>2. CASE Saves
  BY <1>2, ResolveSaves
<1>3. CASE SaveFree \/ Crash
  <2>1. Forget /\ Leaves(disk') /\ phase' = "down" /\ stale' = stale
    BY <1>3, <1>a, EndFacts DEF Forget, SaveFree, Save, Crash
  <2>2. ~stale' => AllFit(disk)'
    BY <2>1, LeavesFit DEF AllFit, Fits
  <2> QED  BY <1>a, <2>1, <2>2 DEF ResolveInv
<1>4. CASE Load
  <2>1. UNCHANGED <<disk, stale>> /\ phase' = "mounted"
    BY <1>4 DEF Load
  <2> QED  BY <1>a, <2>1 DEF ResolveInv, AllFit, Fits
<1>5. CASE UNCHANGED allVars
  <2>1. UNCHANGED <<vars, disk, phase, stale, values>>
    BY <1>5 DEF allVars, mountVars
  <2>2. hash_to_master' = hash_to_master /\ file_to_master' = file_to_master /\ info' = info
    BY <2>1 DEF vars, dataVars, indexVars, heapVars
  <2>3. InfosFile' = InfosFile /\ \A e : Good(e)' <=> Good(e)
    BY <2>1, <2>2 DEF InfosFile, Good, GoodEntry
  <2> QED  BY <1>a, <2>1, <2>3 DEF ResolveInv, AllFit, Fits, EntriesGood, Good
<1> QED  BY <1>1, <1>2, <1>3, <1>4, <1>5 DEF MountNext, Saves, Over

\* Whatever step of a save is cut off, by a failing open, a failing write or a
\* crash, an entry that load resolves gets the MasterInfo it was saved with
\* (persistence.c:373-414), unless a save left an older values file in place.
THEOREM EntriesResolve == MountSpec => []ResolvesAsSaved
<1>1. ResolveInv => ResolvesAsSaved
  BY DEF ResolveInv, ResolvesAsSaved, AllFit, Fits
<1> QED  BY ResolveInit, ResolveStep, <1>1, PTL DEF MountSpec

-----------------------------------------------------------------------------
(* A life without crashes and without failing saves: what is in the files  *)
(* when the process ends is what was in memory.                            *)

CleanSaves == ~SaveFails /\ ~Crashes

Saving == Phases \ {"mounted", "down"}

\* What a read of a block would return after a load, by the files alone.
DiskReadable(x) == IF disk.file[x] = NULL THEN NULL
                   ELSE master[disk.infos[disk.file[x].pos].masterBlockIndex]

\* The files say what memory says: q is the values array.
Images(d, q) ==
    /\ Lists(q)
    /\ DOMAIN d.infos = DOMAIN q /\ \A i \in DOMAIN q : d.infos[i] = info[q[i]]
    /\ \A h \in Hashes :
          IF hash_to_master[h] = NULL THEN d.hash[h] = NULL
          ELSE /\ d.hash[h] # NULL /\ d.hash[h].pos \in DOMAIN q
               /\ q[d.hash[h].pos] = hash_to_master[h]
    /\ \A x \in Key :
          IF file_to_master[x] = NULL THEN d.file[x] = NULL
          ELSE /\ d.file[x] # NULL /\ d.file[x].pos \in DOMAIN q
               /\ q[d.file[x].pos] = file_to_master[x]

SaveInv ==
    /\ MountInv
    /\ phase \in Saving => Quietly /\ Lists(values) /\ shown = AllReadable
    /\ phase \in {"hash", "file", "sizes", "free"} => disk.infos = InfosFile
    /\ phase \in {"file", "sizes", "free"} => disk.hash = HashFile
    /\ phase \in {"sizes", "free"} => disk.file = FileFile

\* Once the three files are written they image the tables.
LEMMA SavedImages ==
    ASSUME SaveInv, phase \in {"sizes", "free"}
    PROVE  Images(disk, values)
<1>1. TypeInv /\ Lists(values)
  BY DEF SaveInv, MountInv, Saving, Phases
<1>2. disk.infos = InfosFile /\ disk.hash = HashFile /\ disk.file = FileFile
  BY DEF SaveInv
<1>3. /\ DOMAIN InfosFile = DOMAIN values
      /\ \A i \in DOMAIN values : InfosFile[i] = info[values[i]]
  BY <1>1, InfosFileType
<1>4. \A h \in Hashes :
          IF hash_to_master[h] = NULL THEN HashFile[h] = NULL
          ELSE /\ HashFile[h] # NULL /\ HashFile[h].pos \in DOMAIN values
               /\ values[HashFile[h].pos] = hash_to_master[h]
  BY <1>1, TablesKnown, IndexedFacts DEF HashFile, GoodEntry
<1>5. \A x \in Key :
          IF file_to_master[x] = NULL THEN FileFile[x] = NULL
          ELSE /\ FileFile[x] # NULL /\ FileFile[x].pos \in DOMAIN values
               /\ values[FileFile[x].pos] = file_to_master[x]
  BY <1>1, TablesKnown, IndexedFacts DEF FileFile, GoodEntry
<1> QED  BY <1>1, <1>2, <1>3, <1>4, <1>5 DEF Images

\* A clean save writes what memory holds, file after file.
LEMMA SaveStep ==
    ASSUME CleanSaves, SaveInv, [MountNext]_allVars
    PROVE  SaveInv'
<1>a. MountInv /\ MountInv' /\ disk \in Disk /\ TypeInv
  BY MountInvStep DEF SaveInv, MountInv
<1>f. /\ phase = "infos" => InfosFile \in Seq(SavedInfo)
      /\ phase = "hash" => HashFile \in [Hashes -> SavedEntry \cup {NULL}]
      /\ phase = "file" => FileFile \in [Key -> SavedEntry \cup {NULL}]
  BY <1>a, InfosFileType, IndexedFacts, TablesKnown
     DEF MountInv, ValuesOK, SavingPair, HashFile, FileFile
<1>s. ASSUME UNCHANGED vars
      PROVE  /\ AllReadable' = AllReadable /\ (Quietly => Quietly')
             /\ values' = values => /\ (Lists(values) => Lists(values)')
                                    /\ InfosFile' = InfosFile /\ HashFile' = HashFile
                                    /\ FileFile' = FileFile
  <2>1. /\ hash_to_master' = hash_to_master /\ file_to_master' = file_to_master
        /\ info' = info /\ master' = master /\ pc' = pc
    BY <1>s DEF vars, dataVars, indexVars, heapVars
  <2>2. AllReadable' = AllReadable /\ (Quietly => Quietly')
    BY <2>1 DEF AllReadable, Readable, Quietly
  <2>3. values' = values => (Lists(values) => Lists(values)') /\ InfosFile' = InfosFile
    BY <2>1 DEF Lists, Known, InfosFile
  <2>4. values' = values => HashFile' = HashFile /\ FileFile' = FileFile
    BY <2>1 DEF HashFile, FileFile, Indexed, EntryOf, PosOf
  <2> QED  BY <2>2, <2>3, <2>4
<1>1. ASSUME NEW t \in Threads, Session(t) PROVE SaveInv'
  <2>1. phase' = "mounted"
    BY <1>1, SessionSteps DEF mountVars
  <2> QED  BY <1>a, <2>1 DEF SaveInv, Saving
<1>2. CASE Unmount
  <2>1. /\ UNCHANGED vars /\ Quietly /\ shown' = AllReadable /\ phase' = "open2"
    BY <1>2 DEF Unmount, CleanSaves
  <2>2. Lists(values')
    BY <1>2, <1>a, CollectedFacts DEF Unmount
  <2>3. Lists(values)'
    BY <2>1, <2>2 DEF vars, dataVars, indexVars, Lists, Known
  <2> QED  BY <1>a, <1>s, <2>1, <2>3 DEF SaveInv
<1>3. CASE OpenSecond
  <2>1. UNCHANGED <<vars, values, shown>> /\ phase = "open2" /\ phase' = "infos"
    BY <1>3 DEF OpenSecond, Then, CleanSaves
  <2> QED  BY <1>a, <1>s, <2>1 DEF SaveInv, Saving, Phases
<1>4. CASE SaveInfos \/ SaveHash \/ SaveFile \/ SaveSizes
  <2>1. UNCHANGED <<vars, values, shown>> /\ phase \in Saving /\ phase' \in Saving
    BY <1>4 DEF SaveInfos, SaveHash, SaveFile, SaveSizes, Save, Then, Saving, Phases
  <2>2. Quietly' /\ Lists(values)' /\ shown' = AllReadable'
    BY <1>s, <2>1 DEF SaveInv
  <2>3. CASE SaveInfos
    <3>1. phase = "infos" /\ phase' = "hash" /\ disk' = [disk EXCEPT !.infos = InfosFile]
      BY <2>3 DEF SaveInfos, Save, Then, CleanSaves
    <3>2. disk'.infos = InfosFile
      BY <1>a, <1>f, <3>1, DiskFields
    <3> QED  BY <1>a, <1>s, <2>1, <2>2, <3>1, <3>2 DEF SaveInv
  <2>4. CASE SaveHash
    <3>1. phase = "hash" /\ phase' = "file" /\ disk' = [disk EXCEPT !.hash = HashFile]
      BY <2>4 DEF SaveHash, Save, Then, CleanSaves
    <3>2. disk'.infos = disk.infos /\ disk'.hash = HashFile
      BY <1>a, <1>f, <3>1, DiskFields
    <3> QED  BY <1>a, <1>s, <2>1, <2>2, <3>1, <3>2 DEF SaveInv
  <2>5. CASE SaveFile
    <3>1. phase = "file" /\ phase' = "sizes" /\ disk' = [disk EXCEPT !.file = FileFile]
      BY <2>5 DEF SaveFile, Save, Then, CleanSaves
    <3>2. disk'.infos = disk.infos /\ disk'.hash = disk.hash /\ disk'.file = FileFile
      BY <1>a, <1>f, <3>1, DiskFields
    <3> QED  BY <1>a, <1>s, <2>1, <2>2, <3>1, <3>2 DEF SaveInv
  <2>6. CASE SaveSizes
    <3>1. phase = "sizes" /\ phase' = "free" /\ disk' = [disk EXCEPT !.sizes = file_to_sizes]
      BY <2>6 DEF SaveSizes, Save, Then, CleanSaves
    <3>2. disk'.infos = disk.infos /\ disk'.hash = disk.hash /\ disk'.file = disk.file
      BY <1>a, <3>1, DiskFields DEF TypeInv, TypeOK, IndexType
    <3> QED  BY <1>a, <1>s, <2>1, <2>2, <3>1, <3>2 DEF SaveInv
  <2> QED  BY <1>4, <2>3, <2>4, <2>5, <2>6
<1>5. CASE SaveFree \/ Load
  <2>1. phase' \in {"down", "mounted"}
    BY <1>5 DEF SaveFree, Forget, Load
  <2> QED  BY <1>a, <2>1 DEF SaveInv, Saving
<1>6. CASE UNCHANGED allVars
  <2>1. UNCHANGED <<vars, values, shown, phase, disk>>
    BY <1>6 DEF allVars, mountVars
  <2> QED  BY <1>a, <1>s, <2>1 DEF SaveInv
<1> QED
  BY <1>1, <1>2, <1>3, <1>4, <1>5, <1>6 DEF MountNext, Over, Crash, CleanSaves

\* The process ends with the last file.
LEMMA CleanEnd ==
    ASSUME CleanSaves, SaveInv, SaveFree
    PROVE  /\ Forget /\ phase = "free" /\ phase' = "down" /\ shown' = shown
           /\ shown = AllReadable /\ Quietly /\ damaged' = damaged
           /\ disk'.free = free_block_list
           /\ Images(disk', values)
<1>1. /\ Forget /\ phase = "free" /\ shown' = shown /\ phase' = "down" /\ damaged' = damaged
      /\ disk' = [disk EXCEPT !.free = free_block_list]
  BY DEF SaveFree, Save, Forget, CleanSaves
<1>2. disk \in Disk /\ free_block_list \in Seq(Slots)
  BY DEF SaveInv, MountInv, TypeInv, TypeOK, AllocType
<1>3. disk'.infos = disk.infos /\ disk'.hash = disk.hash /\ disk'.file = disk.file
  BY <1>1, <1>2, DiskFields
<1>4. disk'.free = free_block_list
  BY <1>1, <1>2 DEF Disk
<1>5. Images(disk, values)
  BY <1>1, SavedImages
<1>6. Images(disk', values)
  BY <1>3, <1>5 DEF Images
<1> QED  BY <1>1, <1>4, <1>6 DEF SaveInv, Saving, Phases

\* While the process is down the files alone tell what readers last saw.
Resolvable == \A x \in Key : disk.file[x] # NULL => disk.file[x].pos \in DOMAIN disk.infos
ShownInv ==
    /\ SaveInv
    /\ phase = "down" => Resolvable /\ shown = [x \in Key |-> DiskReadable(x)]

LEMMA ShownStep ==
    ASSUME CleanSaves, ShownInv, [MountNext]_allVars
    PROVE  ShownInv'
<1>1. SaveInv /\ SaveInv'
  BY SaveStep DEF ShownInv
<1>2. CASE SaveFree
  <2>1. /\ Forget /\ shown' = shown /\ shown = AllReadable
        /\ Images(disk', values)
    BY <1>1, <1>2, CleanEnd
  <2>2. master' = master
    BY <2>1 DEF Forget
  <2>3. ASSUME NEW x \in Key
        PROVE  /\ disk'.file[x] # NULL => disk'.file[x].pos \in DOMAIN disk'.infos
               /\ DiskReadable(x)' = Readable(x)
    BY <2>1, <2>2 DEF Images, DiskReadable, Readable
  <2>4. shown' = [x \in Key |-> DiskReadable(x)']
    BY <2>1, <2>3 DEF AllReadable
  <2> QED  BY <1>1, <2>3, <2>4 DEF ShownInv, Resolvable
<1>3. CASE phase' # "down"
  BY <1>1, <1>3 DEF ShownInv
<1>4. CASE UNCHANGED allVars
  <2>1. UNCHANGED <<master, shown, phase, disk>>
    BY <1>4 DEF allVars, mountVars, vars, dataVars
  <2> QED  BY <1>1, <2>1 DEF ShownInv, Resolvable, DiskReadable
<1>5. SaveFree \/ phase' # "down" \/ UNCHANGED allVars
  <2>1. ASSUME NEW t \in Threads, Session(t) PROVE phase' # "down"
    BY <2>1, SessionSteps DEF mountVars
  <2>2. Saves => phase' # "down"
    BY <1>1, SavesFacts DEF SaveInv
  <2>3. Load => phase' # "down"
    BY DEF Load
  <2> QED  BY <2>1, <2>2, <2>3 DEF MountNext, Saves, Over, Crash, CleanSaves
<1> QED  BY <1>2, <1>3, <1>4, <1>5

\* A load finds every block where the files say it is.
LEMMA LoadReads ==
    ASSUME ShownInv, Load
    PROVE  AllReadable' = shown
<1>1. disk \in Disk /\ phase = "down" /\ UNCHANGED master /\ Resolvable
      /\ shown = [x \in Key |-> DiskReadable(x)]
  BY DEF ShownInv, SaveInv, MountInv, Load
<1>2. PICK adr \in [DOMAIN disk.infos -> Infos] :
             /\ \A i \in DOMAIN adr : info'[adr[i]] = disk.infos[i]
             /\ \A x \in Key : file_to_master'[x] = Resolve(disk.file[x], adr)
  BY <1>1, LoadFacts
<1>3. ASSUME NEW x \in Key PROVE Readable(x)' = DiskReadable(x)
  <2>1. CASE disk.file[x] = NULL
    BY SMTT(30), <1>2, <2>1 DEF Readable, DiskReadable, Resolve
  <2>2. CASE disk.file[x] # NULL
    <3>i. PICK i : i = disk.file[x].pos
      OBVIOUS
    <3>1. i \in DOMAIN disk.infos
      BY <1>1, <2>2, <3>i DEF Resolvable
    <3>2. file_to_master'[x] = adr[i] /\ adr[i] \in Infos /\ info'[adr[i]] = disk.infos[i]
      BY <1>2, <2>2, <3>i, <3>1 DEF Resolve
    <3> QED  BY <1>1, <2>2, <3>i, <3>2, NullAssumption DEF Readable, DiskReadable
  <2> QED  BY <2>1, <2>2
<1> QED  BY <1>1, <1>3 DEF AllReadable

\* A remount shows every block as readers last saw it: whatever the sessions did,
\* duplicate batches and failing pwrites included, the save, the renumbering of the
\* MasterInfos through the values array and the load lose nothing
\* (persistence.c:361-478), provided the save itself is not cut off.
THEOREM RemountKeepsContents ==
    ASSUME CleanSaves
    PROVE  MountSpec => KeepsContents
<1>1. MountInit => ShownInv
  BY MountInvInit DEF MountInit, ShownInv, SaveInv, Saving, Phases
<1>2. ShownInv /\ [MountNext]_allVars => ShownInv'
  BY ShownStep
<1>3. ShownInv /\ [MountNext]_allVars => [Load /\ shown # NULL => AllReadable' = shown]_allVars
  BY LoadReads
<1> QED  BY <1>1, <1>2, <1>3, PTL DEF MountSpec, KeepsContents

-----------------------------------------------------------------------------
(* Refcounts and slots over a clean life                                   *)

\* With no handler running only the tables matter.
LEMMA NoFramesRef ==
    /\ NoFrames /\ TypeInv /\ TablesOK
    /\ \A p \in heap : info[p].refcount = Cardinality(MappedRefs(p))
    => RefInv
<1> SUFFICES ASSUME NoFrames, TypeInv, TablesOK,
                    \A p \in heap : info[p].refcount = Cardinality(MappedRefs(p))
             PROVE  RefInv
  OBVIOUS
<1>1. /\ readers = {} /\ writer = NULL /\ freelist_mutex = NULL
      /\ \A t \in Threads : /\ pc[t] = "idle" /\ k[t] = 0 /\ t # NULL
                            /\ \A i \in Idx : plan[t][i] = NoEntry
  BY NullAssumption DEF NoFrames, NoPlan
<1>2. LockDiscipline
  BY <1>1 DEF LockDiscipline, ReadLocked, WriteLocked
<1>3. ShapeOK /\ LoopsOK
  BY <1>1 DEF ShapeOK, PlanEnd, PlannedPCs, WritePCs, LoopsOK, Idx
<1>4. EntriesOK /\ HitsOK
  BY <1>1 DEF EntriesOK, Holds, Planned, NoEntry, HitsOK
<1>5. ASSUME NEW p \in heap PROVE HeldRefs(p) = {}
  BY <1>1 DEF HeldRefs, HoldsRef
<1>6. \A p \in heap : info[p].refcount \in Nat
  BY BoundsAssumption, HeapFacts DEF Info
<1>7. RefcountExact
  BY <1>5, <1>6, FS_EmptySet DEF RefcountExact
<1> QED  BY <1>2, <1>3, <1>4, <1>7 DEF RefInv

LEMMA NoFramesLists ==
    NoFrames /\ NoRepeats(free_block_list) =>
        /\ ListsOK /\ ReleasesOK /\ PendingOK /\ FlushedOK
        /\ \A u \in Threads, s \in Slots : ~InRel(u, s)
        /\ \A u \in Threads, i \in Idx, s \in Slots : ~Pend(u, i, s)
<1> SUFFICES ASSUME NoFrames, NoRepeats(free_block_list)
             PROVE  /\ ListsOK /\ ReleasesOK /\ PendingOK /\ FlushedOK
                    /\ \A u \in Threads, s \in Slots : ~InRel(u, s)
                    /\ \A u \in Threads, i \in Idx, s \in Slots : ~Pend(u, i, s)
  OBVIOUS
<1>1. \A t \in Threads : pc[t] = "idle" /\ rel[t] = <<>>
  BY DEF NoFrames
<1>2. ListsOK /\ ReleasesOK
  BY <1>1 DEF ListsOK, NoRepeats, ReleasesOK
<1>3. PendingOK /\ FlushedOK
  BY <1>1 DEF PendingOK, FlushedOK, OwnsPending, HoldsRef
<1> QED  BY <1>1, <1>2, <1>3 DEF InRel, Range, Pend, OwnsPending, HoldsRef

\* The files describe tables that agree with each other: every MasterInfo saved is
\* published under its own digest and counts the blocks that the second table maps
\* to it.
FileRefs(i) == {x \in Key : disk.file[x] # NULL /\ disk.file[x].pos = i}
FilesSound ==
    /\ \A h \in Hashes : disk.hash[h] # NULL => /\ disk.hash[h].pos \in DOMAIN disk.infos
                                                /\ disk.infos[disk.hash[h].pos].hash = h
    /\ \A x \in Key : disk.file[x] # NULL => disk.file[x].pos \in DOMAIN disk.infos
    /\ \A i \in DOMAIN disk.infos :
          /\ disk.hash[disk.infos[i].hash] # NULL /\ disk.hash[disk.infos[i].hash].pos = i
          /\ disk.infos[i].refcount = Cardinality(FileRefs(i))

\* The slots below b are those that the files know, each in one place, and the
\* master file holds the payloads.
FilesOwn(b) ==
    /\ msize <= b /\ NoRepeats(disk.free)
    /\ \A s \in Slots : s < b <=> \/ s \in Range(disk.free)
                                  \/ \E i \in DOMAIN disk.infos :
                                       disk.infos[i].masterBlockIndex = s
    /\ \A i \in DOMAIN disk.infos :
          /\ disk.infos[i].masterBlockIndex \notin Range(disk.free)
          /\ \A j \in DOMAIN disk.infos :
                disk.infos[i].masterBlockIndex = disk.infos[j].masterBlockIndex => i = j
          /\ master[disk.infos[i].masterBlockIndex] # NULL
          /\ HashOf[master[disk.infos[i].masterBlockIndex]] = disk.infos[i].hash

\* Everything the tables know is published under its own digest.
LEMMA KnownPublished ==
    ASSUME RefInv, NEW p, Known(p)
    PROVE  p \in heap /\ p \in Infos /\ Published(p) /\ info[p].hash \in Hashes
<1>1. p \in heap /\ Published(p)
  BY DEF Known, RefInv, TablesOK, Published
<1> QED  BY <1>1, HeapFacts DEF RefInv, TablesOK

\* What a clean save of exact tables leaves.
LEMMA SavedSound ==
    ASSUME RefcountsFit, CleanSaves, SaveInv, RefInv, SaveFree
    PROVE  FilesSound'
<1>1. Images(disk', values) /\ Quietly /\ Lists(values)
  BY CleanEnd DEF Images
<1>2. ASSUME NEW h \in Hashes, disk'.hash[h] # NULL
      PROVE  /\ disk'.hash[h].pos \in DOMAIN disk'.infos
             /\ disk'.infos[disk'.hash[h].pos].hash = h
  <2>1. /\ hash_to_master[h] # NULL /\ disk'.hash[h].pos \in DOMAIN disk'.infos
        /\ disk'.infos[disk'.hash[h].pos] = info[hash_to_master[h]]
    BY <1>1, <1>2 DEF Images
  <2> QED  BY <2>1 DEF RefInv, TablesOK
<1>3. \A x \in Key : disk'.file[x] # NULL => disk'.file[x].pos \in DOMAIN disk'.infos
  BY <1>1 DEF Images
<1>4. ASSUME NEW i \in DOMAIN disk'.infos
      PROVE  /\ disk'.hash[disk'.infos[i].hash] # NULL
             /\ disk'.hash[disk'.infos[i].hash].pos = i
             /\ disk'.infos[i].refcount = Cardinality(FileRefs(i)')
  <2>p. PICK p : p = values[i]
    OBVIOUS
  <2>1. /\ i \in DOMAIN values /\ disk'.infos[i] = info[p] /\ Known(p)
        /\ \A j \in DOMAIN values : values[j] = p => j = i
    BY <1>1, <2>p DEF Images, Lists
  <2>2. p \in heap /\ p \in Infos /\ Published(p) /\ info[p].hash \in Hashes
    BY <2>1, KnownPublished
  <2>3. /\ disk'.hash[info[p].hash] # NULL
        /\ disk'.hash[info[p].hash].pos \in DOMAIN values
        /\ values[disk'.hash[info[p].hash].pos] = p
    BY <1>1, <2>2, NullAssumption DEF Images, Published
  <2>4. \A x \in Key : file_to_master[x] = p <=> (disk'.file[x] # NULL /\ disk'.file[x].pos = i)
    BY <1>1, <2>p, <2>1, <2>2, NullAssumption DEF Images
  <2>5. FileRefs(i)' = MappedRefs(p)
    BY <2>4 DEF FileRefs, MappedRefs
  <2>6. HeldRefs(p) = {}
    BY <1>1 DEF HeldRefs, HoldsRef, Quietly
  <2>7. Cardinality(MappedRefs(p)) \in Nat
    BY RefsFit DEF MappedRefs, HeldRefs
  <2>8. info[p].refcount = Cardinality(MappedRefs(p))
    BY <2>2, <2>6, <2>7, FS_EmptySet DEF RefInv, RefcountExact
  <2> QED  BY <2>1, <2>3, <2>5, <2>8
<1> QED  BY <1>2, <1>3, <1>4 DEF FilesSound

\* What a load makes of them: the MasterInfo read from record i is at address
\* adr[i], published, and referenced by the blocks the files map to it.
LEMMA LoadedTables ==
    ASSUME MountInv, FilesSound, Load
    PROVE  \E adr \in [DOMAIN disk.infos -> Infos] :
             /\ \A i, j \in DOMAIN adr : adr[i] = adr[j] => i = j
             /\ heap' = {adr[i] : i \in DOMAIN adr}
             /\ \A i \in DOMAIN adr : info'[adr[i]] = disk.infos[i] /\ PublishedAfter(adr[i])
             /\ \A h \in Hashes : hash_to_master'[h] # NULL =>
                    hash_to_master'[h] \in heap' /\ info'[hash_to_master'[h]].hash = h
             /\ \A x \in Key : IF disk.file[x] = NULL THEN file_to_master'[x] = NULL
                               ELSE /\ disk.file[x].pos \in DOMAIN adr
                                    /\ file_to_master'[x] = adr[disk.file[x].pos]
<1>0. disk \in Disk
  BY DEF MountInv
<1>1. PICK adr \in [DOMAIN disk.infos -> Infos] :
             /\ \A i, j \in DOMAIN adr : adr[i] = adr[j] => i = j
             /\ heap' = {adr[i] : i \in DOMAIN adr}
             /\ \A i \in DOMAIN adr : info'[adr[i]] = disk.infos[i]
             /\ \A h \in Hashes : hash_to_master'[h] = Resolve(disk.hash[h], adr)
             /\ \A x \in Key : file_to_master'[x] = Resolve(disk.file[x], adr)
  BY <1>0, LoadFacts
<1>2. ASSUME NEW i \in DOMAIN adr PROVE PublishedAfter(adr[i])
  <2>1. disk.infos[i].hash \in Hashes
    BY <1>0 DEF Disk, SavedInfo
  <2>2. disk.hash[disk.infos[i].hash] # NULL /\ disk.hash[disk.infos[i].hash].pos = i
    BY DEF FilesSound
  <2>3. hash_to_master'[disk.infos[i].hash] = adr[i]
    BY <1>1, <2>1, <2>2 DEF Resolve
  <2> QED  BY <1>1, <2>3 DEF PublishedAfter
<1>3. ASSUME NEW h \in Hashes, hash_to_master'[h] # NULL
      PROVE  hash_to_master'[h] \in heap' /\ info'[hash_to_master'[h]].hash = h
  <2>i. PICK i : i = disk.hash[h].pos
    OBVIOUS
  <2>1. disk.hash[h] # NULL /\ i \in DOMAIN adr /\ hash_to_master'[h] = adr[i]
    BY <1>1, <1>3, <2>i DEF Resolve
  <2>2. disk.infos[i].hash = h
    BY <2>i, <2>1 DEF FilesSound
  <2> QED  BY <1>1, <2>1, <2>2
<1>4. \A x \in Key : IF disk.file[x] = NULL THEN file_to_master'[x] = NULL
                     ELSE /\ disk.file[x].pos \in DOMAIN adr
                          /\ file_to_master'[x] = adr[disk.file[x].pos]
  BY <1>1 DEF Resolve, FilesSound
<1> QED  BY <1>1, <1>2, <1>3, <1>4

LEMMA LoadedRefs ==
    ASSUME RefcountsFit, MountInv, FilesSound, Load
    PROVE  RefInv'
<1>1. TypeInv' /\ NoFrames'
  BY LoadType
<1>2. PICK adr \in [DOMAIN disk.infos -> Infos] :
             /\ \A i, j \in DOMAIN adr : adr[i] = adr[j] => i = j
             /\ heap' = {adr[i] : i \in DOMAIN adr}
             /\ \A i \in DOMAIN adr : info'[adr[i]] = disk.infos[i] /\ PublishedAfter(adr[i])
             /\ \A h \in Hashes : hash_to_master'[h] # NULL =>
                    hash_to_master'[h] \in heap' /\ info'[hash_to_master'[h]].hash = h
             /\ \A x \in Key : IF disk.file[x] = NULL THEN file_to_master'[x] = NULL
                               ELSE /\ disk.file[x].pos \in DOMAIN adr
                                    /\ file_to_master'[x] = adr[disk.file[x].pos]
  BY LoadedTables
<1>3. \A i \in DOMAIN adr : disk.infos[i].hash \in Hashes
  BY DEF MountInv, Disk, SavedInfo
<1>4. \A p \in heap' : PublishedAfter(p) /\ info'[p].hash \in Hashes
  BY <1>2, <1>3
<1>5. \A x \in Key : file_to_master'[x] # NULL => file_to_master'[x] \in heap'
  BY <1>2
<1>6. TablesOK'
  BY <1>2, <1>4, <1>5 DEF TablesOK, Published, PublishedAfter
<1>7. ASSUME NEW p \in heap' PROVE info'[p].refcount = Cardinality(MappedRefs(p)')
  <2>1. PICK i \in DOMAIN adr : p = adr[i]
    BY <1>2
  <2>2. \A x \in Key : file_to_master'[x] = p <=> (disk.file[x] # NULL /\ disk.file[x].pos = i)
    BY <1>2, <2>1, NullAssumption
  <2>3. MappedRefs(p)' = FileRefs(i)
    BY <2>2 DEF MappedRefs, FileRefs
  <2> QED  BY <1>2, <2>1, <2>3 DEF FilesSound
<1>8. (\A p \in heap : info[p].refcount = Cardinality(MappedRefs(p)))'
  BY <1>7
<1> QED  BY <1>1, <1>6, <1>8, NoFramesRef, PTL

\* With nothing in flight a slot is on the free list or published.
LEMMA QuietOwners ==
    ASSUME SlotInv, Quietly, NEW s \in Slots
    PROVE  s < nextBlockIndex <=> InFree(s) \/ \E p \in Infos : Pub(p, s)
<1>1. \A u \in Threads : rel[u] = <<>>
  BY DEF SlotInv, ReleasesOK, Quietly, ReleasingPCs
<1>2. /\ \A u \in Threads : ~InRel(u, s)
      /\ \A u \in Threads, i \in Idx : ~Pend(u, i, s)
  BY <1>1 DEF InRel, Range, Pend, OwnsPending, HoldsRef, Quietly
<1>3. s < nextBlockIndex => \E c, x, i : Owns(c, x, i, s)
  <2>1. ASSUME s < nextBlockIndex PROVE \E c, x, i : Owns(c, x, i, s)
    <3>1. OwnedOnce(s)
      BY <2>1 DEF SlotInv, OwnersOK
    <3> QED  BY <3>1 DEF OwnedOnce
  <2> QED  BY <2>1
<1>4. s < nextBlockIndex => InFree(s) \/ \E p \in Infos : Pub(p, s)
  BY <1>2, <1>3 DEF Owns
<1>5. InFree(s) => s < nextBlockIndex
  BY FreeOnly DEF SlotInv
<1>6. (\E p \in Infos : Pub(p, s)) => s < nextBlockIndex
  BY PubOnly DEF SlotInv
<1> QED  BY <1>4, <1>5, <1>6

LEMMA SavedOwn ==
    ASSUME CleanSaves, SaveInv, ContentInv, msize <= nextBlockIndex, SaveFree,
           NEW b, b = nextBlockIndex
    PROVE  FilesOwn(b)'
<1>1. /\ Images(disk', values) /\ Quietly /\ Forget /\ disk'.free = free_block_list
      /\ \A p : Known(p) <=> \E i \in DOMAIN values : values[i] = p
      /\ \A i, j \in DOMAIN values : values[i] = values[j] => i = j
  BY CleanEnd DEF Images, Lists
<1>2. master' = master /\ msize' = msize /\ msize' <= b
  BY <1>1 DEF Forget
<1>3. SlotInv /\ RefInv /\ OwnersOK
  BY DEF ContentInv, SlotInv
<1>4. ASSUME NEW i \in DOMAIN disk'.infos, NEW s, s = disk'.infos[i].masterBlockIndex
      PROVE  /\ i \in DOMAIN values /\ disk'.infos[i] = info[values[i]]
             /\ values[i] \in heap /\ Published(values[i])
             /\ values[i] \in Infos /\ s \in Slots /\ Pub(values[i], s)
  <2>1. i \in DOMAIN values /\ disk'.infos[i] = info[values[i]] /\ Known(values[i])
    BY <1>1 DEF Images
  <2>2. values[i] \in heap /\ values[i] \in Infos /\ Published(values[i])
    BY <1>3, <2>1, KnownPublished
  <2>3. info[values[i]].masterBlockIndex \in Slots
    BY <1>3, <2>2, SlotTypes DEF RefInv
  <2> QED  BY <1>4, <2>1, <2>2, <2>3 DEF Pub
<1>5. ASSUME NEW s \in Slots
      PROVE  s < b <=> \/ s \in Range(disk'.free)
                       \/ \E i \in DOMAIN disk'.infos : disk'.infos[i].masterBlockIndex = s
  <2>1. s < b <=> InFree(s) \/ \E p \in Infos : Pub(p, s)
    BY <1>1, <1>3, QuietOwners
  <2>2. ASSUME NEW p \in Infos, Pub(p, s)
        PROVE  \E i \in DOMAIN disk'.infos : disk'.infos[i].masterBlockIndex = s
    <3>1. p \in heap /\ Published(p) /\ info[p].hash \in Hashes /\ p # NULL
      BY <1>3, <2>2, NullAssumption DEF Pub, RefInv, TablesOK
    <3>2. Known(p)
      BY <3>1 DEF Known, Published
    <3>3. PICK i \in DOMAIN values : values[i] = p
      BY <1>1, <3>2
    <3> QED  BY <1>1, <2>2, <3>3 DEF Images, Pub
  <2>3. (\E i \in DOMAIN disk'.infos : disk'.infos[i].masterBlockIndex = s) =>
            \E p \in Infos : Pub(p, s)
    BY <1>4
  <2>4. s \in Range(disk'.free) <=> InFree(s)
    BY <1>1 DEF InFree
  <2> QED  BY <2>1, <2>2, <2>3, <2>4
<1>6. ASSUME NEW i \in DOMAIN disk'.infos
      PROVE  /\ disk'.infos[i].masterBlockIndex \notin Range(disk'.free)
             /\ \A j \in DOMAIN disk'.infos :
                   disk'.infos[i].masterBlockIndex = disk'.infos[j].masterBlockIndex => i = j
             /\ master'[disk'.infos[i].masterBlockIndex] # NULL
             /\ HashOf[master'[disk'.infos[i].masterBlockIndex]] = disk'.infos[i].hash
  <2>s. PICK s : s = disk'.infos[i].masterBlockIndex
    OBVIOUS
  <2>1. /\ i \in DOMAIN values /\ disk'.infos[i] = info[values[i]]
        /\ values[i] \in heap /\ Published(values[i])
        /\ values[i] \in Infos /\ s \in Slots /\ Pub(values[i], s)
    BY <1>4, <2>s
  <2>2. ~InFree(s) /\ \A q \in Infos : Pub(q, s) => q = values[i]
    BY <1>3, <2>1, PubOnly
  <2>3. ASSUME NEW j \in DOMAIN disk'.infos, s = disk'.infos[j].masterBlockIndex PROVE i = j
    <3>1. j \in DOMAIN values /\ values[j] \in Infos /\ Pub(values[j], s)
      BY <1>4, <2>3
    <3> QED  BY <1>1, <2>1, <2>2, <3>1
  <2>4. master[s] # NULL /\ HashOf[master[s]] = disk'.infos[i].hash
    BY <2>1, <2>s DEF ContentInv, ContentsOK
  <2> QED  BY <1>1, <1>2, <2>s, <2>2, <2>3, <2>4 DEF InFree
<1>7. NoRepeats(disk'.free)
  BY <1>1, <1>3 DEF SlotInv, ListsOK
<1> QED  BY <1>2, <1>5, <1>6, <1>7 DEF FilesOwn

\* A mount that is not damaged starts where the saved one ended: the end of the
\* master file is the point of append again.
LEMMA LoadedOwn ==
    ASSUME RefcountsFit, MountInv, FilesSound, NEW b \in 0 .. MaxSlots, FilesOwn(b), Load,
           ~damaged'
    PROVE  ContentInv' /\ msize' <= nextBlockIndex'
<1>1. TypeInv' /\ NoFrames' /\ RefInv'
  BY LoadType, LoadedRefs
<1>2. /\ free_block_list' = disk.free /\ nextBlockIndex' = msize /\ msize' = msize
      /\ master' = master
      /\ \A j \in DOMAIN disk.free : ~(disk.free[j] >= msize)
  BY DEF Load, LoadedFree, AppendAt
<1>3. /\ disk.free \in Seq(Slots) /\ msize \in 0 .. MaxSlots /\ MaxSlots \in Nat
      /\ \A s \in Slots : s \in Nat
      /\ \A i \in DOMAIN disk.infos : disk.infos[i].masterBlockIndex \in Slots
  <2>1. disk.free \in Seq(Slots) /\ disk.infos \in Seq(SavedInfo)
    BY DEF MountInv, Disk
  <2>2. \A r \in SavedInfo : r.masterBlockIndex \in Slots
    BY DEF SavedInfo, Info
  <2>3. \A i \in DOMAIN disk.infos : disk.infos[i] \in SavedInfo
    BY <2>1
  <2> QED  BY <2>1, <2>2, <2>3, BoundsAssumption DEF MountInv, SizeOK, Slots
<1>4. PICK adr \in [DOMAIN disk.infos -> Infos] :
             /\ \A i, j \in DOMAIN adr : adr[i] = adr[j] => i = j
             /\ heap' = {adr[i] : i \in DOMAIN adr}
             /\ \A i \in DOMAIN adr : info'[adr[i]] = disk.infos[i] /\ PublishedAfter(adr[i])
  BY LoadedTables
<1>5. ASSUME NEW s \in Slots, s < b PROVE s < msize
  <2>1. CASE s \in Range(disk.free)
    <3>1. PICK j \in DOMAIN disk.free : disk.free[j] = s
      BY <2>1 DEF Range
    <3> QED  BY <1>2, <1>3, <3>1
  <2>2. CASE \E i \in DOMAIN disk.infos : disk.infos[i].masterBlockIndex = s
    <3>1. master[s] # NULL
      BY <2>2 DEF FilesOwn
    <3> QED  BY <3>1 DEF MountInv, SizeOK, Written
  <2> QED  BY <1>5, <2>1, <2>2 DEF FilesOwn
<1>6. b = msize
  <2>1. msize <= b
    BY DEF FilesOwn
  <2>2. ASSUME msize < b PROVE FALSE
    <3>1. msize \in Slots
      BY <1>3, <2>2 DEF Slots
    <3> QED  BY <1>3, <1>5, <2>2, <3>1
  <2> QED  BY <1>3, <2>1, <2>2
<1>7. NoRepeats(free_block_list)'
  BY <1>2 DEF FilesOwn, NoRepeats
<1>8. /\ (ListsOK /\ ReleasesOK /\ PendingOK /\ FlushedOK)'
      /\ \A u \in Threads, s \in Slots : ~InRel(u, s)'
      /\ \A u \in Threads, i \in Idx, s \in Slots : ~Pend(u, i, s)'
  <2>1. (NoFrames /\ NoRepeats(free_block_list))'
    BY <1>1, <1>7
  <2>2. (/\ ListsOK /\ ReleasesOK /\ PendingOK /\ FlushedOK
         /\ \A u \in Threads, s \in Slots : ~InRel(u, s)
         /\ \A u \in Threads, i \in Idx, s \in Slots : ~Pend(u, i, s))'
    BY <2>1, NoFramesLists, PTL
  <2> QED  BY <2>2
<1>9. \A s \in Slots, i \in DOMAIN adr :
          Pub(adr[i], s)' <=> disk.infos[i].masterBlockIndex = s
  BY <1>4 DEF Pub, Published, PublishedAfter
<1>10. \A s, p : Pub(p, s)' => \E i \in DOMAIN adr : p = adr[i]
  BY <1>4 DEF Pub
<1>11. \A s : InFree(s)' <=> s \in Range(disk.free)
  BY <1>2 DEF InFree
<1>12. ASSUME NEW s \in Slots
       PROVE  IF s < nextBlockIndex' THEN OwnedOnce(s)' ELSE Unowned(s)'
  <2>1. CASE s \in Range(disk.free)
    <3>1. \A p \in Infos : ~Pub(p, s)'
      BY <1>9, <1>10, <2>1 DEF FilesOwn
    <3>2. s < nextBlockIndex'
      BY <1>2, <1>6, <2>1 DEF FilesOwn
    <3> QED  BY <1>8, <1>11, <2>1, <3>1, <3>2, NowFree
  <2>2. ASSUME NEW i \in DOMAIN adr, disk.infos[i].masterBlockIndex = s
        PROVE  s < nextBlockIndex' /\ OwnedOnce(s)'
    <3>1. ~InFree(s)'
      BY <1>11, <2>2 DEF FilesOwn
    <3>2. \A q \in Infos : Pub(q, s)' <=> q = adr[i]
      BY <1>9, <1>10, <2>2 DEF FilesOwn
    <3>3. s < nextBlockIndex'
      BY <1>2, <1>6, <2>2 DEF FilesOwn
    <3> QED  BY <1>8, <3>1, <3>2, <3>3, NowPub
  <2>3. CASE /\ s \notin Range(disk.free)
             /\ \A i \in DOMAIN adr : disk.infos[i].masterBlockIndex # s
    <3>1. ~InFree(s)' /\ \A p : ~Pub(p, s)'
      BY <1>9, <1>10, <1>11, <2>3
    <3>2. Unowned(s)'
      BY <1>8, <3>1 DEF Unowned, Owns
    <3>3. ~(s < nextBlockIndex')
      BY <1>2, <1>6, <2>3 DEF FilesOwn
    <3> QED  BY <3>2, <3>3
  <2> QED  BY <2>1, <2>2, <2>3
<1>13. OwnersOK'
  BY <1>12 DEF OwnersOK
<1>14. ContentsOK'
  <2>1. ASSUME NEW i \in DOMAIN adr
        PROVE  /\ master'[info'[adr[i]].masterBlockIndex] # NULL
               /\ HashOf[master'[info'[adr[i]].masterBlockIndex]] = info'[adr[i]].hash
    BY <1>2, <1>4 DEF FilesOwn
  <2> QED  BY <1>4, <2>1 DEF ContentsOK
<1>15. msize' <= nextBlockIndex'
  BY <1>2, <1>3
<1> QED  BY <1>1, <1>8, <1>13, <1>14, <1>15 DEF ContentInv, SlotInv

\* A process that is gone holds nothing.
LEMMA ForgetClean ==
    ASSUME RefcountsFit, TypeInv, Forget
    PROVE  ContentInv' /\ RefInv'
<1>1. TypeInv' /\ NoFrames'
  BY ForgetType
<1>2. /\ heap' = {} /\ free_block_list' = <<>> /\ nextBlockIndex' = 0
      /\ \A h \in Hashes : hash_to_master'[h] = NULL
      /\ \A x \in Key : file_to_master'[x] = NULL
  BY DEF Forget, NoTable
<1>3. TablesOK' /\ (\A p \in heap : info[p].refcount = Cardinality(MappedRefs(p)))'
  BY <1>2 DEF TablesOK
<1>4. RefInv'
  BY <1>1, <1>3, NoFramesRef, PTL
<1>5. NoRepeats(free_block_list)'
  BY <1>2 DEF NoRepeats
<1>6. /\ (ListsOK /\ ReleasesOK /\ PendingOK /\ FlushedOK)'
      /\ \A u \in Threads, s \in Slots : ~InRel(u, s)'
      /\ \A u \in Threads, i \in Idx, s \in Slots : ~Pend(u, i, s)'
  <2>1. (NoFrames /\ NoRepeats(free_block_list))'
    BY <1>1, <1>5
  <2>2. (/\ ListsOK /\ ReleasesOK /\ PendingOK /\ FlushedOK
         /\ \A u \in Threads, s \in Slots : ~InRel(u, s)
         /\ \A u \in Threads, i \in Idx, s \in Slots : ~Pend(u, i, s))'
    BY <2>1, NoFramesLists, PTL
  <2> QED  BY <2>2
<1>7. ASSUME NEW s \in Slots PROVE Unowned(s)' /\ ~(s < nextBlockIndex')
  <2>1. ~InFree(s)' /\ \A p \in Infos : ~Pub(p, s)'
    BY <1>2 DEF InFree, Range, Pub
  <2>2. Unowned(s)'
    BY <1>6, <2>1 DEF Unowned, Owns
  <2> QED  BY <1>2, <2>2, BoundsAssumption DEF Slots
<1>8. OwnersOK' /\ ContentsOK'
  BY <1>2, <1>7 DEF OwnersOK, ContentsOK
<1> QED  BY <1>4, <1>6, <1>8 DEF ContentInv, SlotInv

\* A handler never takes the point of append back.
LEMMA AppendGrows ==
    ASSUME TypeInv, ReleasesOK, NEW t \in Threads, Dispatch(t) \/ Step(t)
    PROVE  nextBlockIndex <= nextBlockIndex'
<1>a. nextBlockIndex \in Nat
  BY SlotTypes
<1>1. CASE AppendSlots(t)
  <2>1. Cardinality(Unassigned(t)) \in Nat
    BY UnassignedFinite, FS_CardinalityType
  <2> QED  BY <1>1, <1>a, <2>1 DEF AppendSlots
<1>2. CASE Dispatch(t) \/ StillWrite(t) \/ QuietOther(t)
  BY <1>2, <1>a, StillLists
<1>3. CASE CountHit(t) \/ PlanMiss(t) \/ Drain(t)
  BY SMTT(30), <1>3, <1>a DEF allocVars, CountHit, PlanMiss, Drain
<1>5. CASE PublishOurs(t) \/ UseWinner(t)
  <2>1. nextBlockIndex' = nextBlockIndex
    BY <1>5 DEF allocVars, PublishOurs, UseWinner
  <2> QED  BY SMTT(30), <1>a, <2>1
<1>6. CASE MapBlock(t) \/ RemoveBlock(t)
  BY <1>6, <1>a DEF allocVars, MapBlock, RemoveBlock
<1>4. CASE RbHit(t) \/ RbMiss(t) \/ ReleaseAfterWrite(t) \/ ReleaseAndGo(t)
  BY <1>4, <1>a DEF allocVars, RbHit, RbMiss, ReleaseAfterWrite, ReleaseAndGo
<1> QED  BY <1>1, <1>2, <1>3, <1>4, <1>5, <1>6 DEF Step, StillWrite, QuietOther

\* In a session the master file ends at or before the point of append.
LEMMA SizeBelow ==
    ASSUME SizeOK, SlotInv, msize <= nextBlockIndex, NEW t \in Threads, Session(t)
    PROVE  msize' <= nextBlockIndex'
<1>a. TypeInv /\ nextBlockIndex \in Nat /\ msize \in Nat /\ nextBlockIndex <= nextBlockIndex'
  BY SlotTypes, AppendGrows, SessionSteps DEF SlotInv, RefInv, SizeOK
<1>b. TypeInv' /\ SizeOK'
  BY <1>a, SessionSteps, TypeInvStep, SizeStep
<1>c. nextBlockIndex' \in Nat /\ msize' \in Nat
  BY <1>b, BoundsAssumption DEF SizeOK, TypeInv, TypeOK, AllocType
<1>1. CASE msize' = msize
  BY <1>1, <1>a, <1>c
<1>2. ASSUME NEW j \in Idx, pc[t] = "w_flush", IsMiss(t, j),
             msize' <= plan[t][j].master_blk + 1
      PROVE  msize' <= nextBlockIndex'
  <2>s. PICK s : s = plan[t][j].master_blk
    OBVIOUS
  <2>1. s \in Slots /\ s \in Nat
    BY <1>2, <1>a, <2>s, PlanFacts, BoundsAssumption DEF SlottedPCs, Slots
  <2>2. Pend(t, j, s)
    BY <1>2, <2>s DEF Pend, OwnsPending, HoldsRef
  <2>3. s < nextBlockIndex
    BY <2>1, <2>2, PendOnly DEF SlotInv
  <2> QED  BY <1>2, <1>a, <1>c, <2>s, <2>1, <2>3
<1> QED  BY <1>1, <1>2, <1>a, SizeStep

CleanInv ==
    /\ SaveInv /\ RefInv
    /\ ~damaged => ContentInv /\ (phase # "down" => msize <= nextBlockIndex)
    /\ phase = "down" => /\ FilesSound
                         /\ ~damaged => \E b \in 0 .. MaxSlots : FilesOwn(b)

LEMMA CleanInit == ASSUME RefcountsFit, MountInit PROVE CleanInv
<1>1. RefInv /\ ContentInv
  BY InitFresh, RefInit, ContentInit DEF MountInit
<1>2. SaveInv
  BY MountInvInit DEF MountInit, SaveInv, Saving
<1>3. msize <= nextBlockIndex /\ phase = "mounted"
  BY DEF MountInit, Init, FreshInit
<1> QED  BY <1>1, <1>2, <1>3 DEF CleanInv

LEMMA CleanStep ==
    ASSUME RefcountsFit, DistinctBatches, CleanSaves, CleanInv, [MountNext]_allVars
    PROVE  CleanInv'
<1>a. SaveInv /\ SaveInv' /\ MountInv /\ RefInv /\ TypeInv /\ SizeOK
  BY SaveStep DEF CleanInv, SaveInv, MountInv
<1>1. ASSUME NEW t \in Threads, Session(t) PROVE CleanInv'
  <2>1. phase = "mounted" /\ phase' = "mounted" /\ damaged' = damaged /\ Next
    BY <1>1, SessionSteps DEF mountVars
  <2>2. RefInv'
    BY <1>a, <2>1, RefStep
  <2>3. ~damaged => ContentInv'
    BY <2>1, ContentStep DEF CleanInv
  <2>4. ~damaged => msize' <= nextBlockIndex'
    BY <1>1, <1>a, <2>1, SizeBelow DEF CleanInv, ContentInv
  <2> QED  BY <1>a, <2>1, <2>2, <2>3, <2>4 DEF CleanInv
<1>2. CASE Saves
  <2>1. UNCHANGED <<vars, msize, damaged>> /\ phase' # "down" /\ phase # "down"
    <3>1. phase # "down"
      BY <1>2 DEF Saves, Unmount, OpenSecond, SaveInfos, SaveHash, SaveFile, SaveSizes, Save
    <3> QED  BY <1>2, <1>a, <3>1, SavesFacts
  <2>2. RefInv'
    BY <1>a, <2>1, RefStep
  <2>3. ~damaged => ContentInv'
    BY <2>1, ContentStep DEF CleanInv
  <2>4. nextBlockIndex' = nextBlockIndex
    BY <2>1 DEF vars, dataVars, allocVars
  <2> QED  BY <1>a, <2>1, <2>2, <2>3, <2>4 DEF CleanInv
<1>3. CASE SaveFree
  <2>1. Forget /\ phase = "free" /\ phase' = "down" /\ damaged' = damaged
    BY <1>3, <1>a, CleanEnd
  <2>2. FilesSound'
    BY <1>3, <1>a, SavedSound
  <2>3. ContentInv' /\ RefInv'
    BY <1>a, <2>1, ForgetClean
  <2>4. ~damaged => \E b \in 0 .. MaxSlots : FilesOwn(b)'
    <3>b. PICK b : b = nextBlockIndex
      OBVIOUS
    <3>1. b \in 0 .. MaxSlots
      BY <1>a, <3>b DEF TypeInv, TypeOK, AllocType
    <3>2. ~damaged => FilesOwn(b)'
      BY <1>3, <1>a, <2>1, <3>b, SavedOwn DEF CleanInv
    <3> QED  BY <3>1, <3>2
  <2> QED  BY <1>a, <2>1, <2>2, <2>3, <2>4 DEF CleanInv
<1>4. CASE Load
  <2>1. phase = "down" /\ phase' = "mounted" /\ (~damaged' => ~damaged)
    BY <1>4 DEF Load
  <2>2. RefInv'
    BY <1>4, <1>a, <2>1, LoadedRefs DEF CleanInv
  <2>3. ~damaged' => ContentInv' /\ msize' <= nextBlockIndex'
    BY <1>4, <1>a, <2>1, LoadedOwn DEF CleanInv
  <2> QED  BY <1>a, <2>1, <2>2, <2>3 DEF CleanInv
<1>5. CASE UNCHANGED allVars
  <2>1. UNCHANGED <<vars, msize, damaged, phase, disk>>
    BY <1>5 DEF allVars, mountVars
  <2>2. RefInv'
    BY <1>a, <2>1, RefStep
  <2>3. ~damaged => ContentInv'
    BY <2>1, ContentStep DEF CleanInv
  <2>4. nextBlockIndex' = nextBlockIndex /\ master' = master
    BY <2>1 DEF vars, dataVars, allocVars
  <2>5. FilesSound => FilesSound'
    <3>1. \A i : FileRefs(i)' = FileRefs(i)
      BY <2>1 DEF FileRefs
    <3> QED  BY <2>1, <3>1 DEF FilesSound
  <2>6. \A b : FilesOwn(b) => FilesOwn(b)'
    BY <2>1, <2>4 DEF FilesOwn
  <2> QED  BY <1>a, <2>1, <2>2, <2>3, <2>4, <2>5, <2>6 DEF CleanInv
<1> QED
  BY <1>1, <1>2, <1>3, <1>4, <1>5 DEF MountNext, Saves, Over, Crash, CleanSaves

\* Mounted, saving or down, through any number of clean unmounts.
LEMMA CleanAlways ==
    ASSUME RefcountsFit, DistinctBatches, CleanSaves
    PROVE  MountSpec => []CleanInv
<1>1. MountInit => CleanInv
  BY CleanInit
<1>2. CleanInv /\ [MountNext]_allVars => CleanInv'
  BY CleanStep
<1> QED  BY <1>1, <1>2, PTL DEF MountSpec

\* Over any number of mounts every slot below the point of append has one owner,
\* whatever the handlers of each session did: the free list and the slots of the
\* MasterInfos are saved, renumbered and loaded without losing or doubling one, and
\* the size of the master file restores the point of append (passthrough.c:107-113).
\* A free slot at or beyond that size, rolled back before anything was written
\* there, is the one exception, and it is what `damaged' records.
THEOREM SlotsSurvive ==
    ASSUME RefcountsFit, DistinctBatches, CleanSaves
    PROVE  MountSpec => []SlotsOwned
<1>1. CleanInv => SlotsOwned
  BY OwnedPartition DEF CleanInv, ContentInv, SlotsOwned
<1> QED  BY CleanAlways, <1>1, PTL

\* After any number of mounts a published MasterInfo still names a slot that holds
\* a payload with its digest.
THEOREM BlocksSurvive ==
    ASSUME RefcountsFit, DistinctBatches, CleanSaves
    PROVE  MountSpec => []BlocksMatchHash
<1>1. CleanInv => BlocksMatchHash
  BY RightContents DEF CleanInv, BlocksMatchHash
<1> QED  BY CleanAlways, <1>1, PTL

\* Refcounts stay exact over unmount and mount, damaged or not: a save writes each
\* MasterInfo once, with its count, and a load gives every block mapped to it the
\* one object read back for it.
THEOREM RefcountsSurvive ==
    ASSUME RefcountsFit, DistinctBatches, CleanSaves
    PROVE  MountSpec => [](RefcountExact /\ NoDanglingInfo)
<1>1. CleanInv => RefcountExact /\ NoDanglingInfo
  BY NothingReachesFreed DEF CleanInv, RefInv
<1> QED  BY CleanAlways, <1>1, PTL

-----------------------------------------------------------------------------
(* Nothing in use lies at or beyond the point of append, also after crashes *)
(* and failed saves: what has been appended is written before it is mapped, *)
(* and so lies inside the master file, whose size the next mount starts at. *)

\* No write has failed: no batch is rolled back.  A batch has a block.
RollbackPCs == {"rb_wrlock", "rb_hits", "rb_release", "rb_mutex", "rb_miss"}
BatchesOK == \A t \in Threads : pc[t] \in WritePCs => N(t) > 0 /\ pc[t] \notin RollbackPCs

ListsBelow == /\ \A s \in Range(free_block_list) : s < nextBlockIndex
              /\ \A u \in Threads : \A s \in Range(rel[u]) : s < nextBlockIndex
PlansBelow == \A u \in Threads, i \in Idx :
                  plan[u][i].master_blk # NULL => plan[u][i].master_blk < nextBlockIndex

\* A MasterInfo that waits for its slot has slot 0.
InfosBelow == \A p \in Infos :
    info[p].masterBlockIndex < nextBlockIndex \/ info[p].masterBlockIndex = 0

\* Until the first append nothing is published, and a batch that has a HIT has the
\* MISS of the same block.
EarlyPCs == {"w_rdlock", "w_plan", "w_hit", "w_drain", "w_append"}
NoneAppended ==
    /\ \A h \in Hashes : hash_to_master[h] = NULL
    /\ \A x \in Key : file_to_master[x] = NULL
    /\ \A t \in Threads :
         /\ pc[t] \in WritePCs \cup {"w_release"} => pc[t] \in EarlyPCs
         /\ (\E i \in Idx : Planned(t, i)) => \E i \in Idx : IsMiss(t, i)
SeedOK == nextBlockIndex = 0 => NoneAppended

\* What has been appended is in the file, or will be when its batch is flushed.
Unflushed(t, i, s) ==
    pc[t] = "w_flush" /\ IsMiss(t, i) /\ i >= k[t] /\ plan[t][i].master_blk = s
CoverOK == \A s \in Slots : s < nextBlockIndex =>
               s < msize \/ \E t \in Threads, i \in Idx : Unflushed(t, i, s)

SessionBelow ==
    /\ ShapeOK /\ LoopsOK /\ ReleasesOK
    /\ BatchesOK /\ ListsBelow /\ PlansBelow /\ InfosBelow /\ SeedOK /\ CoverOK

\* A session without failed writes.
Works(t) == Session(t) /\ ~PwriteFails

LEMMA WorkSteps ==
    ASSUME TypeInv, NEW t \in Threads, Works(t)
    PROVE  /\ Dispatch(t) \/ Step(t)
           /\ ~FlushFail(t)
           /\ \/ msize' = msize /\ ~FlushRun(t)
              \/ \E i \in Idx, e \in 1 .. MaxBlocks : FlushRunAt(t, i, e) /\ Extend(t, i, e - i)
<1>1. /\ Dispatch(t) \/ Step(t)
      /\ \/ msize' = msize /\ ~FlushRun(t) /\ ~FlushFail(t)
         \/ \E i \in Idx, e \in 1 .. MaxBlocks : FlushRunAt(t, i, e) /\ Extend(t, i, e - i)
  BY SessionSteps, SessionSize DEF Works
<1>2. ASSUME NEW i \in Idx, NEW e \in 1 .. MaxBlocks, FlushRunAt(t, i, e) PROVE ~FlushFail(t)
  <2>1. pc' = pc /\ pc[t] = "w_flush"
    BY <1>2 DEF FlushRunAt
  <2>2. FlushFail(t) => pc' = [pc EXCEPT ![t] = "rb_wrlock"]
    BY DEF FlushFail, FlushFailAt, Goto
  <2>3. pc \in [Threads -> PCs]
    BY DEF TypeInv, TypeOK, ControlType
  <2> QED  BY <2>1, <2>2, <2>3
<1> QED  BY <1>1, <1>2

LEMMA BatchesStep ==
    ASSUME TypeInv, BatchesOK, NEW t \in Threads, Works(t)
    PROVE  BatchesOK'
<1>a. /\ pc \in [Threads -> PCs] /\ req \in [Threads -> Requests \cup {NULL}]
      /\ pc[t] \in WritePCs => N(t) > 0 /\ pc[t] \notin RollbackPCs
      /\ Dispatch(t) \/ Step(t)
  BY WorkSteps DEF TypeInv, TypeOK, ControlType, BatchesOK
<1>1. ASSUME NEW u \in Threads, u # t, pc'[u] \in WritePCs
      PROVE  N(u)' > 0 /\ pc'[u] \notin RollbackPCs
  BY <1>1, <1>a, OthersUnchanged DEF TypeInv, BatchesOK, SameFrame, N
<1>2. ASSUME pc'[t] \in WritePCs PROVE N(t)' > 0 /\ pc'[t] \notin RollbackPCs
  <2> USE <1>a DEF frameVars, Goto, NextIter, SetK, Return
  <2>1. CASE Dispatch(t)
    <3>1. PICK r \in Requests : pc' = [pc EXCEPT ![t] = Entry(r)] /\
              req' = [req EXCEPT ![t] = IF Entry(r) = "idle" THEN NULL ELSE r]
      BY <2>1 DEF Dispatch
    <3>2. Entry(r) = "w_rdlock" /\ req'[t] = r
      BY <1>2, <3>1, EntryRange DEF WritePCs
    <3>3. NumBlocks(r) # 0
      BY <3>2, RequestsAssumption DEF Entry, WriteEntry, ReadEntry, TruncateEntry, Ops
    <3> QED  BY <3>1, <3>2, <3>3, RequestFacts DEF N, RollbackPCs
  <2>2. CASE PlanLock(t) \/ PlanHit(t) \/ PlanUnlock(t) \/ CountHit(t) \/ PlanMiss(t)
    BY <2>2 DEF PlanLock, PlanHit, PlanUnlock, CountHit, PlanMiss, N, WritePCs, RollbackPCs
  <2>3. CASE FlushRun(t) \/ FlushDone(t) \/ WriteLock(t) \/ PublishSkip(t)
    BY <1>2, <2>3 DEF FlushRun, FlushRunAt, FlushDone, WriteLock, PublishSkip, N, WritePCs,
       RollbackPCs
  <2>4. CASE PublishDone(t) \/ Commit(t) \/ RbUnlock(t) \/ RbMutex(t) \/ RbDone(t)
    BY <1>2, <2>4 DEF PublishDone, Commit, RbUnlock, RbMutex, RbDone, N, WritePCs, RollbackPCs
  <2>5. CASE UnlinkReadSize(t) \/ RemoveUnlock(t) \/ UnlinkDropSize(t) \/ ReadBlock(t)
    BY <1>2, <2>5 DEF UnlinkReadSize, RemoveUnlock, UnlinkDropSize, ReadBlock, BeginRemoval,
       WritePCs
  <2>6. CASE TruncateReadSize(t) \/ UnlinkBackend(t) \/ TruncateSetSize(t) \/ Create(t)
    BY <1>2, <2>6 DEF TruncateReadSize, UnlinkBackend, TruncateSetSize, Create, BeginRemoval,
       WritePCs
  <2>7. CASE ReadLookup(t) \/ ReadReturn(t)
    BY <1>2, <2>7 DEF ReadLookup, ReadReturn, WritePCs
  <2>8. CASE Drain(t) \/ AppendSlots(t) \/ ReleaseAfterWrite(t) \/ ReleaseAndGo(t)
    BY <1>2, <2>8 DEF Drain, AppendSlots, ReleaseAfterWrite, ReleaseAndGo, N, WritePCs,
       RollbackPCs
  <2>9. CASE PublishOurs(t) \/ UseWinner(t) \/ MapBlock(t) \/ RbHit(t) \/ RbMiss(t)
    <3>0. UseWinner(t) => pc' = pc /\ req' = req
      BY SMTT(30) DEF UseWinner
    <3>1. pc' = pc /\ req' = req
      BY <2>9, <3>0 DEF PublishOurs, MapBlock, RbHit, RbMiss
    <3> QED  BY <1>2, <3>1 DEF N
  <2>10. CASE RemoveBlock(t)
    <3>1. pc' = pc /\ req' = req
      BY <2>10 DEF RemoveBlock
    <3> QED  BY <1>2, <3>1 DEF N
  <2> QED
    BY WorkSteps, <2>1, <2>2, <2>3, <2>4, <2>5, <2>6, <2>7, <2>8, <2>9, <2>10 DEF Step
<1> QED  BY <1>1, <1>2 DEF BatchesOK

\* The steps that are left when no write fails and that move slots or plans.
LEMMA WorkCases ==
    ASSUME TypeInv, BatchesOK, NEW t \in Threads, Works(t)
    PROVE  \/ Dispatch(t) \/ StillWrite(t) \/ QuietOther(t)
           \/ CountHit(t) \/ PlanMiss(t) \/ Drain(t) \/ AppendSlots(t)
           \/ PublishOurs(t) \/ UseWinner(t) \/ MapBlock(t) \/ RemoveBlock(t)
           \/ ReleaseAfterWrite(t) \/ ReleaseAndGo(t)
<1>1. ~RbHit(t) /\ ~RbMiss(t)
  BY DEF BatchesOK, RollbackPCs, RbHit, RbMiss, WritePCs
<1> QED  BY <1>1, WorkSteps DEF Step, StillWrite, QuietOther

LEMMA PointGrows ==
    ASSUME TypeInv, ReleasesOK, NEW t \in Threads, Dispatch(t) \/ Step(t)
    PROVE  /\ nextBlockIndex \in Nat /\ nextBlockIndex' \in Nat
           /\ nextBlockIndex <= nextBlockIndex'
<1>1. TypeInv'
  BY TypeInvStep DEF Next
<1>2. nextBlockIndex \in Nat /\ nextBlockIndex' \in Nat
  BY <1>1, BoundsAssumption DEF TypeInv, TypeOK, AllocType
<1> QED  BY <1>2, AppendGrows

\* Once a table knows anything, something has been appended.
LEMMA TablesBelow ==
    ASSUME TypeInv, InfosBelow, SeedOK, NEW p, Known(p)
    PROVE  p \in Infos /\ info[p].masterBlockIndex < nextBlockIndex
<1>1. nextBlockIndex \in Nat /\ nextBlockIndex # 0
  BY SlotTypes DEF Known, SeedOK, NoneAppended
<1>2. p \in Infos
  BY DEF Known, TypeInv, TypeOK, IndexType
<1> QED  BY <1>1, <1>2 DEF InfosBelow

\* The slot of a MasterInfo that a table gives up goes onto the handler's list.
LEMMA DropBelow ==
    ASSUME TypeInv, InfosBelow, SeedOK, ListsBelow, NEW t \in Threads, NEW p, Known(p),
           DropRef(t, p)
    PROVE  \A u \in Threads : \A s \in Range(rel'[u]) : s < nextBlockIndex
<1>a. rel \in [Threads -> Seq(Slots)] /\ \A u \in Threads : \A s \in Range(rel[u]) : s < nextBlockIndex
  BY SlotTypes DEF ListsBelow
<1>s. PICK s : s = info[p].masterBlockIndex
  OBVIOUS
<1>1. s \in Slots /\ s < nextBlockIndex
  BY <1>s, TablesBelow, SlotTypes
<1>2. rel' = rel \/ rel' = [rel EXCEPT ![t] = <<s>> \o @]
  BY <1>s DEF DropRef
<1>3. rel'[t] = rel[t] \/ rel'[t] = <<s>> \o rel[t]
  BY <1>a, <1>2
<1>4. \A v \in Range(rel'[t]) : v < nextBlockIndex
  BY <1>a, <1>1, <1>3, ConsFacts
<1> QED  BY <1>a, <1>2, <1>4

\* What MapBlock and RemoveBlock drop is known to file_to_master.
LEMMA DropsKnown ==
    ASSUME TypeInv, NEW t \in Threads, MapBlock(t) \/ RemoveBlock(t)
    PROVE  \/ rel' = rel /\ hash_to_master' = hash_to_master /\ info' = info
           \/ \E p : Known(p) /\ DropRef(t, p)
<1>1. CASE MapBlock(t)
  <2>1. KeyOf(t, k[t]) \in Key
    BY <1>1, IterFacts DEF MapBlock, WritePCs
  <2> QED  BY <1>1, <2>1 DEF MapBlock, Known, heapVars
<1>2. CASE RemoveBlock(t)
  <2>1. pc[t] = "rm_loop" /\ k[t] < lim[t]
    BY <1>2 DEF RemoveBlock
  <2>2. req[t] \in Requests /\ k[t] \in 0 .. MaxBlocks /\ lim[t] \in 0 .. MaxBlocks
    BY <2>1 DEF TypeInv, TypeOK, ControlType, FramesOK, FrameOK
  <2>3. <<req[t].path, k[t]>> \in Key
    BY <2>1, <2>2, RequestFacts, BoundsAssumption DEF Key, Blocks
  <2> QED  BY <1>2, <2>3 DEF RemoveBlock, Known, heapVars
<1> QED  BY <1>1, <1>2

LEMMA ListsStep ==
    ASSUME TypeInv, SessionBelow, NEW t \in Threads, Works(t)
    PROVE  ListsBelow'
<1>p. PICK n : n = nextBlockIndex
  OBVIOUS
<1>a. /\ free_block_list \in Seq(Slots) /\ rel \in [Threads -> Seq(Slots)]
      /\ \A s \in Range(free_block_list) : s < n
      /\ \A u \in Threads : \A s \in Range(rel[u]) : s < n
      /\ n \in Nat /\ Slots \subseteq Nat
  BY <1>p, SlotTypes, BoundsAssumption DEF SessionBelow, ListsBelow, Slots
<1>b. nextBlockIndex' \in Nat /\ n <= nextBlockIndex'
  BY <1>p, PointGrows, WorkSteps DEF SessionBelow
<1>c. free_block_list' \in Seq(Slots) /\ rel' \in [Threads -> Seq(Slots)]
  <2>1. TypeInv'
    BY WorkSteps, TypeInvStep DEF Next
  <2> QED  BY <2>1 DEF TypeInv, TypeOK, AllocType, WorkType
<1>q. SUFFICES /\ \A s \in Range(free_block_list') : s < n
               /\ \A u \in Threads : \A s \in Range(rel'[u]) : s < n
  <2>1. ASSUME NEW q \in Seq(Slots) PROVE Range(q) \subseteq Nat
    <3>1. \A i \in DOMAIN q : q[i] \in Slots
      OBVIOUS
    <3> QED  BY <1>a, <3>1 DEF Range
  <2>2. ASSUME NEW q \in Seq(Slots), \A s \in Range(q) : s < n
        PROVE  \A s \in Range(q) : s < nextBlockIndex'
    BY <1>a, <1>b, <2>1, <2>2
  <2> QED  BY <1>c, <1>q, <2>2 DEF ListsBelow
<1>1. CASE Dispatch(t) \/ StillWrite(t) \/ QuietOther(t)
  <2>1. free_block_list' = free_block_list /\ rel' = rel
    BY <1>1, StillLists DEF SessionBelow
  <2> QED  BY <1>a, <2>1
<1>2. CASE CountHit(t) \/ PlanMiss(t) \/ AppendSlots(t) \/ PublishOurs(t)
  <2>0. AppendSlots(t) => free_block_list' = free_block_list /\ rel' = rel
    BY SMTT(30) DEF AppendSlots
  <2>1. free_block_list' = free_block_list /\ rel' = rel
    BY <1>2, <2>0 DEF CountHit, PlanMiss, PublishOurs, allocVars, frameVars
  <2> QED  BY <1>a, <2>1
<1>3. CASE Drain(t)
  <2>1. /\ rel' = rel
        /\ free_block_list' = SubSeq(free_block_list, Taken(t) + 1, Len(free_block_list))
    BY <1>3 DEF Drain
  <2>2. Taken(t) \in Nat /\ Taken(t) <= Len(free_block_list)
    BY <1>a, UnassignedFinite DEF Taken
  <2>3. Range(free_block_list') \subseteq Range(free_block_list)
    BY <1>a, <2>1, <2>2, TailRange
  <2> QED  BY <1>a, <2>1, <2>3
<1>4. CASE UseWinner(t)
  <2>s. PICK s : s = plan[t][k[t]].master_blk
    OBVIOUS
  <2>1. /\ pc[t] = "w_publish" /\ k[t] < N(t) /\ IsMiss(t, k[t])
        /\ rel' = [rel EXCEPT ![t] = <<s>> \o @] /\ free_block_list' = free_block_list
    BY <1>4, <2>s DEF UseWinner, allocVars
  <2>2. k[t] \in Idx
    BY <2>1, IterFacts DEF WritePCs
  <2>3. s \in Slots /\ s # NULL
    BY <2>1, <2>2, <2>s, PlanFacts, SlotTypes DEF SlottedPCs
  <2>4. s < n
    BY <1>p, <2>2, <2>3, <2>s DEF SessionBelow, PlansBelow
  <2>5. rel'[t] = <<s>> \o rel[t] /\ \A u \in Threads \ {t} : rel'[u] = rel[u]
    BY <1>a, <2>1
  <2>6. \A v \in Range(rel'[t]) : v < n
    BY <1>a, <2>3, <2>4, <2>5, ConsFacts
  <2> QED  BY <1>a, <2>1, <2>5, <2>6
<1>5. CASE MapBlock(t) \/ RemoveBlock(t)
  <2>1. free_block_list' = free_block_list
    BY <1>5 DEF MapBlock, RemoveBlock, allocVars
  <2>2. rel' = rel \/ \E p : Known(p) /\ DropRef(t, p)
    BY <1>5, DropsKnown
  <2> QED  BY <1>a, <1>p, <2>1, <2>2, DropBelow DEF SessionBelow
<1>6. CASE ReleaseAfterWrite(t) \/ ReleaseAndGo(t)
  <2>1. free_block_list' = rel[t] \o free_block_list /\ rel' = [rel EXCEPT ![t] = <<>>]
    BY <1>6 DEF ReleaseAfterWrite, ReleaseAndGo, Return, Released
  <2>2. Range(free_block_list') = Range(rel[t]) \cup Range(free_block_list)
    BY <1>a, <2>1, ConcatFacts
  <2>3. \A u \in Threads : rel'[u] = rel[u] \/ rel'[u] = <<>>
    BY <1>a, <2>1
  <2>4. Range(<<>>) = {}
    BY DEF Range
  <2> QED  BY <1>a, <2>2, <2>3, <2>4
<1> QED
  BY WorkCases, <1>1, <1>2, <1>3, <1>4, <1>5, <1>6 DEF SessionBelow

LEMMA PlansBelowStep ==
    ASSUME TypeInv, SessionBelow, NEW t \in Threads, Works(t)
    PROVE  PlansBelow'
<1>p. PICK n : n = nextBlockIndex
  OBVIOUS
<1>a. /\ plan \in [Threads -> [Idx -> PlanEntry]] /\ Slots \subseteq Nat /\ NULL \notin Slots
      /\ \A u \in Threads, i \in Idx : plan[u][i].master_blk # NULL => plan[u][i].master_blk < n
      /\ \A u \in Threads, i \in Idx : plan[u][i].master_blk \in Slots \cup {NULL}
      /\ n \in Nat
  BY <1>p, SlotTypes, BoundsAssumption DEF SessionBelow, PlansBelow, PlanEntry, Slots
<1>b. nextBlockIndex' \in Nat /\ n <= nextBlockIndex'
  BY <1>p, PointGrows, WorkSteps DEF SessionBelow
<1>1. ASSUME NEW u \in Threads, u # t, NEW i \in Idx, plan'[u][i].master_blk # NULL
      PROVE  plan'[u][i].master_blk < nextBlockIndex'
  <2>1. plan'[u] = plan[u]
    BY <1>1, OthersUnchanged, WorkSteps DEF TypeInv, SameFrame
  <2>2. plan[u][i].master_blk \in Nat /\ plan[u][i].master_blk < n
    BY <1>1, <1>a, <2>1
  <2> QED  BY <1>b, <1>a, <2>1, <2>2
<1>2. ASSUME NEW i \in Idx, plan'[t][i].master_blk # NULL
      PROVE  plan'[t][i].master_blk < nextBlockIndex'
  <2>o. ASSUME plan'[t][i].master_blk = plan[t][i].master_blk
        PROVE  plan'[t][i].master_blk < nextBlockIndex'
    <3>1. plan[t][i].master_blk \in Nat /\ plan[t][i].master_blk < n
      BY <1>2, <1>a, <2>o
    <3> QED  BY <1>b, <1>a, <2>o, <3>1
  <2>s. ASSUME plan' = plan PROVE plan'[t][i].master_blk < nextBlockIndex'
    BY <2>s, <2>o
  <2>1. CASE Dispatch(t) \/ StillWrite(t) \/ QuietOther(t)
    <3>1. plan'[t] = plan[t] \/ pc'[t] = "idle" \/ PlanHit(t)
      BY <2>1, StillPlan
    <3>2. CASE pc'[t] = "idle"
      <4>1. ShapeOK'
        BY ShapeStep, WorkSteps DEF SessionBelow
      <4>2. plan'[t][i] = NoEntry
        BY <3>2, <4>1, BoundsAssumption DEF ShapeOK, PlanEnd, PlannedPCs, WritePCs, Idx
      <4> QED  BY <1>2, <4>2 DEF NoEntry
    <3>3. CASE PlanHit(t)
      <4>1. PICK p : plan' = [plan EXCEPT ![t][k[t]] =
                                  [kind |-> "HIT", master_blk |-> NULL, info |-> p]]
        BY ZenonT(30), <3>3 DEF PlanHit
      <4>2. plan'[t][i] = plan[t][i] \/ plan'[t][i].master_blk = NULL
        BY SMTT(30), <4>1, <1>a
      <4> QED  BY <1>2, <2>o, <4>2
    <3> QED  BY <2>o, <3>1, <3>2, <3>3
  <2>2. CASE \/ CountHit(t) \/ PublishOurs(t) \/ MapBlock(t) \/ RemoveBlock(t) \/ ReleaseAndGo(t)
    <3>1. plan' = plan
      BY <2>2 DEF CountHit, PublishOurs, MapBlock, RemoveBlock, ReleaseAndGo, frameVars
    <3> QED  BY SMTT(30), <2>s, <3>1
  <2>3. CASE PlanMiss(t)
    <3>1. PICK p : plan' = [plan EXCEPT ![t][k[t]] =
                                [kind |-> "MISS", master_blk |-> NULL, info |-> p]]
      BY <2>3 DEF PlanMiss
    <3>2. plan'[t][i] = plan[t][i] \/ plan'[t][i].master_blk = NULL
      BY <3>1, <1>a
    <3> QED  BY <1>2, <2>o, <3>2
  <2>4. CASE Drain(t)
    <3>1. plan'[t] = [j \in Idx |->
             IF j \in Unassigned(t) /\ Rank(t, j) < Taken(t)
             THEN [plan[t][j] EXCEPT !.master_blk = free_block_list[Rank(t, j) + 1]]
             ELSE plan[t][j]]
      BY <2>4, <1>a DEF Drain
    <3>2. CASE i \in Unassigned(t) /\ Rank(t, i) < Taken(t)
      <4>q. PICK q : q = free_block_list
        OBVIOUS
      <4>r. PICK r : r = Rank(t, i)
        OBVIOUS
      <4>1. r \in Nat /\ r < Len(q) /\ q \in Seq(Slots) /\ DOMAIN q = 1 .. Len(q)
        BY <3>2, <4>q, <4>r, UnassignedFinite, SlotTypes DEF Taken
      <4>2. q[r + 1] \in Range(q)
        BY <4>1 DEF Range
      <4>v. PICK v : v = q[r + 1]
        OBVIOUS
      <4>3. v \in Slots /\ v < n
        BY <1>p, <4>1, <4>2, <4>q, <4>v DEF SessionBelow, ListsBelow
      <4>4. plan'[t][i].master_blk = v
        BY <1>a, <3>1, <3>2, <4>q, <4>r, <4>v DEF PlanEntry
      <4>5. v \in Nat
        BY <1>a, <4>3
      <4>6. v < nextBlockIndex'
        BY <1>a, <1>b, <4>3, <4>5
      <4> QED  BY <4>4, <4>6
    <3>3. CASE ~(i \in Unassigned(t) /\ Rank(t, i) < Taken(t))
      BY <3>1, <3>3, <2>o
    <3> QED  BY <3>2, <3>3
  <2>5. CASE AppendSlots(t)
    <3>1. plan'[t][i].master_blk = IF i \in Unassigned(t) THEN n + Rank(t, i)
                                   ELSE plan[t][i].master_blk
      BY <2>5, <1>p, AppendPlan
    <3>2. nextBlockIndex' = n + Cardinality(Unassigned(t))
      BY <2>5, <1>p DEF AppendSlots
    <3>c. PICK c, r : c = Cardinality(Unassigned(t)) /\ r = Rank(t, i)
      OBVIOUS
    <3>3. CASE i \in Unassigned(t)
      <4>1. c \in Nat /\ r \in Nat /\ r < c
        BY <3>3, <3>c, UnassignedFinite
      <4> QED  BY <1>a, <3>1, <3>2, <3>3, <3>c, <4>1
    <3> QED  BY <2>o, <3>1, <3>3
  <2>6. CASE UseWinner(t)
    <3>1. plan' = [plan EXCEPT ![t][k[t]].info = Winner(t, k[t])]
      BY <2>6 DEF UseWinner
    <3>2. plan'[t][i].master_blk = plan[t][i].master_blk
      BY <1>a, <3>1 DEF PlanEntry
    <3> QED  BY <2>o, <3>2
  <2>7. CASE ReleaseAfterWrite(t)
    <3>1. plan'[t] = NoPlan
      BY <2>7, <1>a DEF ReleaseAfterWrite, Return
    <3> QED  BY <1>2, <3>1 DEF NoPlan, NoEntry
  <2> QED
    BY WorkCases, <2>1, <2>2, <2>3, <2>4, <2>5, <2>6, <2>7 DEF SessionBelow
<1> QED  BY <1>1, <1>2 DEF PlansBelow

LEMMA InfosBelowStep ==
    ASSUME TypeInv, SessionBelow, NEW t \in Threads, Works(t)
    PROVE  InfosBelow'
<1>a. /\ info \in [Infos -> Info] /\ info' \in [Infos -> Info]
      /\ nextBlockIndex \in Nat /\ nextBlockIndex' \in Nat /\ nextBlockIndex <= nextBlockIndex'
      /\ \A p \in Infos : info[p].masterBlockIndex \in Nat /\ info'[p].masterBlockIndex \in Nat
  <2>1. TypeInv'
    BY WorkSteps, TypeInvStep DEF Next
  <2>2. \A r \in Info : r.masterBlockIndex \in Nat
    BY BoundsAssumption DEF Info, Slots
  <2> QED  BY <2>1, <2>2, PointGrows, WorkSteps DEF SessionBelow, TypeInv, TypeOK, HeapType
<1>s. ASSUME NEW p \in Infos,
             info'[p].masterBlockIndex \in {info[p].masterBlockIndex, 0}
      PROVE  info'[p].masterBlockIndex < nextBlockIndex' \/ info'[p].masterBlockIndex = 0
  BY <1>a, <1>s DEF SessionBelow, InfosBelow
<1>r. ASSUME NEW q, NEW n, info' = [info EXCEPT ![q].refcount = n]
      PROVE  \A p \in Infos : info'[p].masterBlockIndex = info[p].masterBlockIndex
  BY <1>a, <1>r DEF Info
<1>1. CASE Dispatch(t) \/ StillWrite(t) \/ QuietOther(t)
  BY SMTT(30), <1>1, <1>s, StillLists DEF SessionBelow, InfosBelow
<1>2. CASE Drain(t) \/ PublishOurs(t) \/ ReleaseAfterWrite(t) \/ ReleaseAndGo(t)
  <2>1. info' = info
    BY <1>2 DEF Drain, PublishOurs, ReleaseAfterWrite, ReleaseAndGo, heapVars
  <2> QED  BY SMTT(30), <1>s, <2>1 DEF InfosBelow
<1>3. CASE CountHit(t) \/ UseWinner(t) \/ MapBlock(t) \/ RemoveBlock(t)
  <2>1. info' = info \/ \E q, n : info' = [info EXCEPT ![q].refcount = n]
    <3>1. CASE MapBlock(t) \/ RemoveBlock(t)
      BY ZenonT(30), <3>1, DropsKnown DEF DropRef
    <3>2. CASE UseWinner(t)
      BY <3>2 DEF UseWinner
    <3>3. CASE CountHit(t)
      BY <3>3 DEF CountHit
    <3> QED  BY <1>3, <3>1, <3>2, <3>3
  <2> QED  BY <1>r, <1>s, <2>1 DEF InfosBelow
<1>4. CASE PlanMiss(t)
  <2>1. PICK q, h : info' = [info EXCEPT ![q] = [hash |-> h, masterBlockIndex |-> 0, refcount |-> 1]]
    BY <1>4 DEF PlanMiss
  <2>2. \A p \in Infos : info'[p].masterBlockIndex \in {info[p].masterBlockIndex, 0}
    BY <1>a, <2>1
  <2> QED  BY <1>s, <2>2 DEF InfosBelow
<1>5. CASE AppendSlots(t)
  <2> DEFINE SlotFor(i) == IF i \in Unassigned(t) THEN nextBlockIndex + Rank(t, i)
                           ELSE plan[t][i].master_blk
             MissOf(p) == {i \in Idx : IsMiss(t, i) /\ plan[t][i].info = p}
  <2>1. info' = [p \in Infos |->
                    IF MissOf(p) = {} THEN info[p]
                    ELSE [info[p] EXCEPT !.masterBlockIndex =
                              SlotFor(CHOOSE i \in MissOf(p) : TRUE)]]
    BY <1>5 DEF AppendSlots
  <2>2. \A i \in Idx : plan'[t][i].master_blk = SlotFor(i)
    BY <1>5, AppendPlan
  <2> HIDE DEF SlotFor
  <2>3. ASSUME NEW p \in Infos
        PROVE  info'[p].masterBlockIndex < nextBlockIndex' \/ info'[p].masterBlockIndex = 0
    <3>1. CASE MissOf(p) = {}
      BY <1>s, <2>1, <3>1
    <3>2. CASE MissOf(p) # {}
      <4>i. PICK i : i = CHOOSE j \in MissOf(p) : TRUE
        OBVIOUS
      <4>1. i \in Idx
        BY <3>2, <4>i
      <4>2. info'[p].masterBlockIndex = plan'[t][i].master_blk
        BY <1>a, <2>1, <2>2, <3>2, <4>i, <4>1 DEF Info
      <4>3. plan'[t][i].master_blk # NULL
        BY <1>a, <4>2, NullAssumption
      <4> QED  BY <4>1, <4>2, <4>3, PlansBelowStep DEF PlansBelow
    <3> QED  BY <3>1, <3>2
  <2> QED  BY <2>3 DEF InfosBelow
<1> QED
  BY WorkCases, <1>1, <1>2, <1>3, <1>4, <1>5 DEF SessionBelow

\* The first append gives a MISS its slot, so afterwards the point has moved.
LEMMA FirstAppend ==
    ASSUME TypeInv, SessionBelow, nextBlockIndex = 0, NEW t \in Threads, AppendSlots(t)
    PROVE  nextBlockIndex' # 0
<1>1. pc[t] = "w_append" /\ nextBlockIndex' = nextBlockIndex + Cardinality(Unassigned(t))
  BY DEF AppendSlots
<1>2. N(t) > 0 /\ N(t) \in Nat /\ 0 \in Idx
  BY <1>1, RequestFacts, BoundsAssumption
     DEF SessionBelow, BatchesOK, WritePCs, TypeInv, FramesOK, FrameOK, N, Idx
<1>3. Planned(t, 0)
  BY <1>1, <1>2 DEF SessionBelow, ShapeOK, PlanEnd, PlannedPCs, WritePCs
<1>4. PICK i \in Idx : IsMiss(t, i)
  BY <1>2, <1>3 DEF SessionBelow, SeedOK, NoneAppended
<1>v. PICK v : v = plan[t][i].master_blk
  OBVIOUS
<1>5. v \in Nat \/ v = NULL
  BY <1>v, SlotTypes, BoundsAssumption DEF PlanEntry, Slots
<1>6. v # NULL => v < 0
  BY <1>v DEF SessionBelow, PlansBelow
<1>7. i \in Unassigned(t)
  BY <1>4, <1>v, <1>5, <1>6 DEF Unassigned
<1>8. Cardinality(Unassigned(t)) \in Nat /\ Rank(t, i) \in Nat /\ Rank(t, i) < Cardinality(Unassigned(t))
  BY <1>7, UnassignedFinite
<1> QED  BY <1>1, <1>8

LEMMA SeedStep ==
    ASSUME TypeInv, SessionBelow, NEW t \in Threads, Works(t)
    PROVE  SeedOK'
<1>a. /\ pc \in [Threads -> PCs] /\ plan \in [Threads -> [Idx -> PlanEntry]]
      /\ file_to_master \in [Key -> Infos \cup {NULL}]
      /\ nextBlockIndex \in Nat /\ nextBlockIndex' \in Nat /\ nextBlockIndex <= nextBlockIndex'
  BY PointGrows, WorkSteps
     DEF SessionBelow, TypeInv, TypeOK, ControlType, WorkType, IndexType
<1>0. SUFFICES ASSUME nextBlockIndex' = 0 PROVE NoneAppended'
  BY DEF SeedOK
<1>b. nextBlockIndex = 0 /\ NoneAppended /\ ~AppendSlots(t)
  <2>1. nextBlockIndex = 0
    BY <1>0, <1>a
  <2> QED  BY <1>0, <2>1, FirstAppend DEF SessionBelow, SeedOK
<1>c. pc[t] \in WritePCs \cup {"w_release"} => pc[t] \in EarlyPCs
  BY <1>b DEF NoneAppended
<1>d. ~PublishOurs(t) /\ ~UseWinner(t) /\ ~MapBlock(t) /\ ~ReleaseAfterWrite(t)
  BY <1>c DEF WritePCs, EarlyPCs, PublishOurs, UseWinner, MapBlock, ReleaseAfterWrite
<1>1. /\ hash_to_master' = hash_to_master
      /\ \A x \in Key : file_to_master'[x] = NULL
  <2>0. \A x \in Key : file_to_master[x] = NULL
    BY <1>b DEF NoneAppended
  <2>1. CASE Dispatch(t) \/ StillWrite(t) \/ QuietOther(t)
    <3>1. Dispatch(t) \/ QuietWrite(t) \/ QuietOther(t)
      BY <2>1 DEF StillWrite, QuietWrite
    <3> QED  BY <2>0, <3>1, QuietIndex DEF SameIndex
  <2>2. CASE CountHit(t) \/ PlanMiss(t) \/ Drain(t) \/ ReleaseAndGo(t)
    BY <2>0, <2>2 DEF CountHit, PlanMiss, Drain, ReleaseAndGo, indexVars
  <2>3. CASE RemoveBlock(t)
    <3>1. hash_to_master' = hash_to_master
      BY <2>3, <1>b, DropsKnown DEF NoneAppended, Known
    <3>2. file_to_master' = [file_to_master EXCEPT ![<<req[t].path, k[t]>>] = NULL]
      BY <2>3 DEF RemoveBlock
    <3> QED  BY <1>a, <2>0, <3>1, <3>2
  <2> QED  BY WorkCases, <1>b, <1>d, <2>1, <2>2, <2>3 DEF SessionBelow
<1>2. ASSUME NEW u \in Threads, u # t
      PROVE  /\ pc'[u] \in WritePCs \cup {"w_release"} => pc'[u] \in EarlyPCs
             /\ (\E i \in Idx : Planned(u, i)') => \E i \in Idx : IsMiss(u, i)'
  <2>1. SameFrame(u)
    BY <1>2, OthersUnchanged, WorkSteps DEF TypeInv
  <2> QED  BY <2>1, <1>b DEF NoneAppended, SameFrame, Planned, IsMiss
<1>m. (\E i \in Idx : Planned(t, i)) => \E i \in Idx : IsMiss(t, i)
  BY <1>b DEF NoneAppended
<1>3. (\E i \in Idx : Planned(t, i)') => \E i \in Idx : IsMiss(t, i)'
  <2>1. CASE Dispatch(t) \/ StillWrite(t) \/ QuietOther(t)
    <3>1. plan'[t] = plan[t] \/ pc'[t] = "idle" \/ PlanHit(t)
      BY <2>1, StillPlan
    <3>2. CASE plan'[t] = plan[t]
      BY <1>m, <3>2 DEF Planned, IsMiss
    <3>3. CASE pc'[t] = "idle"
      <4>1. ShapeOK'
        BY ShapeStep, WorkSteps DEF SessionBelow
      <4>2. \A i \in Idx : plan'[t][i] = NoEntry
        BY <3>3, <4>1, BoundsAssumption DEF ShapeOK, PlanEnd, PlannedPCs, WritePCs, Idx
      <4> QED  BY <4>2 DEF Planned, NoEntry
    <3>4. CASE PlanHit(t)
      <4>1. PICK p \in Existing(t, HashAt(t, k[t])) :
               plan' = [plan EXCEPT ![t][k[t]] =
                            [kind |-> "HIT", master_blk |-> NULL, info |-> p]]
        BY <3>4 DEF PlanHit
      <4>2. pc[t] = "w_plan" /\ k[t] < N(t) /\ HashAt(t, k[t]) \in Hashes /\ k[t] \in Idx
        BY <3>4, IterFacts DEF PlanHit, WritePCs
      <4>3. PICK i \in Idx : IsMiss(t, i)
        BY <4>1, <4>2, <1>b DEF Existing, Pending, NoneAppended
      <4>4. plan[t][k[t]] = NoEntry
        <5>1. PlanEnd(t) = k[t] /\ ~(k[t] < k[t])
          BY <4>2, BoundsAssumption DEF PlanEnd, PlannedPCs, WritePCs, Idx
        <5> QED  BY <4>2, <5>1 DEF SessionBelow, ShapeOK
      <4>5. i # k[t] /\ plan'[t][i] = plan[t][i]
        BY <1>a, <4>1, <4>3, <4>4 DEF IsMiss, NoEntry
      <4> QED  BY <4>3, <4>5 DEF IsMiss
    <3> QED  BY <3>1, <3>2, <3>3, <3>4
  <2>2. CASE CountHit(t) \/ RemoveBlock(t) \/ ReleaseAndGo(t)
    <3>1. plan' = plan
      BY <2>2 DEF CountHit, RemoveBlock, ReleaseAndGo, frameVars
    <3> QED  BY <1>m, <3>1 DEF Planned, IsMiss
  <2>3. CASE PlanMiss(t)
    <3>1. PICK p : plan' = [plan EXCEPT ![t][k[t]] =
                                [kind |-> "MISS", master_blk |-> NULL, info |-> p]]
      BY <2>3 DEF PlanMiss
    <3>2. k[t] \in Idx
      BY <2>3, IterFacts DEF PlanMiss, WritePCs
    <3>3. plan'[t][k[t]].kind = "MISS"
      BY <1>a, <3>1, <3>2
    <3> QED  BY <3>2, <3>3 DEF IsMiss
  <2>4. CASE Drain(t)
    <3>1. \A i \in Idx : plan'[t][i].kind = plan[t][i].kind
      BY <2>4, SlotsOnly
    <3> QED  BY <1>m, <3>1 DEF Planned, IsMiss
  <2> QED  BY WorkCases, <1>b, <1>d, <2>1, <2>2, <2>3, <2>4 DEF SessionBelow
<1>4. ASSUME pc'[t] \in WritePCs \cup {"w_release"} PROVE pc'[t] \in EarlyPCs
  <2> USE <1>a DEF Goto, NextIter, SetK, Return, WritePCs, EarlyPCs
  <2>1. CASE Dispatch(t)
    <3>1. PICK r \in Requests : pc' = [pc EXCEPT ![t] = Entry(r)]
      BY <2>1 DEF Dispatch
    <3> QED  BY <1>4, <3>1, EntryRange
  <2>2. CASE PlanLock(t) \/ PlanHit(t) \/ CountHit(t) \/ PlanMiss(t) \/ Drain(t)
    BY <2>2 DEF PlanLock, PlanHit, CountHit, PlanMiss, Drain
  <2>3. CASE PlanUnlock(t)
    <3>1. pc[t] = "w_plan" /\ k[t] = N(t)
      BY <2>3 DEF PlanUnlock
    <3>2. N(t) > 0 /\ N(t) \in Nat /\ 0 \in Idx
      BY <3>1, RequestFacts, BoundsAssumption
         DEF SessionBelow, BatchesOK, TypeInv, FramesOK, FrameOK, N, Idx
    <3>3. Planned(t, 0)
      BY <3>1, <3>2 DEF SessionBelow, ShapeOK, PlanEnd
    <3>4. \E i \in Idx : IsMiss(t, i)
      BY <1>m, <3>2, <3>3
    <3> QED  BY <2>3, <3>4 DEF PlanUnlock
  <2>4. CASE \/ FlushRun(t) \/ FlushFail(t) \/ FlushDone(t) \/ WriteLock(t) \/ PublishSkip(t)
             \/ PublishDone(t) \/ Commit(t) \/ RbUnlock(t) \/ RbMutex(t) \/ RbDone(t)
    BY <1>c, <1>4, <2>4 DEF FlushRun, FlushRunAt, FlushFail, FlushFailAt, FlushDone, WriteLock,
       PublishSkip, PublishDone, Commit, RbUnlock, RbMutex, RbDone
  <2>5. CASE UnlinkReadSize(t) \/ RemoveUnlock(t) \/ UnlinkDropSize(t) \/ ReadBlock(t)
    BY <1>c, <1>4, <2>5 DEF UnlinkReadSize, RemoveUnlock, UnlinkDropSize, ReadBlock, BeginRemoval
  <2>6. CASE TruncateReadSize(t) \/ UnlinkBackend(t) \/ TruncateSetSize(t) \/ Create(t)
    BY <1>4, <2>6 DEF TruncateReadSize, UnlinkBackend, TruncateSetSize, Create, BeginRemoval
  <2>7. CASE ReadLookup(t) \/ ReadReturn(t) \/ RemoveBlock(t) \/ ReleaseAndGo(t)
    BY <1>c, <1>4, <2>7 DEF ReadLookup, ReadReturn, RemoveBlock, ReleaseAndGo
  <2> QED
    BY WorkCases, <1>b, <1>d, <2>1, <2>2, <2>3, <2>4, <2>5, <2>6, <2>7
       DEF SessionBelow, StillWrite, QuietOther
<1>5. \A u \in Threads : /\ pc'[u] \in WritePCs \cup {"w_release"} => pc'[u] \in EarlyPCs
                         /\ (\E i \in Idx : Planned(u, i)') => \E i \in Idx : IsMiss(u, i)'
  BY <1>2, <1>3, <1>4
<1>6. \A h \in Hashes : hash_to_master'[h] = NULL
  BY <1>1, <1>b DEF NoneAppended
<1> QED  BY <1>1, <1>5, <1>6 DEF NoneAppended

\* A flush writes up to the end of its run, and the file grows to contain it.
LEMMA FlushCovers ==
    ASSUME TypeInv, SizeOK, NEW t \in Threads, NEW a \in Idx, NEW e \in 1 .. MaxBlocks,
           FlushRunAt(t, a, e), Extend(t, a, e - a), NEW i \in Idx, NEW s, Unflushed(t, i, s)
    PROVE  s < msize' \/ Unflushed(t, i, s)'
<1>1. /\ pc[t] = "w_flush" /\ RunStart(t, a) /\ RunEnd(t, a, e) /\ pc' = pc /\ plan' = plan
      /\ k' = [k EXCEPT ![t] = e] /\ k \in [Threads -> 0 .. MaxBlocks]
  BY DEF FlushRunAt, SetK, frameVars, TypeInv, TypeOK, ControlType
<1>2. a \in Nat /\ i \in Nat /\ e \in Nat /\ k[t] \in Nat /\ a < e /\ k'[t] = e
  BY <1>1, BoundsAssumption DEF Idx, RunEnd
<1>b. PICK b : b = plan[t][a].master_blk
  OBVIOUS
<1>3. /\ b \in Slots
      /\ \A j \in a .. e - 1 : plan[t][j].master_blk = b + (j - a)
  BY <1>1, <1>2, <1>b, RunSlots
<1>4. CASE i >= e
  BY <1>1, <1>2, <1>4 DEF Unflushed, IsMiss
<1>5. CASE i < e
  <2>1. i >= a
    BY <1>1, <1>2 DEF Unflushed, RunStart
  <2>2. s = b + (i - a)
    BY <1>2, <1>3, <1>5, <2>1 DEF Unflushed
  <2>3. msize' \in Nat /\ plan[t][a].master_blk + (e - a) <= msize'
    <3>1. e - a \in Nat /\ a + (e - a) <= e /\ msize \in Nat
      BY <1>2, BoundsAssumption DEF SizeOK
    <3> QED  BY <1>1, <1>2, <3>1, ExtendFacts
  <2>4. b \in Nat
    BY <1>3, BoundsAssumption DEF Slots
  <2> QED  BY <1>2, <1>5, <1>b, <2>1, <2>2, <2>3, <2>4
<1> QED  BY <1>2, <1>4, <1>5

\* A handler in the middle of flushing does nothing else.
LEMMA FlushSteps ==
    ASSUME NEW t \in Threads, pc[t] = "w_flush", Dispatch(t) \/ Step(t)
    PROVE  FlushRun(t) \/ FlushFail(t) \/ FlushDone(t)
BY SMTT(30) DEF Step, Dispatch, PlanLock, PlanHit, CountHit, PlanMiss, PlanUnlock, Drain,
   AppendSlots, WriteLock, PublishSkip, PublishOurs, UseWinner, PublishDone, MapBlock, Commit,
   ReleaseAfterWrite, ReleaseAndGo, RbHit, RbUnlock, RbMutex, RbMiss, RbDone,
   UnlinkReadSize, TruncateReadSize, RemoveBlock, RemoveUnlock, UnlinkDropSize, UnlinkBackend,
   TruncateSetSize, Create, ReadLookup, ReadBlock, ReadReturn

LEMMA CoverStep ==
    ASSUME TypeInv, SizeOK, SessionBelow, NEW t \in Threads, Works(t)
    PROVE  CoverOK'
<1>a. /\ msize \in Nat /\ msize' \in Nat /\ msize <= msize' /\ Slots \subseteq Nat
      /\ nextBlockIndex \in Nat
  <2>1. SizeOK' /\ msize <= msize'
    BY SizeStep DEF Works
  <2> QED  BY <2>1, SlotTypes, BoundsAssumption DEF SizeOK, Slots
<1>o. ASSUME NEW u \in Threads, u # t, NEW i \in Idx, NEW s \in Slots, Unflushed(u, i, s)
      PROVE  Unflushed(u, i, s)'
  BY <1>o, OthersUnchanged, WorkSteps DEF TypeInv, SameFrame, Unflushed, IsMiss
<1>1. CASE AppendSlots(t)
  <2>1. /\ pc[t] = "w_append" /\ pc' = [pc EXCEPT ![t] = "w_flush"] /\ k' = k
        /\ nextBlockIndex' = nextBlockIndex + Cardinality(Unassigned(t))
    BY <1>1 DEF AppendSlots, Goto
  <2>2. pc'[t] = "w_flush" /\ k'[t] = 0
    BY <2>1 DEF SessionBelow, LoopsOK, TypeInv, TypeOK, ControlType
  <2>3. ASSUME NEW s \in Slots, s < nextBlockIndex'
        PROVE  s < msize' \/ \E u \in Threads, i \in Idx : Unflushed(u, i, s)'
    <3>n. PICK n, c, b : n = s - nextBlockIndex /\ c = Cardinality(Unassigned(t))
                         /\ b = nextBlockIndex
      OBVIOUS
    <3>c. c \in Nat /\ s \in Nat /\ b \in Nat
      BY <1>a, <3>n, UnassignedFinite
    <3>1. CASE s < b
      <4>1. s < msize \/ \E u \in Threads, i \in Idx : Unflushed(u, i, s)
        BY <3>1, <3>n DEF SessionBelow, CoverOK
      <4>2. \A u \in Threads, i \in Idx : Unflushed(u, i, s) => u # t
        BY <2>1 DEF Unflushed
      <4>3. s < msize => s < msize'
        BY <1>a, <3>c
      <4> QED  BY <1>o, <4>1, <4>2, <4>3
    <3>2. CASE ~(s < b)
      <4>1. n \in Nat /\ n < c /\ s = b + n
        BY <2>1, <2>3, <3>n, <3>c, <3>2
      <4>2. PICK i \in Unassigned(t) : Rank(t, i) = n
        BY <3>n, <4>1, RankFacts
      <4>3. i \in Idx /\ IsMiss(t, i)
        BY DEF Unassigned
      <4>4. plan'[t][i].kind = plan[t][i].kind /\ plan'[t][i].master_blk = b + n
        BY <1>1, <3>n, <4>2, <4>3, AppendPlan
      <4>5. i >= 0
        BY <4>3, BoundsAssumption DEF Idx
      <4>6. Unflushed(t, i, s)'
        BY <2>2, <4>1, <4>3, <4>4, <4>5 DEF Unflushed, IsMiss
      <4> QED  BY <4>3, <4>6
    <3> QED  BY <3>1, <3>2
  <2> QED  BY <2>3 DEF CoverOK
<1>2. CASE ~AppendSlots(t)
  <2>1. nextBlockIndex' = nextBlockIndex
    <3>1. CASE Dispatch(t) \/ StillWrite(t) \/ QuietOther(t)
      BY SMTT(30), <3>1, StillLists DEF SessionBelow
    <3>2. CASE CountHit(t) \/ PlanMiss(t) \/ Drain(t) \/ PublishOurs(t) \/ ReleaseAndGo(t)
      BY <3>2 DEF CountHit, PlanMiss, Drain, PublishOurs, ReleaseAndGo, allocVars
    <3>3. CASE UseWinner(t)
      BY <3>3 DEF UseWinner, allocVars
    <3>4. CASE MapBlock(t) \/ RemoveBlock(t) \/ ReleaseAfterWrite(t)
      BY <3>4 DEF MapBlock, RemoveBlock, ReleaseAfterWrite, allocVars
    <3> QED  BY WorkCases, <1>2, <3>1, <3>2, <3>3, <3>4 DEF SessionBelow
  <2>2. ASSUME NEW i \in Idx, NEW s \in Slots, Unflushed(t, i, s)
        PROVE  s < msize' \/ Unflushed(t, i, s)'
    <3>0. pc[t] = "w_flush" /\ IsMiss(t, i) /\ i >= k[t]
      BY <2>2 DEF Unflushed
    <3>1. ~FlushDone(t)
      <4>1. FlushDone(t) => i < k[t]
        BY <3>0, AllFlushed
      <4>2. i \in Int /\ k[t] \in Int
        BY BoundsAssumption DEF Idx, TypeInv, TypeOK, ControlType
      <4> QED  BY <3>0, <4>1, <4>2
    <3>2. FlushRun(t) \/ FlushFail(t)
      BY <1>2, <3>0, <3>1, FlushSteps, WorkSteps
    <3>3. \E a \in Idx, e \in 1 .. MaxBlocks : FlushRunAt(t, a, e) /\ Extend(t, a, e - a)
      BY <3>2, WorkSteps
    <3> QED  BY <2>2, <3>3, FlushCovers
  <2>3. ASSUME NEW s \in Slots, s < nextBlockIndex
        PROVE  s < msize' \/ \E u \in Threads, i \in Idx : Unflushed(u, i, s)'
    <3>1. s < msize \/ \E u \in Threads, i \in Idx : Unflushed(u, i, s)
      BY <2>3 DEF SessionBelow, CoverOK
    <3>2. s < msize => s < msize'
      BY <1>a
    <3> QED  BY <1>o, <2>2, <3>1, <3>2
  <2> QED  BY <2>1, <2>3 DEF CoverOK
<1> QED  BY <1>1, <1>2

LEMMA SessionBelowStep ==
    ASSUME TypeInv, SizeOK, SessionBelow, NEW t \in Threads, Works(t)
    PROVE  SessionBelow'
<1>1. ShapeOK' /\ LoopsOK'
  BY ShapeStep, LoopsStep, WorkSteps DEF SessionBelow
<1>2. ReleasesOK'
  BY ReleasesStep, OthersUnchanged, WorkSteps DEF SessionBelow, TypeInv
<1>3. BatchesOK'
  BY BatchesStep DEF SessionBelow
<1> QED
  BY <1>1, <1>2, <1>3, ListsStep, PlansBelowStep, InfosBelowStep, SeedStep, CoverStep
     DEF SessionBelow

\* With nothing in flight, all that was appended is in the file.
LEMMA QuietlyCovered ==
    ASSUME TypeInv, SizeOK, SessionBelow, Quietly
    PROVE  nextBlockIndex <= msize
<1>1. nextBlockIndex \in 0 .. MaxSlots /\ msize \in Nat /\ MaxSlots \in Nat
  BY BoundsAssumption DEF TypeInv, TypeOK, AllocType, SizeOK
<1>2. ASSUME ~(nextBlockIndex <= msize) PROVE FALSE
  <2>1. msize \in Slots /\ msize < nextBlockIndex
    BY <1>1, <1>2 DEF Slots
  <2>2. \E t \in Threads, i \in Idx : Unflushed(t, i, msize)
    BY <1>1, <2>1 DEF SessionBelow, CoverOK
  <2> QED  BY <2>2 DEF Unflushed, Quietly
<1> QED  BY <1>2

\* No handler runs: what is said of handlers holds.
LEMMA NoFramesBelow ==
    NoFrames => /\ ShapeOK /\ LoopsOK /\ ReleasesOK /\ BatchesOK /\ PlansBelow
                /\ \A u \in Threads : rel[u] = <<>>
                /\ \A t \in Threads : pc[t] = "idle" /\ \A i \in Idx : plan[t][i] = NoEntry
<1> SUFFICES ASSUME NoFrames
             PROVE  /\ ShapeOK /\ LoopsOK /\ ReleasesOK /\ BatchesOK /\ PlansBelow
                    /\ \A u \in Threads : rel[u] = <<>>
                    /\ \A t \in Threads : pc[t] = "idle" /\ \A i \in Idx : plan[t][i] = NoEntry
  OBVIOUS
<1>1. \A t \in Threads : pc[t] = "idle" /\ rel[t] = <<>> /\ \A i \in Idx : plan[t][i] = NoEntry
  BY DEF NoFrames, NoPlan
<1>2. ShapeOK
  BY <1>1, BoundsAssumption DEF ShapeOK, PlanEnd, PlannedPCs, WritePCs, Idx
<1>3. LoopsOK /\ ReleasesOK /\ BatchesOK /\ PlansBelow
  BY <1>1 DEF LoopsOK, ReleasesOK, BatchesOK, WritePCs, PlansBelow, NoEntry
<1> QED  BY <1>1, <1>2, <1>3

\* The files name no slot at or beyond the end of the master file.
FilesBelow == /\ \A i \in DOMAIN disk.infos : disk.infos[i].masterBlockIndex < msize
              /\ \A s \in Range(disk.free) : s < msize

BelowInv == /\ MountInv /\ SessionBelow /\ FilesBelow
            /\ phase \in Saving => Quietly

LEMMA BelowInit == MountInit => BelowInv
<1> SUFFICES ASSUME MountInit PROVE BelowInv
  OBVIOUS
<1>1. MountInv
  BY MountInvInit
<1>2. /\ NoFrames /\ free_block_list = <<>> /\ nextBlockIndex = 0 /\ phase = "mounted"
      /\ disk.infos = <<>> /\ disk.free = <<>>
      /\ \A h \in Hashes : hash_to_master[h] = NULL
      /\ \A x \in Key : file_to_master[x] = NULL
      /\ \A p \in Infos : info[p].masterBlockIndex = 0
  BY DEF MountInit, Init, FreshInit, NoFrames, NoInfo, NoTable
<1>3. ListsBelow /\ InfosBelow
  BY <1>2, NoFramesBelow DEF ListsBelow, InfosBelow, Range
<1>4. NoneAppended
  BY <1>2, NoFramesBelow DEF NoneAppended, Planned, NoEntry, WritePCs
<1>5. CoverOK
  BY <1>2, BoundsAssumption DEF CoverOK, Slots
<1>6. FilesBelow
  BY <1>2 DEF FilesBelow, Range
<1> QED
  BY <1>1, <1>2, <1>3, <1>4, <1>5, <1>6, NoFramesBelow
     DEF BelowInv, SessionBelow, SeedOK, Saving

\* The files a step of the save, or a crash in it, leaves name slots of the file.
LEMMA LeavesBelow ==
    ASSUME MountInv, SessionBelow, FilesBelow, Quietly, NEW d, Leaves(d)
    PROVE  \A i \in DOMAIN d.infos : d.infos[i].masterBlockIndex < msize
<1>a. TypeInv /\ SizeOK /\ ValuesOK
  BY DEF MountInv
<1>1. CASE d.infos = disk.infos
  BY <1>1 DEF FilesBelow
<1>2. CASE phase = "infos" /\ d.infos \in Prefixes(InfosFile)
  <2>1. Lists(values)
    BY <1>2, <1>a DEF ValuesOK, SavingPair
  <2>2. /\ InfosFile \in Seq(SavedInfo) /\ DOMAIN InfosFile = DOMAIN values
        /\ \A i \in DOMAIN values : InfosFile[i] = info[values[i]]
    BY <1>a, <2>1, InfosFileType
  <2>3. ASSUME NEW i \in DOMAIN d.infos PROVE d.infos[i].masterBlockIndex < msize
    <3>1. i \in DOMAIN values /\ d.infos[i] = info[values[i]]
      BY <1>2, <2>2, <2>3, PrefixFacts
    <3>2. Known(values[i])
      BY <2>1, <3>1 DEF Lists
    <3>3. values[i] \in Infos /\ info[values[i]].masterBlockIndex < nextBlockIndex
      BY <1>a, <3>2, TablesBelow DEF SessionBelow
    <3>4. nextBlockIndex <= msize
      BY <1>a, QuietlyCovered
    <3>5. msize \in Nat /\ nextBlockIndex \in Nat /\ info[values[i]].masterBlockIndex \in Nat
      BY <1>a, <3>3, SlotTypes, BoundsAssumption DEF SizeOK, Slots
    <3> QED  BY <3>1, <3>3, <3>4, <3>5
  <2> QED  BY <2>3
<1> QED  BY <1>1, <1>2 DEF Leaves

LEMMA ListedBelow ==
    ASSUME MountInv, SessionBelow, Quietly, NEW s \in Range(free_block_list)
    PROVE  s < msize
<1>1. free_block_list \in Seq(Slots) /\ nextBlockIndex \in Nat /\ msize \in Nat
  BY SlotTypes, BoundsAssumption DEF MountInv, SizeOK
<1>2. s \in Nat
  BY <1>1, BoundsAssumption DEF Range, Slots
<1>3. s < nextBlockIndex /\ nextBlockIndex <= msize
  BY QuietlyCovered DEF MountInv, SessionBelow, ListsBelow
<1> QED  BY <1>1, <1>2, <1>3

LEMMA PrefixRange ==
    ASSUME NEW S, NEW s \in Seq(S), NEW q \in Prefixes(s)
    PROVE  Range(q) \subseteq Range(s)
BY PrefixFacts DEF Range

\* A process that has just started has no frames; what it knows comes from the files.
LEMMA StartBelow ==
    NoFrames /\ ListsBelow /\ InfosBelow /\ SeedOK /\ CoverOK => SessionBelow
BY NoFramesBelow DEF SessionBelow

\* A write of another file leaves the free list's alone.
LEMMA StoppedFree ==
    ASSUME disk \in Disk, NEW d \in Stopped, phase # "free"
    PROVE  d.free = disk.free
<1>a. disk = [infos |-> disk.infos, hash |-> disk.hash, file |-> disk.file,
              sizes |-> disk.sizes, free |-> disk.free]
  BY DEF Disk
<1>1. CASE phase = "infos"
  BY <1>a, <1>1 DEF Stopped
<1>2. CASE phase = "hash"
  BY <1>a, <1>2 DEF Stopped
<1>3. CASE phase = "file"
  BY <1>a, <1>3 DEF Stopped
<1>4. CASE phase = "sizes"
  BY <1>a, <1>4 DEF Stopped
<1> QED  BY <1>1, <1>2, <1>3, <1>4 DEF Stopped

LEMMA SavesFree ==
    ASSUME disk \in Disk, Saves
    PROVE  disk'.free = disk.free
<1>a. disk = [infos |-> disk.infos, hash |-> disk.hash, file |-> disk.file,
              sizes |-> disk.sizes, free |-> disk.free]
  BY DEF Disk
<1>c. ASSUME NEW now, NEW full, Save(now, full), now # "free", full.free = disk.free
      PROVE  disk'.free = disk.free
  BY <1>c, StoppedFree DEF Save
<1>1. CASE Unmount
  BY <1>1, <1>a DEF Unmount
<1>2. CASE OpenSecond
  BY <1>2, <1>a DEF OpenSecond
<1>3. CASE SaveInfos \/ SaveHash
  BY <1>3, <1>a, <1>c DEF SaveInfos, SaveHash
<1>4. CASE SaveFile \/ SaveSizes
  BY <1>4, <1>a, <1>c DEF SaveFile, SaveSizes
<1> QED  BY <1>1, <1>2, <1>3, <1>4 DEF Saves

\* Nothing that the session's invariant speaks of moves.
LEMMA BelowStutter ==
    ASSUME UNCHANGED <<vars, msize>>, SessionBelow
    PROVE  SessionBelow' /\ (Quietly => Quietly')
<1>1. /\ UNCHANGED <<hash_to_master, file_to_master, info, free_block_list, nextBlockIndex>>
      /\ UNCHANGED <<pc, req, k, lim, plan, rel, rd, msize>>
  BY DEF vars, dataVars, indexVars, heapVars, allocVars, frameVars
<1>2. (ShapeOK /\ LoopsOK /\ ReleasesOK)'
  BY <1>1 DEF SessionBelow, ShapeOK, LoopsOK, ReleasesOK, PlanEnd, Planned, N, IsMiss, IsHit
<1>3. (BatchesOK /\ ListsBelow /\ PlansBelow /\ InfosBelow)'
  BY <1>1 DEF SessionBelow, BatchesOK, ListsBelow, PlansBelow, InfosBelow, N
<1>4. (SeedOK /\ CoverOK)'
  BY <1>1 DEF SessionBelow, SeedOK, NoneAppended, Planned, IsMiss, CoverOK, Unflushed
<1> QED  BY <1>1, <1>2, <1>3, <1>4 DEF SessionBelow, Quietly

LEMMA SavesBelow ==
    ASSUME BelowInv, Saves
    PROVE  BelowInv'
<1>a. MountInv /\ SessionBelow /\ FilesBelow
  BY DEF BelowInv
<1>1. /\ UNCHANGED <<vars, msize>> /\ Leaves(disk') /\ phase' \in Saving
  BY <1>a, SavesFacts DEF Saving
<1>2. MountInv'
  BY <1>a, MountInvStep DEF MountNext, Saves
<1>3. Quietly
  BY DEF BelowInv, Saving, Phases, Saves, Unmount, OpenSecond, SaveInfos, SaveHash, SaveFile,
         SaveSizes, Save
<1>4. SessionBelow' /\ Quietly'
  BY <1>1, <1>3, <1>a, BelowStutter
<1>5. disk'.free = disk.free
  BY <1>a, SavesFree DEF MountInv
<1>6. FilesBelow'
  BY <1>a, <1>1, <1>3, <1>5, LeavesBelow DEF FilesBelow
<1> QED  BY <1>2, <1>4, <1>6 DEF BelowInv

\* What the end of the process leaves of the free list's file.
LEMMA EndFree ==
    ASSUME disk \in Disk, SaveFree \/ Crash
    PROVE  \/ disk'.free = disk.free
           \/ phase = "free" /\ disk'.free \in Prefixes(free_block_list) \cup {free_block_list}
<1>a. disk = [infos |-> disk.infos, hash |-> disk.hash, file |-> disk.file,
              sizes |-> disk.sizes, free |-> disk.free]
  BY DEF Disk
<1>1. ASSUME NEW d \in Stopped, phase # "free" PROVE d.free = disk.free
  BY <1>1, StoppedFree
<1>2. ASSUME NEW d \in Stopped, phase = "free" PROVE d.free \in Prefixes(free_block_list)
  <2>1. PICK q \in Prefixes(free_block_list) : d = [disk EXCEPT !.free = q]
    BY <1>2 DEF Stopped
  <2> QED  BY <1>a, <2>1
<1>3. CASE Crash
  BY <1>3, <1>1, <1>2 DEF Crash
<1>4. CASE SaveFree
  BY <1>4, <1>a, <1>2 DEF SaveFree, Save
<1> QED  BY <1>3, <1>4

LEMMA EndBelow ==
    ASSUME BelowInv, SaveFree \/ Crash
    PROVE  BelowInv'
<1>a. MountInv /\ SessionBelow /\ FilesBelow /\ disk \in Disk /\ TypeInv
  BY DEF BelowInv, MountInv
<1>1. Forget /\ Leaves(disk')
  BY <1>a, EndFacts
<1>2. MountInv'
  BY <1>a, MountInvStep DEF MountNext
<1>3. NoFrames' /\ phase' = "down" /\ msize' = msize
  BY <1>a, <1>1, ForgetType
<1>4. /\ free_block_list' = <<>> /\ nextBlockIndex' = 0
      /\ \A h \in Hashes : hash_to_master'[h] = NULL
      /\ \A x \in Key : file_to_master'[x] = NULL
      /\ \A p \in Infos : info'[p].masterBlockIndex = 0
  BY <1>1 DEF Forget, NoTable, NoInfo
<1>5. \A t \in Threads :
         pc'[t] = "idle" /\ rel'[t] = <<>> /\ \A i \in Idx : plan'[t][i] = NoEntry
  <2>1. (/\ \A u \in Threads : rel[u] = <<>>
         /\ \A t \in Threads : pc[t] = "idle" /\ \A i \in Idx : plan[t][i] = NoEntry)'
    BY <1>3, NoFramesBelow, PTL
  <2> QED  BY <2>1
<1>6. (ListsBelow /\ InfosBelow /\ SeedOK /\ CoverOK)'
  <2>1. (ListsBelow /\ InfosBelow)'
    BY <1>4, <1>5 DEF ListsBelow, InfosBelow, Range
  <2>2. SeedOK'
    BY <1>4, <1>5 DEF SeedOK, NoneAppended, Planned, NoEntry, WritePCs
  <2>3. CoverOK'
    BY <1>4, BoundsAssumption DEF CoverOK, Slots
  <2> QED  BY <2>1, <2>2, <2>3
<1>7. SessionBelow'
  BY <1>3, <1>6, StartBelow, PTL
<1>8. ASSUME phase \in Saving PROVE Quietly
  BY <1>8 DEF BelowInv
<1>9. \A i \in DOMAIN disk'.infos : disk'.infos[i].masterBlockIndex < msize
  <2>1. CASE phase = "infos"
    BY <2>1, <1>a, <1>1, <1>8, LeavesBelow DEF Saving, Phases
  <2>2. CASE phase # "infos"
    BY <2>2, <1>a, <1>1 DEF Leaves, FilesBelow
  <2> QED  BY <2>1, <2>2
<1>10. \A s \in Range(disk'.free) : s < msize
  <2>1. CASE disk'.free = disk.free
    BY <2>1, <1>a DEF FilesBelow
  <2>2. CASE phase = "free" /\ disk'.free \in Prefixes(free_block_list) \cup {free_block_list}
    <3>1. Quietly /\ free_block_list \in Seq(Slots)
      BY <2>2, <1>a, <1>8, SlotTypes DEF Saving, Phases
    <3>2. Range(disk'.free) \subseteq Range(free_block_list)
      BY <2>2, <3>1, PrefixRange
    <3> QED  BY <3>1, <3>2, <1>a, ListedBelow
  <2> QED  BY <1>a, <2>1, <2>2, EndFree
<1>11. FilesBelow'
  BY <1>3, <1>9, <1>10 DEF FilesBelow
<1> QED  BY <1>2, <1>3, <1>7, <1>11 DEF BelowInv, Saving

LEMMA LoadBelow ==
    ASSUME BelowInv, Load
    PROVE  BelowInv'
<1>a. MountInv /\ FilesBelow /\ disk \in Disk /\ TypeInv /\ SizeOK /\ msize \in Nat
  BY BoundsAssumption DEF BelowInv, MountInv, SizeOK
<1>1. MountInv'
  BY <1>a, MountInvStep DEF MountNext
<1>2. NoFrames'
  BY <1>a, LoadType
<1>3. \A t \in Threads :
         pc'[t] = "idle" /\ rel'[t] = <<>> /\ \A i \in Idx : plan'[t][i] = NoEntry
  <2>1. (/\ \A u \in Threads : rel[u] = <<>>
         /\ \A t \in Threads : pc[t] = "idle" /\ \A i \in Idx : plan[t][i] = NoEntry)'
    BY <1>2, NoFramesBelow, PTL
  <2> QED  BY <2>1
<1>4. /\ free_block_list' = disk.free /\ nextBlockIndex' = msize
      /\ UNCHANGED <<disk, msize>> /\ phase' = "mounted"
  BY DEF Load, LoadedFree, AppendAt
<1>5. PICK adr \in [DOMAIN disk.infos -> Infos] :
             /\ heap' = {adr[i] : i \in DOMAIN adr}
             /\ \A i \in DOMAIN adr : info'[adr[i]] = disk.infos[i]
             /\ hash_to_master' \in [Hashes -> heap' \cup {NULL}]
             /\ file_to_master' \in [Key -> heap' \cup {NULL}]
  BY <1>a, LoadFacts
<1>6. ListsBelow'
  BY <1>a, <1>3, <1>4 DEF ListsBelow, FilesBelow, Range
<1>7. InfosBelow'
  <2>1. ASSUME NEW p \in Infos
        PROVE  info'[p].masterBlockIndex < msize \/ info'[p].masterBlockIndex = 0
    <3>1. CASE p \in heap'
      BY <3>1, <1>a, <1>5 DEF FilesBelow
    <3>2. CASE p \notin heap'
      BY <3>2 DEF Load, NoInfo
    <3> QED  BY <3>1, <3>2
  <2> QED  BY <2>1, <1>4 DEF InfosBelow
<1>8. SeedOK'
  <2>1. ASSUME msize = 0
        PROVE  (\A h \in Hashes : hash_to_master'[h] = NULL) /\ \A x \in Key : file_to_master'[x] = NULL
    <3>1. ASSUME NEW i \in DOMAIN disk.infos PROVE FALSE
      <4>1. disk.infos[i].masterBlockIndex \in Nat
        BY <1>a, BoundsAssumption DEF Disk, SavedInfo, Info, Slots
      <4>2. disk.infos[i].masterBlockIndex < 0
        BY <1>a, <2>1 DEF FilesBelow
      <4> QED  BY <4>1, <4>2
    <3>2. heap' = {}
      BY <1>5, <3>1
    <3> QED  BY <1>5, <3>2
  <2> QED  BY <2>1, <1>3, <1>4 DEF SeedOK, NoneAppended, Planned, NoEntry, WritePCs
<1>9. CoverOK'
  BY <1>4 DEF CoverOK
<1>10. SessionBelow'
  BY <1>2, <1>6, <1>7, <1>8, <1>9, StartBelow, PTL
<1>11. FilesBelow'
  BY <1>a, <1>4 DEF FilesBelow
<1> QED  BY <1>1, <1>4, <1>10, <1>11 DEF BelowInv, Saving

LEMMA BelowStep ==
    ASSUME ~PwriteFails, BelowInv, [MountNext]_allVars
    PROVE  BelowInv'
<1>a. MountInv /\ SessionBelow /\ FilesBelow /\ TypeInv /\ SizeOK
  BY DEF BelowInv, MountInv
<1>1. ASSUME NEW t \in Threads, Session(t) PROVE BelowInv'
  <2>1. phase' = "mounted" /\ disk' = disk
    BY <1>1 DEF Session, mountVars
  <2>2. MountInv' /\ SessionBelow'
    BY <1>1, <1>a, MountInvStep, SessionBelowStep DEF MountNext, Works
  <2>3. FilesBelow'
    <3>1. msize \in Nat /\ msize' \in Nat /\ msize <= msize'
      BY <1>1, <1>a, SizeStep, BoundsAssumption DEF SizeOK
    <3>2. ASSUME NEW v \in Slots, v < msize PROVE v < msize'
      BY <3>1, <3>2, BoundsAssumption DEF Slots
    <3>3. /\ \A i \in DOMAIN disk.infos : disk.infos[i].masterBlockIndex \in Slots
          /\ \A s \in Range(disk.free) : s \in Slots
      BY <1>a DEF MountInv, Disk, SavedInfo, Info, Range
    <3> QED  BY <1>a, <2>1, <3>2, <3>3 DEF FilesBelow
  <2> QED  BY <2>1, <2>2, <2>3 DEF BelowInv, Saving
<1>2. CASE UNCHANGED allVars
  <2>1. UNCHANGED <<vars, msize, phase, disk>>
    BY <1>2 DEF allVars, mountVars
  <2>2. MountInv' /\ SessionBelow' /\ (Quietly => Quietly')
    BY <1>2, <1>a, <2>1, MountInvStep, BelowStutter
  <2>3. FilesBelow'
    BY <1>a, <2>1 DEF FilesBelow
  <2> QED  BY <2>1, <2>2, <2>3 DEF BelowInv
<1> QED
  BY <1>1, <1>2, SavesBelow, EndBelow, LoadBelow DEF MountNext, Saves, Over

\* When every pwrite to the master file succeeds, no table ever knows a slot at or
\* beyond the point of append: not after crashes at any point of a session or of a
\* save, nor when tables are loaded beside values of another save, whose refcounts
\* let a MasterInfo be freed that is still mapped.  A slot is written before its
\* block is published, and nextBlockIndex starts at the size of the master file.
THEOREM KnownStaysBelow ==
    ASSUME ~PwriteFails
    PROVE  MountSpec => []KnownBelowAppend
<1>1. MountInit => BelowInv
  BY BelowInit
<1>2. BelowInv /\ [MountNext]_allVars => BelowInv'
  BY BelowStep
<1>3. BelowInv => KnownBelowAppend
  <2> SUFFICES ASSUME BelowInv,
                      NEW p \in {hash_to_master[h] : h \in Hashes}
                                  \cup {file_to_master[x] : x \in Key},
                      p # NULL
               PROVE  info[p].masterBlockIndex < nextBlockIndex
    BY DEF KnownBelowAppend
  <2>1. Known(p)
    BY DEF Known
  <2> QED  BY <2>1, TablesBelow DEF BelowInv, MountInv, SessionBelow
<1> QED  BY <1>1, <1>2, <1>3, PTL DEF MountSpec

\* Whatever pwrite does, the same holds through clean unmounts, unless a mount found
\* a free slot beyond its point of append: what a table knows owns its slot.
THEOREM KnownBelowWhenClean ==
    ASSUME RefcountsFit, DistinctBatches, CleanSaves
    PROVE  MountSpec => []KnownBelowAppend
<1>1. CleanInv => KnownBelowAppend
  <2> SUFFICES ASSUME CleanInv, ~damaged,
                      NEW p \in {hash_to_master[h] : h \in Hashes}
                                  \cup {file_to_master[x] : x \in Key},
                      p # NULL
               PROVE  info[p].masterBlockIndex < nextBlockIndex
    BY DEF KnownBelowAppend
  <2>a. ContentInv /\ SlotInv /\ RefInv /\ TypeInv
    BY DEF CleanInv, ContentInv, SlotInv, RefInv
  <2>1. p \in heap /\ Published(p) /\ p \in Infos
    BY <2>a, KnownPublished DEF Known
  <2>s. PICK s : s = info[p].masterBlockIndex
    OBVIOUS
  <2>2. s \in Slots /\ Pub(p, s)
    BY <2>a, <2>1, <2>s, SlotTypes DEF Pub
  <2>3. s < nextBlockIndex
    BY <2>a, <2>1, <2>2, PubOnly DEF SlotInv
  <2> QED  BY <2>s, <2>3
<1> QED  BY CleanAlways, <1>1, PTL
=============================================================================
