------------------------------- MODULE Mount -------------------------------
(***************************************************************************)
(* Mounting and unmounting: xmp_init and xmp_destroy around the handlers   *)
(* of Dedup, index_init and index_destroy, and the five table files that   *)
(* src/src/persistence.c writes and reads.                                 *)
(*                                                                         *)
(* The index lives in memory and is saved only by a clean unmount; the     *)
(* master file and the backend directory survive everything.  A crash (the *)
(* daemon is killed) may come at any point, also between and inside the    *)
(* writes of the save.  The tables fit one write buffer here, so a failed  *)
(* or interrupted write leaves a prefix of the stream; the buffer itself   *)
(* is the subject of BufferedIO.                                           *)
(***************************************************************************)
EXTENDS DedupProperties

CONSTANTS
    PwriteFails,  \* TRUE: pwrite to the master file may fail or be short
    SaveFails,    \* TRUE: open and pwrite of a table file may fail
    Crashes,      \* TRUE: the daemon may be killed
    MaxMounts     \* bound: mounts in one behaviour

ASSUME MountAssumption ==
    /\ PwriteFails \in BOOLEAN /\ SaveFails \in BOOLEAN /\ Crashes \in BOOLEAN
    /\ MaxMounts \in Nat \ {0} /\ IsFiniteSet(Infos)
    /\ NULL \notin [pos : Nat, was : Info]

VARIABLES
    disk,    \* the five table files
    msize,   \* st_size / BLOCK_SIZE of the master file
    phase,   \* "mounted", "down", or the file index_destroy is at
    values,  \* the values array of ghash_save_indexed_pair
    mounts,  \* mounts so far
    shown,   \* history: what readers saw when it went down quietly, or NULL
    stale,   \* history: the last save left an older values file in place
    damaged  \* history: a mount loaded tables beside an older values file, or
             \* found a free slot at or beyond its append point

mountVars == <<disk, phase, values, mounts, shown, stale, damaged>>
allVars   == <<vars, msize, mountVars>>

Phases == {"down", "mounted", "open2", "infos", "hash", "file", "sizes", "free"}

\* An entry of an indexed table is a key and a position in the values array.
\* `was' is history: the MasterInfo the entry stood for when it was written.
EntryOf(i, p)  == [pos |-> i, was |-> info[p]]
NoTable(S)     == [x \in S |-> NULL]
Part(table, S) == [x \in DOMAIN table |-> IF x \in S THEN table[x] ELSE NULL]

\* Every variable holds a value of its type; the files hold what a save can write.
MountTypeOK ==
    /\ TypeOK /\ phase \in Phases /\ msize \in 0 .. MaxSlots /\ mounts \in 0 .. MaxMounts
    /\ DOMAIN disk = {"infos", "hash", "file", "sizes", "free"}
    /\ disk.infos \in Seq(Info) /\ disk.free \in Seq(Slots)
    /\ disk.sizes \in [Paths -> (0 .. MaxBlocks) \cup {NULL}]
    /\ DOMAIN disk.hash = Hashes /\ DOMAIN disk.file = Key

MountInit ==
    /\ Init
    /\ disk = [infos |-> <<>>, hash |-> NoTable(Hashes), file |-> NoTable(Key),
               sizes |-> NoTable(Paths), free |-> <<>>]
    /\ msize = 0
    /\ phase = "mounted" /\ values = <<>> /\ mounts = 1
    /\ shown = NULL /\ stale = FALSE /\ damaged = FALSE

-----------------------------------------------------------------------------
(* A session: the handlers run; a pwrite beyond the end extends the file.  *)

Larger(a, b) == IF a > b THEN a ELSE b
Extend(t, i, blocks) == msize' = Larger(msize, plan[t][i].master_blk + blocks)

Session(t) ==
    /\ phase = "mounted"
    /\ \/ /\ pc[t] # "w_flush" /\ (Dispatch(t) \/ Step(t)) /\ UNCHANGED msize
       \/ FlushDone(t) /\ UNCHANGED msize
       \/ \E i \in Idx, e \in 1 .. MaxBlocks :
            FlushRunAt(t, i, e) /\ Extend(t, i, e - i)
       \/ \* A failed pwrite: the torn block, if any, adds less than a block.
          \E i \in Idx, e \in 1 .. MaxBlocks, done \in Idx, torn \in BOOLEAN :
            /\ PwriteFails /\ FlushFailAt(t, i, e, done, torn)
            /\ IF done > 0 \/ torn THEN Extend(t, i, done) ELSE UNCHANGED msize
    /\ UNCHANGED mountVars

-----------------------------------------------------------------------------
(* index_destroy: save the tables, one file after the other.               *)

Quietly == \A t \in Threads : pc[t] = "idle"

\* What a read of the block would return now.
Readable(x) == IF file_to_master[x] = NULL THEN NULL
               ELSE master[info[file_to_master[x]].masterBlockIndex]
AllReadable == [x \in Key |-> Readable(x)]

\* The process is gone: every variable but the files has its value of Init.
Forget ==
    /\ hash_to_master' = NoTable(Hashes) /\ file_to_master' = NoTable(Key)
    /\ file_to_sizes' = NoTable(Paths)
    /\ heap' = {} /\ info' = [p \in Infos |-> NoInfo]
    /\ free_block_list' = <<>> /\ nextBlockIndex' = 0
    /\ readers' = {} /\ writer' = NULL /\ freelist_mutex' = NULL
    /\ pc' = [t \in Threads |-> "idle"] /\ req' = [t \in Threads |-> NULL]
    /\ k' = [t \in Threads |-> 0] /\ lim' = [t \in Threads |-> 0]
    /\ plan' = [t \in Threads |-> NoPlan] /\ rel' = [t \in Threads |-> <<>>]
    /\ rd' = [t \in Threads |-> NoPairs]
    /\ phase' = "down" /\ values' = <<>>
    /\ UNCHANGED <<master, names, accepted, msize, mounts, damaged>>

\* collect_value_index over both tables: each MasterInfo once, those of
\* hash_to_master first, in the order the hash tables enumerate them.
Orders(S) == {q \in [1 .. Cardinality(S) -> S] : \A p \in S : \E i \in DOMAIN q : q[i] = p}
Collect ==
    LET first == {hash_to_master[h] : h \in Hashes} \ {NULL}
        more  == {file_to_master[x] : x \in Key} \ (first \cup {NULL})
    IN \E a \in Orders(first), b \in Orders(more) : values' = a \o b

\* The complete content of each file.
PosOfNext(p) == 1 + (CHOOSE i \in DOMAIN values : values[i] = p)  \* mutant
PosOf(p) == CHOOSE i \in DOMAIN values : values[i] = p
Indexed(table) == [x \in DOMAIN table |->
                      IF table[x] = NULL THEN NULL ELSE EntryOf(PosOf(table[x]), table[x])]
InfosFile == [i \in DOMAIN values |-> info[values[i]]]
HashFile  == Indexed(hash_to_master)
FileFile  == Indexed(file_to_master)

\* What a file may hold when its writing stops early: the stream of a hash table
\* is enumerated in any order, a list or an array in its own.
Prefixes(s) == {SubSeq(s, 1, n) : n \in 0 .. Len(s)}
Parts(table) == {Part(table, S) : S \in SUBSET {x \in DOMAIN table : table[x] # NULL}}
Stopped ==
    CASE phase = "infos" -> {[disk EXCEPT !.infos = q] : q \in Prefixes(InfosFile)}
      [] phase = "hash"  -> {[disk EXCEPT !.hash = f] : f \in Parts(HashFile)}
      [] phase = "file"  -> {[disk EXCEPT !.file = f] : f \in Parts(FileFile)}
      [] phase = "sizes" -> {[disk EXCEPT !.sizes = f] : f \in Parts(file_to_sizes)}
      [] phase = "free"  -> {[disk EXCEPT !.free = q] : q \in Prefixes(free_block_list)}
      [] OTHER -> {disk}

\* Write one file and go on whatever came of it: no result is checked.
Save(now, full) ==
    /\ phase = now
    /\ \/ disk' = full
       \/ SaveFails /\ disk' \in Stopped \cup {disk}
    /\ stale' = IF now = "infos" THEN disk'.infos \notin Prefixes(InfosFile) ELSE stale
Then(next) == phase' = next /\ UNCHANGED <<vars, msize, values, mounts, shown, damaged>>

\* The session is over, nothing is in flight.  Both indexed tables are opened,
\* and truncated, before anything is written; when an open or the buffers fail
\* the pair is given up and the save goes on with the sizes.
Unmount ==
    /\ phase = "mounted" /\ Quietly
    /\ Collect
    /\ shown' = AllReadable
    /\ \/ phase' = "open2" /\ disk' = [disk EXCEPT !.hash = NoTable(Hashes)]
       \/ SaveFails /\ phase' = "sizes" /\ disk' = disk
    /\ UNCHANGED <<vars, msize, mounts, stale, damaged>>

\* Mutant: the values are written before the second table is truncated.
OpenSecondLate ==
    /\ phase = "open2" /\ disk' = [disk EXCEPT !.infos = InfosFile] /\ Then("infos")
    /\ UNCHANGED stale

OpenSecond ==
    LET truncated == [disk EXCEPT !.file = NoTable(Key)]
    IN /\ phase = "open2"
       /\ \/ disk' = truncated /\ Then("infos")
          \/ SaveFails /\ disk' \in {disk, truncated} /\ Then("sizes")
       /\ UNCHANGED stale

SaveInfos == Save("infos", [disk EXCEPT !.infos = InfosFile]) /\ Then("hash")
SaveHash  == Save("hash",  [disk EXCEPT !.hash = HashFile]) /\ Then("file")
SaveFile  == Save("file",  [disk EXCEPT !.file = FileFile]) /\ Then("sizes")
SaveSizes == Save("sizes", [disk EXCEPT !.sizes = file_to_sizes]) /\ Then("free")
SaveFree  == Save("free",  [disk EXCEPT !.free = free_block_list]) /\ Forget
             /\ UNCHANGED shown

Crash ==
    /\ Crashes /\ phase # "down"
    /\ disk' \in Stopped
    /\ shown' = IF phase # "mounted" THEN shown ELSE IF Quietly THEN AllReadable ELSE NULL
    /\ Forget /\ UNCHANGED stale

-----------------------------------------------------------------------------
(* xmp_init and index_init: load the tables.                               *)

\* Mutants: the wrong position; no check that the position was read; the append
\* point taken from the number of MasterInfos; one reference each; no free list.
ResolveOff(e, adr) ==
    IF e = NULL \/ e.pos + 1 \notin DOMAIN adr THEN NULL ELSE adr[e.pos + 1]
ResolveUnchecked(e, adr) ==
    IF e = NULL THEN NULL ELSE IF e.pos \in DOMAIN adr THEN adr[e.pos] ELSE e.pos
AppendAtInfos    == Len(disk.infos)
LoadedInfoOne(r) == [r EXCEPT !.refcount = 1]
LoadedFreeNone   == <<>>

\* A position beyond the values that could be read is skipped.
Resolve(e, adr) == IF e = NULL \/ e.pos \notin DOMAIN adr THEN NULL ELSE adr[e.pos]
LoadedInfo(r) == r
LoadedFree    == disk.free
AppendAt      == msize

Load ==
    /\ phase = "down" /\ mounts < MaxMounts
    /\ \E adr \in [DOMAIN disk.infos -> Infos] :
         /\ \A i, j \in DOMAIN adr : adr[i] = adr[j] => i = j
         /\ heap' = {adr[i] : i \in DOMAIN adr}
         /\ info' = [p \in Infos |->
                IF p \in heap' THEN LoadedInfo(disk.infos[CHOOSE i \in DOMAIN adr : adr[i] = p])
                ELSE NoInfo]
         /\ hash_to_master' = [h \in Hashes |-> Resolve(disk.hash[h], adr)]
         /\ file_to_master' = [x \in Key |-> Resolve(disk.file[x], adr)]
    /\ file_to_sizes' = disk.sizes
    /\ free_block_list' = LoadedFree
    /\ nextBlockIndex' = AppendAt
    /\ phase' = "mounted" /\ mounts' = mounts + 1
    /\ damaged' = (damaged \/ stale \/ \E i \in DOMAIN free_block_list' :
                                           free_block_list'[i] >= nextBlockIndex')
    /\ UNCHANGED <<master, outerVars, lockVars, pc, k, frameVars, disk, msize,
                   values, shown, stale>>

Over == phase = "down" /\ mounts = MaxMounts /\ UNCHANGED allVars

MountNext ==
    \/ \E t \in Threads : Session(t)
    \/ Unmount \/ OpenSecond \/ SaveInfos \/ SaveHash \/ SaveFile \/ SaveSizes
    \/ SaveFree \/ Crash \/ Load \/ Over

MountSpec == MountInit /\ [][MountNext]_allVars

-----------------------------------------------------------------------------
(* Properties                                                              *)

\* After a remount every block reads as it did when the file system went down
\* with no request in flight: sharing, reuse of slots and the renumbering of the
\* MasterInfos through the values array do not show.
KeepsContents ==
    [][Load /\ shown # NULL => AllReadable' = shown]_allVars

\* The slots have one owner each, over any number of mounts, and hold what the
\* index says, unless a mount found a slot on the saved free list that lies at or
\* beyond the end of the master file (one that was appended and rolled back), or
\* tables beside an older values file, whose refcounts are not theirs.
SlotsOwned == ~damaged => SlotPartition
BlocksMatchHash == ~damaged => ContentMatchesHash

\* An entry of an indexed table that load will resolve gets the MasterInfo it was
\* saved with, never one that another save left at that position, whatever step
\* of the save a crash or a failing write cuts off (persistence.c:373-414).  The
\* one exception is a save that could not open the values file: it goes on and
\* writes both tables beside the older values.
ResolvesAsSaved ==
    ~stale =>
        \A e \in {disk.hash[h] : h \in Hashes} \cup {disk.file[x] : x \in Key} :
            (e # NULL /\ e.pos \in DOMAIN disk.infos) => disk.infos[e.pos] = e.was

\* No block that a table knows lies at or beyond the point of append, also after
\* a crash with tables of different ages: nextBlockIndex starts at the size of
\* the master file (passthrough.c:113), so append never overwrites a known block.
\* The two kinds of damage are excepted, as above: a slot that was rolled back
\* beyond that size, and refcounts of an older save, which free a MasterInfo that
\* is still mapped; its memory may then go to a batch whose pwrite fails.
KnownBelowAppend ==
    ~damaged =>
        \A p \in {hash_to_master[h] : h \in Hashes} \cup {file_to_master[x] : x \in Key} :
            p # NULL => info[p].masterBlockIndex < nextBlockIndex
=============================================================================
