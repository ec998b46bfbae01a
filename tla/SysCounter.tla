----------------------------- MODULE SysCounter -----------------------------
(***************************************************************************)
(* The syscall counter that measures the file system                       *)
(* (src/bpf_programs/syscounter/syscounter.bpf.c and syscounter.c): eBPF   *)
(* programs on the entry and exit of seven syscalls keep three kernel      *)
(* hash maps, and the user program reads the counters at Ctrl-C and prints *)
(* a table.                                                                *)
(*                                                                         *)
(* Processes, threads, the clock and the BPF maps belong to the kernel.  A *)
(* time is the number of the call it was read in, so time_sum is the set   *)
(* of intervals added to it, and an interval whose ends are two different  *)
(* calls is a wrong measure.  A program runs with preemption off: at most  *)
(* cpus threads are inside one at a time.  An element deleted from a hash  *)
(* map may be given to the next insertion while a program still points at  *)
(* it.                                                                     *)
(***************************************************************************)
EXTENDS Integers, Sequences, FiniteSets, Functions

CONSTANTS
    Threads,      \* thread ids; the id of a process is that of its first thread
    Root, Worker, \* traced process given to main(), and a second thread of it
    Comm,         \* [Threads -> names]: the thread's command
    Ops,          \* sequence of the syscalls probed, in the order of their programs
    Machines,     \* to try: a number of CPUs, early if threads make calls while the
                  \* programs are being attached, the syscalls that the threads
                  \* make, and a bound: calls made
    MAX_PIDS, MAX_STAMPS, MAX_COUNTERS   \* max_entries of the three maps

Names == {Comm[t] : t \in Threads}
OpNames == {Ops[i] : i \in 1 .. Len(Ops)}

ASSUME SysAssumption ==
    /\ Root \in Threads /\ Worker \in Threads \ {Root}
    /\ Ops \in Seq({"openat", "write", "pwrite64", "read", "pread64", "close", "unlink"})
    /\ Machines \subseteq [cpus : Nat \ {0}, early : BOOLEAN, ops : SUBSET OpNames, calls : Nat]
    /\ {MAX_PIDS, MAX_STAMPS, MAX_COUNTERS} \subseteq Nat \ {0}

VARIABLES
    machine,
    tgid,              \* process of each live thread
    pids_to_consider,
    enter_timestamps,  \* thread -> call whose entry wrote the stamp
    counters,          \* key -> [count, time]: time_sum as its set of intervals
    attached,          \* programs attached so far, in their order
    calls,             \* history: every call made
    at,                \* where each thread is
    cur,               \* the call each thread is in, or was last in
    elem,              \* what enter_time points at
    report,            \* rows read by get_values_from_counter_map
    copying,           \* the field of the last row that is still to be copied
    phase,             \* of main(): "attach", "sleep", "read", "done" or "overrun"
    atRead             \* history: the counts at Ctrl-C, by key

cpus  == machine.cpus
early == machine.early
kernelVars == <<machine, tgid, calls, cur>>
mainVars == <<report, copying, phase, atRead>>
mapVars == <<pids_to_consider, enter_timestamps, counters>>
sysVars == <<kernelVars, mainVars, mapVars, attached, at, elem>>

Live == DOMAIN tgid
Programs == 2 * Len(Ops) + 1   \* two per syscall, then the one on fork
EnterOn(op) == \E i \in 1 .. Len(Ops) : Ops[i] = op /\ attached >= 2 * i - 1
ExitOn(op)  == \E i \in 1 .. Len(Ops) : Ops[i] = op /\ attached >= 2 * i

to_discard(pid) == pid \notin pids_to_consider
\* Mutant: the counters are kept per thread.
KeyOfThread(t) == [pid |-> t, command |-> Comm[t], op |-> calls[cur[t]].op]

KeyOf(t) == [pid |-> tgid[t], command |-> Comm[t], op |-> calls[cur[t]].op]

\* bpf_map_update_elem on a map of n entries, and bpf_map_delete_elem.
Put(map, k, v, n) ==
    IF k \in DOMAIN map \/ Cardinality(DOMAIN map) < n
    THEN [j \in DOMAIN map \cup {k} |-> IF j = k THEN v ELSE map[j]]
    ELSE map
Without(map, k) == Restrict(map, DOMAIN map \ {k})

InProgram == {t \in Live : at[t] \in {"lookup", "insert", "time", "count"}}
CPUFree == Cardinality(InProgram) < cpus

SysInit ==
    /\ machine \in Machines
    /\ tgid = [t \in {Root, Worker} |-> Root]
    /\ pids_to_consider = {Root}
    /\ enter_timestamps = <<>> /\ counters = <<>>
    /\ attached = IF early THEN 0 ELSE Programs
    /\ calls = <<>>
    /\ at = [t \in Threads |-> "user"] /\ cur = [t \in Threads |-> 0]
    /\ elem = [t \in Threads |-> 0]
    /\ report = <<>> /\ copying = "none" /\ atRead = <<>>
    /\ phase = IF early THEN "attach" ELSE "sleep"

-----------------------------------------------------------------------------
(* Programs on the entry and the exit of a syscall                         *)

\* Programs that look at the descriptor on entry and leave unless it is a
\* regular file; the one on openat looks on exit, the one on unlink nowhere.
\* get_file_from_fd gives NULL for a negative descriptor (a call that failed) and
\* for one that is not open.  On entry NULL has mode 0 and is no regular file; on
\* exit it is a case of its own.
FiltersAtEnter == {"write", "pwrite64", "read", "pread64", "close"}
FiltersAtExit == {"openat"}
FiltersNowhere == {"unlink"}
Found(op) == {"regular", "other"} \cup (IF op \in FiltersAtExit THEN {"null"} ELSE {})

\* update_counter_enter: the stamp always replaces an older one.  A new element
\* may be the one some thread's exit has just deleted and still points at.
update_counter_enter(t, now) ==
    /\ enter_timestamps' = Put(enter_timestamps, t, now, MAX_STAMPS)
    /\ \/ UNCHANGED elem
       \/ \E u \in {v \in Live : at[v] = "lookup"} :
            /\ t \notin DOMAIN enter_timestamps /\ t \in DOMAIN enter_timestamps'
            /\ elem' = [elem EXCEPT ![u] = now]

\* A thread makes a syscall, and the program on its entry runs.  file is what the
\* program that looks at the descriptor finds there.
Enter(t, op, file) ==
    LET seen == EnterOn(op) /\ ~to_discard(tgid[t])
        kept == file = "regular" \/ op \notin FiltersAtEnter
    IN /\ at[t] = "user" /\ CPUFree /\ op \in machine.ops /\ Len(calls) < machine.calls
       /\ calls' = Append(calls, [tid |-> t, op |-> op, file |-> file,
                                  traced |-> seen /\ ExitOn(op)])
       /\ cur' = [cur EXCEPT ![t] = Len(calls')]
       /\ at' = [at EXCEPT ![t] = "kernel"]
       /\ IF seen /\ kept THEN update_counter_enter(t, Len(calls'))
          ELSE UNCHANGED <<enter_timestamps, elem>>
       /\ UNCHANGED <<machine, tgid, pids_to_consider, counters, attached, mainVars>>

\* Mutant: an openat of something else than a file keeps its stamp.
IgnoreKeepsStamp(t) == UNCHANGED enter_timestamps

\* sys_exit_openat: there is a file, and it is not a regular one.
Ignore(t) == enter_timestamps' = Without(enter_timestamps, t)

Filtered(t) == calls[cur[t]].op \in FiltersAtExit /\ calls[cur[t]].file = "other"

\* The syscall returns.  update_counter_exit looks the stamp up and deletes it.
Exit(t) ==
    LET seen == ExitOn(calls[cur[t]].op) /\ ~to_discard(tgid[t])
        stamped == t \in DOMAIN enter_timestamps
    IN /\ at[t] = "kernel" /\ CPUFree
       /\ \/ /\ ~seen \/ (~Filtered(t) /\ ~stamped)
             /\ at' = [at EXCEPT ![t] = "user"]
             /\ UNCHANGED <<enter_timestamps, elem>>
          \/ /\ seen /\ Filtered(t)
             /\ Ignore(t)
             /\ at' = [at EXCEPT ![t] = "user"] /\ UNCHANGED elem
          \/ /\ seen /\ ~Filtered(t) /\ stamped
             /\ elem' = [elem EXCEPT ![t] = enter_timestamps[t]]
             /\ enter_timestamps' = Without(enter_timestamps, t)
             /\ at' = [at EXCEPT ![t] = "lookup"]
       /\ UNCHANGED <<kernelVars, mainVars, pids_to_consider, counters, attached>>

\* The counter is looked up and *enter_time read.
Lookup(t) ==
    /\ at[t] = "lookup"
    /\ at' = [at EXCEPT ![t] = IF KeyOf(t) \in DOMAIN counters THEN "time" ELSE "insert"]
    /\ UNCHANGED <<kernelVars, mainVars, mapVars, attached, elem>>

Delta(t) == <<elem[t], cur[t]>>

\* Mutant: the insertion takes the place of a counter that has come in meanwhile.
InsertOver(t) ==
    /\ at[t] = "insert"
    /\ counters' = Put(counters, KeyOf(t), [count |-> 1, time |-> {Delta(t)}], MAX_COUNTERS)
    /\ at' = [at EXCEPT ![t] = "user"] /\ elem' = [elem EXCEPT ![t] = 0]
    /\ UNCHANGED <<kernelVars, mainVars, pids_to_consider, enter_timestamps, attached>>

\* BPF_NOEXIST: the insertion fails if the key has come in since the look-up.
Insert(t) ==
    /\ at[t] = "insert"
    /\ counters' = IF KeyOf(t) \in DOMAIN counters THEN counters
                   ELSE Put(counters, KeyOf(t), [count |-> 1, time |-> {Delta(t)}],
                            MAX_COUNTERS)
    /\ at' = [at EXCEPT ![t] = "user"] /\ elem' = [elem EXCEPT ![t] = 0]
    /\ UNCHANGED <<kernelVars, mainVars, pids_to_consider, enter_timestamps, attached>>

\* Mutant: time_sum is set instead of added to.
AddTimeOver(t) ==
    /\ at[t] = "time"
    /\ counters' = [counters EXCEPT ![KeyOf(t)].time = {Delta(t)}]
    /\ at' = [at EXCEPT ![t] = "count"]
    /\ UNCHANGED <<kernelVars, mainVars, pids_to_consider, enter_timestamps, attached, elem>>

AddTime(t) ==
    /\ at[t] = "time"
    /\ counters' = [counters EXCEPT ![KeyOf(t)].time = @ \cup {Delta(t)}]
    /\ at' = [at EXCEPT ![t] = "count"]
    /\ UNCHANGED <<kernelVars, mainVars, pids_to_consider, enter_timestamps, attached, elem>>

AddCount(t) ==
    /\ at[t] = "count"
    /\ counters' = [counters EXCEPT ![KeyOf(t)].count = @ + 1]
    /\ at' = [at EXCEPT ![t] = "user"] /\ elem' = [elem EXCEPT ![t] = 0]
    /\ UNCHANGED <<kernelVars, mainVars, pids_to_consider, enter_timestamps, attached>>

\* trace_sched_process_fork.  The tracepoint gives thread ids, and fires for a
\* new thread as for a new process.
trace_sched_process_fork(t, c) ==
    IF attached < Programs \/ to_discard(t) \/ Cardinality(pids_to_consider) >= MAX_PIDS
    THEN pids_to_consider
    ELSE pids_to_consider \cup {c}

\* fork(2) when the child c is a process of its own, pthread_create when not.
Clone(t, c, process) ==
    /\ at[t] = "user" /\ CPUFree /\ c \notin Live
    /\ tgid' = [u \in Live \cup {c} |-> IF u # c THEN tgid[u]
                                        ELSE IF process THEN c ELSE tgid[t]]
    /\ pids_to_consider' = trace_sched_process_fork(t, c)
    /\ UNCHANGED <<machine, enter_timestamps, counters, attached, calls, at, cur, elem, mainVars>>

-----------------------------------------------------------------------------
(* main()                                                                  *)

\* syscounter_bpf__attach attaches the programs one after the other.
Attach ==
    /\ phase = "attach" /\ attached < Programs
    /\ attached' = attached + 1
    /\ phase' = IF attached' = Programs THEN "sleep" ELSE phase
    /\ UNCHANGED <<kernelVars, mapVars, at, elem, report, copying, atRead>>

\* Ctrl-C.  The programs stay attached and go on counting while the map is read.
CountsNow == [k \in DOMAIN counters |-> counters[k].count]
Interrupt ==
    /\ phase = "sleep"
    /\ phase' = "read" /\ atRead' = CountsNow
    /\ UNCHANGED <<kernelVars, mapVars, attached, at, elem, report, copying>>

RowKeys == {report[i].key : i \in 1 .. Len(report)}

\* bpf_map__get_next_key and the look-up: the order of the keys is the map's; a
\* key that came in during the reading may lie behind the cursor.  The kernel
\* copies the two fields of the value in no order it promises, and the programs
\* may add to them in between.
ReadKey(k) ==
    /\ phase = "read" /\ copying = "none" /\ k \in DOMAIN counters \ RowKeys
    /\ report' = Append(report, [key |-> k, count |-> counters[k].count,
                                 time |-> counters[k].time, last |-> "none"])
    /\ copying' \in {"none", "count", "time"}
    /\ UNCHANGED <<kernelVars, mapVars, attached, at, elem, phase, atRead>>

\* The rest of a row that was not copied at once.
CopyRest ==
    LET n == Len(report)
        row == report[n]
        value == counters[row.key]
    IN /\ copying # "none"
       /\ report' = [report EXCEPT ![n] =
              IF copying = "count" THEN [row EXCEPT !.count = value.count, !.last = "count"]
              ELSE [row EXCEPT !.time = value.time, !.last = "time"]]
       /\ copying' = "none"
       /\ UNCHANGED <<kernelVars, mapVars, attached, at, elem, phase, atRead>>

\* get_unique_pid_values and get_unique_op_values: the first occurrence of each
\* label, in the order of the rows.
FirstOf(lab(_)) ==
    LET new(i) == \A j \in 1 .. i - 1 : lab(report[j]) # lab(report[i])
    IN {i \in 1 .. Len(report) : new(i)}

\* Mutant: a row of the table is a process, whatever the command.
LabelOfPid(row) == row.key.pid

LabelOf(row) == <<row.key.command, row.key.pid>>
RowOp(row) == row.key.op
pid_list == {LabelOf(report[i]) : i \in FirstOf(LabelOf)}
op_list == {report[i].key.op : i \in FirstOf(RowOp)}

\* The last key was read.  The array of labels has MAX_PIDS entries; what happens
\* after a write beyond it is not defined.
ReadEnd ==
    /\ phase = "read" /\ copying = "none" /\ DOMAIN atRead \subseteq RowKeys
    /\ phase' = IF Cardinality(pid_list) <= MAX_PIDS THEN "done" ELSE "overrun"
    /\ UNCHANGED <<kernelVars, mapVars, attached, at, elem, report, copying, atRead>>

\* print_results and write_results_to_csv: a cell takes the last row with its
\* label and op, the total of an op adds every row met in the scan of the cells.
RowsAt(l, op) == {i \in 1 .. Len(report) : LabelOf(report[i]) = l /\ report[i].key.op = op}
Cell(l, op) ==
    IF RowsAt(l, op) = {} THEN 0
    ELSE report[CHOOSE i \in RowsAt(l, op) : \A j \in RowsAt(l, op) : j <= i].count
total_op_list(op) ==
    SumFunctionOnSet([i \in 1 .. Len(report) |-> report[i].count],
                     UNION {RowsAt(l, op) : l \in pid_list})

-----------------------------------------------------------------------------
Over == phase \in {"done", "overrun"}

SysNext ==
    \/ \E t \in Live : Exit(t) \/ Lookup(t) \/ Insert(t) \/ AddTime(t) \/ AddCount(t)
    \/ \E t \in Live, op \in OpNames : \E file \in Found(op) :
         ~Over /\ Enter(t, op, file)
    \/ \E t \in Live, c \in Threads, process \in BOOLEAN :
         ~Over /\ Clone(t, c, process)
    \/ Attach \/ Interrupt \/ CopyRest \/ ReadEnd
    \/ \E k \in DOMAIN counters : ReadKey(k)

SysSpec == SysInit /\ [][SysNext]_sysVars

-----------------------------------------------------------------------------
(* Properties                                                              *)

Counted == UNION {{i[2] : i \in counters[k].time} : k \in DOMAIN counters}
Wanted(c) == calls[c].file # "other" \/ calls[c].op \in FiltersNowhere
Finished(c) == cur[calls[c].tid] > c \/ at[calls[c].tid] = "user"

\* Calls that the filters keep, made when both programs of their syscall were
\* attached, that have returned and are not in the counter of their process,
\* command and syscall.
CallKey(c) == [pid |-> tgid[calls[c].tid], command |-> Comm[calls[c].tid], op |-> calls[c].op]
Lost == {c \in 1 .. Len(calls) :
            /\ calls[c].traced /\ Wanted(c) /\ Finished(c)
            /\ CallKey(c) \in DOMAIN counters =>
                 \A i \in counters[CallKey(c)].time : i[2] # c}

\* On one CPU no call is lost.  On more, only CPUs that look a new key up before
\* another inserts it lose their call (syscounter.bpf.c:112-121), so a counter
\* misses fewer calls than there are CPUs, however long it counts.
LostOnlyAtFirst ==
    \A c \in Lost : Cardinality({d \in Lost : CallKey(d) = CallKey(c)}) < cpus

\* A call whose filter finds something else than a regular file is never counted,
\* if no call was made before the attach was complete: the programs on exit do not
\* look at the descriptor again, they rely on there being no stamp (sys_enter_read
\* and the others, sys_exit_openat).  What is counted are calls on regular files,
\* openat calls with no file behind their result (line 161 asks for one, although the
\* comment above it says "If not, return 0 to ignore this event"), and every unlink.
IgnoredNotCounted == ~early => \A c \in Counted : Wanted(c)

\* Every interval in a time_sum starts and ends in the same call.
IntervalsOwn == \A k \in DOMAIN counters : \A i \in counters[k].time : i[1] = i[2]

\* The stamp that an exit uses is the one its own entry stored for the thread, never
\* one that an ignored or unfinished call has left.  It needs one CPU, for *enter_time
\* is read after its element was deleted (syscounter.bpf.c:110-115), and no call
\* before the attach was complete.
OwnIntervals == cpus = 1 /\ ~early => IntervalsOwn

\* A row read while the programs run never counts a call whose time it lacks, and
\* lacks the count of at most one call per CPU: an average is never too low, unless
\* the count was copied after the time.
RowsConsistent ==
    \A i \in 1 .. Len(report) :
        LET times == Cardinality(report[i].time)
        IN /\ report[i].last # "count" => report[i].count <= times
           /\ report[i].last # "time"  => times <= report[i].count + cpus

\* For every syscall, what the table shows is a number of calls between the one
\* counted at Ctrl-C and the one counted when it is printed, and the total below
\* the column is the sum of its cells: no counter is missed, read twice or taken
\* back while the programs run on (get_values_from_counter_map, print_results).
CountOf(f, op) == SumFunctionOnSet(f, {k \in DOMAIN f : k.op = op})
TableIsRight ==
    phase = "done" =>
        \A op \in OpNames :
            LET shown == SumFunctionOnSet([l \in pid_list |-> Cell(l, op)], pid_list)
            IN /\ total_op_list(op) = shown
               /\ CountOf(atRead, op) <= shown /\ shown <= CountOf(CountsNow, op)
=============================================================================
