-------------------------- MODULE SysCounterProofs --------------------------
(***************************************************************************)
(* What the counters of SysCounter hold, for any number of CPUs, threads,  *)
(* syscalls and calls: only calls that the filters keep, each with its own *)
(* interval, rows that are consistent although they are copied while the   *)
(* programs run, no call lost but by CPUs that insert the same new key at  *)
(* once, and a table between the counts at Ctrl-C and those when it is     *)
(* printed, if its labels fit their array.                                 *)
(***************************************************************************)
EXTENDS SysCounter, FiniteSetTheorems, FunctionTheorems, SequenceTheorems, NaturalsInduction,
        WellFoundedInduction, TLAPS

Keys   == [pid : Threads, command : Names, op : OpNames]
Files  == {"regular", "other", "null"}
Call   == [tid : Threads, op : OpNames, file : Files, traced : BOOLEAN]
Places == {"user", "kernel", "lookup", "insert", "time", "count"}
Probing == {"lookup", "insert", "time", "count"}
Times  == SUBSET (Nat \X Nat)

-----------------------------------------------------------------------------
(* Types, and what the kernel keeps of each thread *)

SysType ==
    /\ machine \in Machines /\ attached \in Nat
    /\ Live \subseteq Threads /\ IsFiniteSet(Live) /\ tgid \in [Live -> Threads]
    /\ calls \in Seq(Call)
    /\ at \in [Threads -> Places] /\ cur \in [Threads -> Nat] /\ elem \in [Threads -> Nat]
    /\ DOMAIN enter_timestamps \subseteq Live
    /\ enter_timestamps \in [DOMAIN enter_timestamps -> Nat]
    /\ DOMAIN counters \subseteq Keys
    /\ counters \in [DOMAIN counters -> [count : Nat, time : Times]]

\* The call a thread is in is its own, and its last.
CallsOK ==
    /\ \A t \in Threads : at[t] # "user" => t \in Live /\ cur[t] # 0
    /\ \A t \in Threads : cur[t] # 0 => cur[t] \in 1 .. Len(calls) /\ calls[cur[t]].tid = t
    /\ \A c \in 1 .. Len(calls) : calls[c].tid \in Live /\ c <= cur[calls[c].tid]

\* A program occupies a CPU.
CPUsOK == Cardinality(InProgram) <= cpus

\* A thread that adds to a counter found it.
FoundOK == \A t \in Threads : at[t] \in {"time", "count"} => KeyOf(t) \in DOMAIN counters

-----------------------------------------------------------------------------
(* Times and counts *)

\* No interval of a call is in a counter before its program adds it.
TimedOK ==
    \A x \in DOMAIN counters :
        /\ IsFiniteSet(counters[x].time)
        /\ \A i \in counters[x].time :
             /\ i[2] \in 1 .. Len(calls)
             /\ \A t \in Threads : cur[t] = i[2] => at[t] \in {"count", "user"}

\* Between the two additions of update_counter_exit.
Between(x) == {t \in Live : at[t] = "count" /\ KeyOf(t) = x}
CountsOK == \A x \in DOMAIN counters :
    Cardinality(counters[x].time) = counters[x].count + Cardinality(Between(x))

\* A row was copied from its counter, which has only grown since.
Row == [key : Keys, count : Nat, time : Times, last : {"none", "count", "time"}]
RowsKept ==
    /\ report \in Seq(Row) /\ copying \in {"none", "count", "time"}
    /\ copying # "none" => Len(report) # 0 /\ report[Len(report)].last = "none"
    /\ \A i \in 1 .. Len(report) :
         /\ report[i].key \in DOMAIN counters
         /\ report[i].count <= counters[report[i].key].count
         /\ report[i].time \subseteq counters[report[i].key].time
RowsInv == /\ SysType /\ CallsOK /\ CPUsOK /\ FoundOK /\ TimedOK /\ CountsOK
           /\ RowsKept /\ RowsConsistent

-----------------------------------------------------------------------------
(* What is counted, when no call was made before the attach was complete *)

\* A stamp is that of the call its thread is in, and of one that the program on
\* its exit will see.
StampsOK ==
    \A t \in DOMAIN enter_timestamps :
        /\ at[t] = "kernel" /\ enter_timestamps[t] = cur[t]
        /\ tgid[t] \in pids_to_consider
        /\ calls[cur[t]].file = "regular" \/ calls[cur[t]].op \notin FiltersAtEnter
WantedOK == \A t \in Threads : at[t] \in Probing => Wanted(cur[t])
FilesInv ==
    /\ SysType /\ CallsOK /\ FoundOK /\ TimedOK
    /\ ~early => /\ attached = Programs /\ phase # "attach"
                 /\ StampsOK /\ WantedOK /\ \A c \in Counted : Wanted(c)

\* On one CPU nothing is inserted between the deletion of a stamp and its last read.
OwnInv ==
    /\ FilesInv /\ CPUsOK
    /\ cpus = 1 /\ ~early =>
         /\ \A t \in Threads : at[t] \in Probing => elem[t] = cur[t]
         /\ \A x \in DOMAIN counters : \A i \in counters[x].time : i[1] = i[2]

-----------------------------------------------------------------------------
(* Lost calls *)

\* The stamps and the counters of all threads fit their maps.
MapsFit == /\ IsFiniteSet(Threads) /\ Cardinality(Threads) <= MAX_STAMPS
           /\ IsFiniteSet(Keys) /\ Cardinality(Keys) <= MAX_COUNTERS

\* A traced call that the filters keep has its stamp until its thread looks.
TracedOK == \A t \in Threads :
    at[t] = "kernel" /\ calls[cur[t]].traced /\ Wanted(cur[t]) =>
        /\ t \in DOMAIN enter_timestamps
        /\ ExitOn(calls[cur[t]].op) /\ tgid[t] \in pids_to_consider

\* In the time_sum of its key a call is found again.
InTime(c) == /\ CallKey(c) \in DOMAIN counters
             /\ \E i \in counters[CallKey(c)].time : i[2] = c
AddedOK == \A t \in Threads : at[t] = "count" => InTime(cur[t])

LostFor(x)      == {c \in Lost : CallKey(c) = x}
Inserting(x) == {c \in 1 .. Len(calls) : \E t \in Live :
                    at[t] = "insert" /\ cur[t] = c /\ KeyOf(t) = x}
FirstOK == \A x \in Keys :
    /\ x \notin DOMAIN counters => LostFor(x) = {}
    /\ x \in DOMAIN counters =>
         Cardinality(LostFor(x) \cup Inserting(x)) < cpus
LostInv == SysType /\ CallsOK /\ CPUsOK /\ FoundOK /\ TracedOK /\ AddedOK /\ FirstOK

-----------------------------------------------------------------------------
(* Lemmas about the operators *)

LEMMA PutFacts ==
    ASSUME NEW map, NEW x, NEW v, NEW n
    PROVE  /\ DOMAIN map \subseteq DOMAIN Put(map, x, v, n)
           /\ DOMAIN Put(map, x, v, n) \subseteq DOMAIN map \cup {x}
           /\ x \in DOMAIN Put(map, x, v, n) =>
                 Put(map, x, v, n)[x] = v \/ Put(map, x, v, n) = map
           /\ \A y \in DOMAIN map : y # x => Put(map, x, v, n)[y] = map[y]
           /\ \/ Put(map, x, v, n) = map /\ x \notin DOMAIN map
              \/ Put(map, x, v, n) = [y \in DOMAIN map \cup {x} |-> IF y = x THEN v ELSE map[y]]
BY DEF Put

LEMMA WithoutFacts ==
    ASSUME NEW map, NEW x
    PROVE  /\ DOMAIN Without(map, x) = DOMAIN map \ {x}
           /\ \A y \in DOMAIN map \ {x} : Without(map, x)[y] = map[y]
           /\ Without(map, x) = [y \in DOMAIN map \ {x} |-> map[y]]
BY DEF Without, Restrict

\* The handful of numbers and names that the steps use.
LEMMA SysFacts ==
    ASSUME SysType
    PROVE  /\ Len(calls) \in Nat /\ cpus \in Nat /\ cpus # 0 /\ early \in BOOLEAN
           /\ \A c \in 1 .. Len(calls) : calls[c] \in Call
           /\ Len(Ops) \in Nat
           /\ \A t \in Live : t \in Threads /\ tgid[t] \in Threads
<1>1. machine \in [cpus : Nat \ {0}, early : BOOLEAN, ops : SUBSET OpNames, calls : Nat] /\ Len(Ops) \in Nat
  BY SysAssumption DEF SysType
<1> QED  BY <1>1 DEF SysType, cpus, early

\* The key of a call that its thread is in.
LEMMA KeyFacts ==
    ASSUME SysType, CallsOK, NEW t \in Threads, cur[t] # 0, t \in Live
    PROVE  KeyOf(t) \in Keys /\ KeyOf(t) = CallKey(cur[t])
<1>1. cur[t] \in 1 .. Len(calls) /\ calls[cur[t]].tid = t /\ calls[cur[t]].op \in OpNames
  BY SysFacts DEF CallsOK, Call
<1>2. Comm[t] \in Names /\ tgid[t] \in Threads
  BY SysFacts DEF Names
<1> QED  BY <1>1, <1>2 DEF KeyOf, CallKey, Keys

\* What a thread does leaves the others where they are.
LEMMA CallAppended ==
    ASSUME SysType, NEW t \in Live, NEW op \in OpNames, NEW file \in Found(op),
           Enter(t, op, file)
    PROVE  /\ calls' \in Seq(Call) /\ Len(calls') = Len(calls) + 1
           /\ \A c \in 1 .. Len(calls) : calls'[c] = calls[c]
           /\ LET c == Len(calls') IN
                /\ calls'[c].tid = t /\ calls'[c].op = op /\ calls'[c].file = file
                /\ calls'[c].traced =
                      (EnterOn(op) /\ ~to_discard(tgid[t]) /\ ExitOn(op))
<1>1. PICK c : c = [tid |-> t, op |-> op, file |-> file,
                    traced |-> EnterOn(op) /\ ~to_discard(tgid[t]) /\ ExitOn(op)]
  OBVIOUS
<1>2. c \in Call
  <2>1. (EnterOn(op) /\ ~to_discard(tgid[t]) /\ ExitOn(op)) \in BOOLEAN
    BY DEF EnterOn, to_discard, ExitOn
  <2>2. file \in Files
    BY DEF Found, Files
  <2> QED  BY <1>1, <2>1, <2>2, SysFacts DEF Call
<1>3. calls' = Append(calls, c)
  BY <1>1 DEF Enter
<1>4. calls \in Seq(Call)
  BY DEF SysType
<1>5. /\ Append(calls, c) \in Seq(Call) /\ Len(Append(calls, c)) = Len(calls) + 1
      /\ \A i \in 1 .. Len(calls) : Append(calls, c)[i] = calls[i]
      /\ Append(calls, c)[Len(calls) + 1] = c
  BY <1>2, <1>4, AppendProperties
<1> QED  BY <1>1, <1>3, <1>5

-----------------------------------------------------------------------------
(* Types, calls and CPUs *)

\* A program on a counter changes that counter only.
LEMMA CountersStep ==
    ASSUME SysType, CallsOK, FoundOK, NEW t \in Live, Insert(t) \/ AddTime(t) \/ AddCount(t)
    PROVE  /\ DOMAIN counters' \subseteq Keys /\ DOMAIN counters \subseteq DOMAIN counters'
           /\ counters' \in [DOMAIN counters' -> [count : Nat, time : Times]]
           /\ \A x \in DOMAIN counters : x # KeyOf(t) => counters'[x] = counters[x]
           /\ DOMAIN counters' \subseteq DOMAIN counters \cup {KeyOf(t)}
<1>1. t \in Threads /\ at[t] # "user" /\ cur[t] # 0 /\ at[t] \in {"insert", "time", "count"}
  BY SysFacts DEF CallsOK, Insert, AddTime, AddCount
<1>x. PICK x : x = KeyOf(t)
  OBVIOUS
<1>2. x \in Keys
  BY <1>1, <1>x, KeyFacts
<1>d. PICK d : d = Delta(t)
  OBVIOUS
<1>3. d \in Nat \X Nat
  BY <1>1, <1>d DEF Delta, SysType
<1>4. /\ DOMAIN counters \subseteq Keys
      /\ counters \in [DOMAIN counters -> [count : Nat, time : Times]]
  BY DEF SysType
<1>5. CASE Insert(t)
  <2>v. PICK v : v = [count |-> 1, time |-> {d}]
    OBVIOUS
  <2>1. v \in [count : Nat, time : Times]
    BY <2>v, <1>3 DEF Times
  <2>2. counters' = counters \/ counters' = Put(counters, x, v, MAX_COUNTERS)
    BY <1>5, <1>x, <1>d, <2>v DEF Insert
  <2>3. \/ counters' = counters
        \/ counters' = [y \in DOMAIN counters \cup {x} |-> IF y = x THEN v ELSE counters[y]]
    BY <2>2 DEF Put
  <2> QED  BY <1>2, <1>4, <1>x, <2>1, <2>3
<1>6. CASE AddTime(t)
  <2>1. x \in DOMAIN counters
    BY <1>1, <1>6, <1>x DEF FoundOK, AddTime
  <2>2. counters' = [counters EXCEPT ![x].time = @ \cup {d}]
    BY <1>6, <1>x, <1>d DEF AddTime
  <2>3. counters[x].time \cup {d} \in Times
    BY <1>3, <1>4, <2>1 DEF Times
  <2> QED  BY <1>2, <1>4, <1>x, <2>1, <2>2, <2>3
<1>7. CASE AddCount(t)
  <2>1. x \in DOMAIN counters
    BY <1>1, <1>7, <1>x DEF FoundOK, AddCount
  <2>2. counters' = [counters EXCEPT ![x].count = @ + 1]
    BY <1>7, <1>x DEF AddCount
  <2> QED  BY <1>2, <1>4, <1>x, <2>1, <2>2
<1> QED  BY <1>5, <1>6, <1>7

LEMMA SysTypeStep ==
    ASSUME SysType, CallsOK, FoundOK, [SysNext]_sysVars
    PROVE  SysType'
<1> USE DEF SysType, kernelVars, mapVars, mainVars
<1>1. ASSUME NEW t \in Live, NEW op \in OpNames, NEW file \in Found(op), Enter(t, op, file)
      PROVE  SysType'
  <2>1. calls' \in Seq(Call) /\ Len(calls') \in Nat
    BY <1>1, CallAppended, SysFacts
  <2>2. t \in Threads
    OBVIOUS
  <2>n. PICK now : now = Len(calls')
    OBVIOUS
  <2>3. at' \in [Threads -> Places] /\ cur' \in [Threads -> Nat]
    BY <1>1, <2>1, <2>2 DEF Enter, Places
  <2>4. UNCHANGED <<machine, tgid, counters, attached>>
    BY <1>1 DEF Enter
  <2>5. /\ DOMAIN enter_timestamps' \subseteq Live
        /\ enter_timestamps' \in [DOMAIN enter_timestamps' -> Nat]
    <3>1. \/ enter_timestamps' = enter_timestamps
          \/ enter_timestamps' = Put(enter_timestamps, t, now, MAX_STAMPS)
      BY <1>1, <2>n DEF Enter, update_counter_enter
    <3>2. \/ enter_timestamps' = enter_timestamps
          \/ enter_timestamps' = [y \in DOMAIN enter_timestamps \cup {t} |->
                                    IF y = t THEN now ELSE enter_timestamps[y]]
      BY <3>1 DEF Put
    <3> QED  BY <2>1, <2>n, <3>2
  <2>6. elem' \in [Threads -> Nat]
    <3>1. elem' = elem \/ \E u \in Threads : elem' = [elem EXCEPT ![u] = now]
      BY <1>1, <2>n DEF Enter, update_counter_enter
    <3> QED  BY <2>1, <2>n, <3>1
  <2> QED  BY <2>1, <2>3, <2>4, <2>5, <2>6 DEF Live
<1>2. ASSUME NEW t \in Live, Exit(t) PROVE SysType'
  <2>1. at' \in [Threads -> Places] /\ UNCHANGED <<machine, tgid, calls, cur, counters, attached>>
    BY <1>2 DEF Exit, Places
  <2>2. /\ DOMAIN enter_timestamps' \subseteq Live
        /\ enter_timestamps' \in [DOMAIN enter_timestamps' -> Nat]
    <3>1. enter_timestamps' = enter_timestamps \/ enter_timestamps' = Without(enter_timestamps, t)
      BY <1>2 DEF Exit, Ignore
    <3> QED  BY <3>1 DEF Without, Restrict
  <2>3. elem' \in [Threads -> Nat]
    BY <1>2 DEF Exit
  <2> QED  BY <2>1, <2>2, <2>3 DEF Live
<1>3. ASSUME NEW t \in Live, Lookup(t) PROVE SysType'
  <2>1. UNCHANGED <<machine, tgid, calls, cur, mapVars, attached, elem>>
    BY <1>3 DEF Lookup
  <2>2. at' \in [Threads -> Places]
    BY <1>3 DEF Lookup, Places
  <2> QED  BY <2>1, <2>2 DEF Live
<1>4. ASSUME NEW t \in Live, Insert(t) \/ AddTime(t) \/ AddCount(t) PROVE SysType'
  <2>1. UNCHANGED <<machine, tgid, calls, cur, enter_timestamps, attached>>
    BY <1>4 DEF Insert, AddTime, AddCount
  <2>2. at' \in [Threads -> Places] /\ elem' \in [Threads -> Nat]
    <3>1. \E z \in Places : at' = [at EXCEPT ![t] = z]
      BY <1>4 DEF Insert, AddTime, AddCount, Places
    <3>2. elem' = elem \/ \E n \in Nat : elem' = [elem EXCEPT ![t] = n]
      BY <1>4 DEF Insert, AddTime, AddCount
    <3>3. at \in [Threads -> Places] /\ elem \in [Threads -> Nat]
      OBVIOUS
    <3>4. at' \in [Threads -> Places]
      BY <3>1, <3>3
    <3>5. elem' \in [Threads -> Nat]
      BY <3>2, <3>3
    <3> QED  BY <3>4, <3>5
  <2>3. /\ DOMAIN counters' \subseteq Keys
        /\ counters' \in [DOMAIN counters' -> [count : Nat, time : Times]]
    BY <1>4, CountersStep
  <2> QED  BY <2>1, <2>2, <2>3 DEF Live
<1>5. ASSUME NEW t \in Live, NEW c \in Threads, NEW process \in BOOLEAN, Clone(t, c, process)
      PROVE  SysType'
  <2>1. UNCHANGED <<machine, calls, at, cur, elem, enter_timestamps, counters, attached>>
    BY <1>5 DEF Clone
  <2>2. tgid' \in [Live \cup {c} -> Threads]
    BY <1>5 DEF Clone
  <2>3. Live' = Live \cup {c} /\ IsFiniteSet(Live \cup {c})
    BY <2>2, FS_AddElement DEF Live
  <2> QED  BY <2>1, <2>2, <2>3
<1>6. CASE \/ Attach \/ Interrupt \/ CopyRest \/ ReadEnd
           \/ \E x \in DOMAIN counters : ReadKey(x)
  <2>1. UNCHANGED <<machine, tgid, calls, at, cur, elem, enter_timestamps, counters>>
    BY <1>6 DEF Attach, Interrupt, CopyRest, ReadEnd, ReadKey
  <2>2. attached' = attached \/ attached' = attached + 1
    BY <1>6 DEF Attach, Interrupt, CopyRest, ReadEnd, ReadKey
  <2>3. attached' \in Nat
    BY <2>2
  <2> QED  BY <2>1, <2>3 DEF Live
<1>7. CASE UNCHANGED sysVars
  BY <1>7 DEF sysVars, Live
<1> QED  BY <1>1, <1>2, <1>3, <1>4, <1>5, <1>6, <1>7 DEF SysNext

\* Processes and calls are only added, and the machine stays what it is.
LEMMA KernelStep ==
    ASSUME SysType, [SysNext]_sysVars
    PROVE  /\ machine' = machine /\ cpus' = cpus /\ early' = early
           /\ Live \subseteq Live' /\ \A t \in Live : tgid'[t] = tgid[t]
           /\ pids_to_consider \subseteq pids_to_consider' /\ attached <= attached'
           /\ Len(calls) <= Len(calls') /\ \A c \in 1 .. Len(calls) : calls'[c] = calls[c]
<1> USE DEF kernelVars, mapVars, mainVars, cpus, early
<1>a. Len(calls) \in Nat /\ attached \in Nat
  BY SysFacts DEF SysType
<1>1. ASSUME NEW t \in Live, NEW op \in OpNames, NEW file \in Found(op), Enter(t, op, file)
      PROVE  /\ UNCHANGED <<machine, tgid, pids_to_consider, attached>>
             /\ Len(calls) <= Len(calls') /\ \A c \in 1 .. Len(calls) : calls'[c] = calls[c]
  BY <1>1, <1>a, CallAppended DEF Enter
<1>2. ASSUME NEW t \in Live, Exit(t) \/ Lookup(t) \/ Insert(t) \/ AddTime(t) \/ AddCount(t)
      PROVE  UNCHANGED <<machine, tgid, pids_to_consider, attached, calls>>
  BY <1>2 DEF Exit, Lookup, Insert, AddTime, AddCount
<1>3. ASSUME NEW t \in Live, NEW c \in Threads, NEW process \in BOOLEAN, Clone(t, c, process)
      PROVE  /\ UNCHANGED <<machine, attached, calls>> /\ pids_to_consider \subseteq pids_to_consider'
             /\ Live \subseteq Live' /\ \A u \in Live : tgid'[u] = tgid[u]
  BY <1>3 DEF Clone, trace_sched_process_fork, Live
<1>4. CASE Attach
  BY <1>4, <1>a DEF Attach, Live
<1>5. CASE \/ Interrupt \/ CopyRest \/ ReadEnd
           \/ (\E x \in DOMAIN counters : ReadKey(x)) \/ UNCHANGED sysVars
  <2>1. UNCHANGED <<machine, tgid, pids_to_consider, attached, calls>>
    BY <1>5 DEF Interrupt, CopyRest, ReadEnd, ReadKey, sysVars
  <2> QED  BY <2>1, <1>a DEF Live
<1> QED  BY <1>1, <1>2, <1>3, <1>4, <1>5, <1>a DEF SysNext, Live

\* Only the thread that a step is about moves.
LEMMA OtherThreads ==
    ASSUME SysType, NEW t \in Live, NEW u \in Threads, u # t,
           \/ Exit(t) \/ Lookup(t) \/ Insert(t) \/ AddTime(t) \/ AddCount(t)
           \/ \E op \in OpNames : \E file \in Found(op) : Enter(t, op, file)
    PROVE  at'[u] = at[u] /\ cur'[u] = cur[u]
<1>1. CASE \E op \in OpNames : \E file \in Found(op) : Enter(t, op, file)
  BY <1>1 DEF SysType, Enter
<1>2. CASE Exit(t) \/ Lookup(t) \/ Insert(t) \/ AddTime(t) \/ AddCount(t)
  <2>1. cur' = cur
    BY <1>2 DEF Exit, Lookup, Insert, AddTime, AddCount, kernelVars
  <2>2. \E z : at' = [at EXCEPT ![t] = z]
    BY <1>2 DEF Exit, Lookup, Insert, AddTime, AddCount
  <2> QED  BY <2>1, <2>2 DEF SysType
<1> QED  BY <1>1, <1>2

\* A thread without a step, and the call it is in.
LEMMA KeyStays ==
    ASSUME SysType, CallsOK, [SysNext]_sysVars, NEW t \in Threads, t \in Live, cur[t] # 0,
           cur'[t] = cur[t]
    PROVE  KeyOf(t)' = KeyOf(t)
<1>1. cur[t] \in 1 .. Len(calls)
  BY DEF CallsOK
<1> QED  BY <1>1, KernelStep DEF KeyOf

\* The steps in which no thread moves.
LEMMA NoThreadMoves ==
    ASSUME SysType, [SysNext]_sysVars
    PROVE  \/ at' = at /\ cur' = cur /\ calls' = calls /\ elem' = elem
              /\ counters' = counters /\ enter_timestamps' = enter_timestamps
           \/ \E t \in Live : \/ Exit(t) \/ Lookup(t) \/ Insert(t) \/ AddTime(t) \/ AddCount(t)
                              \/ \E op \in OpNames : \E file \in Found(op) : Enter(t, op, file)
<1> USE DEF kernelVars, mapVars, mainVars
<1>1. ASSUME NEW t \in Live, NEW c \in Threads, NEW process \in BOOLEAN, Clone(t, c, process)
      PROVE  UNCHANGED <<at, cur, calls, elem, counters, enter_timestamps>>
  BY <1>1 DEF Clone
<1>2. CASE \/ Attach \/ Interrupt \/ CopyRest \/ ReadEnd \/ (\E x \in DOMAIN counters : ReadKey(x))
           \/ UNCHANGED sysVars
  BY <1>2 DEF Attach, Interrupt, CopyRest, ReadEnd, ReadKey, sysVars
<1> QED  BY <1>1, <1>2 DEF SysNext

LEMMA CallsStep ==
    ASSUME SysType, CallsOK, [SysNext]_sysVars
    PROVE  CallsOK'
<1>a. /\ Len(calls) \in Nat /\ Live \subseteq Threads
      /\ Live \subseteq Live'
      /\ cur \in [Threads -> Nat] /\ at \in [Threads -> Places]
      /\ \A c \in 1 .. Len(calls) : calls[c].tid \in Threads
  BY SysFacts, KernelStep DEF SysType, Call
<1>1. CASE at' = at /\ cur' = cur /\ calls' = calls
  BY <1>1, <1>a DEF CallsOK
<1>2. ASSUME NEW t \in Live, Exit(t) \/ Lookup(t) \/ Insert(t) \/ AddTime(t) \/ AddCount(t)
      PROVE  CallsOK'
  <2>1. cur' = cur /\ calls' = calls /\ at[t] # "user"
    BY <1>2 DEF Exit, Lookup, Insert, AddTime, AddCount, kernelVars
  <2>2. \A u \in Threads : at'[u] # "user" => at[u] # "user"
    BY <1>2, <2>1, OtherThreads
  <2> QED  BY <1>a, <2>1, <2>2 DEF CallsOK
<1>3. ASSUME NEW t \in Live, NEW op \in OpNames, NEW file \in Found(op), Enter(t, op, file)
      PROVE  CallsOK'
  <2>n. PICK n : n = Len(calls')
    OBVIOUS
  <2>1. /\ n = Len(calls) + 1 /\ calls'[n].tid = t
        /\ \A c \in 1 .. Len(calls) : calls'[c] = calls[c]
    BY <1>3, <2>n, CallAppended
  <2>2. cur'[t] = n /\ cur' = [cur EXCEPT ![t] = n] /\ \A u \in Threads : u # t => at'[u] = at[u]
    BY <1>3, <1>a, <2>n DEF Enter
  <2>3. \A c \in 1 .. n : c = n \/ c \in 1 .. Len(calls)
    BY <1>a, <2>1
  <2>4. \A u \in Threads : at'[u] # "user" => u \in Live' /\ cur'[u] # 0
    BY <1>a, <2>1, <2>2 DEF CallsOK
  <2>5. \A u \in Threads : cur'[u] # 0 => cur'[u] \in 1 .. n /\ calls'[cur'[u]].tid = u
    BY <1>a, <2>1, <2>2 DEF CallsOK
  <2>6. \A c \in 1 .. n : calls'[c].tid \in Live' /\ c <= cur'[calls'[c].tid]
    BY <1>a, <2>1, <2>2, <2>3 DEF CallsOK
  <2> QED  BY <2>n, <2>4, <2>5, <2>6 DEF CallsOK
<1> QED  BY <1>1, <1>2, <1>3, NoThreadMoves

\* A thread enters a program when a CPU is free, on the exit of its syscall.
LEMMA CPUsStep ==
    ASSUME SysType, CallsOK, FoundOK, CPUsOK, [SysNext]_sysVars
    PROVE  CPUsOK'
<1>a. /\ InProgram \subseteq Live /\ Live \subseteq Threads /\ IsFiniteSet(InProgram)
      /\ Cardinality(InProgram) \in Nat /\ cpus \in Nat /\ cpus' = cpus
      /\ at \in [Threads -> Places] /\ Cardinality(InProgram) <= cpus
  <2>1. InProgram \subseteq Live
    BY DEF InProgram
  <2>2. IsFiniteSet(InProgram)
    BY <2>1, FS_Subset DEF SysType
  <2> QED  BY <2>1, <2>2, FS_CardinalityType, SysFacts, KernelStep DEF SysType, CPUsOK
<1>b. /\ Live' \subseteq Threads
      /\ \A u \in InProgram' : u \in Threads /\ at'[u] \in Probing
  BY SysTypeStep DEF SysType, InProgram, Probing, Live
<1>c. ASSUME \A u \in Threads : at'[u] \in Probing => at[u] \in Probing
      PROVE  CPUsOK'
  <2>1. InProgram' \subseteq InProgram
    BY <1>b, <1>c DEF InProgram, Probing, CallsOK
  <2>2. Cardinality(InProgram') \in Nat /\ Cardinality(InProgram') <= Cardinality(InProgram)
    BY <1>a, <2>1, FS_Subset, FS_CardinalityType
  <2> QED  BY <1>a, <2>2 DEF CPUsOK
<1>1. CASE at' = at
  BY <1>1, <1>c
<1>2. ASSUME NEW t \in Live, Lookup(t) \/ Insert(t) \/ AddTime(t) \/ AddCount(t) PROVE CPUsOK'
  <2>1. at[t] \in Probing /\ t \in Threads
    BY <1>2, <1>a DEF Lookup, Insert, AddTime, AddCount, Probing
  <2> QED  BY <1>2, <1>c, <2>1, OtherThreads
<1>3. ASSUME NEW t \in Live, NEW op \in OpNames, NEW file \in Found(op), Enter(t, op, file)
      PROVE  CPUsOK'
  <2>1. at'[t] = "kernel" /\ t \in Threads
    BY <1>3, <1>a DEF Enter
  <2> QED  BY <1>3, <1>c, <2>1, OtherThreads DEF Probing
<1>4. ASSUME NEW t \in Live, Exit(t) PROVE CPUsOK'
  <2>1. Cardinality(InProgram) < cpus
    BY <1>4 DEF Exit, CPUFree
  <2>2. InProgram' \subseteq InProgram \cup {t}
    BY <1>a, <1>b, <1>4, OtherThreads DEF InProgram, Probing, CallsOK
  <2>3. /\ IsFiniteSet(InProgram \cup {t})
        /\ Cardinality(InProgram \cup {t}) \in Nat
        /\ Cardinality(InProgram \cup {t}) <= Cardinality(InProgram) + 1
    <3>1. /\ IsFiniteSet(InProgram \cup {t})
          /\ Cardinality(InProgram \cup {t}) =
                IF t \in InProgram THEN Cardinality(InProgram) ELSE Cardinality(InProgram) + 1
      BY <1>a, FS_AddElement
    <3> QED  BY <1>a, <3>1
  <2>4. /\ Cardinality(InProgram') \in Nat
        /\ Cardinality(InProgram') <= Cardinality(InProgram \cup {t})
    BY <2>2, <2>3, FS_Subset, FS_CardinalityType
  <2> QED  BY <1>a, <2>1, <2>3, <2>4 DEF CPUsOK
<1> QED  BY <1>1, <1>2, <1>3, <1>4, NoThreadMoves

\* A key is never removed: it stays found.
LEMMA FoundStep ==
    ASSUME SysType, CallsOK, FoundOK, [SysNext]_sysVars
    PROVE  FoundOK' /\ DOMAIN counters \subseteq DOMAIN counters'
<1>a. Live \subseteq Threads /\ at \in [Threads -> Places]
  BY DEF SysType
<1>1. DOMAIN counters \subseteq DOMAIN counters'
  <2>1. ASSUME NEW t \in Live, Insert(t) \/ AddTime(t) \/ AddCount(t)
        PROVE  DOMAIN counters \subseteq DOMAIN counters'
    BY <2>1, CountersStep
  <2>2. ASSUME NEW t \in Live,
               \/ Exit(t) \/ Lookup(t)
               \/ \E op \in OpNames : \E file \in Found(op) : Enter(t, op, file)
        PROVE  counters' = counters
    BY <2>2 DEF Exit, Lookup, Enter, mapVars
  <2> QED  BY <2>1, <2>2, NoThreadMoves
<1>k. ASSUME NEW u \in Threads, at[u] \in {"lookup", "time", "count"}, cur'[u] = cur[u]
      PROVE  KeyOf(u)' = KeyOf(u)
  BY <1>k, KeyStays DEF CallsOK
<1>2. ASSUME NEW u \in Threads, at'[u] \in {"time", "count"}, at'[u] = at[u], cur'[u] = cur[u]
      PROVE  KeyOf(u)' \in DOMAIN counters'
  BY <1>2, <1>1, <1>k DEF FoundOK
<1>3. ASSUME NEW t \in Live, Lookup(t), at'[t] \in {"time", "count"}
      PROVE  KeyOf(t)' \in DOMAIN counters'
  <2>1. cur' = cur /\ at[t] = "lookup" /\ KeyOf(t) \in DOMAIN counters
    BY <1>a, <1>3 DEF Lookup, kernelVars
  <2> QED  BY <1>a, <1>1, <1>k, <2>1
<1>4. ASSUME NEW t \in Live, AddTime(t) PROVE KeyOf(t)' \in DOMAIN counters'
  <2>1. cur' = cur /\ at[t] = "time"
    BY <1>4 DEF AddTime, kernelVars
  <2> QED  BY <1>a, <1>1, <1>k, <2>1 DEF FoundOK
<1>5. ASSUME NEW t \in Live, Exit(t) \/ Insert(t) \/ AddCount(t)
      PROVE  at'[t] \notin {"time", "count"}
  BY <1>a, <1>5 DEF Exit, Insert, AddCount
<1>6. ASSUME NEW t \in Live, NEW op \in OpNames, NEW file \in Found(op), Enter(t, op, file)
      PROVE  at'[t] = "kernel"
  BY <1>a, <1>6 DEF Enter
<1>7. ASSUME NEW t \in Live,
             \/ Exit(t) \/ Lookup(t) \/ Insert(t) \/ AddTime(t) \/ AddCount(t)
             \/ \E op \in OpNames : \E file \in Found(op) : Enter(t, op, file)
      PROVE  FoundOK'
  <2>1. ASSUME NEW u \in Threads, at'[u] \in {"time", "count"}
        PROVE  KeyOf(u)' \in DOMAIN counters'
    <3>1. CASE u # t
      BY <1>7, <2>1, <3>1, <1>2, OtherThreads
    <3>2. CASE u = t
      BY <1>7, <2>1, <3>2, <1>3, <1>4, <1>5, <1>6
    <3> QED  BY <3>1, <3>2
  <2> QED  BY <2>1 DEF FoundOK
<1>8. CASE at' = at /\ cur' = cur
  <2>1. ASSUME NEW u \in Threads, at'[u] \in {"time", "count"}
        PROVE  KeyOf(u)' \in DOMAIN counters'
    BY <1>2, <1>8, <2>1
  <2> QED  BY <1>1, <2>1 DEF FoundOK
<1> QED  BY <1>1, <1>7, <1>8, NoThreadMoves

-----------------------------------------------------------------------------
(* Rows *)

\* What the programs do to the counter of their call, and to no other.
LEMMA InsertMoves ==
    ASSUME NEW t \in Live, Insert(t), counters' # counters
    PROVE  /\ KeyOf(t) \notin DOMAIN counters
           /\ DOMAIN counters' = DOMAIN counters \cup {KeyOf(t)}
           /\ \A x \in DOMAIN counters : counters'[x] = counters[x]
           /\ counters'[KeyOf(t)].count = 1 /\ counters'[KeyOf(t)].time = {Delta(t)}
<1>1. PICK x, v : x = KeyOf(t) /\ v = [count |-> 1, time |-> {Delta(t)}]
  OBVIOUS
<1>2. x \notin DOMAIN counters /\ counters' = Put(counters, x, v, MAX_COUNTERS)
  BY <1>1 DEF Insert
<1>3. counters' = [y \in DOMAIN counters \cup {x} |-> IF y = x THEN v ELSE counters[y]]
  BY <1>2 DEF Put
<1> QED  BY <1>1, <1>2, <1>3

LEMMA AddTimeMoves ==
    ASSUME SysType, FoundOK, NEW t \in Live, AddTime(t)
    PROVE  /\ KeyOf(t) \in DOMAIN counters /\ DOMAIN counters' = DOMAIN counters
           /\ \A x \in DOMAIN counters : x # KeyOf(t) => counters'[x] = counters[x]
           /\ counters'[KeyOf(t)].count = counters[KeyOf(t)].count
           /\ counters'[KeyOf(t)].time = counters[KeyOf(t)].time \cup {Delta(t)}
<1>1. PICK x, d : x = KeyOf(t) /\ d = Delta(t)
  OBVIOUS
<1>2. counters' = [counters EXCEPT ![x].time = @ \cup {d}] /\ x \in DOMAIN counters
  BY <1>1 DEF SysType, FoundOK, AddTime
<1>3. counters \in [DOMAIN counters -> [count : Nat, time : Times]]
  BY DEF SysType
<1> QED  BY <1>1, <1>2, <1>3

LEMMA AddCountMoves ==
    ASSUME SysType, FoundOK, NEW t \in Live, AddCount(t)
    PROVE  /\ KeyOf(t) \in DOMAIN counters /\ DOMAIN counters' = DOMAIN counters
           /\ \A x \in DOMAIN counters : x # KeyOf(t) => counters'[x] = counters[x]
           /\ counters'[KeyOf(t)].count = counters[KeyOf(t)].count + 1
           /\ counters'[KeyOf(t)].time = counters[KeyOf(t)].time
<1>1. PICK x : x = KeyOf(t)
  OBVIOUS
<1>2. counters' = [counters EXCEPT ![x].count = @ + 1] /\ x \in DOMAIN counters
  BY <1>1 DEF SysType, FoundOK, AddCount
<1>3. counters \in [DOMAIN counters -> [count : Nat, time : Times]]
  BY DEF SysType
<1> QED  BY <1>1, <1>2, <1>3

\* Only the program of a thread changes counters, and only the one of its call.
LEMMA CounterMoves ==
    ASSUME SysType, FoundOK, [SysNext]_sysVars
    PROVE  \/ counters' = counters /\ \A t \in Live : ~AddTime(t) /\ ~AddCount(t)
           \/ \E t \in Live :
                \/ /\ Insert(t) /\ KeyOf(t) \notin DOMAIN counters
                   /\ DOMAIN counters' = DOMAIN counters \cup {KeyOf(t)}
                   /\ \A x \in DOMAIN counters : counters'[x] = counters[x]
                   /\ counters'[KeyOf(t)].count = 1
                   /\ counters'[KeyOf(t)].time = {Delta(t)}
                \/ /\ AddTime(t) /\ KeyOf(t) \in DOMAIN counters
                   /\ DOMAIN counters' = DOMAIN counters
                   /\ \A x \in DOMAIN counters : x # KeyOf(t) => counters'[x] = counters[x]
                   /\ counters'[KeyOf(t)].count = counters[KeyOf(t)].count
                   /\ counters'[KeyOf(t)].time = counters[KeyOf(t)].time \cup {Delta(t)}
                \/ /\ AddCount(t) /\ KeyOf(t) \in DOMAIN counters
                   /\ DOMAIN counters' = DOMAIN counters
                   /\ \A x \in DOMAIN counters : x # KeyOf(t) => counters'[x] = counters[x]
                   /\ counters'[KeyOf(t)].count = counters[KeyOf(t)].count + 1
                   /\ counters'[KeyOf(t)].time = counters[KeyOf(t)].time
<1>1. ASSUME NEW t \in Live,
             \/ Exit(t) \/ Lookup(t)
             \/ \E op \in OpNames : \E file \in Found(op) : Enter(t, op, file)
      PROVE  counters' = counters
  BY <1>1 DEF Exit, Lookup, Enter, mapVars
<1> QED  BY <1>1, NoThreadMoves, InsertMoves, AddTimeMoves, AddCountMoves

\* A thread adds the interval of its own call, once.
LEMMA TimedStep ==
    ASSUME SysType, CallsOK, FoundOK, TimedOK, [SysNext]_sysVars
    PROVE  TimedOK'
<1>a. /\ Live \subseteq Threads /\ Len(calls) \in Nat /\ Len(calls') \in Nat
      /\ Len(calls) <= Len(calls') /\ at \in [Threads -> Places]
      /\ cur \in [Threads -> Nat]
  BY SysFacts, KernelStep, SysTypeStep DEF SysType
<1>b. \A t \in Threads : cur[t] # 0 => cur[t] \in 1 .. Len(calls) /\ calls[cur[t]].tid = t
  BY DEF CallsOK
\* What a step does to the threads that are in a counted call.
<1>1. ASSUME NEW c \in 1 .. Len(calls), \A u \in Threads : cur[u] = c => at[u] \in {"count", "user"},
             NEW u \in Threads, cur'[u] = c
      PROVE  at'[u] \in {"count", "user"}
  <2>1. CASE at' = at /\ cur' = cur
    BY <1>1, <2>1
  <2>2. ASSUME NEW t \in Live, t # u,
               \/ Exit(t) \/ Lookup(t) \/ Insert(t) \/ AddTime(t) \/ AddCount(t)
               \/ \E op \in OpNames : \E file \in Found(op) : Enter(t, op, file)
        PROVE  at'[u] \in {"count", "user"}
    BY <1>1, <2>2, OtherThreads
  <2>3. ASSUME u \in Live, Exit(u) \/ Lookup(u) \/ Insert(u) \/ AddTime(u) \/ AddCount(u)
        PROVE  at'[u] \in {"count", "user"}
    <3>1. cur' = cur /\ at[u] # "user"
      BY <2>3 DEF Exit, Lookup, Insert, AddTime, AddCount, kernelVars
    <3>2. at[u] = "count"
      BY <1>1, <3>1
    <3> QED  BY <1>a, <2>3, <3>2 DEF Exit, Lookup, Insert, AddTime, AddCount
  <2>4. ASSUME u \in Live, NEW op \in OpNames, NEW file \in Found(op), Enter(u, op, file)
        PROVE  FALSE
    <3>1. cur'[u] = Len(calls') /\ Len(calls') = Len(calls) + 1
      BY <1>a, <2>4, CallAppended DEF Enter
    <3> QED  BY <1>1, <1>a, <3>1
  <2> QED  BY <2>1, <2>2, <2>3, <2>4, NoThreadMoves
<1>2. ASSUME NEW x \in DOMAIN counters', x \in DOMAIN counters, counters'[x].time = counters[x].time
      PROVE  /\ IsFiniteSet(counters'[x].time)
             /\ \A i \in counters'[x].time :
                  /\ i[2] \in 1 .. Len(calls')
                  /\ \A u \in Threads : cur'[u] = i[2] => at'[u] \in {"count", "user"}
  <2>1. ASSUME NEW i \in counters[x].time
        PROVE  i[2] \in 1 .. Len(calls) /\ \A u \in Threads : cur[u] = i[2] => at[u] \in {"count", "user"}
    BY <1>2, <2>1 DEF TimedOK
  <2>2. \A n \in 1 .. Len(calls) : n \in 1 .. Len(calls')
    BY <1>a
  <2> QED  BY <1>1, <1>2, <2>1, <2>2 DEF TimedOK
\* The interval that a program adds.
<1>3. ASSUME NEW t \in Live, Insert(t) \/ AddTime(t)
      PROVE  /\ Delta(t)[2] \in 1 .. Len(calls')
             /\ \A u \in Threads : cur'[u] = Delta(t)[2] => at'[u] \in {"count", "user"}
  <2>1. cur' = cur /\ calls' = calls /\ at'[t] \in {"count", "user"} /\ at[t] # "user"
    BY <1>3, <1>a DEF Insert, AddTime, kernelVars
  <2>2. Delta(t)[2] = cur[t] /\ cur[t] # 0 /\ t \in Threads
    BY <1>a, <2>1 DEF Delta, CallsOK
  <2>3. \A u \in Threads : cur[u] = cur[t] => u = t
    BY <1>b, <2>2
  <2> QED  BY <1>b, <2>1, <2>2, <2>3
<1>4. CASE counters' = counters
  BY <1>2, <1>4 DEF TimedOK
<1>5. ASSUME NEW t \in Live, AddCount(t), KeyOf(t) \in DOMAIN counters,
             DOMAIN counters' = DOMAIN counters,
             \A x \in DOMAIN counters : x # KeyOf(t) => counters'[x] = counters[x],
             counters'[KeyOf(t)].time = counters[KeyOf(t)].time
      PROVE  TimedOK'
  <2>1. \A x \in DOMAIN counters' : x \in DOMAIN counters /\ counters'[x].time = counters[x].time
    BY <1>5
  <2> QED  BY <1>2, <2>1 DEF TimedOK
<1>6. ASSUME NEW t \in Live, AddTime(t), KeyOf(t) \in DOMAIN counters,
             DOMAIN counters' = DOMAIN counters,
             \A x \in DOMAIN counters : x # KeyOf(t) => counters'[x] = counters[x],
             counters'[KeyOf(t)].time = counters[KeyOf(t)].time \cup {Delta(t)}
      PROVE  TimedOK'
  <2>x. PICK x : x = KeyOf(t)
    OBVIOUS
  <2>1. IsFiniteSet(counters'[x].time)
    <3>1. PICK T, d : T = counters[x].time /\ d = Delta(t)
      OBVIOUS
    <3>2. IsFiniteSet(T) /\ counters'[x].time = T \cup {d}
      BY <1>6, <2>x, <3>1 DEF TimedOK
    <3> QED  BY <3>2, FS_AddElement
  <2>2. \A i \in counters'[x].time : i \in counters[x].time \/ i = Delta(t)
    BY <1>6, <2>x
  <2>3. ASSUME NEW i \in counters[x].time
        PROVE  i[2] \in 1 .. Len(calls') /\ \A u \in Threads : cur'[u] = i[2] => at'[u] \in {"count", "user"}
    <3>1. i[2] \in 1 .. Len(calls) /\ \A u \in Threads : cur[u] = i[2] => at[u] \in {"count", "user"}
      BY <1>6, <2>x, <2>3 DEF TimedOK
    <3>2. i[2] \in 1 .. Len(calls')
      BY <1>a, <3>1
    <3> QED  BY <1>1, <3>1, <3>2
  <2>4. \A y \in DOMAIN counters' : y # x => y \in DOMAIN counters /\ counters'[y].time = counters[y].time
    BY <1>6, <2>x
  <2> QED  BY <1>2, <1>3, <1>6, <2>1, <2>2, <2>3, <2>4 DEF TimedOK
<1>7. ASSUME NEW t \in Live, Insert(t), KeyOf(t) \notin DOMAIN counters,
             DOMAIN counters' = DOMAIN counters \cup {KeyOf(t)},
             \A x \in DOMAIN counters : counters'[x] = counters[x],
             counters'[KeyOf(t)].time = {Delta(t)}
      PROVE  TimedOK'
  <2>x. PICK x : x = KeyOf(t)
    OBVIOUS
  <2>1. IsFiniteSet(counters'[x].time)
    BY <1>7, <2>x, FS_Singleton
  <2>2. \A i \in counters'[x].time : i = Delta(t)
    BY <1>7, <2>x
  <2>3. \A y \in DOMAIN counters' : y # x => y \in DOMAIN counters /\ counters'[y].time = counters[y].time
    BY <1>7, <2>x
  <2> QED  BY <1>2, <1>3, <1>7, <2>1, <2>2, <2>3 DEF TimedOK
<1> QED  BY <1>4, <1>5, <1>6, <1>7, CounterMoves

LEMMA CallStays ==
    ASSUME SysType, CallsOK, [SysNext]_sysVars, NEW u \in Threads, at[u] # "user"
    PROVE  cur'[u] = cur[u] /\ KeyOf(u)' = KeyOf(u)
<1>1. cur'[u] = cur[u]
  <2>1. ASSUME NEW t \in Live, t # u,
               \/ Exit(t) \/ Lookup(t) \/ Insert(t) \/ AddTime(t) \/ AddCount(t)
               \/ \E op \in OpNames : \E file \in Found(op) : Enter(t, op, file)
        PROVE  cur'[u] = cur[u]
    BY <2>1, OtherThreads
  <2>2. ASSUME u \in Live,
               \/ Exit(u) \/ Lookup(u) \/ Insert(u) \/ AddTime(u) \/ AddCount(u)
               \/ \E op \in OpNames : \E file \in Found(op) : Enter(u, op, file)
        PROVE  cur'[u] = cur[u]
    BY <2>2 DEF Exit, Lookup, Insert, AddTime, AddCount, Enter, kernelVars
  <2> QED  BY <2>1, <2>2, NoThreadMoves
<1> QED  BY <1>1, KeyStays DEF CallsOK

\* Which threads are between the two additions to a counter.
LEMMA BetweenStep ==
    ASSUME SysType, CallsOK, FoundOK, [SysNext]_sysVars, NEW x, NEW T,
           \A u \in Threads : at'[u] = "count" /\ KeyOf(u)' = x <=> u \in T, T \subseteq Live
    PROVE  Between(x)' = T
<1>1. Live \subseteq Live' /\ Live' \subseteq Threads /\ Live \subseteq Threads
  BY KernelStep, SysTypeStep DEF SysType, Live
<1>2. Between(x)' = {u \in Live' : at'[u] = "count" /\ KeyOf(u)' = x}
  BY DEF Between
<1> QED  BY <1>1, <1>2

LEMMA BetweenSame ==
    ASSUME SysType, CallsOK, FoundOK, [SysNext]_sysVars, NEW x,
           \A u \in Threads : KeyOf(u)' = x => (at'[u] = "count" <=> at[u] = "count")
    PROVE  Between(x)' = Between(x)
<1>1. ASSUME NEW u \in Threads
      PROVE  at'[u] = "count" /\ KeyOf(u)' = x <=> u \in Between(x)
  BY CallStays DEF Between, CallsOK
<1>2. Between(x) \subseteq Live
  BY DEF Between
<1> QED  BY <1>1, <1>2, BetweenStep

\* Steps that leave every thread between, or outside, its two additions.
LEMMA CountPlaces ==
    ASSUME SysType, CallsOK, [SysNext]_sysVars, NEW u \in Threads,
           ~(u \in Live /\ (AddTime(u) \/ AddCount(u)))
    PROVE  at'[u] = "count" <=> at[u] = "count"
<1>1. ASSUME NEW t \in Live, t # u,
             \/ Exit(t) \/ Lookup(t) \/ Insert(t) \/ AddTime(t) \/ AddCount(t)
             \/ \E op \in OpNames : \E file \in Found(op) : Enter(t, op, file)
      PROVE  at'[u] = at[u]
  BY <1>1, OtherThreads
<1>2. ASSUME u \in Live,
             \/ Exit(u) \/ Lookup(u) \/ Insert(u)
             \/ \E op \in OpNames : \E file \in Found(op) : Enter(u, op, file)
      PROVE  at'[u] # "count" /\ at[u] # "count"
  BY <1>2 DEF Exit, Lookup, Insert, Enter, SysType
<1> QED  BY <1>1, <1>2, NoThreadMoves

LEMMA CountsStep ==
    ASSUME SysType, CallsOK, FoundOK, TimedOK, CountsOK, [SysNext]_sysVars
    PROVE  CountsOK'
<1>a. /\ Live \subseteq Threads /\ at \in [Threads -> Places] /\ cur \in [Threads -> Nat]
      /\ \A x \in DOMAIN counters : counters[x].count \in Nat
  BY DEF SysType
<1>b. \A x : IsFiniteSet(Between(x)) /\ Cardinality(Between(x)) \in Nat
  <2>1. ASSUME NEW x PROVE IsFiniteSet(Between(x))
    <3>1. Between(x) \subseteq Live
      BY DEF Between
    <3> QED  BY <3>1, FS_Subset DEF SysType
  <2> QED  BY <2>1, FS_CardinalityType
<1>1. ASSUME NEW t \in Live, Insert(t), KeyOf(t) \notin DOMAIN counters,
             DOMAIN counters' = DOMAIN counters \cup {KeyOf(t)},
             \A x \in DOMAIN counters : counters'[x] = counters[x],
             counters'[KeyOf(t)].count = 1, counters'[KeyOf(t)].time = {Delta(t)}
      PROVE  CountsOK'
  <2>x. PICK x : x = KeyOf(t)
    OBVIOUS
  <2>1. \A u \in Threads : at'[u] = "count" <=> at[u] = "count"
    <3>1. ASSUME NEW u \in Threads, u \in Live, AddTime(u) \/ AddCount(u) PROVE FALSE
      <4>1. at[t] = "insert" /\ at'[t] = "user" /\ at[u] # "insert"
        BY <1>1, <1>a, <3>1 DEF Insert, AddTime, AddCount
      <4>2. at'[t] = at[t]
        BY <1>a, <3>1, <4>1, OtherThreads
      <4> QED  BY <4>1, <4>2
    <3> QED  BY <3>1, CountPlaces
  <2>2. \A y : Between(y)' = Between(y)
    BY <2>1, BetweenSame
  <2>3. Between(x) = {}
    BY <1>1, <1>a, <2>x DEF Between, FoundOK
  <2>4. Cardinality(counters'[x].time) = 1 /\ Cardinality(Between(x)) = 0
    BY <1>1, <2>x, <2>3, FS_Singleton, FS_EmptySet
  <2>5. Cardinality(counters'[x].time) = counters'[x].count + Cardinality(Between(x)')
    BY <1>1, <2>x, <2>2, <2>4
  <2>6. ASSUME NEW y \in DOMAIN counters', y # x
        PROVE  Cardinality(counters'[y].time) = counters'[y].count + Cardinality(Between(y)')
    BY <1>1, <2>x, <2>2, <2>6 DEF CountsOK
  <2> QED  BY <2>5, <2>6 DEF CountsOK
<1>2. ASSUME NEW t \in Live, AddTime(t), KeyOf(t) \in DOMAIN counters,
             DOMAIN counters' = DOMAIN counters,
             \A x \in DOMAIN counters : x # KeyOf(t) => counters'[x] = counters[x],
             counters'[KeyOf(t)].count = counters[KeyOf(t)].count,
             counters'[KeyOf(t)].time = counters[KeyOf(t)].time \cup {Delta(t)}
      PROVE  CountsOK'
  <2>x. PICK x, d : x = KeyOf(t) /\ d = Delta(t)
    OBVIOUS
  <2>0. t \in Threads /\ at[t] = "time" /\ at'[t] = "count"
    BY <1>2, <1>a DEF AddTime
  <2>1. KeyOf(t)' = x
    BY <2>x, <2>0, CallStays
  <2>2. ASSUME NEW u \in Threads, u # t PROVE at'[u] = at[u]
    BY <1>2, <2>2, OtherThreads
  <2>3. ASSUME NEW y, y # x PROVE Between(y)' = Between(y)
    BY <2>1, <2>2, <2>3, BetweenSame
  <2>4. Between(x)' = Between(x) \cup {t}
    <3>1. ASSUME NEW u \in Threads
          PROVE  at'[u] = "count" /\ KeyOf(u)' = x <=> u \in Between(x) \cup {t}
      BY <2>0, <2>1, <2>2, CallStays DEF Between, CallsOK
    <3>2. Between(x) \cup {t} \subseteq Live
      BY DEF Between
    <3> QED  BY <3>1, <3>2, BetweenStep
  <2>5. t \notin Between(x)
    BY <2>0 DEF Between
  <2>6. d \notin counters[x].time
    <3>1. d[2] = cur[t]
      BY <2>x DEF Delta
    <3> QED  BY <1>2, <2>x, <2>0, <3>1 DEF TimedOK
  <2>7. Cardinality(Between(x)') = Cardinality(Between(x)) + 1
    BY <1>b, <2>4, <2>5, FS_AddElement
  <2>8. Cardinality(counters'[x].time) = Cardinality(counters[x].time) + 1
    <3>1. PICK T : T = counters[x].time
      OBVIOUS
    <3>2. IsFiniteSet(T) /\ counters'[x].time = T \cup {d} /\ d \notin T
      BY <1>2, <2>x, <2>6, <3>1 DEF TimedOK
    <3> QED  BY <3>1, <3>2, FS_AddElement
  <2>9. Cardinality(counters'[x].time) = counters'[x].count + Cardinality(Between(x)')
    <3>1. Cardinality(counters[x].time) = counters[x].count + Cardinality(Between(x))
      BY <1>2, <2>x DEF CountsOK
    <3>2. counters'[x].count = counters[x].count /\ counters[x].count \in Nat
      BY <1>2, <1>a, <2>x
    <3> QED  BY <1>b, <2>7, <2>8, <3>1, <3>2
  <2>10. ASSUME NEW y \in DOMAIN counters', y # x
         PROVE  Cardinality(counters'[y].time) = counters'[y].count + Cardinality(Between(y)')
    BY <1>2, <2>x, <2>3, <2>10 DEF CountsOK
  <2> QED  BY <2>9, <2>10 DEF CountsOK
<1>3. ASSUME NEW t \in Live, AddCount(t), KeyOf(t) \in DOMAIN counters,
             DOMAIN counters' = DOMAIN counters,
             \A x \in DOMAIN counters : x # KeyOf(t) => counters'[x] = counters[x],
             counters'[KeyOf(t)].count = counters[KeyOf(t)].count + 1,
             counters'[KeyOf(t)].time = counters[KeyOf(t)].time
      PROVE  CountsOK'
  <2>x. PICK x : x = KeyOf(t)
    OBVIOUS
  <2>0. t \in Threads /\ at[t] = "count" /\ at'[t] = "user"
    BY <1>3, <1>a DEF AddCount
  <2>1. KeyOf(t)' = x
    BY <2>x, <2>0, CallStays
  <2>2. ASSUME NEW u \in Threads, u # t PROVE at'[u] = at[u]
    BY <1>3, <2>2, OtherThreads
  <2>3. ASSUME NEW y, y # x PROVE Between(y)' = Between(y)
    BY <2>1, <2>2, <2>3, BetweenSame
  <2>4. Between(x)' = Between(x) \ {t}
    <3>1. ASSUME NEW u \in Threads
          PROVE  at'[u] = "count" /\ KeyOf(u)' = x <=> u \in Between(x) \ {t}
      BY <2>0, <2>1, <2>2, CallStays DEF Between, CallsOK
    <3>2. Between(x) \ {t} \subseteq Live
      BY DEF Between
    <3> QED  BY <3>1, <3>2, BetweenStep
  <2>5. t \in Between(x)
    BY <2>0, <2>x DEF Between
  <2>7. Cardinality(Between(x)') = Cardinality(Between(x)) - 1
    BY <1>b, <2>4, <2>5, FS_RemoveElement
  <2>9. Cardinality(counters'[x].time) = counters'[x].count + Cardinality(Between(x)')
    <3>1. Cardinality(counters[x].time) = counters[x].count + Cardinality(Between(x))
      BY <1>3, <2>x DEF CountsOK
    <3>2. counters'[x].count = counters[x].count + 1 /\ counters[x].count \in Nat
          /\ counters'[x].time = counters[x].time
      BY <1>3, <1>a, <2>x
    <3> QED  BY <1>b, <2>7, <3>1, <3>2
  <2>10. ASSUME NEW y \in DOMAIN counters', y # x
         PROVE  Cardinality(counters'[y].time) = counters'[y].count + Cardinality(Between(y)')
    BY <1>3, <2>x, <2>3, <2>10 DEF CountsOK
  <2> QED  BY <2>9, <2>10 DEF CountsOK
<1>4. CASE counters' = counters /\ \A u \in Live : ~AddTime(u) /\ ~AddCount(u)
  <2>1. \A u \in Threads : at'[u] = "count" <=> at[u] = "count"
    BY <1>4, CountPlaces
  <2>2. \A y : Between(y)' = Between(y)
    BY <2>1, BetweenSame
  <2> QED  BY <1>4, <2>2 DEF CountsOK
<1> QED  BY <1>1, <1>2, <1>3, <1>4, CounterMoves

LEMMA CounterGrows ==
    ASSUME SysType, FoundOK, [SysNext]_sysVars, NEW x \in DOMAIN counters
    PROVE  /\ x \in DOMAIN counters' /\ counters[x].count <= counters'[x].count
           /\ counters[x].time \subseteq counters'[x].time
<1>1. counters[x].count \in Nat
  BY DEF SysType
<1>2. CASE counters' = counters
  BY <1>1, <1>2
<1>3. ASSUME NEW t \in Live, x = KeyOf(t) \/ counters'[x] = counters[x],
             DOMAIN counters \subseteq DOMAIN counters',
             \/ counters'[x] = counters[x]
             \/ counters'[x].count = counters[x].count
                /\ counters[x].time \subseteq counters'[x].time
             \/ counters'[x].count = counters[x].count + 1
                /\ counters'[x].time = counters[x].time
      PROVE  /\ x \in DOMAIN counters' /\ counters[x].count <= counters'[x].count
             /\ counters[x].time \subseteq counters'[x].time
  BY <1>1, <1>3
<1> QED  BY <1>2, <1>3, CounterMoves

\* At most one program per CPU is between its two additions.
LEMMA CountWithinTimes ==
    ASSUME SysType, CPUsOK, TimedOK, CountsOK, NEW x \in DOMAIN counters
    PROVE  /\ IsFiniteSet(counters[x].time) /\ Cardinality(counters[x].time) \in Nat
           /\ counters[x].count <= Cardinality(counters[x].time)
           /\ Cardinality(counters[x].time) <= counters[x].count + cpus
<1>1. Between(x) \subseteq InProgram /\ InProgram \subseteq Live
  BY DEF Between, InProgram
<1>2. /\ IsFiniteSet(InProgram) /\ Cardinality(InProgram) \in Nat
      /\ Cardinality(Between(x)) \in Nat
      /\ Cardinality(Between(x)) <= Cardinality(InProgram)
  BY <1>1, FS_Subset, FS_CardinalityType DEF SysType
<1>3. counters[x].count \in Nat /\ cpus \in Nat
  BY SysFacts DEF SysType
<1> QED  BY <1>2, <1>3, FS_CardinalityType DEF CPUsOK, TimedOK, CountsOK

\* The steps that leave the rows alone.
LEMMA RowsAlone ==
    ASSUME [SysNext]_sysVars
    PROVE  \/ UNCHANGED <<report, copying>>
           \/ CopyRest \/ \E x \in DOMAIN counters : ReadKey(x)
<1>1. ASSUME NEW t \in Live,
             \/ Exit(t) \/ Lookup(t) \/ Insert(t) \/ AddTime(t) \/ AddCount(t)
             \/ \E op \in OpNames : \E file \in Found(op) : Enter(t, op, file)
             \/ \E c \in Threads, process \in BOOLEAN : Clone(t, c, process)
      PROVE  UNCHANGED <<report, copying>>
  BY <1>1 DEF Exit, Lookup, Insert, AddTime, AddCount, Enter, Clone, mainVars
<1>2. CASE Attach \/ Interrupt \/ ReadEnd \/ UNCHANGED sysVars
  BY <1>2 DEF Attach, Interrupt, ReadEnd, sysVars, mainVars
<1> QED  BY <1>1, <1>2 DEF SysNext

\* What the second half of a copy does to its row.
LEMMA RestCopied ==
    ASSUME SysType, RowsKept, CopyRest
    PROVE  \E r \in Row :
               /\ LET n == Len(report)
                      x == report[n].key
                  IN /\ n \in 1 .. Len(report) /\ report[n] \in Row /\ x \in DOMAIN counters
                     /\ report' = [report EXCEPT ![n] = r] /\ r.key = x
                     /\ \/ /\ r.last = "count" /\ r.count = counters[x].count
                           /\ r.time = report[n].time
                        \/ /\ r.last = "time" /\ r.time = counters[x].time
                           /\ r.count = report[n].count
               /\ copying' = "none" /\ counters' = counters /\ report' \in Seq(Row)
               /\ Len(report') = Len(report)
<1>1. PICK n, row : n = Len(report) /\ row = report[n]
  OBVIOUS
<1>2. n \in 1 .. Len(report) /\ row \in Row /\ row.key \in DOMAIN counters /\ n \in Nat
  BY <1>1 DEF CopyRest, RowsKept
<1>3. PICK r : r = IF copying = "count"
                   THEN [row EXCEPT !.count = counters[row.key].count, !.last = "count"]
                   ELSE [row EXCEPT !.time = counters[row.key].time, !.last = "time"]
  OBVIOUS
<1>4. report' = [report EXCEPT ![n] = r] /\ copying' = "none" /\ counters' = counters
  BY <1>1, <1>3 DEF CopyRest, mapVars
<1>5. counters[row.key].count \in Nat /\ counters[row.key].time \in Times
  BY <1>2 DEF SysType
<1>6. /\ r \in Row /\ r.key = row.key
      /\ \/ r.last = "count" /\ r.count = counters[row.key].count /\ r.time = row.time
         \/ r.last = "time" /\ r.time = counters[row.key].time /\ r.count = row.count
  <2>1. row \in [key : Keys, count : Nat, time : Times, last : {"none", "count", "time"}]
    BY <1>2 DEF Row
  <2> QED  BY <1>3, <1>5, <2>1 DEF Row
<1>7. report' \in Seq(Row) /\ Len(report') = Len(report)
  BY <1>1, <1>2, <1>4, <1>6 DEF RowsKept
<1> QED  BY <1>1, <1>2, <1>4, <1>6, <1>7

\* What a look-up adds to the rows.
LEMMA RowRead ==
    ASSUME SysType, RowsKept, NEW x \in DOMAIN counters, ReadKey(x)
    PROVE  \E r \in Row :
               /\ r.key = x /\ r.count = counters[x].count /\ r.time = counters[x].time
               /\ r.last = "none" /\ counters' = counters
               /\ report' \in Seq(Row) /\ Len(report') = Len(report) + 1 /\ Len(report) \in Nat
               /\ \A i \in 1 .. Len(report) : report'[i] = report[i]
               /\ report'[Len(report) + 1] = r
               /\ \A i \in 1 .. Len(report') : i \in 1 .. Len(report) \/ i = Len(report) + 1
<1>1. PICK r : r = [key |-> x, count |-> counters[x].count, time |-> counters[x].time,
                    last |-> "none"]
  OBVIOUS
<1>2. report' = Append(report, r) /\ r \in Row /\ report \in Seq(Row) /\ counters' = counters
  BY <1>1 DEF ReadKey, SysType, Row, RowsKept, mapVars
<1>3. /\ report' \in Seq(Row) /\ Len(report') = Len(report) + 1 /\ Len(report) \in Nat
      /\ \A i \in 1 .. Len(report) : report'[i] = report[i]
      /\ report'[Len(report) + 1] = r
  BY <1>2, AppendProperties
<1> QED  BY <1>1, <1>2, <1>3

LEMMA RowsKeptStep ==
    ASSUME SysType, SysType', FoundOK, RowsKept, [SysNext]_sysVars
    PROVE  RowsKept'
<1>a. /\ \A i \in 1 .. Len(report) : report[i] \in Row /\ report[i].count \in Nat
      /\ \A x \in DOMAIN counters : counters[x].count \in Nat
      /\ Len(report) \in Nat
  <2>1. Len(report) \in Nat /\ \A i \in 1 .. Len(report) : report[i] \in Row
    BY DEF RowsKept
  <2>2. \A i \in 1 .. Len(report) : report[i].count \in Nat
    BY <2>1 DEF Row
  <2> QED  BY <2>1, <2>2 DEF SysType
<1>1. ASSUME NEW x \in DOMAIN counters, ReadKey(x) PROVE RowsKept'
  <2>1. PICK r \in Row :
            /\ r.key = x /\ r.count = counters[x].count /\ r.time = counters[x].time
            /\ r.last = "none" /\ counters' = counters
            /\ report' \in Seq(Row) /\ Len(report') = Len(report) + 1 /\ Len(report) \in Nat
            /\ \A i \in 1 .. Len(report) : report'[i] = report[i]
            /\ report'[Len(report) + 1] = r
            /\ \A i \in 1 .. Len(report') : i \in 1 .. Len(report) \/ i = Len(report) + 1
    BY <1>1, RowRead
  <2>2. copying' \in {"none", "count", "time"}
    BY <1>1 DEF ReadKey
  <2> QED  BY <1>a, <2>1, <2>2 DEF RowsKept
<1>2. CASE UNCHANGED <<report, copying>>
  <2>1. ASSUME NEW i \in 1 .. Len(report)
        PROVE  /\ report[i].key \in DOMAIN counters'
               /\ report[i].count <= counters'[report[i].key].count
               /\ report[i].time \subseteq counters'[report[i].key].time
    <3>1. PICK x \in DOMAIN counters : x = report[i].key
      BY DEF RowsKept
    <3>2. counters'[x].count \in Nat
      BY <3>1, CounterGrows DEF SysType
    <3> QED  BY <1>a, <3>1, <3>2, CounterGrows DEF RowsKept
  <2> QED  BY <1>2, <2>1 DEF RowsKept
<1>3. CASE CopyRest
  <2>n. PICK n, x : n = Len(report) /\ x = report[n].key
    OBVIOUS
  <2>1. PICK r \in Row :
            /\ n \in 1 .. Len(report) /\ report[n] \in Row /\ x \in DOMAIN counters
            /\ report' = [report EXCEPT ![n] = r] /\ r.key = x
            /\ \/ r.last = "count" /\ r.count = counters[x].count /\ r.time = report[n].time
               \/ r.last = "time" /\ r.time = counters[x].time /\ r.count = report[n].count
            /\ copying' = "none" /\ counters' = counters /\ report' \in Seq(Row)
            /\ Len(report') = Len(report)
    BY <1>3, <2>n, RestCopied
  <2>2. ASSUME NEW i \in 1 .. Len(report)
        PROVE  /\ report'[i].key \in DOMAIN counters
               /\ report'[i].count <= counters[report'[i].key].count
               /\ report'[i].time \subseteq counters[report'[i].key].time
    <3>1. CASE i = n
      BY <1>a, <2>n, <2>1, <3>1 DEF RowsKept
    <3>2. CASE i # n
      BY <2>1, <3>2 DEF RowsKept
    <3> QED  BY <3>1, <3>2
  <2> QED  BY <2>1, <2>2 DEF RowsKept
<1> QED  BY <1>1, <1>2, <1>3, RowsAlone

\* A row has both fields of one moment, or one of them of a later one.
LEMMA RowsStep ==
    ASSUME SysType, CPUsOK, FoundOK, TimedOK, CountsOK, RowsKept, RowsConsistent, [SysNext]_sysVars
    PROVE  RowsConsistent'
<1>c. cpus' = cpus /\ cpus \in Nat
  BY KernelStep, SysFacts
<1>1. ASSUME NEW x \in DOMAIN counters, ReadKey(x) PROVE RowsConsistent'
  <2>1. PICK r \in Row :
            /\ r.key = x /\ r.count = counters[x].count /\ r.time = counters[x].time
            /\ r.last = "none" /\ counters' = counters
            /\ report' \in Seq(Row) /\ Len(report') = Len(report) + 1 /\ Len(report) \in Nat
            /\ \A i \in 1 .. Len(report) : report'[i] = report[i]
            /\ report'[Len(report) + 1] = r
            /\ \A i \in 1 .. Len(report') : i \in 1 .. Len(report) \/ i = Len(report) + 1
    BY <1>1, RowRead
  <2>2. r.count <= Cardinality(r.time) /\ Cardinality(r.time) <= r.count + cpus
    BY <2>1, CountWithinTimes
  <2> QED  BY <1>c, <2>1, <2>2 DEF RowsConsistent
<1>2. CASE UNCHANGED <<report, copying>>
  BY <1>2, <1>c DEF RowsConsistent
<1>3. CASE CopyRest
  <2>n. PICK n, x : n = Len(report) /\ x = report[n].key
    OBVIOUS
  <2>1. PICK r \in Row :
            /\ n \in 1 .. Len(report) /\ report[n] \in Row /\ x \in DOMAIN counters
            /\ report' = [report EXCEPT ![n] = r] /\ r.key = x
            /\ \/ r.last = "count" /\ r.count = counters[x].count /\ r.time = report[n].time
               \/ r.last = "time" /\ r.time = counters[x].time /\ r.count = report[n].count
            /\ copying' = "none" /\ counters' = counters /\ report' \in Seq(Row)
            /\ Len(report') = Len(report)
    BY <1>3, <2>n, RestCopied
  <2>2. report[n].last = "none"
    BY <1>3, <2>n DEF CopyRest, RowsKept
  <2>3. /\ report[n].count <= Cardinality(report[n].time)
        /\ Cardinality(report[n].time) <= report[n].count + cpus
    BY <2>1, <2>2 DEF RowsConsistent
  <2>4. /\ report[n].count \in Nat /\ report[n].count <= counters[x].count
        /\ report[n].time \subseteq counters[x].time /\ counters[x].count \in Nat
    BY <2>n, <2>1 DEF RowsKept, Row, SysType
  <2>5. /\ Cardinality(report[n].time) \in Nat /\ Cardinality(counters[x].time) \in Nat
        /\ Cardinality(report[n].time) <= Cardinality(counters[x].time)
    <3>1. PICK A, B : A = report[n].time /\ B = counters[x].time
      OBVIOUS
    <3>2. IsFiniteSet(B) /\ A \subseteq B
      BY <2>1, <2>4, <3>1, CountWithinTimes
    <3> QED  BY <3>1, <3>2, FS_Subset, FS_CardinalityType
  <2>6. /\ r.last # "count" => r.count <= Cardinality(r.time)
        /\ r.last # "time" => Cardinality(r.time) <= r.count + cpus
    BY <1>c, <2>1, <2>3, <2>4, <2>5
  <2>7. ASSUME NEW i \in 1 .. Len(report)
        PROVE  /\ report'[i].last # "count" => report'[i].count <= Cardinality(report'[i].time)
               /\ report'[i].last # "time" => Cardinality(report'[i].time) <= report'[i].count + cpus
    <3>1. CASE i = n
      BY <2>1, <2>6, <3>1
    <3>2. CASE i # n
      BY <2>1, <3>2 DEF RowsConsistent
    <3> QED  BY <3>1, <3>2
  <2> QED  BY <1>c, <2>1, <2>7 DEF RowsConsistent
<1> QED  BY <1>1, <1>2, <1>3, RowsAlone

LEMMA SysInitOK ==
    SysInit => /\ SysType /\ CallsOK /\ CPUsOK /\ FoundOK /\ InProgram = {} /\ Live = {Root, Worker}
               /\ counters = <<>> /\ DOMAIN counters = {} /\ calls = <<>> /\ Len(calls) = 0
               /\ \A t \in Threads : at[t] = "user" /\ cur[t] = 0
<1> SUFFICES ASSUME SysInit
             PROVE  /\ SysType /\ CallsOK /\ CPUsOK /\ FoundOK /\ InProgram = {}
                    /\ Live = {Root, Worker} /\ counters = <<>> /\ DOMAIN counters = {}
                    /\ calls = <<>> /\ Len(calls) = 0
                    /\ \A t \in Threads : at[t] = "user" /\ cur[t] = 0
  OBVIOUS
<1>1. /\ Live = {Root, Worker} /\ Root \in Threads /\ Worker \in Threads
      /\ tgid \in [Live -> Threads]
  BY SysAssumption DEF SysInit, Live
<1>2. IsFiniteSet(Live)
  <2>1. {Root, Worker} = {Root} \cup {Worker} /\ IsFiniteSet({Root})
    BY FS_Singleton
  <2> QED  BY <1>1, <2>1, FS_AddElement
<1>3. DOMAIN counters = {} /\ DOMAIN enter_timestamps = {} /\ calls = <<>> /\ Len(calls) = 0
      /\ counters = <<>>
  BY DEF SysInit
<1>4. /\ counters \in [DOMAIN counters -> [count : Nat, time : Times]]
      /\ enter_timestamps \in [DOMAIN enter_timestamps -> Nat] /\ calls \in Seq(Call)
  BY DEF SysInit
<1>5. attached \in Nat
  <2>1. Len(Ops) \in Nat
    BY SysAssumption
  <2> QED  BY <2>1 DEF SysInit, Programs
<1>6. /\ at \in [Threads -> Places] /\ cur \in [Threads -> Nat] /\ elem \in [Threads -> Nat]
      /\ \A t \in Threads : at[t] = "user" /\ cur[t] = 0
  BY DEF SysInit, Places
<1>7. SysType
  BY <1>1, <1>2, <1>3, <1>4, <1>5, <1>6 DEF SysInit, SysType
<1>8. InProgram = {}
  BY <1>1, <1>6 DEF InProgram
<1>9. CPUsOK
  BY <1>7, <1>8, FS_EmptySet, SysFacts DEF CPUsOK
<1> QED  BY <1>1, <1>3, <1>6, <1>7, <1>8, <1>9 DEF CallsOK, FoundOK

LEMMA RowsInit == SysInit => RowsInv
<1> SUFFICES ASSUME SysInit PROVE RowsInv
  OBVIOUS
<1>1. report = <<>> /\ Len(report) = 0 /\ report \in Seq(Row) /\ copying = "none"
  BY DEF SysInit
<1> QED  BY <1>1, SysInitOK DEF RowsInv, RowsKept, TimedOK, CountsOK, RowsConsistent

LEMMA RowsInvStep == RowsInv /\ [SysNext]_sysVars => RowsInv'
BY SysTypeStep, CallsStep, CPUsStep, FoundStep, TimedStep, CountsStep, RowsKeptStep, RowsStep
DEF RowsInv

\* What a reader sees of a counter while the programs run: the time is added first,
\* so a row whose count was not copied after its time gives no average that is too
\* low, and one whose time was not copied last lacks the count of at most one call per
\* CPU.  One call adds its interval once, however many threads share a counter.
THEOREM RowsAreConsistent == SysSpec => []RowsConsistent
<1>1. RowsInv => RowsConsistent
  BY DEF RowsInv
<1> QED  BY RowsInit, RowsInvStep, <1>1, PTL DEF SysSpec

-----------------------------------------------------------------------------
(* Calls that the filters keep *)

\* After the attach every program sees its syscall.
LEMMA AllAttached ==
    ASSUME SysType, attached = Programs, NEW op \in OpNames
    PROVE  EnterOn(op) /\ ExitOn(op)
<1>1. PICK i \in 1 .. Len(Ops) : Ops[i] = op
  BY DEF OpNames
<1>2. Len(Ops) \in Nat
  BY SysFacts
<1>3. attached >= 2 * i /\ attached >= 2 * i - 1
  BY <1>2 DEF Programs
<1> QED  BY <1>1, <1>3 DEF EnterOn, ExitOn

LEMMA WantedStays ==
    ASSUME SysType, [SysNext]_sysVars, NEW c \in 1 .. Len(calls)
    PROVE  Wanted(c)' <=> Wanted(c)
BY KernelStep DEF Wanted

LEMMA AttachedStep ==
    ASSUME attached = Programs, phase # "attach", [SysNext]_sysVars
    PROVE  attached' = attached /\ phase' # "attach"
<1>1. ASSUME NEW t \in Live,
             \/ Exit(t) \/ Lookup(t) \/ Insert(t) \/ AddTime(t) \/ AddCount(t)
             \/ \E op \in OpNames : \E file \in Found(op) : Enter(t, op, file)
             \/ \E c \in Threads, process \in BOOLEAN : Clone(t, c, process)
      PROVE  attached' = attached /\ phase' = phase
  BY <1>1 DEF Exit, Lookup, Insert, AddTime, AddCount, Enter, Clone, mainVars
<1>2. CASE \/ Attach \/ Interrupt \/ CopyRest \/ ReadEnd \/ (\E x \in DOMAIN counters : ReadKey(x))
           \/ UNCHANGED sysVars
  BY <1>2 DEF Attach, Interrupt, CopyRest, ReadEnd, ReadKey, sysVars, mainVars
<1> QED  BY <1>1, <1>2 DEF SysNext

LEMMA StampsStep ==
    ASSUME SysType, CallsOK, StampsOK, attached = Programs, [SysNext]_sysVars
    PROVE  StampsOK'
<1>a. /\ Live \subseteq Threads /\ DOMAIN enter_timestamps \subseteq Live
      /\ at \in [Threads -> Places] /\ cur \in [Threads -> Nat] /\ Len(calls) \in Nat
      /\ \A t \in Live : tgid'[t] = tgid[t]
      /\ pids_to_consider \subseteq pids_to_consider'
      /\ \A c \in 1 .. Len(calls) : calls'[c] = calls[c]
  BY SysFacts, KernelStep DEF SysType
\* A stamp whose thread does not move.
<1>1. ASSUME NEW u \in DOMAIN enter_timestamps, at'[u] = at[u], cur'[u] = cur[u],
             enter_timestamps'[u] = enter_timestamps[u]
      PROVE  /\ at'[u] = "kernel" /\ enter_timestamps'[u] = cur'[u]
             /\ tgid'[u] \in pids_to_consider'
             /\ calls'[cur'[u]].file = "regular" \/ calls'[cur'[u]].op \notin FiltersAtEnter
  <2>1. cur[u] \in 1 .. Len(calls)
    BY <1>a DEF StampsOK, CallsOK
  <2>2. calls'[cur'[u]] = calls[cur[u]]
    BY <1>1, <1>a, <2>1
  <2> QED  BY <1>1, <1>a, <2>2 DEF StampsOK
<1>2. CASE at' = at /\ cur' = cur /\ enter_timestamps' = enter_timestamps
  BY <1>1, <1>2 DEF StampsOK
<1>3. ASSUME NEW t \in Live, Lookup(t) \/ Insert(t) \/ AddTime(t) \/ AddCount(t)
      PROVE  StampsOK'
  <2>1. enter_timestamps' = enter_timestamps /\ at[t] # "kernel"
    BY <1>3 DEF Lookup, Insert, AddTime, AddCount, mapVars
  <2>2. \A u \in DOMAIN enter_timestamps : u # t /\ at'[u] = at[u] /\ cur'[u] = cur[u]
    BY <1>3, <1>a, <2>1, OtherThreads DEF StampsOK
  <2> QED  BY <1>1, <2>1, <2>2 DEF StampsOK
<1>4. ASSUME NEW t \in Live, Exit(t) PROVE StampsOK'
  <2>1. at[t] = "kernel" /\ calls[cur[t]].op \in OpNames
    <3>1. at[t] = "kernel" /\ t \in Threads
      BY <1>4, <1>a DEF Exit
    <3> QED  BY <3>1, SysFacts DEF CallsOK, Call
  <2>2. ExitOn(calls[cur[t]].op)
    BY <2>1, AllAttached
  <2>3. \/ t \notin DOMAIN enter_timestamps /\ enter_timestamps' = enter_timestamps
        \/ enter_timestamps' = Without(enter_timestamps, t)
    BY <1>4, <2>2 DEF Exit, Ignore, StampsOK, to_discard
  <2>4. \A u \in DOMAIN enter_timestamps' :
           u # t /\ u \in DOMAIN enter_timestamps /\ enter_timestamps'[u] = enter_timestamps[u]
    BY <2>3 DEF Without, Restrict
  <2>5. \A u \in DOMAIN enter_timestamps' : at'[u] = at[u] /\ cur'[u] = cur[u]
    BY <1>4, <1>a, <2>4, OtherThreads
  <2> QED  BY <1>1, <2>4, <2>5 DEF StampsOK
<1>5. ASSUME NEW t \in Live, NEW op \in OpNames, NEW file \in Found(op), Enter(t, op, file)
      PROVE  StampsOK'
  <2>n. PICK n : n = Len(calls')
    OBVIOUS
  <2>0. /\ at[t] = "user" /\ cur'[t] = n /\ at'[t] = "kernel"
        /\ t \notin DOMAIN enter_timestamps
    BY <1>5, <1>a, <2>n DEF Enter, StampsOK
  <2>1. calls'[n].op = op /\ calls'[n].file = file
    BY <1>5, <2>n, CallAppended
  <2>2. \/ enter_timestamps' = enter_timestamps
        \/ /\ ~to_discard(tgid[t]) /\ (file = "regular" \/ op \notin FiltersAtEnter)
           /\ enter_timestamps' = Put(enter_timestamps, t, n, MAX_STAMPS)
    BY <1>5, <2>n DEF Enter, update_counter_enter
  <2>3. \A u \in DOMAIN enter_timestamps' :
           u # t => /\ u \in DOMAIN enter_timestamps
                    /\ enter_timestamps'[u] = enter_timestamps[u]
    BY <2>2 DEF Put
  <2>4. \A u \in DOMAIN enter_timestamps : at'[u] = at[u] /\ cur'[u] = cur[u]
    BY <1>5, <1>a, <2>0, OtherThreads
  <2>5. t \in DOMAIN enter_timestamps' =>
           /\ enter_timestamps'[t] = n /\ ~to_discard(tgid[t])
           /\ file = "regular" \/ op \notin FiltersAtEnter
    BY <2>0, <2>2 DEF Put
  <2>6. t \in DOMAIN enter_timestamps' => tgid'[t] \in pids_to_consider'
    BY <1>a, <2>5 DEF to_discard
  <2> QED  BY <1>1, <2>0, <2>1, <2>3, <2>4, <2>5, <2>6 DEF StampsOK
<1> QED  BY <1>2, <1>3, <1>4, <1>5, NoThreadMoves

LEMMA WantedStep ==
    ASSUME SysType, CallsOK, StampsOK, WantedOK, [SysNext]_sysVars
    PROVE  WantedOK'
<1>a. Live \subseteq Threads /\ at \in [Threads -> Places]
  BY DEF SysType
<1>1. ASSUME NEW u \in Threads, at[u] \in Probing PROVE Wanted(cur[u])'
  <2>1. cur[u] \in 1 .. Len(calls) /\ cur'[u] = cur[u]
    BY <1>1, CallStays DEF CallsOK, Probing
  <2>2. Wanted(cur[u])
    BY <1>1 DEF WantedOK
  <2> QED  BY <2>1, <2>2, WantedStays, KernelStep DEF Wanted
<1>2. ASSUME NEW u \in Threads, u \in Live, Exit(u), at'[u] \in Probing PROVE Wanted(cur[u])'
  <2>1. /\ u \in DOMAIN enter_timestamps /\ ~Filtered(u) /\ at[u] = "kernel"
        /\ cur' = cur /\ calls' = calls
    BY <1>2, <1>a DEF Exit, Probing, kernelVars
  <2>2. calls[cur[u]].op \in OpNames
    BY <2>1, SysFacts DEF CallsOK, Call
  <2>3. OpNames \subseteq FiltersAtEnter \cup FiltersAtExit \cup FiltersNowhere
    <3>1. \A i \in 1 .. Len(Ops) : Ops[i] \in {"openat", "write", "pwrite64", "read", "pread64",
                                                "close", "unlink"}
      BY SysAssumption
    <3> QED  BY <3>1 DEF OpNames, FiltersAtEnter, FiltersAtExit, FiltersNowhere
  <2>4. Wanted(cur[u])
    BY <2>1, <2>2, <2>3 DEF Wanted, Filtered, StampsOK
  <2> QED  BY <2>1, <2>4 DEF Wanted
<1>3. ASSUME NEW u \in Threads, at'[u] \in Probing
      PROVE  at[u] \in Probing \/ (u \in Live /\ Exit(u))
  <2>1. ASSUME NEW t \in Live, t # u,
               \/ Exit(t) \/ Lookup(t) \/ Insert(t) \/ AddTime(t) \/ AddCount(t)
               \/ \E op \in OpNames : \E file \in Found(op) : Enter(t, op, file)
        PROVE  at'[u] = at[u]
    BY <2>1, OtherThreads
  <2>2. ASSUME u \in Live, Lookup(u) \/ Insert(u) \/ AddTime(u) \/ AddCount(u)
        PROVE  at[u] \in Probing
    BY <2>2 DEF Lookup, Insert, AddTime, AddCount, Probing
  <2>3. ASSUME u \in Live, NEW op \in OpNames, NEW file \in Found(op), Enter(u, op, file)
        PROVE  at'[u] \notin Probing
    BY <2>3, <1>a DEF Enter, Probing
  <2> QED  BY <1>3, <2>1, <2>2, <2>3, NoThreadMoves
<1> QED  BY <1>1, <1>2, <1>3 DEF WantedOK

\* A counted call is one that its program adds now, or was counted.
LEMMA CountedStep ==
    ASSUME SysType, CallsOK, FoundOK, [SysNext]_sysVars, NEW x \in DOMAIN counters',
           NEW i \in counters'[x].time
    PROVE  \/ x \in DOMAIN counters /\ i \in counters[x].time
           \/ \E t \in Live : (Insert(t) \/ AddTime(t)) /\ i = Delta(t)
BY CounterMoves

LEMMA FilesStep ==
    ASSUME FilesInv, [SysNext]_sysVars
    PROVE  FilesInv'
<1>1. (SysType /\ CallsOK /\ FoundOK /\ TimedOK)' /\ early' = early
  BY SysTypeStep, CallsStep, FoundStep, TimedStep, KernelStep DEF FilesInv
<1>2. ASSUME ~early
      PROVE  /\ attached' = Programs /\ phase' # "attach" /\ StampsOK' /\ WantedOK'
             /\ \A c \in Counted' : Wanted(c)'
  <2>1. attached' = Programs /\ phase' # "attach" /\ StampsOK' /\ WantedOK'
    BY <1>2, AttachedStep, StampsStep, WantedStep DEF FilesInv
  <2>2. ASSUME NEW x \in DOMAIN counters', NEW i \in counters'[x].time PROVE Wanted(i[2])'
    <3>1. CASE x \in DOMAIN counters /\ i \in counters[x].time
      <4>1. i[2] \in 1 .. Len(calls)
        BY <3>1 DEF FilesInv, TimedOK
      <4>2. i[2] \in Counted
        BY <3>1 DEF Counted
      <4> QED  BY <1>2, <4>1, <4>2, WantedStays DEF FilesInv
    <3>2. ASSUME NEW t \in Live, Insert(t) \/ AddTime(t), i = Delta(t) PROVE Wanted(i[2])'
      <4>1. i[2] = cur[t] /\ at[t] \in Probing /\ t \in Threads /\ calls' = calls
        BY <3>2 DEF Delta, Insert, AddTime, Probing, FilesInv, SysType, kernelVars
      <4>2. Wanted(cur[t])
        BY <1>2, <4>1 DEF FilesInv, WantedOK
      <4> QED  BY <4>1, <4>2 DEF Wanted
    <3> QED  BY <3>1, <3>2, CountedStep DEF FilesInv
  <2>3. \A c \in Counted' : \E x \in DOMAIN counters' : \E i \in counters'[x].time : c = i[2]
    BY DEF Counted
  <2> QED  BY <2>1, <2>2, <2>3
<1> QED  BY <1>1, <1>2 DEF FilesInv, Programs

LEMMA FilesInit == SysInit => FilesInv
<1> SUFFICES ASSUME SysInit PROVE FilesInv
  OBVIOUS
<1>1. TimedOK /\ StampsOK /\ WantedOK /\ Counted = {}
  BY SysInitOK DEF SysInit, TimedOK, StampsOK, WantedOK, Probing, Counted
<1>2. ~early => attached = Programs /\ phase # "attach"
  BY DEF SysInit
<1> QED  BY <1>1, <1>2, SysInitOK DEF FilesInv

\* If no call is made before the attach is complete, what is counted is a call on a
\* regular file, an openat with a regular file or no file at all behind its result,
\* or an unlink: the filters look at the descriptor on entry (on exit for openat) and
\* update_counter_exit relies on the absence of a stamp, which holds because each
\* exit deletes the stamp of its entry before the thread can enter again.
THEOREM IgnoredAreNotCounted == SysSpec => []IgnoredNotCounted
<1>1. FilesInv => IgnoredNotCounted
  BY DEF FilesInv, IgnoredNotCounted
<1> QED  BY FilesInit, FilesStep, <1>1, PTL DEF SysSpec

-----------------------------------------------------------------------------
(* One CPU *)

LEMMA OwnStep ==
    ASSUME OwnInv, [SysNext]_sysVars
    PROVE  OwnInv'
<1>a. /\ SysType /\ CallsOK /\ FoundOK /\ TimedOK /\ Live \subseteq Threads
      /\ at \in [Threads -> Places] /\ elem \in [Threads -> Nat]
  BY DEF OwnInv, FilesInv, SysType
<1>1. FilesInv' /\ CPUsOK' /\ cpus' = cpus /\ early' = early
  BY <1>a, FilesStep, CPUsStep, KernelStep DEF OwnInv
<1>2. ASSUME cpus = 1, ~early
      PROVE  \A u \in Threads : at'[u] \in Probing => elem'[u] = cur'[u]
  <2>a. /\ StampsOK
        /\ \A u \in Threads : at[u] \in Probing => elem[u] = cur[u] /\ cur'[u] = cur[u]
    BY <1>2, <1>a, CallStays DEF OwnInv, FilesInv, Probing
  <2>1. CASE at' = at /\ cur' = cur /\ elem' = elem
    BY <2>a, <2>1
  <2>2. ASSUME NEW t \in Live, Exit(t) \/ Lookup(t) \/ Insert(t) \/ AddTime(t) \/ AddCount(t)
        PROVE  \A u \in Threads : at'[u] \in Probing => elem'[u] = cur'[u]
    <3>1. ASSUME NEW u \in Threads, u # t, at'[u] \in Probing PROVE elem'[u] = cur'[u]
      <4>1. at'[u] = at[u]
        BY <2>2, <3>1, <1>a, OtherThreads
      <4>2. \E z : elem' = elem \/ elem' = [elem EXCEPT ![t] = z]
        BY <2>2 DEF Exit, Lookup, Insert, AddTime, AddCount
      <4>3. elem'[u] = elem[u]
        BY <1>a, <3>1, <4>2
      <4> QED  BY <2>a, <3>1, <4>1, <4>3
    <3>2. ASSUME at'[t] \in Probing PROVE elem'[t] = cur'[t]
      <4>1. CASE Lookup(t) \/ AddTime(t)
        <5>1. elem' = elem /\ at[t] \in Probing /\ t \in Threads
          BY <4>1, <1>a DEF Lookup, AddTime, Probing
        <5> QED  BY <2>a, <5>1
      <4>2. CASE Insert(t) \/ AddCount(t)
        BY <4>2, <3>2, <1>a DEF Insert, AddCount, Probing
      <4>3. CASE Exit(t)
        <5>1. /\ t \in DOMAIN enter_timestamps /\ elem'[t] = enter_timestamps[t] /\ cur' = cur
          BY <4>3, <3>2, <1>a DEF Exit, Probing, kernelVars
        <5> QED  BY <2>a, <5>1 DEF StampsOK
      <4> QED  BY <2>2, <4>1, <4>2, <4>3
    <3> QED  BY <3>1, <3>2
  <2>3. ASSUME NEW t \in Live, NEW op \in OpNames, NEW file \in Found(op), Enter(t, op, file)
        PROVE  \A u \in Threads : at'[u] \in Probing => elem'[u] = cur'[u]
    <3>1. InProgram = {}
      <4>1. InProgram \subseteq Live /\ IsFiniteSet(Live)
        BY <1>a DEF InProgram, SysType
      <4>2. IsFiniteSet(InProgram) /\ Cardinality(InProgram) \in Nat
        BY <4>1, FS_Subset, FS_CardinalityType
      <4>3. Cardinality(InProgram) = 0
        BY <1>2, <2>3, <4>2 DEF Enter, CPUFree
      <4> QED  BY <4>2, <4>3, FS_EmptySet
    <3>2. \A u \in Threads : at[u] \notin Probing
      BY <1>a, <3>1 DEF InProgram, Probing, CallsOK
    <3>3. \A u \in Threads : at'[u] \notin Probing
      BY <1>a, <2>3, <3>2 DEF Enter, Probing
    <3> QED  BY <3>3
  <2> QED  BY <1>a, <2>1, <2>2, <2>3, NoThreadMoves
<1>3. ASSUME cpus = 1, ~early, NEW x \in DOMAIN counters', NEW i \in counters'[x].time
      PROVE  i[1] = i[2]
  <2>1. ASSUME NEW t \in Live, Insert(t) \/ AddTime(t), i = Delta(t) PROVE i[1] = i[2]
    <3>1. elem[t] = cur[t]
      BY <1>3, <1>a, <2>1 DEF OwnInv, Insert, AddTime, Probing
    <3> QED  BY <2>1, <3>1 DEF Delta
  <2> QED  BY <1>a, <1>3, <2>1, CountedStep DEF OwnInv
<1> QED  BY <1>1, <1>2, <1>3 DEF OwnInv

\* On one CPU every interval is that of one call: nothing is inserted between the
\* deletion of a stamp and the last read of its element, so *enter_time still holds
\* what the entry of the same call stored there (syscounter.bpf.c:110-115).
THEOREM IntervalsAreOwn == SysSpec => []OwnIntervals
<1>1. SysInit => OwnInv
  <2> SUFFICES ASSUME SysInit PROVE OwnInv
    OBVIOUS
  <2> QED  BY FilesInit, SysInitOK DEF OwnInv, Probing
<1>2. OwnInv /\ [SysNext]_sysVars => OwnInv'
  BY OwnStep
<1>3. OwnInv => OwnIntervals
  BY DEF OwnInv, OwnIntervals, IntervalsOwn
<1> QED  BY <1>1, <1>2, <1>3, PTL DEF SysSpec

-----------------------------------------------------------------------------
(* Lost calls *)

LEMMA CallKeyFacts ==
    ASSUME SysType, CallsOK, [SysNext]_sysVars, NEW c \in 1 .. Len(calls)
    PROVE  CallKey(c) \in Keys /\ CallKey(c)' = CallKey(c)
<1>1. calls[c] \in Call /\ calls[c].tid \in Live
  BY SysFacts DEF CallsOK
<1>2. CallKey(c) \in Keys
  BY <1>1, SysFacts DEF CallKey, Keys, Names, Call
<1>3. CallKey(c)' = CallKey(c)
  BY <1>1, KernelStep DEF CallKey
<1> QED  BY <1>2, <1>3

\* An interval is never taken out of a counter.
LEMMA InTimeStays ==
    ASSUME SysType, CallsOK, FoundOK, [SysNext]_sysVars, NEW c \in 1 .. Len(calls), InTime(c)
    PROVE  InTime(c)'
<1>1. CallKey(c)' = CallKey(c)
  BY CallKeyFacts
<1>x. PICK x : x = CallKey(c)
  OBVIOUS
<1>2. PICK i \in counters[x].time : i[2] = c
  BY <1>x DEF InTime
<1>3. x \in DOMAIN counters
  BY <1>x DEF InTime
<1>4. x \in DOMAIN counters' /\ i \in counters'[x].time
  BY <1>2, <1>3, CounterMoves
<1> QED  BY <1>1, <1>x, <1>2, <1>4 DEF InTime

\* A program that adds its interval finds it there.
LEMMA AddedNow ==
    ASSUME SysType, CallsOK, FoundOK, [SysNext]_sysVars, NEW t \in Live,
           \/ AddTime(t)
           \/ Insert(t) /\ KeyOf(t) \notin DOMAIN counters /\ counters' # counters
    PROVE  InTime(cur[t])'
<1>1. t \in Threads /\ at[t] # "user"
  BY DEF SysType, AddTime, Insert
<1>2. cur[t] \in 1 .. Len(calls) /\ KeyOf(t) = CallKey(cur[t])
  BY <1>1, KeyFacts DEF CallsOK
<1>x. PICK x : x = KeyOf(t)
  OBVIOUS
<1>3. CallKey(cur[t])' = x
  <2>c. PICK c \in 1 .. Len(calls) : c = cur[t]
    BY <1>2
  <2>1. cur'[t] = cur[t]
    BY <1>1, CallStays
  <2>2. CallKey(c)' = x
    BY <1>2, <1>x, <2>c, CallKeyFacts
  <2> QED  BY <2>c, <2>1, <2>2 DEF CallKey
<1>4. x \in DOMAIN counters' /\ Delta(t) \in counters'[x].time
  <2>1. CASE AddTime(t)
    BY <1>x, <2>1, AddTimeMoves
  <2>2. CASE Insert(t) /\ KeyOf(t) \notin DOMAIN counters /\ counters' # counters
    BY <1>x, <2>2, InsertMoves
  <2> QED  BY <2>1, <2>2
<1>5. Delta(t)[2] = cur[t] /\ cur'[t] = cur[t]
  BY <1>1, CallStays DEF Delta
<1> QED  BY <1>3, <1>4, <1>5 DEF InTime

\* A call that has returned now.
LEMMA FinishedStep ==
    ASSUME SysType, CallsOK, [SysNext]_sysVars, NEW c \in 1 .. Len(calls'), Finished(c)'
    PROVE  /\ c \in 1 .. Len(calls)
           /\ \/ Finished(c)
              \/ \E t \in Live : /\ Exit(t) \/ Insert(t) \/ AddCount(t)
                                 /\ at'[t] = "user" /\ c = cur[t] /\ t \in Threads
<1>a. /\ Live \subseteq Threads /\ at \in [Threads -> Places] /\ cur \in [Threads -> Nat]
      /\ Len(calls) \in Nat
      /\ \A d \in 1 .. Len(calls) : calls'[d] = calls[d] /\ calls[d].tid \in Live
                                    /\ d <= cur[calls[d].tid]
  BY SysFacts, KernelStep DEF SysType, CallsOK
<1>1. c \in 1 .. Len(calls)
  <2>1. ASSUME NEW t \in Live, NEW op \in OpNames, NEW file \in Found(op), Enter(t, op, file),
               c \notin 1 .. Len(calls)
        PROVE  FALSE
    <3>1. Len(calls') = Len(calls) + 1 /\ calls'[Len(calls')].tid = t /\ cur'[t] = Len(calls')
          /\ at'[t] = "kernel"
      BY <1>a, <2>1, CallAppended DEF Enter
    <3>2. c = Len(calls')
      BY <1>a, <2>1, <3>1
    <3> QED  BY <1>a, <3>1, <3>2 DEF Finished
  <2>2. ASSUME NEW t \in Live, Exit(t) \/ Lookup(t) \/ Insert(t) \/ AddTime(t) \/ AddCount(t)
        PROVE  calls' = calls
    BY <2>2 DEF Exit, Lookup, Insert, AddTime, AddCount, kernelVars
  <2> QED  BY <2>1, <2>2, NoThreadMoves
<1>u. PICK u \in Live : u = calls[c].tid /\ u = calls'[c].tid
  BY <1>a, <1>1
<1>2. cur'[u] > c \/ at'[u] = "user"
  BY <1>u DEF Finished
<1>3. CASE at'[u] = at[u] /\ cur'[u] = cur[u]
  BY <1>u, <1>1, <1>2, <1>3 DEF Finished
<1>4. ASSUME NEW t \in Live, t # u,
             \/ Exit(t) \/ Lookup(t) \/ Insert(t) \/ AddTime(t) \/ AddCount(t)
             \/ \E op \in OpNames : \E file \in Found(op) : Enter(t, op, file)
      PROVE  at'[u] = at[u] /\ cur'[u] = cur[u]
  BY <1>a, <1>4, OtherThreads
<1>5. ASSUME NEW op \in OpNames, NEW file \in Found(op), Enter(u, op, file)
      PROVE  Finished(c)
  BY <1>5, <1>u DEF Enter, Finished
<1>6. ASSUME Exit(u) \/ Lookup(u) \/ Insert(u) \/ AddTime(u) \/ AddCount(u), ~Finished(c)
      PROVE  /\ Exit(u) \/ Insert(u) \/ AddCount(u)
             /\ at'[u] = "user" /\ c = cur[u] /\ u \in Threads
  <2>1. cur' = cur
    BY <1>6 DEF Exit, Lookup, Insert, AddTime, AddCount, kernelVars
  <2>2. c = cur[u] /\ at'[u] = "user" /\ u \in Threads
    BY <1>a, <1>u, <1>1, <1>2, <1>6, <2>1 DEF Finished
  <2>3. ~Lookup(u) /\ ~AddTime(u)
    BY <1>a, <2>2 DEF Lookup, AddTime
  <2> QED  BY <1>6, <2>2, <2>3
<1> QED  BY <1>1, <1>3, <1>4, <1>5, <1>6, NoThreadMoves

\* The call of a program that leaves without adding it.
LEMMA LostStep ==
    ASSUME SysType, CallsOK, FoundOK, TracedOK, AddedOK, MapsFit, [SysNext]_sysVars,
           NEW c, c \in Lost'
    PROVE  /\ c \in 1 .. Len(calls)
           /\ \/ c \in Lost
              \/ \E t \in Live : /\ Insert(t) /\ c = cur[t] /\ t \in Threads
                                 /\ KeyOf(t) \in DOMAIN counters
<1>a. /\ c \in 1 .. Len(calls') /\ calls'[c].traced /\ Wanted(c)' /\ Finished(c)' /\ ~InTime(c)'
  BY DEF Lost, InTime
<1>1. /\ c \in 1 .. Len(calls)
      /\ \/ Finished(c)
         \/ \E t \in Live : /\ Exit(t) \/ Insert(t) \/ AddCount(t)
                            /\ at'[t] = "user" /\ c = cur[t] /\ t \in Threads
  BY <1>a, FinishedStep
<1>2. calls[c].traced /\ Wanted(c) /\ ~InTime(c)
  BY <1>a, <1>1, KernelStep, WantedStays, InTimeStays
<1>3. CASE Finished(c)
  BY <1>1, <1>2, <1>3 DEF Lost, InTime
<1>4. ASSUME NEW t \in Live, t \in Threads, Exit(t), at'[t] = "user", c = cur[t] PROVE FALSE
  <2>1. at[t] = "kernel" /\ at \in [Threads -> Places]
    BY <1>4 DEF Exit, SysType
  <2>2. /\ t \in DOMAIN enter_timestamps /\ ExitOn(calls[cur[t]].op)
        /\ tgid[t] \in pids_to_consider
    BY <1>2, <1>4, <2>1 DEF TracedOK
  <2>3. ~Filtered(t)
    BY <1>2, <1>4 DEF Wanted, Filtered, FiltersAtExit, FiltersNowhere
  <2> QED  BY <1>4, <2>1, <2>2, <2>3 DEF Exit, to_discard
<1>5. ASSUME NEW t \in Live, t \in Threads, AddCount(t), c = cur[t] PROVE FALSE
  BY <1>2, <1>5 DEF AddCount, AddedOK
<1>6. ASSUME NEW t \in Live, t \in Threads, Insert(t), c = cur[t]
      PROVE  KeyOf(t) \in DOMAIN counters
  <2>1. ASSUME KeyOf(t) \notin DOMAIN counters PROVE counters' # counters
    <3>x. PICK x : x = KeyOf(t)
      OBVIOUS
    <3>1. x \in Keys /\ x \notin DOMAIN counters
      BY <1>6, <2>1, <3>x, KeyFacts DEF Insert, CallsOK
    <3>2. Cardinality(DOMAIN counters) < MAX_COUNTERS
      <4>1. DOMAIN counters \subseteq Keys \ {x} /\ IsFiniteSet(Keys)
        BY <3>1 DEF SysType, MapsFit
      <4>2. /\ IsFiniteSet(Keys \ {x}) /\ Cardinality(Keys) \in Nat
            /\ Cardinality(Keys \ {x}) = Cardinality(Keys) - 1
        BY <3>1, <4>1, FS_RemoveElement, FS_CardinalityType
      <4>3. /\ Cardinality(DOMAIN counters) \in Nat
            /\ Cardinality(DOMAIN counters) <= Cardinality(Keys \ {x})
        BY <4>1, <4>2, FS_Subset, FS_CardinalityType
      <4>4. Cardinality(Keys) <= MAX_COUNTERS /\ MAX_COUNTERS \in Nat
        BY SysAssumption DEF MapsFit
      <4> QED  BY <4>2, <4>3, <4>4
    <3>3. x \in DOMAIN counters'
      BY <1>6, <3>1, <3>2, <3>x DEF Insert, Put
    <3> QED  BY <3>1, <3>3
  <2>2. ASSUME KeyOf(t) \notin DOMAIN counters PROVE FALSE
    BY <1>a, <1>6, <2>1, <2>2, AddedNow, CallStays DEF Insert
  <2> QED  BY <2>2
<1> QED  BY <1>1, <1>3, <1>4, <1>5, <1>6

LEMMA InsertingStep ==
    ASSUME SysType, CallsOK, FoundOK, [SysNext]_sysVars, NEW x, NEW c \in Inserting(x)'
    PROVE  /\ c \in 1 .. Len(calls)
           /\ \/ c \in Inserting(x)
              \/ x \notin DOMAIN counters /\ counters' = counters
           /\ \E u \in Threads : calls[c].tid = u /\ cur[u] = c /\ at'[u] = "insert"
<1>a. Live \subseteq Threads /\ Live' \subseteq Threads /\ at \in [Threads -> Places]
  BY SysTypeStep DEF SysType
<1>1. PICK u \in Threads : at'[u] = "insert" /\ cur'[u] = c /\ KeyOf(u)' = x
  BY <1>a DEF Inserting
<1>2. ASSUME at'[u] = at[u]
      PROVE  c \in Inserting(x) /\ cur[u] = c
  <2>1. cur'[u] = cur[u] /\ KeyOf(u)' = KeyOf(u) /\ u \in Live /\ cur[u] \in 1 .. Len(calls)
    BY <1>1, <1>2, CallStays DEF CallsOK
  <2> QED  BY <1>1, <1>2, <2>1 DEF Inserting
<1>3. ASSUME u \in Live, Lookup(u)
      PROVE  x \notin DOMAIN counters /\ counters' = counters /\ cur[u] = c
  <2>1. at[u] = "lookup" /\ KeyOf(u) \notin DOMAIN counters /\ counters' = counters
    BY <1>1, <1>3, <1>a DEF Lookup, mapVars
  <2>2. KeyOf(u)' = KeyOf(u) /\ cur'[u] = cur[u]
    BY <2>1, CallStays
  <2> QED  BY <1>1, <2>1, <2>2
<1>4. ASSUME u \in Live,
             \/ Exit(u) \/ Insert(u) \/ AddTime(u) \/ AddCount(u)
             \/ \E op \in OpNames : \E file \in Found(op) : Enter(u, op, file)
      PROVE  at'[u] # "insert"
  BY <1>4, <1>a DEF Exit, Insert, AddTime, AddCount, Enter
<1>5. ASSUME NEW t \in Live, t # u,
             \/ Exit(t) \/ Lookup(t) \/ Insert(t) \/ AddTime(t) \/ AddCount(t)
             \/ \E op \in OpNames : \E file \in Found(op) : Enter(t, op, file)
      PROVE  at'[u] = at[u]
  BY <1>5, OtherThreads
<1>6. /\ c \in Inserting(x) \/ (x \notin DOMAIN counters /\ counters' = counters)
      /\ cur[u] = c
  BY <1>1, <1>2, <1>3, <1>4, <1>5, NoThreadMoves
<1>7. cur[u] # 0
  <2>1. at[u] # "user"
    BY <1>1, <1>3, <1>4, <1>5, NoThreadMoves DEF Lookup
  <2> QED  BY <2>1 DEF CallsOK
<1> QED  BY <1>1, <1>6, <1>7 DEF CallsOK

LEMMA LostFinite ==
    ASSUME SysType, NEW x
    PROVE  /\ IsFiniteSet(LostFor(x) \cup Inserting(x))
           /\ Cardinality(LostFor(x) \cup Inserting(x)) \in Nat
<1>1. LostFor(x) \cup Inserting(x) \subseteq 1 .. Len(calls)
  BY DEF LostFor, Lost, Inserting
<1>2. IsFiniteSet(1 .. Len(calls))
  BY SysFacts, FS_Interval
<1> QED  BY <1>1, <1>2, FS_Subset, FS_CardinalityType

\* The first insertion of a key leaves the CPUs that looked it up before.
LEMMA FirstInsertion ==
    ASSUME SysType, CallsOK, FoundOK, CPUsOK, [SysNext]_sysVars, NEW t \in Live, Insert(t), NEW x
    PROVE  IsFiniteSet(Inserting(x)') /\ Cardinality(Inserting(x)') < cpus
<1>a. t \in Threads /\ at[t] = "insert" /\ at'[t] = "user" /\ t \in InProgram
  BY DEF SysType, Insert, InProgram
<1>1. ASSUME NEW c \in Inserting(x)'
      PROVE  /\ c \in 1 .. Len(calls) /\ calls[c].tid \in InProgram \ {t}
             /\ cur[calls[c].tid] = c
  <2>1. PICK u \in Threads : calls[c].tid = u /\ cur[u] = c /\ at'[u] = "insert"
    BY InsertingStep
  <2>2. u # t /\ at[u] = "insert"
    BY <1>a, <2>1, OtherThreads
  <2>3. u \in Live
    BY <2>2 DEF CallsOK
  <2> QED  BY <2>1, <2>2, <2>3, InsertingStep DEF InProgram
<1>2. PICK f : f = [c \in Inserting(x)' |-> calls[c].tid]
  OBVIOUS
<1>3. f \in Injection(Inserting(x)', InProgram \ {t})
  BY <1>1, <1>2, Fun_IsInj
<1>4. /\ IsFiniteSet(InProgram) /\ Cardinality(InProgram) \in Nat
      /\ IsFiniteSet(InProgram \ {t})
      /\ Cardinality(InProgram \ {t}) = Cardinality(InProgram) - 1
  <2>1. InProgram \subseteq Live
    BY DEF InProgram
  <2>2. IsFiniteSet(InProgram)
    BY <2>1, FS_Subset DEF SysType
  <2> QED  BY <1>a, <2>2, FS_RemoveElement, FS_CardinalityType
<1>5. /\ IsFiniteSet(Inserting(x)') /\ Cardinality(Inserting(x)') \in Nat
      /\ Cardinality(Inserting(x)') <= Cardinality(InProgram \ {t})
  BY <1>3, <1>4, FS_Injection, FS_CardinalityType
<1> QED  BY <1>4, <1>5, SysFacts DEF CPUsOK

LEMMA FirstStep ==
    ASSUME LostInv, MapsFit, [SysNext]_sysVars
    PROVE  FirstOK'
<1>a. /\ SysType /\ CallsOK /\ FoundOK /\ CPUsOK /\ TracedOK /\ AddedOK /\ cpus' = cpus
      /\ cpus \in Nat /\ DOMAIN counters \subseteq DOMAIN counters'
      /\ SysType'
  BY FoundStep, KernelStep, SysFacts, SysTypeStep DEF LostInv
<1>1. ASSUME NEW x, NEW c \in LostFor(x)'
      PROVE  \/ c \in LostFor(x)
             \/ x \in DOMAIN counters /\ c \in Inserting(x)
  <2>1. /\ c \in 1 .. Len(calls)
        /\ \/ c \in Lost
           \/ \E t \in Live : /\ Insert(t) /\ c = cur[t] /\ t \in Threads
                              /\ KeyOf(t) \in DOMAIN counters
    BY <1>a, LostStep DEF LostFor
  <2>2. CallKey(c) = x
    BY <1>a, <2>1, CallKeyFacts DEF LostFor
  <2>3. ASSUME NEW t \in Live, Insert(t), c = cur[t], t \in Threads,
               KeyOf(t) \in DOMAIN counters
        PROVE  x \in DOMAIN counters /\ c \in Inserting(x)
    <3>1. KeyOf(t) = x /\ at[t] = "insert"
      BY <1>a, <2>2, <2>3, KeyFacts DEF Insert, CallsOK
    <3> QED  BY <2>1, <2>3, <3>1 DEF Inserting
  <2> QED  BY <2>1, <2>2, <2>3 DEF LostFor
<1>2. ASSUME NEW x \in Keys, x \notin DOMAIN counters' PROVE LostFor(x)' = {}
  BY <1>a, <1>1, <1>2 DEF LostInv, FirstOK
<1>3. ASSUME NEW x \in Keys, x \in DOMAIN counters
      PROVE  Cardinality((LostFor(x) \cup Inserting(x))') < cpus
  <2>1. (LostFor(x) \cup Inserting(x))' \subseteq LostFor(x) \cup Inserting(x)
    BY <1>a, <1>1, <1>3, InsertingStep
  <2>2. /\ Cardinality((LostFor(x) \cup Inserting(x))') \in Nat
        /\ Cardinality((LostFor(x) \cup Inserting(x))')
              <= Cardinality(LostFor(x) \cup Inserting(x))
        /\ Cardinality(LostFor(x) \cup Inserting(x)) \in Nat
    BY <1>a, <2>1, LostFinite, FS_Subset, FS_CardinalityType
  <2> QED  BY <1>3, <1>a, <2>2 DEF LostInv, FirstOK
<1>4. ASSUME NEW x \in Keys, x \in DOMAIN counters', x \notin DOMAIN counters
      PROVE  Cardinality((LostFor(x) \cup Inserting(x))') < cpus
  <2>1. PICK t \in Live : Insert(t)
    BY <1>a, <1>4, CounterMoves
  <2>2. (LostFor(x) \cup Inserting(x))' = Inserting(x)'
    BY <1>a, <1>1, <1>4 DEF LostInv, FirstOK
  <2> QED  BY <1>a, <2>1, <2>2, FirstInsertion
<1> QED  BY <1>a, <1>2, <1>3, <1>4 DEF FirstOK

LEMMA AddedStep ==
    ASSUME SysType, CallsOK, FoundOK, AddedOK, [SysNext]_sysVars
    PROVE  AddedOK'
<1>a. Live \subseteq Threads /\ at \in [Threads -> Places]
  BY DEF SysType
<1>1. ASSUME NEW u \in Threads, at[u] = "count" PROVE InTime(cur[u])'
  <2>c. PICK c : c = cur[u]
    OBVIOUS
  <2>1. c \in 1 .. Len(calls) /\ InTime(c) /\ cur'[u] = c
    BY <1>1, <2>c, CallStays DEF CallsOK, AddedOK
  <2>2. InTime(c)'
    BY <2>1, InTimeStays
  <2> QED  BY <2>1, <2>2 DEF InTime, CallKey
<1>2. ASSUME NEW u \in Threads, at'[u] = "count" PROVE InTime(cur[u])'
  <2>1. CASE u \in Live /\ AddTime(u)
    BY <2>1, AddedNow
  <2>2. CASE ~(u \in Live /\ AddTime(u))
    <3>1. u \in Live /\ AddCount(u) => at'[u] # "count"
      BY <1>a DEF AddCount
    <3>2. at[u] = "count"
      BY <1>2, <2>2, <3>1, CountPlaces
    <3> QED  BY <1>1, <3>2
  <2> QED  BY <2>1, <2>2
<1> QED  BY <1>2 DEF AddedOK

LEMMA TracedStep ==
    ASSUME SysType, CallsOK, FoundOK, TracedOK, MapsFit, [SysNext]_sysVars
    PROVE  TracedOK'
<1>a. /\ Live \subseteq Threads /\ DOMAIN enter_timestamps \subseteq Live
      /\ at \in [Threads -> Places] /\ cur \in [Threads -> Nat] /\ Len(calls) \in Nat
      /\ \A t \in Live : tgid'[t] = tgid[t]
      /\ pids_to_consider \subseteq pids_to_consider'
  BY SysFacts, KernelStep DEF SysType
<1>e. ASSUME NEW op, ExitOn(op) PROVE ExitOn(op)'
  <2>1. attached \in Nat /\ attached' \in Nat /\ attached <= attached' /\ Len(Ops) \in Nat
    BY KernelStep, SysFacts, SysTypeStep DEF SysType
  <2> QED  BY <1>e, <2>1 DEF ExitOn
\* A call whose thread stays in the kernel keeps its stamp.
<1>1. ASSUME NEW u \in Threads, at[u] = "kernel", at'[u] = at[u],
             u \in DOMAIN enter_timestamps => u \in DOMAIN enter_timestamps',
             (calls[cur[u]].traced /\ Wanted(cur[u]))'
      PROVE  /\ u \in DOMAIN enter_timestamps'
             /\ ExitOn(calls[cur[u]].op)' /\ tgid'[u] \in pids_to_consider'
  <2>c. PICK c : c = cur[u]
    OBVIOUS
  <2>1. c \in 1 .. Len(calls) /\ cur'[u] = c /\ u \in Live
    BY <1>1, <2>c, CallStays DEF CallsOK
  <2>2. calls'[c] = calls[c]
    BY <2>1, KernelStep
  <2>3. calls[c].traced /\ Wanted(c)
    BY <1>1, <2>1, <2>2 DEF Wanted
  <2>4. u \in DOMAIN enter_timestamps /\ ExitOn(calls[c].op) /\ tgid[u] \in pids_to_consider
    BY <1>1, <2>c, <2>3 DEF TracedOK
  <2>o. PICK op : op = calls[c].op
    OBVIOUS
  <2>5. ExitOn(op)'
    BY <1>e, <2>4, <2>o
  <2> QED  BY <1>1, <1>a, <2>1, <2>2, <2>4, <2>5, <2>o DEF ExitOn
<1>2. CASE at' = at /\ enter_timestamps' = enter_timestamps
  BY <1>1, <1>2 DEF TracedOK
<1>3. ASSUME NEW t \in Live, Exit(t) \/ Lookup(t) \/ Insert(t) \/ AddTime(t) \/ AddCount(t)
      PROVE  TracedOK'
  <2>1. at'[t] # "kernel"
    BY <1>3, <1>a DEF Exit, Lookup, Insert, AddTime, AddCount
  <2>2. \A u \in DOMAIN enter_timestamps : u # t => u \in DOMAIN enter_timestamps'
    <3>1. enter_timestamps' = enter_timestamps \/ enter_timestamps' = Without(enter_timestamps, t)
      BY <1>3 DEF Exit, Ignore, Lookup, Insert, AddTime, AddCount, mapVars
    <3> QED  BY <3>1 DEF Without, Restrict
  <2>3. \A u \in Threads : u # t => at'[u] = at[u]
    BY <1>3, OtherThreads
  <2> QED  BY <1>1, <2>1, <2>2, <2>3 DEF TracedOK
<1>4. ASSUME NEW t \in Live, NEW op \in OpNames, NEW file \in Found(op), Enter(t, op, file)
      PROVE  TracedOK'
  <2>n. PICK n : n = Len(calls')
    OBVIOUS
  <2>0. cur'[t] = n /\ tgid' = tgid /\ attached' = attached /\ pids_to_consider' = pids_to_consider
    BY <1>4, <1>a, <2>n DEF Enter
  <2>1. /\ calls'[n].op = op /\ calls'[n].file = file
        /\ calls'[n].traced = (EnterOn(op) /\ ~to_discard(tgid[t]) /\ ExitOn(op))
    BY <1>4, <2>n, CallAppended
  <2>2. \A u \in DOMAIN enter_timestamps : u \in DOMAIN enter_timestamps'
    <3>1. \/ enter_timestamps' = enter_timestamps
          \/ enter_timestamps' = Put(enter_timestamps, t, n, MAX_STAMPS)
      BY <1>4, <2>n DEF Enter, update_counter_enter
    <3> QED  BY <3>1 DEF Put
  <2>3. ASSUME (calls[cur[t]].traced /\ Wanted(cur[t]))'
        PROVE  /\ t \in DOMAIN enter_timestamps'
               /\ ExitOn(calls[cur[t]].op)' /\ tgid'[t] \in pids_to_consider'
    <3>1. EnterOn(op) /\ ~to_discard(tgid[t]) /\ ExitOn(op)
          /\ (file = "regular" \/ op \notin FiltersAtEnter)
      BY <2>0, <2>1, <2>3 DEF Wanted, Found, FiltersNowhere, FiltersAtEnter, FiltersAtExit
    <3>2. enter_timestamps' = Put(enter_timestamps, t, n, MAX_STAMPS)
      BY <1>4, <2>n, <3>1 DEF Enter, update_counter_enter
    <3>3. ASSUME t \notin DOMAIN enter_timestamps
          PROVE  Cardinality(DOMAIN enter_timestamps) < MAX_STAMPS
      <4>1. DOMAIN enter_timestamps \subseteq Threads \ {t} /\ t \in Threads
        BY <1>a, <3>3
      <4>2. /\ IsFiniteSet(Threads \ {t}) /\ Cardinality(Threads) \in Nat
            /\ Cardinality(Threads \ {t}) = Cardinality(Threads) - 1
        BY <4>1, FS_RemoveElement, FS_CardinalityType DEF MapsFit
      <4>3. /\ Cardinality(DOMAIN enter_timestamps) \in Nat
            /\ Cardinality(DOMAIN enter_timestamps) <= Cardinality(Threads \ {t})
        BY <4>1, <4>2, FS_Subset, FS_CardinalityType
      <4>4. Cardinality(Threads) <= MAX_STAMPS /\ MAX_STAMPS \in Nat
        BY SysAssumption DEF MapsFit
      <4> QED  BY <4>2, <4>3, <4>4
    <3>4. t \in DOMAIN enter_timestamps'
      BY <3>2, <3>3 DEF Put
    <3> QED  BY <2>0, <2>1, <3>1, <3>4 DEF ExitOn, to_discard
  <2>4. \A u \in Threads : u # t => at'[u] = at[u]
    BY <1>4, OtherThreads
  <2> QED  BY <1>1, <2>2, <2>3, <2>4 DEF TracedOK
<1> QED  BY <1>2, <1>3, <1>4, NoThreadMoves

\* With room in the maps for every thread and every key, a call that the programs
\* saw on both sides and that the filters keep is missing from its counter only if
\* its CPU looked the key up before another CPU inserted it: fewer calls of a key are
\* lost than there are CPUs, and on one CPU none.
THEOREM LostAtFirstOnly ==
    ASSUME MapsFit
    PROVE  SysSpec => []LostOnlyAtFirst
<1>1. SysInit => LostInv
  <2> SUFFICES ASSUME SysInit PROVE LostInv
    OBVIOUS
  <2>1. TracedOK /\ AddedOK /\ \A x \in Keys : LostFor(x) = {} /\ x \notin DOMAIN counters
    BY SysInitOK DEF TracedOK, AddedOK, LostFor, Lost
  <2> QED  BY <2>1, SysInitOK DEF LostInv, FirstOK
<1>2. LostInv /\ [SysNext]_sysVars => LostInv'
  BY SysTypeStep, CallsStep, CPUsStep, FoundStep, TracedStep, AddedStep, FirstStep DEF LostInv
<1>3. LostInv => LostOnlyAtFirst
  <2> SUFFICES ASSUME LostInv, NEW c \in Lost
               PROVE  Cardinality({d \in Lost : CallKey(d) = CallKey(c)}) < cpus
    BY DEF LostOnlyAtFirst
  <2>x. PICK x : x = CallKey(c)
    OBVIOUS
  <2>1. x \in Keys
    <3>1. c \in 1 .. Len(calls) /\ calls[c] \in Call /\ calls[c].tid \in Live
      BY SysFacts DEF LostInv, CallsOK, Lost
    <3> QED  BY <2>x, <3>1, SysFacts DEF LostInv, CallKey, Keys, Names, Call
  <2>2. c \in LostFor(x) /\ x \in DOMAIN counters
    BY <2>x, <2>1 DEF LostInv, FirstOK, LostFor
  <2>3. LostFor(x) \subseteq LostFor(x) \cup Inserting(x)
    OBVIOUS
  <2>4. /\ Cardinality(LostFor(x)) \in Nat
        /\ Cardinality(LostFor(x)) <= Cardinality(LostFor(x) \cup Inserting(x))
        /\ Cardinality(LostFor(x) \cup Inserting(x)) \in Nat
    BY <2>3, LostFinite, FS_Subset, FS_CardinalityType DEF LostInv
  <2>5. Cardinality(LostFor(x)) < cpus
    BY <2>1, <2>2, <2>4, SysFacts DEF LostInv, FirstOK
  <2> QED  BY <2>5, <2>x DEF LostFor
<1> QED  BY <1>1, <1>2, <1>3, PTL DEF SysSpec

-----------------------------------------------------------------------------
(* Sums over finite sets *)

LEMMA LeastOf ==
    ASSUME NEW T \in SUBSET Nat, T # {}
    PROVE  \E m \in T : \A n \in T : ~(n < m)
<1>0. T \subseteq Nat
  OBVIOUS
<1>1. PICK m \in T : \A n \in T : ~(<<n, m>> \in OpToRel(<, Nat))
  BY <1>0, NatLessThanWellFounded, WFMin, Zenon
<1>2. \A n \in T : ~(n < m)
  BY <1>1 DEF OpToRel
<1> QED  BY <1>2

\* Of any sets of members of a finite set one has no other inside it.
LEMMA MinimalSet ==
    ASSUME NEW S, IsFiniteSet(S), NEW B \in SUBSET SUBSET S, B # {}
    PROVE  \E s \in B : \A r \in B : r \subseteq s => r = s
<1> DEFINE T == {Cardinality(s) : s \in B}
<1>1. \A s \in B : IsFiniteSet(s) /\ Cardinality(s) \in Nat
  BY FS_Subset, FS_CardinalityType
<1>2. T \in SUBSET Nat /\ T # {}
  BY <1>1
<1>3. PICK m \in T : \A n \in T : ~(n < m)
  BY <1>2, LeastOf
<1>4. PICK s \in B : m = Cardinality(s)
  BY <1>3
<1>5. ASSUME NEW r \in B, r \subseteq s PROVE r = s
  <2>1. Cardinality(r) \in T /\ Cardinality(r) \in Nat /\ Cardinality(s) \in Nat
    BY <1>1
  <2>2. Cardinality(r) <= Cardinality(s) /\ (Cardinality(s) = Cardinality(r) => s = r)
    BY <1>1, <1>5, FS_Subset
  <2> QED  BY <1>3, <1>4, <2>1, <2>2
<1> QED  BY <1>4, <1>5

\* The sum takes the members of a set in the order in which CHOOSE finds them.
Pick(s) == CHOOSE x \in s : TRUE
SumAt(f, g, s) == IF s = {} THEN 0 ELSE f[Pick(s)] + g[s \ {Pick(s)}]
Adds(f, D, g) == g = [s \in D |-> SumAt(f, g, s)]

LEMMA PickIn == \A s : s # {} => Pick(s) \in s
  BY DEF Pick

LEMMA SumIsOf ==
    ASSUME NEW f, NEW S
    PROVE  SumFunctionOnSet(f, S) = (CHOOSE g : Adds(f, SUBSET S, g))[S]
BY DEF SumFunctionOnSet, FoldFunctionOnSet, MapThenFoldSet, Adds, SumAt, Pick

UpTo(S, n) == {s \in SUBSET S : Cardinality(s) <= n}

LEMMA AdderExists ==
    ASSUME NEW f, NEW S, IsFiniteSet(S)
    PROVE  \E g : Adds(f, SUBSET S, g)
<1>f. \A s \in SUBSET S : IsFiniteSet(s) /\ Cardinality(s) \in Nat
  BY FS_Subset, FS_CardinalityType
<1> DEFINE T == {n \in Nat : ~\E g : Adds(f, UpTo(S, n), g)}
<1>1. SUFFICES T = {}
  <2>1. Cardinality(S) \in Nat /\ UpTo(S, Cardinality(S)) = SUBSET S
    BY FS_Subset, FS_CardinalityType DEF UpTo
  <2>2. \E g : Adds(f, UpTo(S, Cardinality(S)), g)
    BY <1>1, <2>1
  <2> QED  BY <2>1, <2>2
<1>2. SUFFICES ASSUME T # {} PROVE FALSE
  OBVIOUS
<1>3. PICK n \in T : \A m \in T : ~(m < n)
  <2>1. T \in SUBSET Nat
    OBVIOUS
  <2> QED  BY <1>2, <2>1, LeastOf
<1>4. n \in Nat /\ \A g : ~Adds(f, UpTo(S, n), g)
  BY <1>3
<1>5. CASE n = 0
  <2>1. \A s \in UpTo(S, 0) : s = {}
    BY <1>f, FS_EmptySet DEF UpTo
  <2> DEFINE g == [s \in UpTo(S, 0) |-> 0]
  <2>2. g = [s \in UpTo(S, 0) |-> SumAt(f, g, s)]
    BY <2>1 DEF SumAt
  <2> QED  BY <1>4, <1>5, <2>2 DEF Adds
<1>6. CASE n # 0
  <2>1. n - 1 \in Nat /\ n - 1 < n /\ n - 1 \notin T
    BY <1>3, <1>4, <1>6
  <2>2. PICK g : Adds(f, UpTo(S, n - 1), g)
    BY <2>1
  <2> DEFINE h == [s \in UpTo(S, n) |-> SumAt(f, g, s)]
  <2>3. ASSUME NEW s \in UpTo(S, n) PROVE SumAt(f, g, s) = SumAt(f, h, s)
    <3>1. CASE s = {}
      BY <3>1 DEF SumAt
    <3>2. CASE s # {}
      <4> DEFINE r == s \ {Pick(s)}
      <4>1. Pick(s) \in s /\ s \in SUBSET S /\ Cardinality(s) <= n
        BY <3>2, PickIn DEF UpTo
      <4>2. r \in SUBSET S /\ Cardinality(r) = Cardinality(s) - 1
        BY <1>f, <4>1, FS_RemoveElement
      <4>3. r \in UpTo(S, n - 1) /\ r \in UpTo(S, n)
        BY <1>f, <1>4, <4>1, <4>2 DEF UpTo
      <4>4. g[r] = SumAt(f, g, r) /\ h[r] = SumAt(f, g, r)
        BY <2>2, <4>3 DEF Adds
      <4> QED  BY <3>2, <4>4 DEF SumAt
    <3> QED  BY <3>1, <3>2
  <2>4. Adds(f, UpTo(S, n), h)
    BY <2>3 DEF Adds
  <2> QED  BY <1>4, <2>4
<1> QED  BY <1>5, <1>6

LEMMA SumUnfolds ==
    ASSUME NEW f, NEW S, IsFiniteSet(S)
    PROVE  /\ S = {} => SumFunctionOnSet(f, S) = 0
           /\ S # {} => SumFunctionOnSet(f, S) =
                            f[Pick(S)] + SumFunctionOnSet(f, S \ {Pick(S)})
<1> DEFINE R == S \ {Pick(S)}
<1>1. IsFiniteSet(R) /\ R \in SUBSET S
  BY FS_Subset
<1>2. PICK g : g = CHOOSE h : Adds(f, SUBSET S, h)
  OBVIOUS
<1>3. PICK e : e = CHOOSE h : Adds(f, SUBSET R, h)
  OBVIOUS
<1>4. Adds(f, SUBSET S, g) /\ Adds(f, SUBSET R, e)
  BY <1>1, <1>2, <1>3, AdderExists
<1>5. /\ \A s \in SUBSET S : g[s] = SumAt(f, g, s)
      /\ \A s \in SUBSET R : e[s] = SumAt(f, e, s)
  BY <1>4 DEF Adds
<1>6. SumFunctionOnSet(f, S) = g[S] /\ SumFunctionOnSet(f, R) = e[R]
  BY <1>2, <1>3, SumIsOf
<1>7. \A s \in SUBSET R : g[s] = e[s]
  <2> DEFINE B == {s \in SUBSET R : g[s] # e[s]}
  <2>1. SUFFICES ASSUME B # {} PROVE FALSE
    OBVIOUS
  <2>2. PICK s \in B : \A r \in B : r \subseteq s => r = s
    <3>1. B \in SUBSET SUBSET R
      OBVIOUS
    <3> HIDE DEF B
    <3> QED  BY <1>1, <2>1, <3>1, MinimalSet
  <2>3. s \in SUBSET R /\ s \in SUBSET S /\ g[s] # e[s]
    BY <1>1, <2>2
  <2>4. s # {} => g[s \ {Pick(s)}] = e[s \ {Pick(s)}]
    BY <2>2, <2>3, PickIn
  <2> QED  BY <1>5, <2>3, <2>4 DEF SumAt
<1> QED  BY <1>1, <1>5, <1>6, <1>7 DEF SumAt

LEMMA SumOf ==
    ASSUME NEW S, IsFiniteSet(S), NEW f, \A x \in S : f[x] \in Int
    PROVE  /\ SumFunctionOnSet(f, S) \in Int
           /\ \A x \in S : SumFunctionOnSet(f, S) = f[x] + SumFunctionOnSet(f, S \ {x})
<1> DEFINE Sum(s) == SumFunctionOnSet(f, s)
           Ok(s) == Sum(s) \in Int /\ \A x \in s : Sum(s) = f[x] + Sum(s \ {x})
           B == {s \in SUBSET S : ~Ok(s)}
<1>1. SUFFICES ASSUME B # {} PROVE FALSE
  <2>1. Ok(S)
    BY <1>1
  <2> QED  BY <2>1
<1>2. PICK s \in B : \A r \in B : r \subseteq s => r = s
  <2>1. B \in SUBSET SUBSET S
    OBVIOUS
  <2> HIDE DEF B
  <2> QED  BY <1>1, <2>1, MinimalSet
<1>3. /\ s \in SUBSET S /\ IsFiniteSet(s) /\ ~Ok(s)
      /\ \A r \in SUBSET s : r # s => Ok(r)
  BY <1>2, FS_Subset
<1> HIDE DEF B
<1>4. CASE s = {}
  <2>1. Sum(s) = 0
    BY <1>3, <1>4, SumUnfolds
  <2> QED  BY <1>3, <1>4, <2>1
<1>5. CASE s # {}
  <2> DEFINE y == Pick(s)
  <2>1. y \in s /\ Sum(s) = f[y] + Sum(s \ {y}) /\ f[y] \in Int
    BY <1>3, <1>5, SumUnfolds, PickIn
  <2>2. Ok(s \ {y})
    BY <1>3, <2>1
  <2>3. Sum(s) \in Int
    BY <2>1, <2>2
  <2>4. ASSUME NEW x \in s PROVE Sum(s) = f[x] + Sum(s \ {x})
    <3>1. CASE x = y
      BY <2>1, <3>1
    <3>2. CASE x # y
      <4> DEFINE r == s \ {x, y}
      <4>1. (s \ {y}) \ {x} = r /\ (s \ {x}) \ {y} = r
        OBVIOUS
      <4>2. Sum(s \ {y}) = f[x] + Sum(r)
        BY <2>2, <3>2, <4>1
      <4>3. Ok(s \ {x}) /\ Ok(r)
        BY <1>3
      <4>4. Sum(s \ {x}) = f[y] + Sum(r)
        BY <2>1, <3>2, <4>1, <4>3
      <4>5. f[x] \in Int /\ f[y] \in Int /\ Sum(r) \in Int
        BY <1>3, <2>1, <4>3
      <4> HIDE DEF Sum, r, y
      <4> QED  BY <2>1, <4>2, <4>4, <4>5
    <3> QED  BY <3>1, <3>2
  <2> QED  BY <1>3, <2>3, <2>4
<1> QED  BY <1>4, <1>5

\* Two sums are equal when each term of one is a term of the other or zero.
TermsMatch(f, I, g, L, lab) ==
    /\ IsFiniteSet(I) /\ IsFiniteSet(L)
    /\ \A i \in I : f[i] \in Int
    /\ \A i \in I : lab[i] \in L /\ g[lab[i]] = f[i]
    /\ \A i, j \in I : lab[i] = lab[j] => i = j
    /\ \A l \in L : g[l] = 0 \/ \E i \in I : lab[i] = l

LEMMA SumsMatch ==
    ASSUME NEW f, NEW I, NEW g, NEW L, NEW lab, TermsMatch(f, I, g, L, lab)
    PROVE  SumFunctionOnSet(f, I) = SumFunctionOnSet(g, L)
<1> USE DEF TermsMatch
<1> DEFINE Of(s) == {i \in I : lab[i] \in s}
           B == {s \in SUBSET L : SumFunctionOnSet(g, s) # SumFunctionOnSet(f, Of(s))}
<1>1. SUFFICES ASSUME B # {} PROVE FALSE
  <2>1. Of(L) = I
    OBVIOUS
  <2>2. SumFunctionOnSet(g, L) = SumFunctionOnSet(f, Of(L))
    BY <1>1
  <2> QED  BY <2>1, <2>2
<1>2. PICK s \in B : \A r \in B : r \subseteq s => r = s
  <2>1. B \in SUBSET SUBSET L
    OBVIOUS
  <2> HIDE DEF B
  <2> QED  BY <1>1, <2>1, MinimalSet
<1>3. /\ s \in SUBSET L /\ IsFiniteSet(s)
      /\ SumFunctionOnSet(g, s) # SumFunctionOnSet(f, Of(s))
      /\ \A r \in SUBSET s : r # s =>
            SumFunctionOnSet(g, r) = SumFunctionOnSet(f, Of(r))
  BY <1>2, FS_Subset
<1>4. IsFiniteSet(Of(s)) /\ Of(s) \subseteq I
  BY FS_Subset
<1>g. \A l \in L : g[l] \in Int
  OBVIOUS
<1> HIDE DEF B
<1>5. CASE s = {}
  <2>1. Of(s) = {}
    BY <1>5
  <2> QED  BY <1>3, <1>4, <1>5, <2>1, SumUnfolds
<1>6. CASE s # {}
  <2>1. PICK x : x \in s
    BY <1>6
  <2>2. SumFunctionOnSet(g, s) = g[x] + SumFunctionOnSet(g, s \ {x})
    BY <1>3, <1>g, <2>1, SumOf
  <2>3. SumFunctionOnSet(g, s \ {x}) = SumFunctionOnSet(f, Of(s \ {x}))
    BY <1>3, <2>1
  <2>4. SumFunctionOnSet(f, Of(s)) \in Int
    BY <1>4, SumOf
  <2>5. CASE \E i \in I : lab[i] = x
    <3>1. PICK i \in I : lab[i] = x
      BY <2>5
    <3>2. i \in Of(s) /\ Of(s) \ {i} = Of(s \ {x}) /\ g[x] = f[i]
      BY <2>1, <3>1
    <3>3. SumFunctionOnSet(f, Of(s)) = f[i] + SumFunctionOnSet(f, Of(s) \ {i})
      BY <1>4, <3>2, SumOf
    <3> QED  BY <1>3, <2>2, <2>3, <3>2, <3>3
  <2>6. CASE ~\E i \in I : lab[i] = x
    <3>1. g[x] = 0 /\ Of(s \ {x}) = Of(s)
      BY <1>3, <2>1, <2>6
    <3>2. SumFunctionOnSet(g, s) = 0 + SumFunctionOnSet(f, Of(s))
      BY <2>2, <2>3, <3>1
    <3> HIDE DEF Of
    <3> QED  BY <1>3, <2>4, <3>2
  <2> QED  BY <2>5, <2>6
<1> QED  BY <1>5, <1>6

\* One sum is below another when each term of it has one of its own above it.
TermsBelow(f, I, g, L, lab) ==
    /\ IsFiniteSet(I) /\ IsFiniteSet(L)
    /\ \A i \in I : f[i] \in Int /\ lab[i] \in L /\ f[i] <= g[lab[i]]
    /\ \A i, j \in I : lab[i] = lab[j] => i = j
    /\ \A l \in L : g[l] \in Nat

LEMMA SumsBelow ==
    ASSUME NEW f, NEW I, NEW g, NEW L, NEW lab, TermsBelow(f, I, g, L, lab)
    PROVE  SumFunctionOnSet(f, I) <= SumFunctionOnSet(g, L)
<1> USE DEF TermsBelow
<1> DEFINE Of(s) == {i \in I : lab[i] \in s}
           B == {s \in SUBSET L : ~(SumFunctionOnSet(f, Of(s)) <= SumFunctionOnSet(g, s))}
<1>1. SUFFICES ASSUME B # {} PROVE FALSE
  <2>1. Of(L) = I
    OBVIOUS
  <2>2. SumFunctionOnSet(f, Of(L)) <= SumFunctionOnSet(g, L)
    BY <1>1
  <2> QED  BY <2>1, <2>2
<1>2. PICK s \in B : \A r \in B : r \subseteq s => r = s
  <2>1. B \in SUBSET SUBSET L
    OBVIOUS
  <2> HIDE DEF B
  <2> QED  BY <1>1, <2>1, MinimalSet
<1>3. /\ s \in SUBSET L /\ IsFiniteSet(s)
      /\ ~(SumFunctionOnSet(f, Of(s)) <= SumFunctionOnSet(g, s))
      /\ \A r \in SUBSET s : r # s =>
            SumFunctionOnSet(f, Of(r)) <= SumFunctionOnSet(g, r)
  BY <1>2, FS_Subset
<1>4. \A r \in SUBSET L : IsFiniteSet(r) /\ IsFiniteSet(Of(r)) /\ Of(r) \subseteq I
  BY FS_Subset
<1>g. \A l \in L : g[l] \in Int
  OBVIOUS
<1> HIDE DEF B
<1>5. CASE s = {}
  <2>1. Of(s) = {}
    BY <1>5
  <2>2. SumFunctionOnSet(f, Of(s)) = 0 /\ SumFunctionOnSet(g, s) = 0
    BY <1>3, <1>4, <1>5, <2>1, SumUnfolds
  <2> QED  BY <1>3, <2>2
<1>6. CASE s # {}
  <2>1. PICK x : x \in s
    BY <1>6
  <2>2. SumFunctionOnSet(g, s) = g[x] + SumFunctionOnSet(g, s \ {x}) /\ g[x] \in Nat
    BY <1>3, <1>g, <2>1, SumOf
  <2>3. SumFunctionOnSet(f, Of(s \ {x})) <= SumFunctionOnSet(g, s \ {x})
    BY <1>3, <2>1
  <2>4. /\ SumFunctionOnSet(f, Of(s)) \in Int /\ SumFunctionOnSet(f, Of(s \ {x})) \in Int
        /\ SumFunctionOnSet(g, s \ {x}) \in Int
    <3>1. s \ {x} \in SUBSET L
      BY <1>3
    <3> QED  BY <1>3, <1>4, <1>g, <3>1, SumOf
  <2>5. CASE \E i \in I : lab[i] = x
    <3>1. PICK i \in I : lab[i] = x
      BY <2>5
    <3>2. i \in Of(s) /\ Of(s) \ {i} = Of(s \ {x}) /\ f[i] <= g[x] /\ f[i] \in Int
      BY <2>1, <3>1
    <3>3. SumFunctionOnSet(f, Of(s)) = f[i] + SumFunctionOnSet(f, Of(s) \ {i})
      BY <1>3, <1>4, <3>2, SumOf
    <3>4. SumFunctionOnSet(f, Of(s)) = f[i] + SumFunctionOnSet(f, Of(s \ {x}))
      BY <3>2, <3>3
    <3>5. f[i] \in Int /\ f[i] <= g[x]
      BY <3>2
    <3> HIDE DEF Of, TermsBelow
    <3> QED  BY <1>3, <2>2, <2>3, <2>4, <3>4, <3>5
  <2>6. CASE ~\E i \in I : lab[i] = x
    <3>1. Of(s \ {x}) = Of(s)
      BY <1>3, <2>1, <2>6
    <3> HIDE DEF Of
    <3> QED  BY <1>3, <2>2, <2>3, <2>4, <3>1
  <2> QED  BY <2>5, <2>6
<1> QED  BY <1>5, <1>6

-----------------------------------------------------------------------------
(* The table *)

\* A counter has not gone down since Ctrl-C, neither has its row.
AtReadOK ==
    /\ IsFiniteSet(DOMAIN counters) /\ DOMAIN atRead \subseteq DOMAIN counters
    /\ \A x \in DOMAIN atRead : atRead[x] \in Nat /\ atRead[x] <= counters[x].count
    /\ \A i \in 1 .. Len(report) :
         report[i].key \in DOMAIN atRead => atRead[report[i].key] <= report[i].count

\* The rows are those of different counters, and none that was there is missing.
RowsAreAll ==
    /\ \A i, j \in 1 .. Len(report) : report[i].key = report[j].key => i = j
    /\ phase = "done" => DOMAIN atRead \subseteq RowKeys
    /\ phase \in {"attach", "sleep"} => report = <<>>
TableInv == RowsInv /\ AtReadOK /\ RowsAreAll

LEMMA TableInit == SysInit => TableInv
<1> SUFFICES ASSUME SysInit PROVE TableInv
  OBVIOUS
<1>1. /\ report = <<>> /\ Len(report) = 0 /\ phase # "done"
      /\ DOMAIN counters = {} /\ DOMAIN atRead = {}
  BY DEF SysInit
<1>2. RowsInv /\ IsFiniteSet({})
  BY RowsInit, FS_EmptySet
<1> QED  BY <1>1, <1>2 DEF TableInv, AtReadOK, RowsAreAll

\* What the two facts about the rows need of a step that leaves the rows alone.
LEMMA SameRows ==
    ASSUME TableInv, RowsInv', UNCHANGED <<report, atRead>>, [SysNext]_sysVars,
           phase' = "done" => phase = "done" \/ DOMAIN atRead \subseteq RowKeys,
           phase' \in {"attach", "sleep"} => phase \in {"attach", "sleep"}
    PROVE  TableInv'
<1>1. RowsAreAll'
  BY DEF TableInv, RowsAreAll, RowKeys
<1>2. IsFiniteSet(DOMAIN counters')
  <2>1. PICK x : DOMAIN counters' = DOMAIN counters \/ DOMAIN counters' = DOMAIN counters \cup {x}
    BY CounterMoves DEF TableInv, RowsInv
  <2> QED  BY <2>1, FS_AddElement DEF TableInv, AtReadOK
<1>3. ASSUME NEW x \in DOMAIN atRead
      PROVE  x \in DOMAIN counters' /\ atRead[x] \in Nat /\ atRead[x] <= counters'[x].count
  <2>1. x \in DOMAIN counters /\ atRead[x] \in Nat /\ atRead[x] <= counters[x].count
    BY DEF TableInv, AtReadOK
  <2>2. x \in DOMAIN counters' /\ counters[x].count <= counters'[x].count
    BY <2>1, CounterGrows DEF TableInv, RowsInv
  <2>3. counters[x].count \in Nat /\ counters'[x].count \in Nat
    BY <2>1, <2>2 DEF TableInv, RowsInv, SysType
  <2> QED  BY <2>1, <2>2, <2>3
<1> QED  BY <1>1, <1>2, <1>3 DEF TableInv, AtReadOK

LEMMA TableStep == TableInv /\ [SysNext]_sysVars => TableInv'
<1> SUFFICES ASSUME TableInv, [SysNext]_sysVars PROVE TableInv'
  OBVIOUS
<1>a. RowsInv /\ RowsInv' /\ SysType /\ RowsKept /\ Len(report) \in Nat
  BY RowsInvStep DEF TableInv, RowsInv, RowsKept
<1>1. ASSUME NEW x \in DOMAIN counters, ReadKey(x) PROVE TableInv'
  <2>1. PICK r \in Row :
            /\ r.key = x /\ r.count = counters[x].count /\ r.time = counters[x].time
            /\ r.last = "none" /\ counters' = counters
            /\ report' \in Seq(Row) /\ Len(report') = Len(report) + 1 /\ Len(report) \in Nat
            /\ \A i \in 1 .. Len(report) : report'[i] = report[i]
            /\ report'[Len(report) + 1] = r
            /\ \A i \in 1 .. Len(report') : i \in 1 .. Len(report) \/ i = Len(report) + 1
    BY <1>1, <1>a, RowRead
  <2>2. x \notin RowKeys /\ phase' = "read" /\ atRead' = atRead
    BY <1>1 DEF ReadKey
  <2>3. \A i \in 1 .. Len(report) : report[i].key # r.key
    BY <2>1, <2>2 DEF RowKeys
  <2>4. \A i, j \in 1 .. Len(report') : report'[i].key = report'[j].key => i = j
    BY <2>1, <2>3 DEF TableInv, RowsAreAll
  <2>5. AtReadOK'
    BY <2>1, <2>2 DEF TableInv, AtReadOK
  <2> QED  BY <1>a, <2>2, <2>4, <2>5 DEF TableInv, RowsAreAll
<1>2. CASE CopyRest
  <2>n. PICK n, x : n = Len(report) /\ x = report[n].key
    OBVIOUS
  <2>1. PICK r \in Row :
            /\ n \in 1 .. Len(report) /\ report[n] \in Row /\ x \in DOMAIN counters
            /\ report' = [report EXCEPT ![n] = r] /\ r.key = x
            /\ \/ r.last = "count" /\ r.count = counters[x].count /\ r.time = report[n].time
               \/ r.last = "time" /\ r.time = counters[x].time /\ r.count = report[n].count
            /\ copying' = "none" /\ counters' = counters /\ report' \in Seq(Row)
            /\ Len(report') = Len(report)
    BY <1>2, <1>a, <2>n, RestCopied
  <2>2. phase' = phase /\ atRead' = atRead
    BY <1>2 DEF CopyRest
  <2>3. /\ \A i \in 1 .. Len(report) : i # n => report'[i] = report[i]
        /\ report'[n] = r
    BY <1>a, <2>1 DEF RowsKept
  <2>4. \A i \in 1 .. Len(report) : report'[i].key = report[i].key
    BY <2>n, <2>1, <2>3
  <2>5. \A i \in 1 .. Len(report) : report'[i].key \in DOMAIN atRead =>
           atRead[report'[i].key] <= report'[i].count
    BY <2>n, <2>1, <2>3 DEF TableInv, AtReadOK
  <2>6. AtReadOK'
    BY <2>1, <2>2, <2>5 DEF TableInv, AtReadOK
  <2>7. RowsAreAll'
    <3>1. RowKeys' = RowKeys
      BY <2>1, <2>4 DEF RowKeys
    <3>2. report # <<>>
      BY <2>1
    <3> QED  BY <2>1, <2>2, <2>4, <3>1, <3>2 DEF TableInv, RowsAreAll
  <2> QED  BY <1>a, <2>6, <2>7 DEF TableInv
<1>3. CASE Interrupt
  <2>1. /\ report' = report /\ report = <<>> /\ counters' = counters
        /\ phase' = "read" /\ atRead' = CountsNow
    BY <1>3 DEF Interrupt, TableInv, RowsAreAll, mapVars
  <2>2. /\ DOMAIN CountsNow = DOMAIN counters
        /\ \A x \in DOMAIN counters : CountsNow[x] = counters[x].count /\ CountsNow[x] \in Nat
    BY <1>a DEF CountsNow, SysType
  <2>3. Len(report') = 0
    BY <2>1
  <2> QED  BY <1>a, <2>1, <2>2, <2>3 DEF TableInv, AtReadOK, RowsAreAll
<1>4. CASE ReadEnd
  BY <1>a, <1>4, SameRows DEF ReadEnd
<1>5. CASE Attach
  BY <1>a, <1>5, SameRows DEF Attach
<1>6. ASSUME NEW t \in Live,
             Exit(t) \/ Lookup(t) \/ Insert(t) \/ AddTime(t) \/ AddCount(t)
      PROVE  TableInv'
  BY <1>a, <1>6, SameRows DEF Exit, Lookup, Insert, AddTime, AddCount, mainVars
<1>7. ASSUME NEW t \in Live, NEW op \in OpNames, NEW file \in Found(op),
             Enter(t, op, file)
      PROVE  TableInv'
  BY <1>a, <1>7, SameRows DEF Enter, mainVars
<1>8. ASSUME NEW t \in Live, NEW c \in Threads, NEW process \in BOOLEAN,
             Clone(t, c, process)
      PROVE  TableInv'
  BY <1>a, <1>8, SameRows DEF Clone, mainVars
<1>9. CASE UNCHANGED sysVars
  BY <1>a, <1>9, SameRows DEF sysVars, mainVars
<1> QED  BY <1>1, <1>2, <1>3, <1>4, <1>5, <1>6, <1>7, <1>8, <1>9 DEF SysNext

\* The labels of the table are those of all rows.
LEMMA AllLabels ==
    ASSUME TableInv
    PROVE  pid_list = {LabelOf(report[i]) : i \in 1 .. Len(report)}
<1>1. ASSUME NEW i \in 1 .. Len(report) PROVE LabelOf(report[i]) \in pid_list
  <2> DEFINE T == {j \in 1 .. Len(report) : LabelOf(report[j]) = LabelOf(report[i])}
  <2>1. T \in SUBSET Nat /\ i \in T
    OBVIOUS
  <2>2. PICK m \in T : \A j \in T : ~(j < m)
    BY <2>1, LeastOf
  <2>3. Len(report) \in Nat
    BY DEF TableInv, RowsInv, RowsKept
  <2>4. \A j \in 1 .. m - 1 : j \in 1 .. Len(report) /\ j < m
    BY <2>2, <2>3
  <2>5. m \in FirstOf(LabelOf)
    BY <2>2, <2>4 DEF FirstOf
  <2> QED  BY <2>2, <2>5 DEF pid_list
<1>2. FirstOf(LabelOf) \subseteq 1 .. Len(report)
  BY DEF FirstOf
<1> QED  BY <1>1, <1>2 DEF pid_list

\* A label has at most one row for a syscall.
LEMMA OneRow ==
    ASSUME TableInv, NEW op, NEW i \in 1 .. Len(report), report[i].key.op = op
    PROVE  /\ RowsAt(LabelOf(report[i]), op) = {i}
           /\ Cell(LabelOf(report[i]), op) = report[i].count
<1> DEFINE R == RowsAt(LabelOf(report[i]), op)
<1>0. \A j \in 1 .. Len(report) : report[j] \in Row
  BY DEF TableInv, RowsInv, RowsKept
<1>1. \A j \in 1 .. Len(report) : report[j].key \in Keys
  BY <1>0 DEF Row
<1>2. ASSUME NEW j \in R PROVE j = i
  <2>1. /\ j \in 1 .. Len(report) /\ report[j].key.op = op
        /\ report[j].key.pid = report[i].key.pid
        /\ report[j].key.command = report[i].key.command
    BY <1>2 DEF RowsAt, LabelOf
  <2>2. report[j].key = report[i].key
    BY <1>1, <2>1 DEF Keys
  <2> QED  BY <2>1, <2>2 DEF TableInv, RowsAreAll
<1>3. R = {i}
  BY <1>2 DEF RowsAt
<1>4. (CHOOSE j \in R : \A n \in R : n <= j) = i
  BY <1>3
<1> QED  BY <1>3, <1>4 DEF Cell

\* The rows of a syscall, and their counts.
RowsOf(op) == {i \in 1 .. Len(report) : report[i].key.op = op}
RowCounts == [i \in 1 .. Len(report) |-> report[i].count]

LEMMA RowsOfFacts ==
    ASSUME TableInv, NEW op
    PROVE  /\ IsFiniteSet(1 .. Len(report)) /\ IsFiniteSet(RowsOf(op))
           /\ \A i \in 1 .. Len(report) : report[i] \in Row /\ RowCounts[i] = report[i].count
                                          /\ report[i].count \in Nat
<1>1. Len(report) \in Nat /\ \A i \in 1 .. Len(report) : report[i] \in Row
  BY DEF TableInv, RowsInv, RowsKept
<1>2. IsFiniteSet(1 .. Len(report)) /\ RowsOf(op) \in SUBSET (1 .. Len(report))
  BY <1>1, FS_Interval DEF RowsOf
<1>3. IsFiniteSet(RowsOf(op))
  BY <1>2, FS_Subset
<1> QED  BY <1>1, <1>2, <1>3 DEF Row, RowCounts

\* The total and the sum of the cells of a column both are the sum of its rows.
LEMMA ShownIsSum ==
    ASSUME TableInv, NEW op
    PROVE  /\ total_op_list(op) = SumFunctionOnSet(RowCounts, RowsOf(op))
           /\ SumFunctionOnSet([l \in pid_list |-> Cell(l, op)], pid_list) =
                 SumFunctionOnSet(RowCounts, RowsOf(op))
<1> DEFINE g == [l \in pid_list |-> Cell(l, op)]
           lab == [i \in 1 .. Len(report) |-> LabelOf(report[i])]
<1>1. pid_list = {lab[i] : i \in 1 .. Len(report)}
  BY AllLabels
<1>2. IsFiniteSet(pid_list)
  <2>1. lab \in Surjection(1 .. Len(report), pid_list)
    BY <1>1 DEF Surjection
  <2> QED  BY <2>1, RowsOfFacts, FS_Surjection
<1>3. UNION {RowsAt(l, op) : l \in pid_list} = RowsOf(op)
  BY <1>1 DEF RowsAt, RowsOf
<1>4. \A i \in RowsOf(op) : RowCounts[i] \in Int /\ lab[i] \in pid_list /\ g[lab[i]] = RowCounts[i]
  <2> SUFFICES ASSUME NEW i \in RowsOf(op)
               PROVE  RowCounts[i] \in Int /\ lab[i] \in pid_list /\ g[lab[i]] = RowCounts[i]
    OBVIOUS
  <2>1. i \in 1 .. Len(report) /\ report[i].key.op = op
    BY DEF RowsOf
  <2>2. lab[i] \in pid_list /\ Cell(LabelOf(report[i]), op) = report[i].count
    BY <1>1, <2>1, OneRow
  <2> QED  BY <2>1, <2>2, RowsOfFacts
<1>5. \A i, j \in RowsOf(op) : lab[i] = lab[j] => i = j
  <2> SUFFICES ASSUME NEW i \in RowsOf(op), NEW j \in RowsOf(op), lab[i] = lab[j] PROVE i = j
    OBVIOUS
  <2>1. RowsAt(lab[i], op) = {i} /\ RowsAt(lab[j], op) = {j}
    BY OneRow DEF RowsOf
  <2> QED  BY <2>1
<1>6. \A l \in pid_list : g[l] = 0 \/ \E i \in RowsOf(op) : lab[i] = l
  BY DEF Cell, RowsAt, RowsOf
<1>7. IsFiniteSet(RowsOf(op))
  BY RowsOfFacts
<1> HIDE DEF g, lab
<1>8. TermsMatch(RowCounts, RowsOf(op), g, pid_list, lab)
  BY <1>2, <1>4, <1>5, <1>6, <1>7 DEF TermsMatch
<1>9. SumFunctionOnSet(RowCounts, RowsOf(op)) = SumFunctionOnSet(g, pid_list)
  BY <1>8, SumsMatch
<1> QED  BY <1>3, <1>9 DEF total_op_list, RowCounts, g

\* Every counter that was there at Ctrl-C has a row, and its count is not below it.
LEMMA ShownAtLeast ==
    ASSUME TableInv, phase = "done", NEW op
    PROVE  CountOf(atRead, op) <= SumFunctionOnSet(RowCounts, RowsOf(op))
<1> DEFINE K == {x \in DOMAIN atRead : x.op = op}
           lab == [x \in K |-> CHOOSE i \in 1 .. Len(report) : report[i].key = x]
<1>1. ASSUME NEW x \in K
      PROVE  /\ lab[x] \in RowsOf(op) /\ report[lab[x]].key = x
             /\ atRead[x] \in Int /\ atRead[x] <= RowCounts[lab[x]]
  <2>1. \E i \in 1 .. Len(report) : report[i].key = x
    BY DEF TableInv, RowsAreAll, RowKeys
  <2>2. lab[x] \in 1 .. Len(report) /\ report[lab[x]].key = x
    BY <2>1
  <2>3. RowCounts[lab[x]] = report[lab[x]].count /\ report[lab[x]].count \in Nat
    BY <2>2, RowsOfFacts
  <2>4. atRead[x] \in Nat /\ atRead[x] <= report[lab[x]].count
    BY <2>2 DEF TableInv, AtReadOK
  <2>5. lab[x] \in RowsOf(op)
    BY <2>2 DEF RowsOf
  <2> QED  BY <2>2, <2>3, <2>4, <2>5
<1>2. IsFiniteSet(K)
  <2>1. K \in SUBSET DOMAIN counters /\ IsFiniteSet(DOMAIN counters)
    BY DEF TableInv, AtReadOK
  <2> QED  BY <2>1, FS_Subset
<1>3. IsFiniteSet(RowsOf(op)) /\ \A i \in RowsOf(op) : RowCounts[i] \in Nat
  BY RowsOfFacts DEF RowsOf
<1>4. CountOf(atRead, op) = SumFunctionOnSet(atRead, K)
  BY DEF CountOf
<1> HIDE DEF K, lab
<1>5. TermsBelow(atRead, K, RowCounts, RowsOf(op), lab)
  BY <1>1, <1>2, <1>3 DEF TermsBelow
<1> QED  BY <1>4, <1>5, SumsBelow

\* A row is that of one counter, and its count is not above it.
LEMMA ShownAtMost ==
    ASSUME TableInv, NEW op
    PROVE  SumFunctionOnSet(RowCounts, RowsOf(op)) <= CountOf(CountsNow, op)
<1> DEFINE K == {x \in DOMAIN CountsNow : x.op = op}
           lab == [i \in 1 .. Len(report) |-> report[i].key]
<1>1. /\ DOMAIN CountsNow = DOMAIN counters
      /\ \A x \in DOMAIN counters : CountsNow[x] = counters[x].count /\ CountsNow[x] \in Nat
  BY DEF CountsNow, TableInv, RowsInv, SysType
<1>2. ASSUME NEW i \in RowsOf(op)
      PROVE  RowCounts[i] \in Int /\ lab[i] \in K /\ RowCounts[i] <= CountsNow[lab[i]]
  <2>1. i \in 1 .. Len(report) /\ lab[i] = report[i].key /\ report[i].key.op = op
    BY DEF RowsOf
  <2>2. lab[i] \in DOMAIN counters /\ report[i].count <= counters[lab[i]].count
    BY <2>1 DEF TableInv, RowsInv, RowsKept
  <2> QED  BY <1>1, <2>1, <2>2, RowsOfFacts
<1>3. \A i, j \in RowsOf(op) : lab[i] = lab[j] => i = j
  BY DEF RowsOf, TableInv, RowsAreAll
<1>4. IsFiniteSet(K) /\ IsFiniteSet(RowsOf(op)) /\ \A x \in K : CountsNow[x] \in Nat
  <2>1. K \in SUBSET DOMAIN counters /\ IsFiniteSet(DOMAIN counters)
    BY <1>1 DEF TableInv, AtReadOK
  <2> QED  BY <1>1, <2>1, RowsOfFacts, FS_Subset
<1>5. CountOf(CountsNow, op) = SumFunctionOnSet(CountsNow, K)
  BY DEF CountOf
<1> HIDE DEF K, lab
<1>6. TermsBelow(RowCounts, RowsOf(op), CountsNow, K, lab)
  BY <1>2, <1>3, <1>4 DEF TermsBelow
<1> QED  BY <1>5, <1>6, SumsBelow

\* When the labels fit their array, every column of the table shows a number of calls
\* between the one counted at Ctrl-C and the one counted when it is printed, and its
\* total is the sum of its cells: get_values_from_counter_map reads each counter once
\* and misses none that was there, and print_results shows one row in a cell.
THEOREM TableShowsAll == SysSpec => []TableIsRight
<1>1. TableInv => TableIsRight
  BY ShownIsSum, ShownAtLeast, ShownAtMost DEF TableIsRight
<1> QED  BY TableInit, TableStep, <1>1, PTL DEF SysSpec
=============================================================================
