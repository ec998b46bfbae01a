----------------------------- MODULE CacheStat ------------------------------
(***************************************************************************)
(* The page cache monitor (src/bpf_programs/cachestat): main() chooses,    *)
(* from what the kernel has, which eBPF programs to load; the programs add *)
(* to three counters on every CPU; main() takes the counters once per      *)
(* interval with three separate exchanges, shows hits and misses and adds  *)
(* them to the totals that the JSON file gets at the end.                  *)
(*                                                                         *)
(* A kernel is the functions and tracepoints it has and whether fentry     *)
(* works on it.  A page function that exists beside the folio function     *)
(* replacing it is a wrapper that calls it.  A program is <<how, where>>.  *)
(***************************************************************************)
EXTENDS Integers, FiniteSets

CONSTANTS
    Threads,    \* processes of one thread each, traced and others
    Traced,     \* the ones given with --pids
    Kernels,    \* kernels to try
    U64,        \* 2^64, as far as a wrapped total must be recognised
    MaxEvents,  \* bound: page cache events
    Intervals   \* env.times

Lru == <<"folio_add_lru", "add_to_page_cache_lru">>
Accessed == <<"folio_mark_accessed", "mark_page_accessed">>
Dirtied == <<"folio_account_dirtied", "account_page_dirtied">>
DirtyTp == <<"writeback_dirty_folio", "writeback_dirty_page">>
Either(pair) == {pair[1], pair[2]}
Functions7 == Either(Lru) \cup Either(Accessed) \cup Either(Dirtied) \cup {"mark_buffer_dirty"}

ASSUME CacheAssumption ==
    /\ Traced \subseteq Threads
    /\ \A k \in Kernels : /\ k.has \subseteq Functions7 /\ k.tp \subseteq Either(DirtyTp)
                          /\ k.fentry \in BOOLEAN
    /\ {MaxEvents, Intervals} \subseteq Nat /\ U64 \in Nat \ {0}
    /\ IsFiniteSet(Threads)

VARIABLES
    kernel,
    loaded,              \* programs main() leaves on autoload
    total, misses, mbd,  \* counters in the programs' .bss
    todo,                \* per thread: adds its event has still to make, as <<program, counter>>
    pids_to_consider,
    stage,               \* of main()
    taken,               \* what this interval's exchanges returned
    shown,               \* total_hits, total_misses, total_dirties
    json,                \* the output file, as <<totals>>, or <<>> for none
    left,                \* env.times
    exiting,
    sum,                 \* history: everything the exchanges have returned
    seen                 \* history: events of traced threads since the attach

counterVars == <<total, misses, mbd>>
mainVars == <<stage, taken, shown, json, left>>
cacheVars == <<kernel, loaded, counterVars, todo, pids_to_consider, mainVars, exiting, sum, seen>>

-----------------------------------------------------------------------------
(* Which programs are loaded                                               *)

kprobe_exists(f) == f \in kernel.has
fentry_can_attach(f) == kernel.fentry /\ f \in kernel.has
tracepoint_exists(p) == p \in kernel.tp

\* Mutant: fentry on the folio function does not switch off the kprobe on it.
OneOfBoth(pair) ==
    {IF fentry_can_attach(pair[2]) THEN <<"fentry", pair[2]>> ELSE <<"kprobe", pair[2]>>}
      \cup IF kprobe_exists(pair[1]) THEN {<<"kprobe", pair[1]>>} ELSE {}

\* The folio function before the page function, fentry before kprobe.
OneOf(pair) ==
    {IF fentry_can_attach(pair[1]) THEN <<"fentry", pair[1]>>
     ELSE IF fentry_can_attach(pair[2]) THEN <<"fentry", pair[2]>>
     ELSE IF kprobe_exists(pair[1]) THEN <<"kprobe", pair[1]>>
     ELSE <<"kprobe", pair[2]>>}

BufferProgram ==
    {<<IF fentry_can_attach("mark_buffer_dirty") THEN "fentry" ELSE "kprobe", "mark_buffer_dirty">>}

\* The programs left after the first choice, which looks at kprobes and
\* tracepoints only ...
DirtyFallback ==
    IF kprobe_exists(Dirtied[1]) THEN {<<"kprobe", Dirtied[1]>>}
    ELSE IF kprobe_exists(Dirtied[2]) THEN {<<"kprobe", Dirtied[2]>>}
    ELSE IF tracepoint_exists(DirtyTp[1]) THEN {<<"tp", DirtyTp[1]>>}
    ELSE IF tracepoint_exists(DirtyTp[2]) THEN {<<"tp", DirtyTp[2]>>}
    ELSE {"kprobe"} \X Either(Dirtied) \cup {"tp"} \X Either(DirtyTp)

\* Mutant: fentry switches no other program off.
DirtyProgramsAll ==
    DirtyFallback \cup {<<"fentry", f>> : f \in {g \in Either(Dirtied) : fentry_can_attach(g)}}

\* ... and after the second, for which fentry_account_page_dirtied has been
\* given the folio function as its target if the kernel has it.
DirtyPrograms ==
    IF \E f \in Either(Dirtied) : fentry_can_attach(f)
    THEN (DirtyFallback \ {<<"kprobe", Dirtied[2]>>})
           \cup {<<"fentry", IF fentry_can_attach(Dirtied[1]) THEN Dirtied[1] ELSE Dirtied[2]>>}
    ELSE DirtyFallback

Select ==
    /\ stage = "open"
    /\ loaded' = OneOf(Lru) \cup OneOf(Accessed) \cup BufferProgram \cup DirtyPrograms
    /\ stage' = "attach"
    /\ UNCHANGED <<kernel, counterVars, todo, pids_to_consider, taken, shown, json, left, exiting, sum, seen>>

\* Load, fill pids_to_consider, attach: a program whose target the kernel does
\* not have makes it fail, and main() ends with an error and no output.
Attach ==
    /\ stage = "attach"
    /\ pids_to_consider' = Traced
    /\ stage' = IF \A p \in loaded : p[2] \in kernel.has \cup kernel.tp THEN "sleep" ELSE "failed"
    /\ UNCHANGED <<kernel, loaded, counterVars, todo, taken, shown, json, left, exiting, sum, seen>>

\* write_output_json: the file is written, or /proc/meminfo or the file fails.
WriteJson(totals) == json' \in {<<totals>>, <<>>}

\* A kernel without memory-mapped maps: main() leaves with err = 0, so it still
\* writes the output file.
NoBss ==
    /\ stage = "attach"
    /\ stage' = "done" /\ WriteJson(shown)
    /\ UNCHANGED <<kernel, loaded, counterVars, todo, pids_to_consider, taken, shown, left, exiting, sum, seen>>

-----------------------------------------------------------------------------
(* The programs                                                            *)

\* What a program on a function adds to, and how much.
Adds(f) ==
    IF f = "mark_buffer_dirty" THEN {"total", "mbd"}
    ELSE IF f \in Either(Accessed) THEN {"total"} ELSE {"misses"}
Amount(f, c) ==
    IF c = "mbd" \/ f \in Either(Lru) \cup Either(Accessed) THEN 1 ELSE -1

Events == {"lru", "accessed", "buffer", "dirtied"}

\* What the kernel calls for an event: the folio function, and first the wrapper
\* if the caller still uses it.
PairCalls(pair) ==
    IF pair[1] \in kernel.has
    THEN {{pair[1]}} \cup (IF pair[2] \in kernel.has THEN {Either(pair)} ELSE {})
    ELSE {{pair[2]}}
CallsOf(e) ==
    CASE e = "lru" -> PairCalls(Lru)
      [] e = "accessed" -> PairCalls(Accessed)
      [] e = "buffer" -> {{"mark_buffer_dirty"}}
      [] e = "dirtied" -> {(Either(Dirtied) \cap kernel.has) \cup kernel.tp}

Running == stage \in {"sleep", "misses", "mbd", "show"}
to_ignore(t) == t \notin pids_to_consider

\* An event of thread t runs every loaded program on the functions called.
Event(t, e, called) ==
    /\ Running /\ todo[t] = {}
    /\ seen.lru + seen.accessed + seen.buffer + seen.dirtied < MaxEvents
    /\ ~to_ignore(t)
    /\ todo' = [todo EXCEPT ![t] =
                  UNION {{p} \X Adds(p[2]) : p \in {q \in loaded : q[2] \in called}}]
    /\ seen' = [seen EXCEPT ![e] = @ + 1]
    /\ UNCHANGED <<kernel, loaded, counterVars, pids_to_consider, mainVars, exiting, sum>>

\* One __sync_fetch_and_add.  Programs on the same event come in any order; the only
\* one with two adds is alone on its event, and adds to total first.
Add(t) ==
    \E a \in todo[t] :
        LET n == Amount(a[1][2], a[2])
        IN /\ a[2] = "mbd" => <<a[1], "total">> \notin todo[t]
           /\ total' = IF a[2] = "total" THEN total + n ELSE total
           /\ misses' = IF a[2] = "misses" THEN misses + n ELSE misses
           /\ mbd' = IF a[2] = "mbd" THEN mbd + n ELSE mbd
           /\ todo' = [todo EXCEPT ![t] = @ \ {a}]
           /\ UNCHANGED <<kernel, loaded, pids_to_consider, mainVars, exiting, sum, seen>>

\* trace_sched_process_fork: the child of a traced thread is traced too.
trace_sched_process_fork(t, c) ==
    /\ Running /\ todo[t] = {} /\ c \notin pids_to_consider /\ ~to_ignore(t)
    /\ pids_to_consider' = pids_to_consider \cup {c}
    /\ UNCHANGED <<kernel, loaded, counterVars, todo, mainVars, exiting, sum, seen>>

-----------------------------------------------------------------------------
(* The loop of main()                                                      *)

sig_handler ==
    /\ Running /\ ~exiting
    /\ exiting' = TRUE
    /\ UNCHANGED <<kernel, loaded, counterVars, todo, pids_to_consider, mainVars, sum, seen>>

\* The three exchanges, with the programs running between them.
TakeTotal ==
    /\ stage = "sleep"
    /\ taken' = [taken EXCEPT !.total = total] /\ total' = 0
    /\ sum' = [sum EXCEPT !.total = @ + total]
    /\ stage' = "misses"
    /\ UNCHANGED <<kernel, loaded, misses, mbd, todo, pids_to_consider, shown, json, left, exiting, seen>>

TakeMisses ==
    /\ stage = "misses"
    /\ taken' = [taken EXCEPT !.misses = misses] /\ misses' = 0
    /\ sum' = [sum EXCEPT !.misses = @ + misses]
    /\ stage' = "mbd"
    /\ UNCHANGED <<kernel, loaded, total, mbd, todo, pids_to_consider, shown, json, left, exiting, seen>>

TakeMbd ==
    /\ stage = "mbd"
    /\ taken' = [taken EXCEPT !.mbd = mbd] /\ mbd' = 0
    /\ sum' = [sum EXCEPT !.mbd = @ + mbd]
    /\ stage' = "show"
    /\ UNCHANGED <<kernel, loaded, total, misses, todo, pids_to_consider, shown, json, left, exiting, seen>>

NotNegative(n) == IF n < 0 THEN 0 ELSE n

\* Mutant: negative hits are kept.
ShownMissesRaw(t, m) == m

\* With more misses than accesses the misses shown are the accesses.
ShownMisses(t, m) == IF t - m < 0 THEN t ELSE m

\* The line printed for an interval, and the totals: the loop ends after SIGINT
\* or the last interval with the output file, or at once when /proc/meminfo
\* cannot be read.
Show ==
    /\ stage = "show"
    /\ LET t == NotNegative(taken.total)
           m == ShownMisses(t, NotNegative(taken.misses))
       IN shown' = [hits |-> (shown.hits + (t - m)) % U64, misses |-> (shown.misses + m) % U64,
                    dirties |-> shown.dirties + taken.mbd]
    /\ \/ stage' = "failed" /\ UNCHANGED <<json, left>>
       \/ /\ ~exiting /\ left # 1
          /\ left' = left - 1 /\ stage' = "sleep" /\ UNCHANGED json
       \/ /\ exiting \/ left = 1
          /\ stage' = "done" /\ WriteJson(shown') /\ UNCHANGED left
    /\ UNCHANGED <<kernel, loaded, counterVars, todo, pids_to_consider, taken, exiting, sum, seen>>

-----------------------------------------------------------------------------
CacheInit ==
    /\ kernel \in Kernels /\ loaded = {}
    /\ total = 0 /\ misses = 0 /\ mbd = 0
    /\ todo = [t \in Threads |-> {}] /\ pids_to_consider = {}
    /\ stage = "open" /\ taken = [total |-> 0, misses |-> 0, mbd |-> 0]
    /\ shown = [hits |-> 0, misses |-> 0, dirties |-> 0] /\ json = <<>>
    /\ left = Intervals /\ exiting = FALSE
    /\ sum = taken /\ seen = [e \in Events |-> 0]

CacheNext ==
    \/ Select \/ Attach \/ NoBss \/ sig_handler
    \/ TakeTotal \/ TakeMisses \/ TakeMbd \/ Show
    \/ \E t \in Threads : Add(t)
    \/ \E t \in Threads, e \in Events : \E called \in CallsOf(e) : Event(t, e, called)
    \/ \E t, c \in Threads : trace_sched_process_fork(t, c)

CacheSpec == CacheInit /\ [][CacheNext]_cacheVars

-----------------------------------------------------------------------------
(* Properties                                                              *)

\* What the programs have still to add to a counter.
Due(c, n) == {d \in Threads \X loaded : <<d[2], c>> \in todo[d[1]] /\ Amount(d[2][2], c) = n}
Pending(c) == Cardinality(Due(c, 1)) - Cardinality(Due(c, -1))

\* On every kernel the programs loaded count each access and each dirtied buffer
\* exactly once, and the exchanges lose none of them: what was taken, what is in
\* the counters and what is still to be added make up the events.
AccessesConserved ==
    /\ sum.total + total + Pending("total") = seen.accessed - seen.buffer
    /\ sum.mbd + mbd + Pending("mbd") = seen.buffer

\* The same for misses, pages added to the cache less pages dirtied, on every
\* kernel but those with fentry and folio_account_dirtied: there main() switches
\* only kprobe_account_page_dirtied off (cachestat.c:253), and the fentry and the
\* kprobe program both subtract.
FolioDirtiedTwice == fentry_can_attach(Dirtied[1])
MissesConserved ==
    FolioDirtiedTwice \/ sum.misses + misses + Pending("misses") = seen.lru - seen.dirtied

\* The totals never show more hits and misses than there were accesses, whatever
\* part of an access, of a miss or of a dirtied page an interval cuts off; a
\* negative difference never wraps into the unsigned totals.
ShownWithinAccesses == shown.hits + shown.misses <= seen.accessed
=============================================================================
