-------------------------- MODULE CacheStatProofs ---------------------------
(***************************************************************************)
(* What the counters and totals of CacheStat are, for any number of        *)
(* threads, events and intervals, and every kernel.                        *)
(***************************************************************************)
EXTENDS CacheStat, FiniteSetTheorems, TLAPS

Counters == {"total", "misses", "mbd"}
Programs == {"fentry", "kprobe", "tp"} \X (Functions7 \cup Either(DirtyTp))
Stages   == {"open", "attach", "sleep", "misses", "mbd", "show", "done", "failed"}

CacheType ==
    /\ kernel \in Kernels /\ loaded \subseteq Programs /\ stage \in Stages
    /\ total \in Int /\ misses \in Int /\ mbd \in Int
    /\ todo \in [Threads -> SUBSET (Programs \X Counters)]
    /\ taken \in [Counters -> Int] /\ sum \in [Counters -> Int]
    /\ shown \in [hits : Nat, misses : Nat, dirties : Int]
    /\ seen \in [Events -> Nat]

\* What main() has left on autoload; after the attach every target exists.
ChosenOK ==
    /\ stage = "open" => loaded = {}
    /\ stage # "open" => loaded = OneOf(Lru) \cup OneOf(Accessed) \cup BufferProgram
                                    \cup DirtyPrograms
    /\ Running => \A p \in loaded : p[2] \in kernel.has \cup kernel.tp

\* An add still to be made is one of a program that is loaded.
TodoOK ==
    \A t \in Threads : \A a \in todo[t] : a[1] \in loaded /\ a[2] \in Adds(a[1][2])

CountInv == CacheType /\ ChosenOK /\ TodoOK /\ AccessesConserved /\ MissesConserved

\* Accesses that were taken and not yet shown, and those nobody has taken yet.
Taken == IF stage \in {"misses", "mbd", "show"} THEN NotNegative(taken.total) ELSE 0
ShownOK ==
    shown.hits + shown.misses + Taken + NotNegative(total) + Cardinality(Due("total", 1))
        <= seen.accessed

-----------------------------------------------------------------------------
(* The programs loaded                                                     *)

LEMMA ProgramsFinite == IsFiniteSet(Programs)
<1>1. IsFiniteSet({"fentry", "kprobe", "tp"}) /\ IsFiniteSet(Functions7 \cup Either(DirtyTp))
  <2>1. \A x : IsFiniteSet({x})
    BY FS_Singleton
  <2>2. \A pair : IsFiniteSet(Either(pair))
    <3>1. \A pair : Either(pair) = {pair[1]} \cup {pair[2]}
      BY DEF Either
    <3> QED  BY <2>1, <3>1, FS_Union
  <2>3. IsFiniteSet({"fentry"} \cup {"kprobe"} \cup {"tp"})
    BY <2>1, FS_Union
  <2>4. {"fentry"} \cup {"kprobe"} \cup {"tp"} = {"fentry", "kprobe", "tp"}
    OBVIOUS
  <2>5. IsFiniteSet(Functions7)
    BY <2>1, <2>2, FS_Union DEF Functions7
  <2> QED  BY <2>2, <2>3, <2>4, <2>5, FS_Union
<1> QED  BY <1>1, FS_Product DEF Programs

\* Every program that may be chosen is a program of its pair of functions.
LEMMA Choices ==
    ASSUME kernel \in Kernels
    PROVE  /\ OneOf(Lru) \subseteq {"fentry", "kprobe"} \X Either(Lru)
           /\ OneOf(Accessed) \subseteq {"fentry", "kprobe"} \X Either(Accessed)
           /\ BufferProgram \subseteq {"fentry", "kprobe"} \X {"mark_buffer_dirty"}
           /\ DirtyPrograms \subseteq {"fentry", "kprobe", "tp"}
                                        \X (Either(Dirtied) \cup Either(DirtyTp))
           /\ \E p : OneOf(Lru) = {p}
           /\ \E p : OneOf(Accessed) = {p}
           /\ \E p : BufferProgram = {p}
<1>1. ASSUME NEW pair
      PROVE  /\ OneOf(pair) \subseteq {"fentry", "kprobe"} \X Either(pair)
             /\ \E p : OneOf(pair) = {p}
  <2>1. CASE fentry_can_attach(pair[1])
    BY <2>1 DEF OneOf, Either
  <2>2. CASE ~fentry_can_attach(pair[1]) /\ fentry_can_attach(pair[2])
    <3>1. OneOf(pair) = {<<"fentry", pair[2]>>}
      BY <2>2 DEF OneOf
    <3> QED  BY <3>1 DEF Either
  <2>3. CASE ~fentry_can_attach(pair[1]) /\ ~fentry_can_attach(pair[2])
    BY <2>3 DEF OneOf, Either
  <2> QED  BY <2>1, <2>2, <2>3
<1>2. /\ BufferProgram \subseteq {"fentry", "kprobe"} \X {"mark_buffer_dirty"}
      /\ \E p : BufferProgram = {p}
  BY DEF BufferProgram
<1>3. DirtyFallback \subseteq {"fentry", "kprobe", "tp"} \X (Either(Dirtied) \cup Either(DirtyTp))
  BY DEF DirtyFallback, Either
<1>4. DirtyPrograms \subseteq {"fentry", "kprobe", "tp"} \X (Either(Dirtied) \cup Either(DirtyTp))
  BY <1>3 DEF DirtyPrograms, Either
<1> QED  BY <1>1, <1>2, <1>4

\* The programs that count each event.
RunOn(called) == {q \in loaded : q[2] \in called}

\* main() chooses the folio function where there is one, and the kernel calls it
\* then, so exactly one program counts a page that is added or accessed.
LEMMA PairRun ==
    ASSUME CacheType, ChosenOK, Running, NEW pair \in {Lru, Accessed},
           NEW called \in PairCalls(pair)
    PROVE  \E p \in loaded : RunOn(called) = {p} /\ p[2] \in Either(pair)
<1>1. /\ loaded = OneOf(Lru) \cup OneOf(Accessed) \cup BufferProgram \cup DirtyPrograms
      /\ \A p \in loaded : p[2] \in kernel.has \cup kernel.tp
      /\ kernel \in Kernels
  BY DEF ChosenOK, Running, CacheType
<1>2. kernel.tp \subseteq Either(DirtyTp)
  BY <1>1, CacheAssumption
<1>3. PICK p : OneOf(pair) = {p}
  BY <1>1, Choices
<1>4. p \in loaded /\ p[2] \in Either(pair) /\ p[2] \in kernel.has
  BY <1>1, <1>2, <1>3, Choices DEF Either, Lru, Accessed, DirtyTp
<1>5. called \subseteq Either(pair)
  BY DEF PairCalls, Either
<1>6. \A q \in loaded : q[2] \in Either(pair) => q = p
  BY <1>1, <1>3, Choices DEF Either, Lru, Accessed, Dirtied, DirtyTp
<1>7. p[2] \in called
  BY <1>3, <1>4 DEF OneOf, PairCalls, Either, kprobe_exists, fentry_can_attach, Lru, Accessed
<1> QED  BY <1>4, <1>5, <1>6, <1>7 DEF RunOn

LEMMA BufferRun ==
    ASSUME CacheType, ChosenOK, Running
    PROVE  \E p \in loaded : RunOn({"mark_buffer_dirty"}) = {p} /\ p[2] = "mark_buffer_dirty"
<1>1. /\ loaded = OneOf(Lru) \cup OneOf(Accessed) \cup BufferProgram \cup DirtyPrograms
      /\ kernel \in Kernels
  BY DEF ChosenOK, Running, CacheType
<1>2. PICK p : BufferProgram = {p}
  BY <1>1, Choices
<1> QED  BY <1>1, <1>2, Choices DEF RunOn, Either, Lru, Accessed, Dirtied, DirtyTp

\* The same for a dirtied page, but on kernels that have folio_account_dirtied and
\* fentry; programs that count it subtract from misses in any case.
LEMMA DirtyRun ==
    ASSUME CacheType, ChosenOK, Running, NEW called \in CallsOf("dirtied")
    PROVE  /\ RunOn(called) \subseteq loaded
           /\ \A p \in RunOn(called) : p[2] \in Either(Dirtied) \cup Either(DirtyTp)
           /\ ~FolioDirtiedTwice => \E p \in loaded : RunOn(called) = {p}
<1>1. /\ loaded = OneOf(Lru) \cup OneOf(Accessed) \cup BufferProgram \cup DirtyPrograms
      /\ \A p \in loaded : p[2] \in kernel.has \cup kernel.tp
      /\ kernel \in Kernels
  BY DEF ChosenOK, Running, CacheType
<1>2. kernel.tp \subseteq Either(DirtyTp) /\ kernel.has \subseteq Functions7
      /\ kernel.fentry \in BOOLEAN
  BY <1>1, CacheAssumption
<1>3. called = (Either(Dirtied) \cap kernel.has) \cup kernel.tp
  BY DEF CallsOf
<1>4. \A p \in RunOn(called) : p \in loaded /\ p[2] \in Either(Dirtied) \cup Either(DirtyTp)
  BY <1>2, <1>3 DEF RunOn
<1>5. ASSUME NEW p \in loaded
      PROVE  p \in RunOn(called) <=> p \in DirtyPrograms
  <2>1. p \in DirtyPrograms => p \in RunOn(called)
    <3> SUFFICES ASSUME p \in DirtyPrograms PROVE p[2] \in called
      BY DEF RunOn
    <3>1. p[2] \in Either(Dirtied) \cup Either(DirtyTp)
      BY <1>1, Choices
    <3>2. p[2] \in kernel.has \cup kernel.tp
      BY <1>1
    <3>3. p[2] \in Either(DirtyTp) => p[2] \notin Functions7
      BY DEF Functions7, Either, Lru, Accessed, Dirtied, DirtyTp
    <3>4. p[2] \in Either(Dirtied) => p[2] \notin Either(DirtyTp)
      BY DEF Either, Dirtied, DirtyTp
    <3> QED  BY <1>2, <1>3, <3>1, <3>2, <3>3, <3>4
  <2>2. p \notin DirtyPrograms => p \notin RunOn(called)
    BY <1>1, <1>4, Choices DEF Either, Lru, Accessed, Dirtied, DirtyTp
  <2> QED  BY <2>1, <2>2
<1>6. RunOn(called) = DirtyPrograms
  BY <1>1, <1>4, <1>5
<1>7. ASSUME ~FolioDirtiedTwice PROVE \E p : DirtyPrograms = {p}
  <2>1. DirtyPrograms \subseteq loaded
    BY <1>1
  <2>2. DirtyFallback \subseteq loaded \/ fentry_can_attach(Dirtied[2])
    BY <1>7, <2>1 DEF DirtyPrograms, Either, FolioDirtiedTwice
  <2>3. CASE fentry_can_attach(Dirtied[2])
    <3>1. DirtyPrograms = (DirtyFallback \ {<<"kprobe", Dirtied[2]>>})
                              \cup {<<"fentry", Dirtied[2]>>}
      BY <1>7, <2>3 DEF DirtyPrograms, FolioDirtiedTwice, Either
    <3>2. DirtyFallback = {<<"kprobe", Dirtied[2]>>}
      BY <1>2, <1>7, <2>3 DEF DirtyFallback, FolioDirtiedTwice, fentry_can_attach, kprobe_exists
    <3> QED  BY <3>1, <3>2
  <2>4. CASE ~fentry_can_attach(Dirtied[2])
    <3>1. DirtyPrograms = DirtyFallback
      BY <1>7, <2>4 DEF DirtyPrograms, FolioDirtiedTwice, Either
    <3>2. ASSUME ~kprobe_exists(Dirtied[1]), ~kprobe_exists(Dirtied[2]),
                 ~tracepoint_exists(DirtyTp[1]), ~tracepoint_exists(DirtyTp[2])
          PROVE  FALSE
      <4>1. <<"kprobe", Dirtied[1]>> \in DirtyPrograms
        BY <3>1, <3>2 DEF DirtyFallback, Either
      <4>2. Dirtied[1] \in kernel.has \cup kernel.tp
        BY <1>1, <2>1, <4>1
      <4> QED  BY <1>2, <3>2, <4>2 DEF kprobe_exists, Either, Dirtied, DirtyTp
    <3> QED  BY <3>1, <3>2 DEF DirtyFallback
  <2> QED  BY <2>3, <2>4
<1> QED  BY <1>1, <1>4, <1>6, <1>7

-----------------------------------------------------------------------------
(* Types and choices, step by step                                         *)

LEMMA CacheInitOK ==
    ASSUME CacheInit
    PROVE  /\ CacheType /\ ChosenOK /\ TodoOK
           /\ \A c, n : Due(c, n) = {}
<1>1. CacheType
  BY DEF CacheInit, CacheType, Stages, Counters, Events
<1>2. ChosenOK /\ TodoOK
  BY DEF CacheInit, ChosenOK, TodoOK, Running
<1>3. \A c, n : Due(c, n) = {}
  BY DEF CacheInit, Due
<1> QED  BY <1>1, <1>2, <1>3

\* The counter programs of an event make its adds due.
AddsDue(called) == UNION {{p} \X Adds(p[2]) : p \in RunOn(called)}

LEMMA AddsOfPrograms ==
    ASSUME loaded \subseteq Programs, NEW called
    PROVE  /\ AddsDue(called) \subseteq Programs \X Counters
           /\ \A a \in AddsDue(called) :
                a = <<a[1], a[2]>> /\ a[1] \in RunOn(called) /\ a[2] \in Adds(a[1][2])
           /\ \A p, c : <<p, c>> \in AddsDue(called) <=> p \in RunOn(called) /\ c \in Adds(p[2])
<1>1. \A f : Adds(f) \subseteq Counters
  BY DEF Adds, Counters
<1> QED  BY <1>1 DEF AddsDue, RunOn

LEMMA AmountIsInt == \A f, c : Amount(f, c) = 1 \/ Amount(f, c) = -1
  BY DEF Amount

LEMMA CacheTypeStep ==
    ASSUME CacheType, [CacheNext]_cacheVars
    PROVE  CacheType'
<1> USE DEF CacheType
<1>1. ASSUME Select PROVE CacheType'
  <2>1. loaded' \subseteq Programs
    BY <1>1, Choices DEF Select, Programs, Functions7, Either
  <2> QED  BY <1>1, <2>1 DEF Select, Stages, counterVars
<1>2. ASSUME Attach \/ NoBss PROVE CacheType'
  BY <1>2 DEF Attach, NoBss, Stages, counterVars, WriteJson
<1>3. ASSUME sig_handler PROVE CacheType'
  BY <1>3 DEF sig_handler, counterVars, mainVars
<1>4. ASSUME TakeTotal \/ TakeMisses \/ TakeMbd PROVE CacheType'
  BY <1>4 DEF TakeTotal, TakeMisses, TakeMbd, Stages, Counters, counterVars
<1>5. ASSUME Show PROVE CacheType'
  <2>1. taken.total \in Int /\ taken.misses \in Int /\ taken.mbd \in Int
    BY DEF Counters
  <2>2. /\ NotNegative(taken.total) \in Nat /\ NotNegative(taken.misses) \in Nat
    BY <2>1 DEF NotNegative
  <2>3. ShownMisses(NotNegative(taken.total), NotNegative(taken.misses))
            \in 0 .. NotNegative(taken.total)
    BY <2>2 DEF ShownMisses
  <2>4. \A n \in Nat : n % U64 \in Nat
    BY CacheAssumption
  <2>5. shown' \in [hits : Nat, misses : Nat, dirties : Int]
    <3>t. PICK t : t = NotNegative(taken.total)
      OBVIOUS
    <3>m. PICK m : m = ShownMisses(t, NotNegative(taken.misses))
      OBVIOUS
    <3>1. shown' = [hits |-> (shown.hits + (t - m)) % U64, misses |-> (shown.misses + m) % U64,
                    dirties |-> shown.dirties + taken.mbd]
      BY <1>5, <3>t, <3>m DEF Show
    <3>2. shown.hits + (t - m) \in Nat /\ shown.misses + m \in Nat
          /\ shown.dirties + taken.mbd \in Int
      BY <2>1, <2>2, <2>3, <3>t, <3>m
    <3> QED  BY <2>4, <3>1, <3>2
  <2>6. stage' \in Stages
    BY <1>5 DEF Show, Stages
  <2> QED  BY <1>5, <2>5, <2>6 DEF Show, counterVars
<1>6. ASSUME NEW t \in Threads, Add(t) PROVE CacheType'
  <2>1. PICK a \in todo[t] :
            /\ total' = IF a[2] = "total" THEN total + Amount(a[1][2], a[2]) ELSE total
            /\ misses' = IF a[2] = "misses" THEN misses + Amount(a[1][2], a[2]) ELSE misses
            /\ mbd' = IF a[2] = "mbd" THEN mbd + Amount(a[1][2], a[2]) ELSE mbd
            /\ todo' = [todo EXCEPT ![t] = @ \ {a}]
            /\ UNCHANGED <<kernel, loaded, mainVars, sum, seen>>
    BY <1>6 DEF Add
  <2>2. PICK n \in Int : n = Amount(a[1][2], a[2])
    BY AmountIsInt
  <2>3. total' \in Int /\ misses' \in Int /\ mbd' \in Int
    BY <2>1, <2>2
  <2>4. todo' \in [Threads -> SUBSET (Programs \X Counters)]
    BY <2>1
  <2> QED  BY <2>1, <2>3, <2>4 DEF mainVars
<1>7. ASSUME NEW t \in Threads, NEW e \in Events, NEW called \in CallsOf(e),
             Event(t, e, called)
      PROVE  CacheType'
  <2>1. todo' = [todo EXCEPT ![t] = AddsDue(called)]
    BY <1>7 DEF Event, AddsDue, RunOn
  <2>2. todo' \in [Threads -> SUBSET (Programs \X Counters)]
    BY <2>1, AddsOfPrograms
  <2>3. seen' \in [Events -> Nat]
    BY <1>7 DEF Event
  <2> QED  BY <1>7, <2>2, <2>3 DEF Event, counterVars, mainVars
<1>8. ASSUME NEW t \in Threads, NEW c \in Threads, trace_sched_process_fork(t, c)
      PROVE  CacheType'
  BY <1>8 DEF trace_sched_process_fork, counterVars, mainVars
<1>9. ASSUME UNCHANGED cacheVars PROVE CacheType'
  BY <1>9 DEF cacheVars, counterVars, mainVars
<1> QED  BY <1>1, <1>2, <1>3, <1>4, <1>5, <1>6, <1>7, <1>8, <1>9 DEF CacheNext

\* main() chooses once, and events only come once every target was found.
LEMMA ChosenStep ==
    ASSUME CacheType, ChosenOK, [CacheNext]_cacheVars
    PROVE  ChosenOK'
<1>1. ASSUME Select PROVE ChosenOK'
  <2>1. OneOf(Lru)' = OneOf(Lru) /\ OneOf(Accessed)' = OneOf(Accessed)
        /\ BufferProgram' = BufferProgram /\ DirtyPrograms' = DirtyPrograms
    BY <1>1 DEF Select, OneOf, BufferProgram, DirtyPrograms, DirtyFallback, kprobe_exists,
                fentry_can_attach, tracepoint_exists
  <2> QED  BY <1>1, <2>1 DEF Select, ChosenOK, Running
<1>2. ASSUME kernel' = kernel, loaded' = loaded, stage # "open", stage' # "open",
             Running' => Running \/ (\A p \in loaded : p[2] \in kernel.has \cup kernel.tp)
      PROVE  ChosenOK'
  <2>1. OneOf(Lru)' = OneOf(Lru) /\ OneOf(Accessed)' = OneOf(Accessed)
        /\ BufferProgram' = BufferProgram /\ DirtyPrograms' = DirtyPrograms
    BY <1>2 DEF OneOf, BufferProgram, DirtyPrograms, DirtyFallback, kprobe_exists,
                fentry_can_attach, tracepoint_exists
  <2> QED  BY <1>2, <2>1 DEF ChosenOK
<1>3. ASSUME kernel' = kernel, loaded' = loaded, stage' = stage PROVE ChosenOK'
  <2>1. CASE stage = "open"
    BY <1>3, <2>1 DEF ChosenOK, Running
  <2>2. CASE stage # "open"
    BY <1>2, <1>3, <2>2 DEF Running
  <2> QED  BY <2>1, <2>2
<1>4. ASSUME Attach PROVE ChosenOK'
  BY <1>2, <1>4 DEF Attach, Running
<1>5. ASSUME NoBss \/ TakeTotal \/ TakeMisses \/ TakeMbd \/ Show PROVE ChosenOK'
  BY <1>2, <1>5 DEF NoBss, TakeTotal, TakeMisses, TakeMbd, Show, Running
<1>6. ASSUME \/ sig_handler \/ UNCHANGED cacheVars
             \/ \E t \in Threads : Add(t)
             \/ \E t \in Threads, e \in Events : \E called \in CallsOf(e) : Event(t, e, called)
             \/ \E t, c \in Threads : trace_sched_process_fork(t, c)
      PROVE  ChosenOK'
  BY <1>3, <1>6 DEF sig_handler, cacheVars, Add, Event, trace_sched_process_fork, mainVars
<1> QED  BY <1>1, <1>4, <1>5, <1>6 DEF CacheNext

\* What is due is due by programs that are loaded, and Add takes one of them away.
LEMMA TodoStep ==
    ASSUME CacheType, ChosenOK, TodoOK, [CacheNext]_cacheVars
    PROVE  TodoOK'
<1>1. ASSUME todo' = todo, loaded' = loaded PROVE TodoOK'
  BY <1>1 DEF TodoOK
<1>2. ASSUME Select PROVE TodoOK'
  <2>1. \A t \in Threads : todo[t] = {}
    BY <1>2 DEF Select, ChosenOK, TodoOK
  <2> QED  BY <1>2, <2>1 DEF Select, TodoOK
<1>3. ASSUME NEW t \in Threads, Add(t) PROVE TodoOK'
  <2>1. \E a \in todo[t] : todo' = [todo EXCEPT ![t] = @ \ {a}]
    BY <1>3 DEF Add
  <2>2. loaded' = loaded
    BY <1>3 DEF Add
  <2> QED  BY <2>1, <2>2 DEF TodoOK, CacheType
<1>4. ASSUME NEW t \in Threads, NEW e \in Events, NEW called \in CallsOf(e),
             Event(t, e, called)
      PROVE  TodoOK'
  <2>1. todo' = [todo EXCEPT ![t] = AddsDue(called)] /\ loaded' = loaded
    BY <1>4 DEF Event, AddsDue, RunOn
  <2>2. \A a \in AddsDue(called) : a[1] \in loaded /\ a[2] \in Adds(a[1][2])
    BY AddsOfPrograms DEF CacheType, RunOn
  <2> QED  BY <2>1, <2>2 DEF TodoOK, CacheType
<1>5. ASSUME \/ Attach \/ NoBss \/ sig_handler \/ TakeTotal \/ TakeMisses \/ TakeMbd \/ Show
             \/ UNCHANGED cacheVars
             \/ \E t, c \in Threads : trace_sched_process_fork(t, c)
      PROVE  TodoOK'
  BY <1>1, <1>5 DEF Attach, NoBss, sig_handler, TakeTotal, TakeMisses, TakeMbd, Show, cacheVars,
                    trace_sched_process_fork
<1> QED  BY <1>2, <1>3, <1>4, <1>5 DEF CacheNext

-----------------------------------------------------------------------------
(* What is due                                                             *)

LEMMA DueFinite ==
    ASSUME CacheType, NEW c, NEW n
    PROVE  IsFiniteSet(Due(c, n)) /\ Cardinality(Due(c, n)) \in Nat
<1>1. IsFiniteSet(Threads) /\ IsFiniteSet(loaded)
  BY CacheAssumption, ProgramsFinite, FS_Subset DEF CacheType
<1>2. IsFiniteSet(Threads \X loaded)
  BY <1>1, FS_Product
<1>3. Due(c, n) \subseteq Threads \X loaded
  BY DEF Due
<1> QED  BY <1>2, <1>3, FS_Subset, FS_CardinalityType

LEMMA PendingIsInt ==
    ASSUME CacheType, NEW c
    PROVE  Pending(c) \in Int
BY DueFinite DEF Pending

LEMMA DueStays ==
    ASSUME todo' = todo, loaded' = loaded, NEW c
    PROVE  Due(c, 1)' = Due(c, 1) /\ Pending(c)' = Pending(c)
<1>1. \A n : Due(c, n)' = Due(c, n)
  BY DEF Due
<1> QED  BY <1>1 DEF Pending

\* An add makes one thing less due.
LEMMA DueAdded ==
    ASSUME CacheType, CacheType', TodoOK, NEW t \in Threads, NEW a \in todo[t],
           todo' = [todo EXCEPT ![t] = @ \ {a}], loaded' = loaded
    PROVE  /\ Pending(a[2])' = Pending(a[2]) - Amount(a[1][2], a[2])
           /\ \A c : c # a[2] => Pending(c)' = Pending(c) /\ Due(c, 1)' = Due(c, 1)
           /\ Cardinality(Due(a[2], 1))' =
                Cardinality(Due(a[2], 1)) - IF Amount(a[1][2], a[2]) = 1 THEN 1 ELSE 0
<1>p. PICK p, c : p = a[1] /\ c = a[2] /\ a = <<p, c>>
  BY DEF CacheType
<1>n. PICK n : n = Amount(p[2], c)
  OBVIOUS
<1>1. <<t, p>> \in Due(c, n) /\ n \in {1, -1}
  BY <1>p, <1>n, AmountIsInt DEF Due, TodoOK
<1>2. \A u \in Threads : \A q, d : <<q, d>> \in todo'[u] <=>
            <<q, d>> \in todo[u] /\ ~(u = t /\ q = p /\ d = c)
  BY <1>p DEF CacheType
<1>3. ASSUME NEW d, NEW m
      PROVE  Due(d, m)' = IF d = c /\ m = n THEN Due(d, m) \ {<<t, p>>} ELSE Due(d, m)
  <2>1. ASSUME NEW u \in Threads, NEW q \in loaded
        PROVE  <<u, q>> \in Due(d, m)' <=>
                  <<u, q>> \in Due(d, m) /\ ~(u = t /\ q = p /\ d = c /\ m = n)
    <3>1. <<u, q>> \in Due(d, m)' <=> <<q, d>> \in todo'[u] /\ Amount(q[2], d) = m
      BY DEF Due
    <3>2. <<u, q>> \in Due(d, m) <=> <<q, d>> \in todo[u] /\ Amount(q[2], d) = m
      BY DEF Due
    <3> QED  BY <1>n, <1>2, <3>1, <3>2
  <2>2. Due(d, m) \subseteq Threads \X loaded /\ Due(d, m)' \subseteq Threads \X loaded
    BY DEF Due
  <2>3. CASE d = c /\ m = n
    BY <2>1, <2>2, <2>3
  <2>4. CASE ~(d = c /\ m = n)
    BY <2>1, <2>2, <2>4
  <2> QED  BY <2>3, <2>4
<1>4. /\ IsFiniteSet(Due(c, n))
      /\ Cardinality(Due(c, n) \ {<<t, p>>}) = Cardinality(Due(c, n)) - 1
  BY <1>1, DueFinite, FS_RemoveElement
<1>5. /\ Cardinality(Due(c, 1)) \in Nat /\ Cardinality(Due(c, -1)) \in Nat
  BY DueFinite
<1>6. \A d : d # c => Due(d, 1)' = Due(d, 1) /\ Due(d, -1)' = Due(d, -1)
  BY <1>3
<1>7. CASE n = 1
  <2>1. Due(c, 1)' = Due(c, 1) \ {<<t, p>>} /\ Due(c, -1)' = Due(c, -1)
    BY <1>3, <1>7
  <2>2. Pending(c)' = Pending(c) - 1
    BY <1>4, <1>5, <1>7, <2>1 DEF Pending
  <2>3. Cardinality(Due(c, 1)') = Cardinality(Due(c, 1)) - 1
    BY <1>4, <1>7, <2>1
  <2> QED  BY <1>p, <1>n, <1>6, <1>7, <2>2, <2>3 DEF Pending
<1>8. CASE n = -1
  <2>1. Due(c, -1)' = Due(c, -1) \ {<<t, p>>} /\ Due(c, 1)' = Due(c, 1)
    BY <1>3, <1>8
  <2>2. Pending(c)' = Pending(c) + 1
    BY <1>4, <1>5, <1>8, <2>1 DEF Pending
  <2>3. Cardinality(Due(c, 1)') = Cardinality(Due(c, 1))
    BY <2>1
  <2> QED  BY <1>p, <1>n, <1>5, <1>6, <1>8, <2>2, <2>3 DEF Pending
<1> QED  BY <1>1, <1>7, <1>8

\* An event makes the adds of its programs due.
LEMMA DueOfEvent ==
    ASSUME CacheType, NEW t \in Threads, NEW e, NEW called, Event(t, e, called), NEW c, NEW n
    PROVE  /\ Due(c, n)' = Due(c, n) \cup
                {<<t, p>> : p \in {q \in RunOn(called) : c \in Adds(q[2]) /\ Amount(q[2], c) = n}}
           /\ \A p : <<t, p>> \notin Due(c, n)
<1>1. todo' = [todo EXCEPT ![t] = AddsDue(called)] /\ todo[t] = {} /\ loaded' = loaded
  BY DEF Event, AddsDue, RunOn
<1>2. \A u \in Threads : \A q : <<q, c>> \in todo'[u] <=>
            \/ <<q, c>> \in todo[u]
            \/ u = t /\ q \in RunOn(called) /\ c \in Adds(q[2])
  BY <1>1, AddsOfPrograms DEF CacheType
<1>3. RunOn(called) \subseteq loaded
  BY DEF RunOn
<1>4. \A p : <<t, p>> \notin Due(c, n)
  BY <1>1 DEF Due
<1>5. ASSUME NEW u \in Threads, NEW q \in loaded
      PROVE  <<u, q>> \in Due(c, n)' <=>
                \/ <<u, q>> \in Due(c, n)
                \/ u = t /\ q \in RunOn(called) /\ c \in Adds(q[2]) /\ Amount(q[2], c) = n
  <2>1. <<u, q>> \in Due(c, n)' <=> <<q, c>> \in todo'[u] /\ Amount(q[2], c) = n
    BY <1>1 DEF Due
  <2>2. <<u, q>> \in Due(c, n) <=> <<q, c>> \in todo[u] /\ Amount(q[2], c) = n
    BY DEF Due
  <2> QED  BY <1>2, <2>1, <2>2
<1>6. Due(c, n) \subseteq Threads \X loaded /\ Due(c, n)' \subseteq Threads \X loaded
  BY <1>1 DEF Due
<1> QED  BY <1>3, <1>4, <1>5, <1>6

\* Programs that leave a counter alone make nothing due for it.
LEMMA EventElsewhere ==
    ASSUME CacheType, NEW t \in Threads, NEW e, NEW called, Event(t, e, called), NEW c,
           \A p \in RunOn(called) : c \notin Adds(p[2])
    PROVE  Due(c, 1)' = Due(c, 1) /\ Pending(c)' = Pending(c)
<1>1. ASSUME NEW n PROVE Due(c, n)' = Due(c, n)
  <2>1. {q \in RunOn(called) : c \in Adds(q[2]) /\ Amount(q[2], c) = n} = {}
    OBVIOUS
  <2> QED  BY <2>1, DueOfEvent
<1> QED  BY <1>1 DEF Pending

LEMMA EventOfOne ==
    ASSUME CacheType, NEW t \in Threads, NEW e, NEW called, Event(t, e, called), NEW c,
           NEW p, RunOn(called) = {p}, c \in Adds(p[2])
    PROVE  /\ Pending(c)' = Pending(c) + Amount(p[2], c)
           /\ Cardinality(Due(c, 1))' =
                Cardinality(Due(c, 1)) + IF Amount(p[2], c) = 1 THEN 1 ELSE 0
<1>n. PICK n : n = Amount(p[2], c)
  OBVIOUS
<1>1. n \in {1, -1}
  BY <1>n, AmountIsInt
<1>2. Due(c, n)' = Due(c, n) \cup {<<t, p>>} /\ <<t, p>> \notin Due(c, n)
  <2>1. {q \in RunOn(called) : c \in Adds(q[2]) /\ Amount(q[2], c) = n} = {p}
    BY <1>n
  <2> QED  BY <2>1, DueOfEvent
<1>3. ASSUME NEW m, m # n PROVE Due(c, m)' = Due(c, m)
  <2>1. {q \in RunOn(called) : c \in Adds(q[2]) /\ Amount(q[2], c) = m} = {}
    BY <1>n, <1>3
  <2> QED  BY <2>1, DueOfEvent
<1>4. Cardinality(Due(c, n)') = Cardinality(Due(c, n)) + 1
  BY <1>2, DueFinite, FS_AddElement
<1>5. Cardinality(Due(c, 1)) \in Nat /\ Cardinality(Due(c, -1)) \in Nat
  BY DueFinite
<1>6. CASE n = 1
  <2>1. Due(c, -1)' = Due(c, -1)
    BY <1>3, <1>6
  <2> QED  BY <1>n, <1>4, <1>5, <1>6, <2>1 DEF Pending
<1>7. CASE n = -1
  <2>1. Due(c, 1)' = Due(c, 1)
    BY <1>3, <1>7
  <2> QED  BY <1>n, <1>4, <1>5, <1>7, <2>1 DEF Pending
<1> QED  BY <1>1, <1>6, <1>7

-----------------------------------------------------------------------------
(* Nothing is lost                                                         *)

\* What the programs of an event do to what is due.
LEMMA EventCounts ==
    ASSUME CacheType, ChosenOK, NEW t \in Threads, NEW e \in Events, NEW called \in CallsOf(e),
           Event(t, e, called)
    PROVE  /\ Pending("total")' = Pending("total")
                 + (IF e = "accessed" THEN 1 ELSE 0) - (IF e = "buffer" THEN 1 ELSE 0)
           /\ Pending("mbd")' = Pending("mbd") + (IF e = "buffer" THEN 1 ELSE 0)
           /\ FolioDirtiedTwice \/
                Pending("misses")' = Pending("misses")
                   + (IF e = "lru" THEN 1 ELSE 0) - (IF e = "dirtied" THEN 1 ELSE 0)
           /\ Cardinality(Due("total", 1))' =
                 Cardinality(Due("total", 1)) + (IF e = "accessed" THEN 1 ELSE 0)
<1>0. /\ Pending("total") \in Int /\ Pending("mbd") \in Int /\ Pending("misses") \in Int
      /\ Cardinality(Due("total", 1)) \in Nat
  BY PendingIsInt, DueFinite
<1>r. Running
  BY DEF Event
<1>1. CASE e = "lru"
  <2>1. called \in PairCalls(Lru)
    BY <1>1 DEF CallsOf
  <2>2. PICK p : RunOn(called) = {p} /\ p[2] \in Either(Lru)
    BY <1>r, <2>1, PairRun
  <2>3. Adds(p[2]) = {"misses"} /\ Amount(p[2], "misses") = 1
    BY <2>2 DEF Adds, Amount, Either, Lru, Accessed
  <2>4. Pending("misses")' = Pending("misses") + 1
    BY <2>2, <2>3, EventOfOne
  <2>5. /\ Pending("total")' = Pending("total") /\ Due("total", 1)' = Due("total", 1)
        /\ Pending("mbd")' = Pending("mbd")
    BY <2>2, <2>3, EventElsewhere
  <2> QED  BY <1>0, <1>1, <2>4, <2>5
<1>2. CASE e = "accessed"
  <2>1. called \in PairCalls(Accessed)
    BY <1>2 DEF CallsOf
  <2>2. PICK p : RunOn(called) = {p} /\ p[2] \in Either(Accessed)
    BY <1>r, <2>1, PairRun
  <2>3. Adds(p[2]) = {"total"} /\ Amount(p[2], "total") = 1
    BY <2>2 DEF Adds, Amount, Either, Lru, Accessed
  <2>4. /\ Pending("total")' = Pending("total") + 1
        /\ Cardinality(Due("total", 1))' = Cardinality(Due("total", 1)) + 1
    BY <2>2, <2>3, EventOfOne
  <2>5. Pending("misses")' = Pending("misses") /\ Pending("mbd")' = Pending("mbd")
    BY <2>2, <2>3, EventElsewhere
  <2> QED  BY <1>0, <1>2, <2>4, <2>5
<1>3. CASE e = "buffer"
  <2>1. called = {"mark_buffer_dirty"}
    BY <1>3 DEF CallsOf
  <2>2. PICK p : RunOn(called) = {p} /\ p[2] = "mark_buffer_dirty"
    BY <1>r, <2>1, BufferRun
  <2>3. /\ Adds(p[2]) = {"total", "mbd"}
        /\ Amount(p[2], "total") = -1 /\ Amount(p[2], "mbd") = 1
    BY <2>2 DEF Adds, Amount, Either, Lru, Accessed
  <2>4. /\ Pending("total")' = Pending("total") - 1
        /\ Cardinality(Due("total", 1))' = Cardinality(Due("total", 1))
        /\ Pending("mbd")' = Pending("mbd") + 1
    <3>1. /\ Pending("total")' = Pending("total") + (-1)
          /\ Cardinality(Due("total", 1))' = Cardinality(Due("total", 1)) + 0
      BY <2>2, <2>3, EventOfOne
    <3>2. Pending("mbd")' = Pending("mbd") + 1
      BY <2>2, <2>3, EventOfOne
    <3> QED  BY <1>0, <3>1, <3>2
  <2>5. Pending("misses")' = Pending("misses")
    BY <2>2, <2>3, EventElsewhere
  <2> QED  BY <1>0, <1>3, <2>4, <2>5
<1>4. CASE e = "dirtied"
  <2>1. called \in CallsOf("dirtied")
    BY <1>4
  <2>2. \A p \in RunOn(called) : Adds(p[2]) = {"misses"} /\ Amount(p[2], "misses") = -1
    <3>1. \A p \in RunOn(called) : p[2] \in Either(Dirtied) \cup Either(DirtyTp)
      BY <1>r, <2>1, DirtyRun
    <3> QED  BY <3>1 DEF Adds, Amount, Either, Lru, Accessed, Dirtied, DirtyTp
  <2>3. /\ Pending("total")' = Pending("total") /\ Due("total", 1)' = Due("total", 1)
        /\ Pending("mbd")' = Pending("mbd")
    BY <2>2, EventElsewhere
  <2>4. ASSUME ~FolioDirtiedTwice PROVE Pending("misses")' = Pending("misses") - 1
    <3>1. PICK p : RunOn(called) = {p}
      BY <1>r, <2>1, <2>4, DirtyRun
    <3>2. Pending("misses")' = Pending("misses") + (-1)
      BY <2>2, <3>1, EventOfOne
    <3> QED  BY <1>0, <3>2
  <2> QED  BY <1>0, <1>4, <2>3, <2>4
<1> QED  BY <1>1, <1>2, <1>3, <1>4 DEF Events

LEMMA TypedCounts ==
    ASSUME CacheType
    PROVE  /\ total \in Int /\ misses \in Int /\ mbd \in Int
           /\ sum.total \in Int /\ sum.misses \in Int /\ sum.mbd \in Int
           /\ taken.total \in Int /\ taken.misses \in Int /\ taken.mbd \in Int
           /\ shown.hits \in Nat /\ shown.misses \in Nat
           /\ seen.lru \in Nat /\ seen.accessed \in Nat /\ seen.buffer \in Nat
           /\ seen.dirtied \in Nat
           /\ Pending("total") \in Int /\ Pending("mbd") \in Int /\ Pending("misses") \in Int
           /\ Cardinality(Due("total", 1)) \in Nat
BY PendingIsInt, DueFinite DEF CacheType, Counters, Events

LEMMA CountStep ==
    ASSUME CountInv, [CacheNext]_cacheVars
    PROVE  CountInv'
<1>a. /\ CacheType /\ CacheType' /\ ChosenOK /\ TodoOK /\ ChosenOK' /\ TodoOK'
      /\ AccessesConserved /\ MissesConserved
  BY CacheTypeStep, ChosenStep, TodoStep DEF CountInv
<1>f. ASSUME kernel' = kernel PROVE FolioDirtiedTwice' <=> FolioDirtiedTwice
  BY <1>f DEF FolioDirtiedTwice, fentry_can_attach
<1>1. ASSUME todo' = todo, loaded' = loaded, kernel' = kernel, seen' = seen, sum' = sum,
             UNCHANGED counterVars
      PROVE  (AccessesConserved /\ MissesConserved)'
  BY <1>a, <1>f, <1>1, DueStays DEF AccessesConserved, MissesConserved, counterVars
<1>2. ASSUME Select PROVE (AccessesConserved /\ MissesConserved)'
  <2>1. \A t \in Threads : todo[t] = {} /\ todo'[t] = {}
    BY <1>2, <1>a DEF Select, ChosenOK, TodoOK
  <2>2. \A c, n : Due(c, n) = {} /\ Due(c, n)' = {}
    BY <2>1 DEF Due
  <2>3. \A c : Pending(c)' = Pending(c)
    BY <2>2 DEF Pending
  <2> QED  BY <1>2, <1>a, <1>f, <2>3 DEF Select, AccessesConserved, MissesConserved, counterVars
<1>3. ASSUME TakeTotal PROVE (AccessesConserved /\ MissesConserved)'
  <2>1. /\ sum'.total = sum.total + total /\ sum'.misses = sum.misses /\ sum'.mbd = sum.mbd
        /\ total' = 0 /\ misses' = misses /\ mbd' = mbd /\ seen' = seen /\ kernel' = kernel
        /\ todo' = todo /\ loaded' = loaded
    BY <1>3, <1>a DEF TakeTotal, CacheType, Counters
  <2> QED  BY <1>a, <1>f, <2>1, DueStays, TypedCounts DEF AccessesConserved, MissesConserved
<1>4. ASSUME TakeMisses PROVE (AccessesConserved /\ MissesConserved)'
  <2>1. /\ sum'.total = sum.total /\ sum'.misses = sum.misses + misses /\ sum'.mbd = sum.mbd
        /\ total' = total /\ misses' = 0 /\ mbd' = mbd /\ seen' = seen /\ kernel' = kernel
        /\ todo' = todo /\ loaded' = loaded
    BY <1>4, <1>a DEF TakeMisses, CacheType, Counters
  <2> QED  BY <1>a, <1>f, <2>1, DueStays, TypedCounts DEF AccessesConserved, MissesConserved
<1>5. ASSUME TakeMbd PROVE (AccessesConserved /\ MissesConserved)'
  <2>1. /\ sum'.total = sum.total /\ sum'.misses = sum.misses /\ sum'.mbd = sum.mbd + mbd
        /\ total' = total /\ misses' = misses /\ mbd' = 0 /\ seen' = seen /\ kernel' = kernel
        /\ todo' = todo /\ loaded' = loaded
    BY <1>5, <1>a DEF TakeMbd, CacheType, Counters
  <2> QED  BY <1>a, <1>f, <2>1, DueStays, TypedCounts DEF AccessesConserved, MissesConserved
<1>6. ASSUME NEW t \in Threads, Add(t) PROVE (AccessesConserved /\ MissesConserved)'
  <2>1. PICK a \in todo[t] :
            /\ total' = IF a[2] = "total" THEN total + Amount(a[1][2], a[2]) ELSE total
            /\ misses' = IF a[2] = "misses" THEN misses + Amount(a[1][2], a[2]) ELSE misses
            /\ mbd' = IF a[2] = "mbd" THEN mbd + Amount(a[1][2], a[2]) ELSE mbd
            /\ todo' = [todo EXCEPT ![t] = @ \ {a}]
            /\ loaded' = loaded /\ kernel' = kernel /\ sum' = sum /\ seen' = seen
    BY <1>6 DEF Add
  <2>2. PICK n : n = Amount(a[1][2], a[2]) /\ n \in Int
    BY AmountIsInt
  <2>3. /\ Pending(a[2])' = Pending(a[2]) - n
        /\ \A c : c # a[2] => Pending(c)' = Pending(c)
    BY <1>a, <2>1, <2>2, DueAdded
  <2>4. a[2] \in Counters
    BY <1>a DEF CacheType
  <2>5. CASE a[2] = "total"
    BY <1>a, <1>f, <2>1, <2>2, <2>3, <2>5, TypedCounts DEF AccessesConserved, MissesConserved
  <2>6. CASE a[2] = "misses"
    BY <1>a, <1>f, <2>1, <2>2, <2>3, <2>6, TypedCounts DEF AccessesConserved, MissesConserved
  <2>7. CASE a[2] = "mbd"
    BY <1>a, <1>f, <2>1, <2>2, <2>3, <2>7, TypedCounts DEF AccessesConserved, MissesConserved
  <2> QED  BY <2>4, <2>5, <2>6, <2>7 DEF Counters
<1>7. ASSUME NEW t \in Threads, NEW e \in Events, NEW called \in CallsOf(e),
             Event(t, e, called)
      PROVE  (AccessesConserved /\ MissesConserved)'
  <2>1. /\ seen' = [seen EXCEPT ![e] = @ + 1] /\ kernel' = kernel /\ sum' = sum
        /\ UNCHANGED counterVars
    BY <1>7 DEF Event
  <2>2. /\ seen'.lru = seen.lru + (IF e = "lru" THEN 1 ELSE 0)
        /\ seen'.accessed = seen.accessed + (IF e = "accessed" THEN 1 ELSE 0)
        /\ seen'.buffer = seen.buffer + (IF e = "buffer" THEN 1 ELSE 0)
        /\ seen'.dirtied = seen.dirtied + (IF e = "dirtied" THEN 1 ELSE 0)
    BY <1>a, <2>1, TypedCounts DEF CacheType, Events
  <2> QED  BY <1>a, <1>f, <1>7, <2>1, <2>2, EventCounts, TypedCounts
           DEF AccessesConserved, MissesConserved, counterVars
<1>8. ASSUME \/ Attach \/ NoBss \/ sig_handler \/ Show \/ UNCHANGED cacheVars
             \/ \E t, c \in Threads : trace_sched_process_fork(t, c)
      PROVE  (AccessesConserved /\ MissesConserved)'
  BY <1>1, <1>8 DEF Attach, NoBss, sig_handler, Show, cacheVars, trace_sched_process_fork
<1>9. (AccessesConserved /\ MissesConserved)'
  BY <1>2, <1>3, <1>4, <1>5, <1>6, <1>7, <1>8 DEF CacheNext
<1> QED  BY <1>a, <1>9 DEF CountInv

LEMMA CountInit ==
    ASSUME CacheInit
    PROVE  CountInv
<1>1. \A c : Pending(c) = 0
  BY CacheInitOK, FS_EmptySet DEF Pending
<1>2. /\ total = 0 /\ misses = 0 /\ mbd = 0 /\ sum.total = 0 /\ sum.misses = 0 /\ sum.mbd = 0
      /\ seen.lru = 0 /\ seen.accessed = 0 /\ seen.buffer = 0 /\ seen.dirtied = 0
  BY DEF CacheInit, Events
<1> QED  BY <1>1, <1>2, CacheInitOK DEF CountInv, AccessesConserved, MissesConserved

\* On every kernel each page access and each dirtied buffer of a traced process is
\* counted once by the programs that main() chose (cachestat.c:222-302), and none is
\* lost between the counters and the exchanges that empty them.
THEOREM AccessesAreConserved == CacheSpec => []AccessesConserved
<1>1. CountInv => AccessesConserved
  BY DEF CountInv
<1> QED  BY CountInit, CountStep, <1>1, PTL DEF CacheSpec

\* The same for added and dirtied pages, but on kernels that have both fentry and
\* folio_account_dirtied, where a kprobe stays loaded beside the fentry program.
THEOREM MissesAreConserved == CacheSpec => []MissesConserved
<1>1. CountInv => MissesConserved
  BY DEF CountInv
<1> QED  BY CountInit, CountStep, <1>1, PTL DEF CacheSpec

-----------------------------------------------------------------------------
(* What is shown                                                           *)

ShownInv == CacheType /\ ChosenOK /\ TodoOK /\ ShownOK

LEMMA ModuloBounds == \A n \in Nat : n % U64 \in Nat /\ n % U64 <= n
BY CacheAssumption

\* A line shows the accesses that were taken, as hits or as misses, or fewer.
LEMMA ShowShows ==
    ASSUME CacheType, Show
    PROVE  shown'.hits + shown'.misses <= shown.hits + shown.misses + NotNegative(taken.total)
<1>t. PICK t : t = NotNegative(taken.total)
  OBVIOUS
<1>m. PICK m : m = ShownMisses(t, NotNegative(taken.misses))
  OBVIOUS
<1>1. shown' = [hits |-> (shown.hits + (t - m)) % U64, misses |-> (shown.misses + m) % U64,
                dirties |-> shown.dirties + taken.mbd]
  BY <1>t, <1>m DEF Show
<1>2. t \in Nat /\ m \in 0 .. t
  <2>1. t \in Nat /\ NotNegative(taken.misses) \in Nat
    BY <1>t, TypedCounts DEF NotNegative
  <2> QED  BY <1>m, <2>1 DEF ShownMisses
<1>h. PICK h : h = shown.hits + (t - m)
  OBVIOUS
<1>n. PICK n : n = shown.misses + m
  OBVIOUS
<1>3. h \in Nat /\ n \in Nat /\ h + n = shown.hits + shown.misses + t
  BY <1>2, <1>h, <1>n, TypedCounts
<1>4. h % U64 \in Nat /\ h % U64 <= h /\ n % U64 \in Nat /\ n % U64 <= n
  BY <1>3, ModuloBounds
<1>5. shown'.hits = h % U64 /\ shown'.misses = n % U64
  BY <1>1, <1>h, <1>n
<1> QED  BY <1>t, <1>3, <1>4, <1>5

LEMMA ShownStep ==
    ASSUME ShownInv, [CacheNext]_cacheVars
    PROVE  ShownInv'
<1>a. CacheType /\ CacheType' /\ ChosenOK /\ TodoOK /\ ChosenOK' /\ TodoOK' /\ ShownOK
  BY CacheTypeStep, ChosenStep, TodoStep DEF ShownInv
<1>n. Taken \in Nat /\ NotNegative(total) \in Nat
  BY <1>a, TypedCounts DEF Taken, NotNegative
<1>1. ASSUME todo' = todo, loaded' = loaded, seen' = seen, total' = total, shown' = shown,
             taken'.total = taken.total,
             (stage' \in {"misses", "mbd", "show"}) => stage \in {"misses", "mbd", "show"}
      PROVE  ShownOK'
  <2>1. Taken' <= Taken /\ Taken' \in Nat
    BY <1>a, <1>1, TypedCounts DEF Taken, NotNegative
  <2>2. /\ NotNegative(total)' = NotNegative(total)
        /\ Cardinality(Due("total", 1))' = Cardinality(Due("total", 1))
    BY <1>1, DueStays
  <2> QED  BY <1>a, <1>1, <1>n, <2>1, <2>2, TypedCounts DEF ShownOK
<1>2. ASSUME Select PROVE ShownOK'
  <2>1. \A t \in Threads : todo[t] = {} /\ todo'[t] = {}
    BY <1>2, <1>a DEF Select, ChosenOK, TodoOK
  <2>2. Due("total", 1) = {} /\ Due("total", 1)' = {}
    BY <2>1 DEF Due
  <2> QED  BY <1>2, <1>a, <2>2 DEF Select, ShownOK, Taken, counterVars
<1>3. ASSUME TakeTotal PROVE ShownOK'
  <2>1. Taken' = NotNegative(total) /\ NotNegative(total)' = 0 /\ Taken = 0
    BY <1>3, <1>a DEF TakeTotal, Taken, NotNegative, CacheType, Counters
  <2>2. Cardinality(Due("total", 1))' = Cardinality(Due("total", 1))
    BY <1>3, DueStays DEF TakeTotal
  <2>3. shown' = shown /\ seen' = seen
    BY <1>3 DEF TakeTotal
  <2> QED  BY <1>a, <1>n, <2>1, <2>2, <2>3, TypedCounts DEF ShownOK
<1>4. ASSUME TakeMisses \/ TakeMbd PROVE ShownOK'
  <2>1. taken'.total = taken.total
    BY <1>4, <1>a DEF TakeMisses, TakeMbd, CacheType, Counters
  <2> QED  BY <1>1, <1>4, <2>1 DEF TakeMisses, TakeMbd
<1>5. ASSUME Show PROVE ShownOK'
  <2>1. Taken = NotNegative(taken.total) /\ Taken' = 0
    BY <1>5 DEF Show, Taken
  <2>2. NotNegative(total)' = NotNegative(total) /\ seen' = seen
    BY <1>5 DEF Show, counterVars
  <2>3. Cardinality(Due("total", 1))' = Cardinality(Due("total", 1))
    BY <1>5, DueStays DEF Show
  <2>4. /\ shown'.hits \in Nat /\ shown'.misses \in Nat
        /\ shown'.hits + shown'.misses <= shown.hits + shown.misses + Taken
    BY <1>a, <1>5, <2>1, ShowShows DEF CacheType
  <2> QED  BY <1>a, <1>n, <2>1, <2>2, <2>3, <2>4, TypedCounts DEF ShownOK
<1>6. ASSUME NEW t \in Threads, Add(t) PROVE ShownOK'
  <2>1. PICK a \in todo[t] :
            /\ total' = IF a[2] = "total" THEN total + Amount(a[1][2], a[2]) ELSE total
            /\ todo' = [todo EXCEPT ![t] = @ \ {a}]
            /\ loaded' = loaded /\ seen' = seen /\ UNCHANGED mainVars
    BY <1>6 DEF Add
  <2>2. PICK n : n = Amount(a[1][2], a[2]) /\ n \in {1, -1}
    BY AmountIsInt
  <2>3. Taken' = Taken
    BY <2>1 DEF mainVars, Taken
  <2>4. CASE a[2] = "total"
    <3>1. Cardinality(Due("total", 1))'
              = Cardinality(Due("total", 1)) - IF n = 1 THEN 1 ELSE 0
      BY <1>a, <2>1, <2>2, <2>4, DueAdded
    <3>2. NotNegative(total)' <= NotNegative(total) + (IF n = 1 THEN 1 ELSE 0)
          /\ NotNegative(total)' \in Nat
      BY <1>a, <2>1, <2>2, <2>4, TypedCounts DEF NotNegative
    <3> QED  BY <1>a, <1>n, <2>1, <2>2, <2>3, <3>1, <3>2, TypedCounts DEF ShownOK, mainVars
  <2>5. CASE a[2] # "total"
    <3>1. Due("total", 1)' = Due("total", 1)
      BY <1>a, <2>1, <2>5, DueAdded
    <3> QED  BY <1>a, <2>1, <2>3, <2>5, <3>1 DEF ShownOK, mainVars
  <2> QED  BY <2>4, <2>5
<1>7. ASSUME NEW t \in Threads, NEW e \in Events, NEW called \in CallsOf(e),
             Event(t, e, called)
      PROVE  ShownOK'
  <2>1. /\ seen' = [seen EXCEPT ![e] = @ + 1] /\ UNCHANGED counterVars /\ UNCHANGED mainVars
    BY <1>7 DEF Event
  <2>2. seen'.accessed = seen.accessed + (IF e = "accessed" THEN 1 ELSE 0)
    BY <1>a, <2>1, TypedCounts DEF CacheType, Events
  <2>3. Cardinality(Due("total", 1))' =
            Cardinality(Due("total", 1)) + (IF e = "accessed" THEN 1 ELSE 0)
    BY <1>a, <1>7, EventCounts
  <2>4. Taken' = Taken /\ NotNegative(total)' = NotNegative(total) /\ shown' = shown
    BY <2>1 DEF mainVars, counterVars, Taken
  <2> QED  BY <1>a, <1>n, <2>2, <2>3, <2>4, TypedCounts DEF ShownOK
<1>8. ASSUME \/ Attach \/ NoBss \/ sig_handler \/ UNCHANGED cacheVars
             \/ \E t, c \in Threads : trace_sched_process_fork(t, c)
      PROVE  ShownOK'
  BY <1>1, <1>8 DEF Attach, NoBss, sig_handler, cacheVars, trace_sched_process_fork, mainVars,
                    counterVars
<1>9. ShownOK'
  BY <1>2, <1>3, <1>4, <1>5, <1>6, <1>7, <1>8 DEF CacheNext
<1> QED  BY <1>a, <1>9 DEF ShownInv

\* The totals at the end never claim more hits and misses than there were accesses:
\* a dirtied buffer whose access fell into an earlier interval makes a difference
\* negative, and it is cut off before it is added to an unsigned total
\* (cachestat.c:345-359).
THEOREM TotalsWithinAccesses == CacheSpec => []ShownWithinAccesses
<1>1. CacheInit => ShownInv
  <2> SUFFICES ASSUME CacheInit PROVE ShownInv
    OBVIOUS
  <2>1. Cardinality(Due("total", 1)) = 0
    BY CacheInitOK, FS_EmptySet
  <2>2. Taken = 0 /\ NotNegative(total) = 0 /\ shown.hits = 0 /\ shown.misses = 0
        /\ seen.accessed = 0
    BY DEF CacheInit, Taken, NotNegative, Events
  <2> QED  BY <2>1, <2>2, CacheInitOK DEF ShownInv, ShownOK
<1>2. ShownInv => ShownWithinAccesses
  <2> SUFFICES ASSUME ShownInv PROVE ShownWithinAccesses
    OBVIOUS
  <2>1. Taken \in Nat /\ NotNegative(total) \in Nat
    BY TypedCounts DEF Taken, NotNegative, ShownInv
  <2> QED  BY <2>1, TypedCounts DEF ShownInv, ShownOK, ShownWithinAccesses
<1> QED  BY <1>1, <1>2, ShownStep, PTL DEF CacheSpec
=============================================================================
