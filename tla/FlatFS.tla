------------------------------- MODULE FlatFS -------------------------------
(***************************************************************************)
(* What the file system promises, without deduplication: every file is a   *)
(* sequence of blocks of its own, and each request takes effect in one     *)
(* step (contents) or two (contents, then size) between its call and its   *)
(* return.  A write that returns without having taken effect has failed.   *)
(***************************************************************************)
EXTENDS Integers

CONSTANTS
    Threads, Paths, Blocks, NULL,
    Requests,     \* records with fields op and path
    First(_),     \* first block of a request
    Count(_),     \* number of its blocks
    Datum(_, _)   \* what write r puts into its i-th block

VARIABLES
    content,  \* (path, block) -> datum or NULL
    size,     \* path -> size in blocks or NULL
    job,      \* request each thread is serving
    wrote     \* threads whose write has taken effect

flatVars == <<content, size, job, wrote>>

FlatInit ==
    /\ content = [x \in Paths \X Blocks |-> NULL]
    /\ size = [p \in Paths |-> NULL]
    /\ job = [t \in Threads |-> NULL]
    /\ wrote = {}

Call(t) ==
    /\ job[t] = NULL
    /\ \E r \in Requests : job' = [job EXCEPT ![t] = r]
    /\ UNCHANGED <<content, size, wrote>>

\* All blocks of a write appear at once, and the size with them.
Put(t) ==
    LET r == job[t]
        end == First(r) + Count(r)
        In(x) == x[1] = r.path /\ First(r) <= x[2] /\ x[2] < end
    IN /\ r # NULL /\ r.op = "write" /\ t \notin wrote
       /\ wrote' = wrote \cup {t}
       /\ content' = [x \in DOMAIN content |->
                         IF In(x) THEN Datum(r, x[2] - First(r)) ELSE content[x]]
       /\ size' = [size EXCEPT ![r.path] = IF @ # NULL /\ @ > end THEN @ ELSE end]
       /\ UNCHANGED job

\* The blocks a removal has to take away: all of them, or those beyond the size.
Doomed(r, x) == x[1] = r.path /\ \/ r.op = "unlink"
                                 \/ r.op = "truncate" /\ x[2] >= Count(r)
Left(r) == {x \in DOMAIN content : Doomed(r, x) /\ content[x] # NULL}

\* They vanish at once.
Remove(t) ==
    /\ job[t] # NULL /\ job[t].op \in {"unlink", "truncate"}
    /\ content' = [x \in DOMAIN content |-> IF Doomed(job[t], x) THEN NULL ELSE content[x]]
    /\ UNCHANGED <<size, job, wrote>>

Hangup(t) == job' = [job EXCEPT ![t] = NULL] /\ wrote' = wrote \ {t}

\* Then the size follows; a truncate returns with that step.
Resize(t) ==
    /\ job[t] # NULL /\ Left(job[t]) = {} /\ size[job[t].path] # NULL
    /\ \/ /\ job[t].op = "unlink"
          /\ size' = [size EXCEPT ![job[t].path] = NULL] /\ UNCHANGED <<job, wrote>>
       \/ /\ job[t].op = "truncate" /\ Count(job[t]) < size[job[t].path]
          /\ size' = [size EXCEPT ![job[t].path] = Count(job[t])] /\ Hangup(t)
    /\ UNCHANGED content

\* A removal returns only when nothing is left to remove.
Reply(t) ==
    /\ job[t] # NULL
    /\ job[t].op = "unlink" => Left(job[t]) = {} /\ size[job[t].path] = NULL
    /\ job[t].op = "truncate" =>
         Left(job[t]) = {} /\ (size[job[t].path] = NULL \/ size[job[t].path] <= Count(job[t]))
    /\ Hangup(t)
    /\ UNCHANGED <<content, size>>

FlatNext == \E t \in Threads : Call(t) \/ Put(t) \/ Remove(t) \/ Resize(t) \/ Reply(t)

FlatSpec == FlatInit /\ [][FlatNext]_flatVars
=============================================================================
