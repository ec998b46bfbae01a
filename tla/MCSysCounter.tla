---------------------------- MODULE MCSysCounter ----------------------------
(***************************************************************************)
(* Instances of SysCounter for TLC: a traced process with two threads and  *)
(* one thread or process more, which they create.                          *)
(***************************************************************************)
EXTENDS SysCounter

CONSTANTS t1, t2, t3

MCThreads == {t1, t2, t3}
TwoOps == <<"openat", "read">>

Machine(n, e, ops, bound) == [cpus |-> n, early |-> e, ops |-> ops, calls |-> bound]
Both == {"openat", "read"}

\* One CPU, with and without calls during the attach, and two CPUs; three calls to
\* race for one counter, or to have labels of their own.
MCMachines ==
    {Machine(1, FALSE, Both, 2), Machine(1, TRUE, Both, 2), Machine(2, FALSE, Both, 2),
     Machine(2, FALSE, {"read"}, 3)}

\* A thread may have been given a name of its own.
OwnComm == [t \in MCThreads |-> IF t = t2 THEN "worker" ELSE "app"]
=============================================================================
