---------------------------- MODULE MCCacheStat -----------------------------
(***************************************************************************)
(* Instances of CacheStat for TLC.                                         *)
(***************************************************************************)
EXTENDS CacheStat

CONSTANTS t1, t2

OneThread == {t1}
TwoThreads == {t1, t2}

\* Kernels with every combination of names for what dirties a page: one of the two
\* functions, beside the tracepoint of its generation, or none and at most one
\* tracepoint.  The other two renamed functions are of the same generation, as
\* main() chooses for each of them on its own.
SameNames(h) == \A i \in 1 .. 2 : Lru[i] \in h <=> Accessed[i] \in h
DirtyNames(h, p) ==
    \/ \E i \in 1 .. 2 : h \cap Either(Dirtied) = {Dirtied[i]} /\ p = {DirtyTp[i]}
    \/ h \cap Either(Dirtied) = {} /\ Cardinality(p) < 2
AllKernels ==
    {[has |-> s[1], tp |-> s[2], fentry |-> f] :
        s \in {r \in (SUBSET Functions7) \X (SUBSET Either(DirtyTp)) :
                  SameNames(r[1]) /\ DirtyNames(r[1], r[2])}, f \in BOOLEAN}
=============================================================================
