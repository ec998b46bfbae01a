------------------------------ MODULE MCDedup ------------------------------
(***************************************************************************)
(* Instances of Dedup for TLC.  A block is BLOCK_SIZE = 2 bytes, so that   *)
(* odd offsets and sizes are the unaligned ones.                           *)
(***************************************************************************)
EXTENDS DedupProperties, TLC

CONSTANTS t1, t2, f, g, c1, c2, h1, h2, p1, p2, p3, p4

Req(op, path, offset, size, data) ==
    [op |-> op, path |-> path, offset |-> offset, size |-> size, data |-> data]
Write(path, offset, data) == Req("write", path, offset, 2 * Len(data), data)
Read(path, n)             == Req("read", path, 0, 2 * n, <<>>)
Unlink(path)              == Req("unlink", path, 0, 0, <<>>)
Truncate(path, n)         == Req("truncate", path, 0, 2 * n, <<>>)
Creat(path)               == Req("create", path, 0, 0, <<>>)

MCHashOf == c1 :> h1 @@ c2 :> h2

\* Batches with pairwise distinct blocks, racing on the same contents.
RaceRequests ==
    {Write(f, 0, <<c1>>), Write(g, 0, <<c1, c2>>), Unlink(f), Truncate(g, 1)}

\* One thread: duplicate blocks inside a batch, overwrites, unaligned sizes, the
\* whole life of a file.
SequentialRequests ==
    {Write(f, 0, <<c1, c1>>), Write(f, 0, <<c2, c1>>), Write(g, 2, <<c1>>),
     Unlink(f), Creat(f), Truncate(f, 1), Truncate(f, 2), Read(f, 2),
     Req("write", f, 0, 0, <<>>), Req("write", f, 0, 3, <<c1>>),
     Req("read", f, 0, 1, <<>>), Req("truncate", f, 0, 1, <<>>)}

\* Every operation on one-block files that share their content.
SharedRequests ==
    {Write(f, 0, <<c1>>), Write(g, 0, <<c1>>), Unlink(f), Truncate(g, 0), Read(f, 1),
     Creat(f)}

\* A batch with a duplicate block against a writer of the same content.
DuplicateRaceRequests == {Write(f, 0, <<c1, c1>>), Write(g, 0, <<c1>>)}

InfoSymmetry == Permutations(Infos)
ThreadSymmetry == Permutations(Threads)
Symmetry == InfoSymmetry \cup ThreadSymmetry
=============================================================================
