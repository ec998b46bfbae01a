------------------------------ MODULE MCMount ------------------------------
(***************************************************************************)
(* Instances of Mount for TLC, with the values of MCDedup.                 *)
(***************************************************************************)
EXTENDS MCDedup, Mount

\* Two files with a block each: what is saved, and in which order, changes.
SaveRequests == {Write(f, 0, <<c1>>), Write(g, 0, <<c2>>), Unlink(f)}

\* Batches that fail after appending, and one that reuses what they gave back.
RollbackRequests == {Write(f, 0, <<c1, c2>>), Write(g, 0, <<c2>>), Unlink(g)}
=============================================================================
