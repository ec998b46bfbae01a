---------------------------- MODULE MCRefinement ----------------------------
(***************************************************************************)
(* The instances of MCDedup with the history variable of DedupHistory and  *)
(* the refinement mapping.                                                 *)
(***************************************************************************)
EXTENDS MCDedup, DedupHistory, DedupRefinement

\* Files that grow, share, shrink, vanish and come back, and a reader.
FileRequests ==
    {Write(f, 0, <<c1>>), Write(f, 2, <<c2>>), Write(g, 0, <<c1, c2>>), Unlink(f),
     Creat(f), Truncate(g, 1), Truncate(f, 0), Read(g, 2)}
=============================================================================
