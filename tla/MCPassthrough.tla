--------------------------- MODULE MCPassthrough ---------------------------
(***************************************************************************)
(* Instances of Passthrough for TLC, with the values of MCDedup.           *)
(***************************************************************************)
EXTENDS MCDedup, Passthrough

CONSTANTS hid, i1, i2, i3

NamespaceRequests ==
    {Write(f, 0, <<c1>>), Write(g, 0, <<c1, c2>>), Unlink(f), Unlink(hid), Creat(f),
     Truncate(g, 1)}

PassSymmetry == Permutations(Infos) \cup Permutations(Inodes)
=============================================================================
