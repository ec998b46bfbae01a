---------------------------- MODULE MCBufferedIO ----------------------------
(***************************************************************************)
(* Instances of BufferedIO for TLC: elements smaller than the buffer, of   *)
(* its size and larger, so that headers and bytes straddle flushes.        *)
(***************************************************************************)
EXTENDS BufferedIO

MCLists == UNION {[1 .. n -> {1, 3, 5}] : n \in 0 .. 3}
=============================================================================
