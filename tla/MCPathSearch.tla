----------------------------- MODULE MCPathSearch -----------------------------
(***************************************************************************)
(* Graphs of four vertices: enough for two disjoint paths between the same *)
(* ends, for ties between paths of different lengths, and for parallel     *)
(* edges.                                                                  *)
(***************************************************************************)
EXTENDS PathSearch

AnyCost == {0, 1, 2}
=============================================================================
