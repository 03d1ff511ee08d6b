---------------------------- MODULE MCThreadSOG ----------------------------
(* Small Symbolic Observation Graphs for TLC.                              *)
EXTENDS ThreadSOG, TLC

CONSTANTS A, B, C

(* Three aggregates: a cycle, a self-loop and a shared target. *)
ThreeFirable == A :> {1, 2} @@ B :> {1, 2, 3} @@ C :> {}
ThreeSuccessor ==
  <<A, 1>> :> B @@ <<A, 2>> :> C @@
  <<B, 1>> :> B @@ <<B, 2>> :> A @@ <<B, 3>> :> C

(* A target that the thread of A and the thread of B can reach at the same *)
(* time, and a cycle.                                                      *)
TriangleFirable == A :> {1, 2} @@ B :> {1} @@ C :> {1}
TriangleSuccessor ==
  <<A, 1>> :> B @@ <<A, 2>> :> C @@ <<B, 1>> :> C @@ <<C, 1>> :> A
=============================================================================
