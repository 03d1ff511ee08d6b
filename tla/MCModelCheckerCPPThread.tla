---------------------- MODULE MCModelCheckerCPPThread ----------------------
(* Small Symbolic Observation Graphs for TLC.                              *)
EXTENDS ModelCheckerCPPThread, TLC

CONSTANTS A, B, C

(* Three aggregates: a cycle, a self-loop, a target that two builders can  *)
(* discover at the same time and that enables nothing.                     *)
ThreeFirable == A :> {1, 2} @@ B :> {1, 2, 3} @@ C :> {}
ThreeSuccessor ==
  <<A, 1>> :> B @@ <<A, 2>> :> C @@
  <<B, 1>> :> B @@ <<B, 2>> :> A @@ <<B, 3>> :> C

=============================================================================
