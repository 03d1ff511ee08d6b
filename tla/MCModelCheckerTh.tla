-------------------------- MODULE MCModelCheckerTh --------------------------
(* Small Symbolic Observation Graphs for TLC.                              *)
EXTENDS ModelCheckerTh, TLC

CONSTANTS A, B, C

(* A cycle, a self-loop, and a target two builders reach at once, so that  *)
(* an aggregate with transitions gets two states.                          *)
ThreeFirable == A :> {1, 2} @@ B :> {1, 2} @@ C :> {1}
ThreeSuccessor ==
  <<A, 1>> :> B @@ <<A, 2>> :> C @@ <<B, 1>> :> C @@ <<B, 2>> :> B @@ <<C, 1>> :> A
=============================================================================
