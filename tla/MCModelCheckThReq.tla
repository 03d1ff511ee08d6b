------------------------- MODULE MCModelCheckThReq -------------------------
(* Small Symbolic Observation Graphs for TLC.                              *)
EXTENDS ModelCheckThReq, TLC

CONSTANTS A, B, C, W1, W2

(* The checker and a builder meet at B, two builders share its loops, and  *)
(* C, which enables nothing, is for whoever expands it.                    *)
PairFirable == A :> {1} @@ B :> {1, 2} @@ C :> {}
PairSuccessor == <<A, 1>> :> B @@ <<B, 1>> :> B @@ <<B, 2>> :> C
=============================================================================
