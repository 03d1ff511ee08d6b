---------------------- MODULE MCHybridSOGConstruction ----------------------
(* Small distributed graphs for TLC.                                       *)
EXTENDS HybridSOG, TLC

CONSTANTS A, B, C

(* A target that is reached inside the process it belongs to and from the  *)
(* other one, by two builders at the same time; a cycle.                   *)
TriangleFirable == A :> {1, 2} @@ B :> {1} @@ C :> {1}
TriangleSuccessor ==
  <<A, 1>> :> B @@ <<A, 2>> :> C @@ <<B, 1>> :> C @@ <<C, 1>> :> A

(* Two processes: two builders in process 0, which keeps the initial       *)
(* aggregate; or one builder each, and it is sent to process 1.            *)
HomeAndAway ==
  {[n_tasks |-> 2, nb_th |-> 0 :> 3 @@ 1 :> 2, destination |-> A :> 0 @@ B :> 1 @@ C :> 0],
   [n_tasks |-> 2, nb_th |-> 0 :> 2 @@ 1 :> 2, destination |-> A :> 1 @@ B :> 1 @@ C :> 0]}

(* Three processes; the states travel against the messages of the rounds. *)
RingFirable == A :> {1} @@ B :> {1} @@ C :> {1}
RingSuccessor == <<A, 1>> :> B @@ <<B, 1>> :> C @@ <<C, 1>> :> A
Ring ==
  {[n_tasks |-> 3, nb_th |-> 0 :> 2 @@ 1 :> 2 @@ 2 :> 2,
    destination |-> A :> 0 @@ B :> 2 @@ C :> 1]}
=============================================================================
