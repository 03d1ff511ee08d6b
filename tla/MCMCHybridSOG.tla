---------------------------- MODULE MCMCHybridSOG ----------------------------
(* Small distributed model checks for TLC.                                 *)
EXTENDS MCHybridSOG, TLC

CONSTANTS A, B, C

(* A target that two states reach, in its own process or from another one. *)
TriangleFirable == A :> {1, 2} @@ B :> {1} @@ C :> {}
TriangleSuccessor ==
  <<A, 1>> :> B @@ <<A, 2>> :> C @@ <<B, 1>> :> C

Memory(succ, agregate) == [m_waitingBuildSucc |-> succ, m_waitingAgregate |-> agregate]
Owners(a, b, c) == A :> a @@ B :> b @@ C :> c

(* Two builders in one process; one builder in each of two processes, with *)
(* the first two aggregates sent to process 1; one builder with the        *)
(* harmful values of the uninitialized members.                            *)
HomeAndAway ==
  {[nb_th |-> 0 :> 3 @@ 1 :> 0, destination |-> Owners(0, 0, 0), memory |-> Memory("waitInitial", FALSE)],
   [nb_th |-> 0 :> 2 @@ 1 :> 2, destination |-> Owners(1, 1, 0), memory |-> Memory("waitInitial", FALSE)]}
  \cup
  {[nb_th |-> 0 :> 2 @@ 1 :> 0, destination |-> Owners(0, 0, 0), memory |-> m] :
     m \in {Memory("waitingBuild", FALSE), Memory("waitingSucc", FALSE), Memory("waitInitial", TRUE)}}
=============================================================================
