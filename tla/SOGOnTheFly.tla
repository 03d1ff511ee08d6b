---------------------------- MODULE SOGOnTheFly ----------------------------
(***************************************************************************)
(* What every on-the-fly construction promises its model checker: the      *)
(* graph only ever grows towards the Symbolic Observation Graph, an        *)
(* aggregate declared complete keeps its edges for good, and the checker   *)
(* reads an aggregate only once all its edges and both flags are there.    *)
(* The number of threads, queues, mutexes and wake-ups do not appear.      *)
(***************************************************************************)
EXTENDS SOG

VARIABLES
  known,    \* the aggregates inserted in the graph
  edges,    \* the edges inserted in the graph
  final,    \* the aggregates declared complete
  read,     \* the aggregates the model checker has obtained
  stopped   \* the model checker has its verdict and wants no more

vars == <<known, edges, final, read, stopped>>

EdgesFrom(a) == {e \in Edge : e[1] = a}

TypeOK ==
  /\ known \subseteq Aggregate
  /\ edges \subseteq Edge
  /\ final \subseteq known
  /\ read \subseteq final
  /\ stopped \in BOOLEAN

Init ==
  /\ known = {}
  /\ edges = {}
  /\ final = {}
  /\ read = {}
  /\ stopped = FALSE

(* The construction starts from the initial aggregate. *)
Start ==
  /\ known = {}
  /\ known' = {InitialAggregate}
  /\ UNCHANGED <<edges, final, read, stopped>>

(* A new aggregate is the target of an edge that leaves an unfinished one. *)
Discover(e) ==
  /\ e[1] \in known \ final
  /\ e[3] \notin known
  /\ known' = known \cup {e[3]}
  /\ UNCHANGED <<edges, final, read, stopped>>

Link(e) ==
  /\ e[1] \in known \ final
  /\ e[3] \in known
  /\ e \notin edges
  /\ edges' = edges \cup {e}
  /\ UNCHANGED <<known, final, read, stopped>>

(* Only a construction told to stop may close an aggregate early. *)
Finalize(a) ==
  /\ a \in known \ final
  /\ EdgesFrom(a) \subseteq edges \/ stopped
  /\ final' = final \cup {a}
  /\ UNCHANGED <<known, edges, read, stopped>>

Read(a) ==
  /\ ~stopped
  /\ a \in final \ read
  /\ EdgesFrom(a) \subseteq edges
  /\ a = InitialAggregate \/ \E e \in edges : e[1] \in read /\ e[3] = a
  /\ read' = read \cup {a}
  /\ UNCHANGED <<known, edges, final, stopped>>

Stop ==
  /\ ~stopped
  /\ stopped' = TRUE
  /\ UNCHANGED <<known, edges, final, read>>

Next ==
  \/ Start
  \/ \E e \in Edge : Discover(e) \/ Link(e)
  \/ \E a \in Aggregate : Finalize(a) \/ Read(a)
  \/ Stop

Spec == Init /\ [][Next]_vars
=============================================================================
