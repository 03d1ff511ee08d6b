------------------------------ MODULE LDDGraph ------------------------------
(***************************************************************************)
(* LDDGraph and LDDState: the shared graph every construction fills.       *)
(*                                                                         *)
(* m_GONodes is a vector of pointers to LDDState objects that are never    *)
(* moved or freed while it is used, so a pointer is the position of its    *)
(* object in the vector.  The operators below take the vector and return   *)
(* the new one; each stands for a critical section of the code.            *)
(***************************************************************************)
EXTENDS SOG, Sequences

(* A pointer into m_GONodes that designates nothing, and no transition. *)
NoState == 0
NoTransition == -1

(* The fields of an LDDState the multi-thread constructions use. *)
LDDState ==
  [m_lddstate   : Aggregate,
   Successors   : Seq([to : Nat, t : Transition]),
   Predecessors : SUBSET [from : Nat, t : Transition],
   m_boucle     : BOOLEAN,
   m_blocage    : BOOLEAN,
   m_visited    : BOOLEAN,
   m_completed  : BOOLEAN]

(* Mutant: the aggregate of the new state is not assigned. *)
NewStateUnassigned(a) ==
  [m_lddstate |-> 0, Successors |-> <<>>, Predecessors |-> {},
   m_boucle |-> FALSE, m_blocage |-> FALSE,
   m_visited |-> FALSE, m_completed |-> FALSE]

(* new LDDState, with its m_lddstate assigned. *)
NewState(a) ==
  [m_lddstate |-> a, Successors |-> <<>>, Predecessors |-> {},
   m_boucle |-> FALSE, m_blocage |-> FALSE,
   m_visited |-> FALSE, m_completed |-> FALSE]

(* setDeadLock(Set_Bloc(a)) and setDiv(Set_Div(a)). *)
WithFlags(s) ==
  [s EXCEPT !.m_blocage = s.m_lddstate \in Deadlocked,
            !.m_boucle = s.m_lddstate \in Divergent]

(* Mutant: the search stops before the last state. *)
StatesOfAllButLast(graph, a) ==
  {n \in DOMAIN graph : n < Len(graph) /\ graph[n].m_lddstate = a}

(* The states of the graph that hold aggregate a. *)
StatesOf(graph, a) == {n \in DOMAIN graph : graph[n].m_lddstate = a}

insert(graph, s) == Append(graph, s)

(* Insertion at begin(): the newest edge comes first. *)
AddSuccessor(graph, n, to, t) ==
  [graph EXCEPT ![n].Successors = <<[to |-> to, t |-> t]>> \o @]

AddPredecessor(graph, n, from, t) ==
  [graph EXCEPT ![n].Predecessors = @ \cup {[from |-> from, t |-> t]}]

(* The observable transitions a state has an edge for. *)
TransitionsOf(s) == {s.Successors[i].t : i \in DOMAIN s.Successors}
=============================================================================
