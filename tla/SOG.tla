-------------------------------- MODULE SOG --------------------------------
(***************************************************************************)
(* The Symbolic Observation Graph a construction has to build, as data.    *)
(*                                                                         *)
(* An aggregate is a set of markings closed under the non-observable       *)
(* transitions; the code holds it as the identifier of an LDD, and two     *)
(* aggregates are equal exactly when their identifiers are (the unique     *)
(* table of SylvanWrapper shares equal nodes).  The constructions only     *)
(* compare aggregates, so an aggregate is an opaque value here and the     *)
(* symbolic operations of CommonSOG are the constants below.               *)
(***************************************************************************)
EXTENDS Integers

CONSTANTS
  Aggregate,         \* the aggregates of the net
  Transition,        \* the observable transitions, indices of m_tb_relation
  InitialAggregate,  \* Accessible_epsilon(m_initialMarking)
  FirableObs,        \* firable_obs: the observable transitions an aggregate enables
  Successor,         \* Accessible_epsilon(get_successor(a, t)) for an enabled t
  Divergent,         \* the aggregates on which Set_Div answers true
  Deadlocked         \* the aggregates on which Set_Bloc answers true

(* The pairs (aggregate, transition) an edge of the graph leaves by. *)
Arc == {at \in Aggregate \X Transition : at[2] \in FirableObs[at[1]]}

ASSUME SOGAssumption ==
  /\ Transition \subseteq Nat
  /\ InitialAggregate \in Aggregate
  /\ FirableObs \in [Aggregate -> SUBSET Transition]
  /\ Successor \in [Arc -> Aggregate]
  /\ Divergent \subseteq Aggregate
  /\ Deadlocked \subseteq Aggregate

(* The edges of the graph: source, observable transition, target. *)
Edge == {<<at[1], at[2], Successor[at]>> : at \in Arc}
=============================================================================
