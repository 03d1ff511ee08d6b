-------------------------- MODULE ThreadSOGProofs --------------------------
(***************************************************************************)
(* What holds of the construction for every number of threads, every       *)
(* method and every Symbolic Observation Graph.  The argument goes in      *)
(* layers, each an invariant relative to the ones before it:               *)
(*   TypeInv   types, and pointers that designate states of the graph;     *)
(*   LockInv   m_gc counts the threads of the section (on its own);        *)
(*   OwnerInv  a state is on one stack once or in one thread's hands;      *)
(*   WorkInv   what its owner has linked, has in hand and has still to     *)
(*             fire are the observable transitions of a state, once each;  *)
(*   GraphInv  no aggregate twice, and every edge is one of the SOG.       *)
(* WorkInv and GraphInv carry the refinement of SOGOnTheFly.               *)
(***************************************************************************)
EXTENDS ThreadSOG, LDDGraphProofs, FiniteSetTheorems

Agg(n) == m_GONodes[n].m_lddstate

(* The thread works on the state of its e. *)
Working == {"fire", "enter", "first", "collect", "collected", "find", "link", "read",
            "write", "push", "leave", "last"}

(* It has taken a transition of it, has found where it leads to, has still *)
(* to insert the edge.                                                     *)
Taken == {"enter", "first", "collect", "collected", "find", "link", "read", "write"}
Aimed == {"link", "read", "write", "push"}
Unlinked == {"enter", "first", "collect", "collected", "find", "link"}

(* It does nothing for any state. *)
Resting == {"start", "initial", "loop", "busy", "pop", "idle", "scan", "done"}

TypeOK ==
  /\ method \in Methods
  /\ m_GONodes \in Seq(LDDState)
  /\ m_nbArcs \in Nat
  /\ m_st \in [Thread -> Seq(StackedPair)]
  /\ m_terminaison \subseteq Thread
  /\ m_id_thread \in Nat
  /\ m_gc \in Int
  /\ m_gc_mutex \in {"free", "section", "collector"}
  /\ pc \in [Thread -> Working \cup Resting]
  /\ e \in [Thread -> StackedPair]
  /\ t \in [Thread -> Transition \cup {NoTransition}]
  /\ pos \in [Thread -> Nat]
  /\ fresh \in [Thread -> BOOLEAN]
  /\ seen \in [Thread -> SUBSET [from : Nat, t : Transition]]
  /\ i \in [Thread -> Nat]

StacksOK ==
  \A w \in Thread : \A k \in DOMAIN m_st[w] :
    /\ m_st[w][k].state \in State
    /\ m_st[w][k].fire = FirableObs[Agg(m_st[w][k].state)]

ThreadOK(w) ==
  /\ pc[w] \in Working =>
       e[w].state \in State /\ e[w].fire \subseteq FirableObs[Agg(e[w].state)]
  /\ pc[w] \in Taken => t[w] \in FirableObs[Agg(e[w].state)]
  /\ pc[w] \in Aimed => pos[w] \in State
  /\ pc[w] = "link" => Agg(pos[w]) = Reached(w)
  /\ pc[w] = "push" => fresh[w]
  /\ pc[w] \in {"busy", "pop"} => m_st[w] # <<>>
  /\ pc[w] \in {"start", "initial"} /\ w = 0 => State = {}

TypeInv ==
  /\ TypeOK
  /\ StacksOK
  /\ \A w \in Thread : ThreadOK(w)

(* The threads that m_gc counts. *)
InSection ==
  {w \in Thread : w # 0 /\ pc[w] \in {"first", "find", "link", "read", "write", "push",
                                      "leave"}}

LockInv ==
  /\ \A w \in Thread : pc[w] \in {"enter", "first", "leave", "last"} => w # 0
  /\ \A w \in Thread : pc[w] \in {"collect", "collected"} => w = 0
  /\ m_gc = Cardinality(InSection)
  /\ \A v, w \in Thread : pc[v] = "first" /\ pc[w] = "first" => v = w
  /\ \A v, w \in Thread : pc[v] = "last" /\ pc[w] = "last" => v = w
  /\ m_gc > 0 /\ (\E w \in Thread : pc[w] = "last") => \E w \in Thread : pc[w] = "first"
  /\ m_gc_mutex = "collector" <=> \E w \in Thread : pc[w] = "collected"
  /\ m_gc_mutex = "section" <=>
       \/ m_gc > 0 /\ \A w \in Thread : pc[w] # "first"
       \/ \E w \in Thread : pc[w] = "last"

(* What a thread has still to push is not the state it works on. *)
DistinctPos ==
  \A w \in Thread : pc[w] \in Aimed /\ fresh[w] => pos[w] # e[w].state

OwnerInv == SingleOwner /\ DistinctPos

InHand(w) == IF pc[w] \in Unlinked THEN {t[w]} ELSE {}

(* The transitions of the state a thread works on are linked, in hand or   *)
(* still to fire, each in one of these places.                             *)
WorkOK(w) ==
  LET linked == TransitionsOf(m_GONodes[e[w].state])
  IN  /\ linked \cup InHand(w) \cup e[w].fire = FirableObs[Agg(e[w].state)]
      /\ linked \cap InHand(w) = {}
      /\ linked \cap e[w].fire = {}
      /\ InHand(w) \cap e[w].fire = {}

Unfired(n) == TransitionsOf(m_GONodes[n]) = {}

WorkInv ==
  /\ \A w \in Thread : pc[w] \in Working => WorkOK(w)
  /\ \A w \in Thread : pc[w] \in Aimed /\ fresh[w] => Unfired(pos[w])
  /\ \A n \in State : (\E w \in Thread : Stacked(w, n)) => Unfired(n)
  /\ FinishedIsClosed

GraphInv == PartOfSOG(m_GONodes)

-----------------------------------------------------------------------------
(* What each step does.                                                    *)

(* The labels between which a thread moves without touching a state.       *)
Stretches == {Resting, {"enter", "first", "collect", "collected", "find"},
              {"read", "write"}, {"leave", "last", "fire"}}

(* Thread w goes to a label; the others stay where they are. *)
Moves(w, label) ==
  /\ pc' \in [Thread -> Working \cup Resting]
  /\ pc'[w] = label
  /\ \A v \in Thread \ {w} : pc'[v] = pc[v]

(* Thread w moves along a stretch and touches no state. *)
Quiet(w) ==
  /\ Moves(w, pc'[w])
  /\ \E S \in Stretches : pc[w] \in S /\ pc'[w] \in S
  /\ pc'[w] \in {"busy", "pop"} => m_st[w] # <<>>
  /\ pc'[w] \in {"start", "initial"} => pc[w] \in {"start", "initial"}
  /\ UNCHANGED <<m_GONodes, m_st, e, t, pos, fresh>>

LEMMA GotoMoves ==
  ASSUME TypeOK, NEW w \in Thread, NEW label \in Working \cup Resting, Goto(w, label)
  PROVE  Moves(w, label)
BY DEF TypeOK, Goto, Moves

LEMMA QuietSteps ==
  ASSUME TypeInv, NEW w \in Thread,
         \/ Start(w) \/ Loop(w) \/ Busy(w) \/ Enter(w) \/ First(w) \/ ReadPredecessors(w)
         \/ Leave(w) \/ Last(w) \/ Idle(w) \/ isNotTerminated(w)
         \/ w = 0 /\ (Collect \/ Collected)
  PROVE  Quiet(w)
<1> USE DEF Resting, Working, shared, gc, local
<1>1. TypeOK
  BY DEF TypeInv
<1>2. ASSUME NEW S \in Stretches, NEW label \in S, pc[w] \in S, Goto(w, label),
             UNCHANGED <<m_GONodes, m_st, e, t, pos, fresh>>,
             label \in {"busy", "pop"} => m_st[w] # <<>>,
             label \in {"start", "initial"} => pc[w] \in {"start", "initial"}
      PROVE  Quiet(w)
  <2>1. label \in Working \cup Resting
    BY DEF Stretches
  <2>2. Moves(w, label)
    BY <1>1, <1>2, <2>1, GotoMoves
  <2>3. QED
    BY <1>2, <2>2 DEF Quiet, Moves
<1>3. /\ Resting \in Stretches
      /\ {"enter", "first", "collect", "collected", "find"} \in Stretches
      /\ {"read", "write"} \in Stretches
      /\ {"leave", "last", "fire"} \in Stretches
  BY DEF Stretches
<1>4. CASE Start(w)
  <2>1. \E label \in {"initial", "loop"} : Goto(w, label)
    BY <1>4 DEF Start
  <2>2. QED
    BY <1>2, <1>3, <1>4, <2>1 DEF Start
<1>5. CASE Loop(w)
  <2>1. \E label \in {"busy", "done", "idle"} : Goto(w, label) /\ (label = "busy" => m_st[w] # <<>>)
    BY <1>5 DEF Loop
  <2>2. QED
    BY <1>2, <1>3, <1>5, <2>1 DEF Loop
<1>6. CASE Busy(w)
  <2>1. m_st[w] # <<>>
    BY <1>6 DEF Busy, TypeInv, ThreadOK
  <2>2. QED
    BY <1>2, <1>3, <1>6, <2>1 DEF Busy
<1>7. CASE Enter(w)
  <2>1. \E label \in {"first", "find"} : Goto(w, label)
    BY <1>7 DEF Enter
  <2>2. QED
    BY <1>2, <1>3, <1>7, <2>1 DEF Enter
<1>8. CASE First(w)
  BY <1>2, <1>3, <1>8 DEF First
<1>9. CASE ReadPredecessors(w)
  BY <1>2, <1>3, <1>9 DEF ReadPredecessors
<1>10. CASE Leave(w)
  <2>1. \E label \in {"last", "fire"} : Goto(w, label)
    BY <1>10 DEF Leave
  <2>2. QED
    BY <1>2, <1>3, <1>10, <2>1 DEF Leave
<1>11. CASE Last(w)
  BY <1>2, <1>3, <1>11 DEF Last
<1>12. CASE Idle(w)
  BY <1>2, <1>3, <1>12 DEF Idle
<1>13. CASE isNotTerminated(w)
  <2>1. CASE UNCHANGED pc
    BY <1>1, <1>3, <1>13, <2>1 DEF isNotTerminated, Quiet, Moves, TypeOK
  <2>2. CASE \E label \in {"done", "loop"} : Goto(w, label)
    BY <1>2, <1>3, <1>13, <2>2 DEF isNotTerminated
  <2>3. QED
    BY <1>13, <2>1, <2>2 DEF isNotTerminated
<1>14. CASE w = 0 /\ Collect
  BY <1>2, <1>3, <1>14 DEF Collect
<1>15. CASE w = 0 /\ Collected
  BY <1>2, <1>3, <1>15 DEF Collected
<1>16. QED
  BY <1>4, <1>5, <1>6, <1>7, <1>8, <1>9, <1>10, <1>11, <1>12, <1>13, <1>14, <1>15

(* A state s is added, nothing else changes. *)
Added(n, s) ==
  /\ m_GONodes' \in Seq(LDDState)
  /\ n \notin State /\ n \in Nat
  /\ State' = State \cup {n}
  /\ m_GONodes'[n] = s
  /\ \A k \in State : m_GONodes'[k] = m_GONodes[k]

LEMMA InsertAdds ==
  ASSUME TypeOK, NEW s \in LDDState, m_GONodes' = insert(m_GONodes, s)
  PROVE  Added(Len(m_GONodes) + 1, s)
<1>1. m_GONodes \in Seq(LDDState)
  BY DEF TypeOK
<1>2. QED
  BY <1>1, InsertProperties DEF Added, State

LEMMA InitialEffect ==
  ASSUME TypeInv, Initial
  PROVE  /\ 0 \in Thread /\ pc[0] = "initial" /\ Moves(0, "loop")
         /\ State = {}
         /\ Added(1, NewState(InitialAggregate))
         /\ NewState(InitialAggregate) \in LDDState
         /\ m_st' = [m_st EXCEPT ![0] = <<Pair(1, FirableObs[InitialAggregate])>>]
         /\ UNCHANGED <<e, t, pos, fresh>>
<1>1. 0 \in Thread
  BY ThreadSOGAssumption DEF Thread
<1>2. pc[0] = "initial" /\ Goto(0, "loop")
  BY DEF Initial
<1>3. TypeOK /\ Moves(0, "loop")
  BY <1>1, <1>2, GotoMoves DEF TypeInv, Resting
<1>4. State = {}
  BY <1>1, <1>2 DEF TypeInv, ThreadOK
<1>5. Len(m_GONodes) = 0
  BY <1>3, <1>4, EmptySeq, GraphDomain DEF TypeOK, State
<1>6. NewState(InitialAggregate) \in LDDState
  BY SOGAssumption, NewStateType
<1>7. Added(Len(m_GONodes) + 1, NewState(InitialAggregate))
  BY <1>3, <1>6, InsertAdds DEF Initial
<1>8. QED
  BY <1>1, <1>2, <1>3, <1>4, <1>5, <1>6, <1>7 DEF Initial, local

LEMMA PopEffect ==
  ASSUME TypeInv, NEW w \in Thread, Pop(w)
  PROVE  /\ pc[w] = "pop" /\ Moves(w, "fire")
         /\ m_st[w] # <<>> /\ m_st[w] \in Seq(StackedPair)
         /\ Head(m_st[w]) \in StackedPair
         /\ Head(m_st[w]).state \in State
         /\ Head(m_st[w]).fire = FirableObs[Agg(Head(m_st[w]).state)]
         /\ m_st' = [m_st EXCEPT ![w] = Tail(@)]
         /\ e' = [e EXCEPT ![w] = Head(m_st[w])]
         /\ UNCHANGED <<m_GONodes, t, pos, fresh>>
<1>1. pc[w] = "pop" /\ Goto(w, "fire")
  BY DEF Pop
<1>2. TypeOK /\ Moves(w, "fire")
  BY <1>1, GotoMoves DEF TypeInv, Working
<1>3. m_st[w] # <<>> /\ m_st[w] \in Seq(StackedPair)
  BY <1>1, <1>2 DEF TypeInv, ThreadOK, TypeOK
<1>4. 1 \in DOMAIN m_st[w] /\ Head(m_st[w]) = m_st[w][1] /\ Head(m_st[w]) \in StackedPair
  BY <1>3, PopProperties
<1>5. /\ Head(m_st[w]).state \in State
      /\ Head(m_st[w]).fire = FirableObs[Agg(Head(m_st[w]).state)]
  BY <1>4 DEF TypeInv, StacksOK
<1>6. QED
  BY <1>1, <1>2, <1>3, <1>4, <1>5 DEF Pop

(* Thread w takes a transition of its state, or has taken them all. *)
LEMMA FireEffect ==
  ASSUME TypeInv, NEW w \in Thread, Fire(w)
  PROVE  /\ pc[w] = "fire"
         /\ e[w].state \in State
         /\ UNCHANGED <<m_GONodes, m_st, pos, fresh>>
         /\ \/ /\ \E label \in {"enter", "collect", "find"} : Moves(w, label)
               /\ \E u \in e[w].fire :
                    /\ t' = [t EXCEPT ![w] = u]
                    /\ e' \in [Thread -> StackedPair]
                    /\ e'[w].state = e[w].state
                    /\ e'[w].fire = e[w].fire \ {u}
                    /\ \A v \in Thread \ {w} : e'[v] = e[v]
            \/ e[w].fire = {} /\ Moves(w, "loop") /\ UNCHANGED <<e, t>>
<1>1. TypeOK /\ pc[w] = "fire" /\ e[w].state \in State
  BY DEF TypeInv, ThreadOK, Fire, Working
<1>2. e \in [Thread -> StackedPair]
  BY <1>1 DEF TypeOK
<1>3. ASSUME NEW u \in e[w].fire, t' = [t EXCEPT ![w] = u],
             e' = [e EXCEPT ![w].fire = @ \ {u}],
             NEW label \in {"enter", "collect", "find"}, Goto(w, label)
      PROVE  /\ Moves(w, label)
             /\ e' \in [Thread -> StackedPair]
             /\ e'[w].state = e[w].state
             /\ e'[w].fire = e[w].fire \ {u}
             /\ \A v \in Thread \ {w} : e'[v] = e[v]
  <2>1. Moves(w, label)
    BY <1>1, <1>3, GotoMoves DEF Working
  <2>2. QED
    BY <1>2, <1>3, <2>1 DEF StackedPair
<1>4. CASE \E u \in e[w].fire :
             /\ t' = [t EXCEPT ![w] = u]
             /\ e' = [e EXCEPT ![w].fire = @ \ {u}]
             /\ \E label \in {"enter", "collect", "find"} : Goto(w, label)
  BY <1>1, <1>3, <1>4 DEF Fire, shared
<1>5. CASE e[w].fire = {} /\ Goto(w, "loop") /\ UNCHANGED <<e, t>>
  <2>1. Moves(w, "loop")
    BY <1>1, <1>5, GotoMoves DEF Resting
  <2>2. QED
    BY <1>1, <1>5, <2>1 DEF Fire, shared
<1>6. QED
  BY <1>4, <1>5 DEF Fire

(* A thread that has taken a transition: where it leads to. *)
LEMMA TakenProperties ==
  ASSUME TypeInv, NEW w \in Thread, pc[w] \in Taken
  PROVE  /\ e[w].state \in State /\ Agg(e[w].state) \in Aggregate
         /\ t[w] \in FirableObs[Agg(e[w].state)] /\ t[w] \in Transition
         /\ Reached(w) = Successor[<<Agg(e[w].state), t[w]>>]
         /\ Reached(w) \in Aggregate
<1>1. e[w].state \in State /\ t[w] \in FirableObs[Agg(e[w].state)]
  BY DEF TypeInv, ThreadOK, Taken, Working
<1>2. m_GONodes[e[w].state] \in LDDState
  BY <1>1, GraphDomain DEF TypeInv, TypeOK, State
<1>3. Agg(e[w].state) \in Aggregate
  BY <1>2 DEF LDDState, Agg
<1>4. QED
  BY <1>1, <1>3, FirableProperties DEF Reached, Agg

LEMMA FindInsertEffect ==
  ASSUME TypeInv, NEW w \in Thread, FindInsert(w)
  PROVE  /\ pc[w] = "find" /\ Moves(w, "link")
         /\ UNCHANGED <<m_st, e, t>>
         /\ fresh' \in [Thread -> BOOLEAN] /\ \A v \in Thread \ {w} : fresh'[v] = fresh[v]
         /\ \E n \in Nat :
              /\ pos' = [pos EXCEPT ![w] = n]
              /\ \/ /\ ~fresh'[w] /\ UNCHANGED m_GONodes
                    /\ n \in State /\ Agg(n) = Reached(w)
                 \/ /\ fresh'[w]
                    /\ Added(n, NewReached(Reached(w)))
                    /\ NewReached(Reached(w)) \in LDDState
                    /\ NewReached(Reached(w)).m_lddstate = Reached(w)
                    /\ NewReached(Reached(w)).Successors = <<>>
                    /\ \A k \in State : Agg(k) # Reached(w)
<1>1. pc[w] = "find" /\ Goto(w, "link")
  BY DEF FindInsert
<1>2. TypeOK /\ Moves(w, "link")
  BY <1>1, GotoMoves DEF TypeInv, Working
<1>3. Reached(w) \in Aggregate
  BY <1>1, TakenProperties DEF Taken
<1>4. \A n \in State : n \in Nat
  BY <1>2, GraphDomain DEF TypeOK, State
<1>5. CASE StatesOf(m_GONodes, Reached(w)) # {}
  <2>1. /\ \E n \in StatesOf(m_GONodes, Reached(w)) : pos' = [pos EXCEPT ![w] = n]
        /\ fresh' = [fresh EXCEPT ![w] = FALSE]
        /\ UNCHANGED m_GONodes
    BY <1>5, Zenon DEF FindInsert
  <2>2. PICK n \in State : Agg(n) = Reached(w) /\ pos' = [pos EXCEPT ![w] = n]
    BY <2>1 DEF StatesOf, State, Agg
  <2>3. QED
    BY <1>1, <1>2, <1>4, <2>1, <2>2 DEF FindInsert, TypeOK
<1>6. CASE StatesOf(m_GONodes, Reached(w)) = {}
  <2>1. /\ m_GONodes' = insert(m_GONodes, NewReached(Reached(w)))
        /\ pos' = [pos EXCEPT ![w] = Len(m_GONodes) + 1]
        /\ fresh' = [fresh EXCEPT ![w] = TRUE]
    BY <1>6, Zenon DEF FindInsert
  <2>2. NewState(Reached(w)) \in LDDState
    BY <1>3, NewStateType
  <2>3. PICK b \in BOOLEAN : NewReached(Reached(w)) = [NewState(Reached(w)) EXCEPT !.m_boucle = b]
    <3>1. (method = "seq" /\ Reached(w) \in Divergent) \in BOOLEAN
      OBVIOUS
    <3>2. QED
      BY <3>1, Zenon DEF NewReached
  <2>4. /\ NewReached(Reached(w)) \in LDDState
        /\ NewReached(Reached(w)).m_lddstate = Reached(w)
        /\ NewReached(Reached(w)).Successors = <<>>
    BY <2>2, <2>3 DEF LDDState, NewState
  <2>5. Added(Len(m_GONodes) + 1, NewReached(Reached(w)))
    BY <1>2, <2>1, <2>4, InsertAdds
  <2>6. \A k \in State : Agg(k) # Reached(w)
    BY <1>6 DEF StatesOf, State, Agg
  <2>7. Len(m_GONodes) + 1 \in Nat
    BY <2>5 DEF Added
  <2>8. QED
    BY <1>1, <1>2, <2>1, <2>4, <2>5, <2>6, <2>7 DEF FindInsert, TypeOK
<1>7. QED
  BY <1>5, <1>6

LEMMA LinkSuccessorEffect ==
  ASSUME TypeInv, NEW w \in Thread, LinkSuccessor(w)
  PROVE  /\ pc[w] = "link" /\ Moves(w, "read")
         /\ UNCHANGED <<m_st, e, t, pos, fresh>>
         /\ pos[w] \in State
         /\ m_GONodes' \in Seq(LDDState) /\ State' = State
         /\ \A k \in State :
              /\ SameButEdges(m_GONodes[k], m_GONodes'[k])
              /\ m_GONodes'[k].Successors =
                   IF k = e[w].state
                   THEN <<[to |-> pos[w], t |-> t[w]]>> \o m_GONodes[k].Successors
                   ELSE m_GONodes[k].Successors
<1>1. pc[w] = "link" /\ Goto(w, "read")
  BY DEF LinkSuccessor
<1>2. TypeOK /\ Moves(w, "read") /\ m_GONodes \in Seq(LDDState)
  BY <1>1, GotoMoves DEF TypeInv, TypeOK, Working
<1>3. pos[w] \in State /\ e[w].state \in State /\ t[w] \in Transition
  BY <1>1, TakenProperties DEF TypeInv, ThreadOK, Taken, Aimed
<1>4. m_GONodes' = AddSuccessor(m_GONodes, e[w].state, pos[w], t[w])
  BY DEF LinkSuccessor
<1>5. /\ m_GONodes' \in Seq(LDDState) /\ State' = State
      /\ \A k \in State :
           /\ SameButEdges(m_GONodes[k], m_GONodes'[k])
           /\ m_GONodes'[k].Successors =
                IF k = e[w].state
                THEN <<[to |-> pos[w], t |-> t[w]]>> \o m_GONodes[k].Successors
                ELSE m_GONodes[k].Successors
  BY <1>2, <1>3, <1>4, AddSuccessorProperties DEF State
<1>6. QED
  BY <1>1, <1>2, <1>3, <1>5 DEF LinkSuccessor, local

LEMMA WritePredecessorsEffect ==
  ASSUME TypeInv, NEW w \in Thread, WritePredecessors(w)
  PROVE  /\ pc[w] = "write"
         /\ \/ fresh[w] /\ Moves(w, "push")
            \/ ~fresh[w] /\ \E label \in {"leave", "fire"} : Moves(w, label)
         /\ UNCHANGED <<m_st, e, t, pos, fresh>>
         /\ m_GONodes' \in Seq(LDDState) /\ State' = State
         /\ \A k \in State : /\ SameButEdges(m_GONodes[k], m_GONodes'[k])
                             /\ m_GONodes'[k].Successors = m_GONodes[k].Successors
<1>1. pc[w] = "write"
  BY DEF WritePredecessors
<1>2. TypeOK /\ m_GONodes \in Seq(LDDState) /\ seen[w] \in SUBSET [from : Nat, t : Transition]
  BY DEF TypeInv, TypeOK
<1>3. \/ fresh[w] /\ Moves(w, "push")
      \/ ~fresh[w] /\ \E label \in {"leave", "fire"} : Moves(w, label)
  <2>1. \/ fresh[w] /\ Goto(w, "push")
        \/ ~fresh[w] /\ \E label \in {"leave", "fire"} : Goto(w, label)
    BY Zenon DEF WritePredecessors
  <2>2. "push" \in Working /\ "leave" \in Working /\ "fire" \in Working
    BY DEF Working
  <2>3. QED
    BY <1>2, <2>1, <2>2, GotoMoves
<1>4. /\ pos[w] \in State /\ e[w].state \in Nat /\ t[w] \in Transition
      /\ m_GONodes[pos[w]] \in LDDState
  BY <1>1, <1>2, TakenProperties, GraphDomain DEF TypeInv, ThreadOK, Taken, Aimed, State
<1> DEFINE p == seen[w] \cup {[from |-> e[w].state, t |-> t[w]]}
<1> DEFINE r == [m_GONodes[pos[w]] EXCEPT !.Predecessors = p]
<1>5. p \in SUBSET [from : Nat, t : Transition]
  BY <1>2, <1>4
<1>6. m_GONodes' = [m_GONodes EXCEPT ![pos[w]] = r]
  BY DEF WritePredecessors
<1> HIDE DEF p
<1>7. /\ r \in LDDState
      /\ SameButEdges(m_GONodes[pos[w]], r)
      /\ r.Successors = m_GONodes[pos[w]].Successors
  BY <1>4, <1>5 DEF LDDState, SameButEdges
<1> HIDE DEF r
<1>8. /\ m_GONodes' \in Seq(LDDState) /\ State' = State
      /\ \A k \in State : m_GONodes'[k] = IF k = pos[w] THEN r ELSE m_GONodes[k]
  BY <1>2, <1>4, <1>6, <1>7, UpdateProperties DEF State
<1>9. \A k \in State : SameButEdges(m_GONodes[k], m_GONodes[k])
  BY DEF SameButEdges
<1>10. QED
  BY <1>1, <1>3, <1>7, <1>8, <1>9 DEF WritePredecessors

LEMMA PushEffect ==
  ASSUME TypeInv, NEW w \in Thread, Push(w)
  PROVE  /\ pc[w] = "push" /\ \E label \in {"leave", "fire"} : Moves(w, label)
         /\ UNCHANGED <<m_GONodes, e, t, pos, fresh>>
         /\ pos[w] \in State /\ Agg(pos[w]) \in Aggregate
         /\ Pair(pos[w], FirableObs[Agg(pos[w])]) \in StackedPair
         /\ \E c \in Thread :
              m_st' = [m_st EXCEPT ![c] = <<Pair(pos[w], FirableObs[Agg(pos[w])])>> \o @]
<1>1. pc[w] = "push" /\ \E label \in {"leave", "fire"} : Goto(w, label)
  BY DEF Push
<1>2. "leave" \in Working /\ "fire" \in Working /\ TypeOK
  BY DEF Working, TypeInv
<1>3. \E label \in {"leave", "fire"} : Moves(w, label)
  BY <1>1, <1>2, GotoMoves
<1>4. pos[w] \in State /\ pos[w] \in Nat /\ m_GONodes[pos[w]] \in LDDState
  BY <1>1, <1>2, GraphDomain DEF TypeInv, ThreadOK, Aimed, TypeOK, State
<1>5. Agg(pos[w]) \in Aggregate /\ FirableObs[Agg(pos[w])] \subseteq Transition
  BY <1>4, FirableProperties DEF LDDState, Agg
<1>6. Pair(pos[w], FirableObs[Agg(pos[w])]) \in StackedPair
  BY <1>4, <1>5 DEF Pair, StackedPair
<1>7. Running \subseteq Thread
  BY ThreadSOGAssumption DEF Running, Thread
<1>8. QED
  BY <1>1, <1>3, <1>4, <1>5, <1>6, <1>7 DEF Push, local, Agg

(* The steps that do something for a state. *)
Busily(w) ==
  \/ Pop(w) \/ Fire(w) \/ FindInsert(w) \/ LinkSuccessor(w) \/ WritePredecessors(w)
  \/ Push(w)

LEMMA StepKinds ==
  ASSUME TypeInv, [Next]_vars
  PROVE  UNCHANGED vars \/ Initial \/ \E w \in Thread : Quiet(w) \/ Busily(w)
BY QuietSteps DEF Next, ThreadStep, Busily

-----------------------------------------------------------------------------
(* The type invariant. *)

LEMMA StateProperties ==
  ASSUME TypeOK, NEW n \in State
  PROVE  n \in Nat /\ m_GONodes[n] \in LDDState /\ Agg(n) \in Aggregate
<1>1. n \in Nat /\ m_GONodes[n] \in LDDState
  BY GraphDomain DEF TypeOK, State
<1>2. QED
  BY <1>1 DEF LDDState, Agg

(* The graph of the next state holds the states of this one, unmoved. *)
Grown ==
  /\ m_GONodes' \in Seq(LDDState)
  /\ State \subseteq State'
  /\ \A n \in State : Agg(n)' = Agg(n)
  /\ State = {} => State' = {} \/ pc[0] = "initial"

LEMMA GrownStep ==
  ASSUME TypeInv, [Next]_vars
  PROVE  Grown
<1>1. TypeOK
  BY DEF TypeInv
<1>2. ASSUME UNCHANGED m_GONodes
      PROVE  Grown
  BY <1>1, <1>2 DEF Grown, TypeOK, State, Agg
<1>3. CASE Initial
  BY <1>3, InitialEffect DEF Added, Grown, Agg
<1>4. ASSUME NEW w \in Thread, FindInsert(w)
      PROVE  Grown
  <2>1. e[w].state \in State
    BY <1>4, FindInsertEffect, TakenProperties DEF Taken
  <2>2. UNCHANGED m_GONodes \/ \E n \in Nat : Added(n, NewReached(Reached(w)))
    BY <1>4, FindInsertEffect
  <2>3. QED
    BY <1>2, <2>1, <2>2 DEF Added, Grown, Agg
<1>5. ASSUME NEW w \in Thread, LinkSuccessor(w) \/ WritePredecessors(w)
      PROVE  Grown
  <2>1. /\ m_GONodes' \in Seq(LDDState) /\ State' = State
        /\ \A k \in State : SameButEdges(m_GONodes[k], m_GONodes'[k])
    BY <1>5, LinkSuccessorEffect, WritePredecessorsEffect
  <2>2. QED
    BY <2>1 DEF SameButEdges, Grown, Agg
<1>6. ASSUME NEW w \in Thread, Quiet(w) \/ Pop(w) \/ Fire(w) \/ Push(w)
      PROVE  UNCHANGED m_GONodes
  BY <1>6 DEF Quiet, Pop, Fire, Push, shared
<1>7. QED
  BY <1>2, <1>3, <1>4, <1>5, <1>6, StepKinds DEF Busily, vars, shared

(* The stacks. *)
LEMMA StacksStep ==
  ASSUME TypeInv, [Next]_vars
  PROVE  m_st' \in [Thread -> Seq(StackedPair)] /\ StacksOK'
<1>1. Grown /\ TypeOK /\ m_st \in [Thread -> Seq(StackedPair)]
  BY GrownStep DEF TypeInv, TypeOK
<1>2. ASSUME NEW v \in Thread, NEW s \in Seq(StackedPair),
             m_st' = [m_st EXCEPT ![v] = s],
             \A k \in DOMAIN s : /\ s[k].state \in State'
                                 /\ s[k].fire = FirableObs[m_GONodes'[s[k].state].m_lddstate]
      PROVE  m_st' \in [Thread -> Seq(StackedPair)] /\ StacksOK'
  <2>1. m_st' \in [Thread -> Seq(StackedPair)]
    BY <1>1, <1>2
  <2>2. ASSUME NEW w \in Thread, NEW k \in DOMAIN m_st'[w]
        PROVE  /\ m_st'[w][k].state \in State'
               /\ m_st'[w][k].fire = FirableObs[m_GONodes'[m_st'[w][k].state].m_lddstate]
    <3>1. CASE w = v
      BY <1>1, <1>2, <2>2, <3>1
    <3>2. CASE w # v
      BY <1>1, <1>2, <2>2, <3>2 DEF TypeInv, StacksOK, Grown, Agg
    <3>3. QED
      BY <3>1, <3>2
  <2>3. QED
    BY <2>1, <2>2 DEF StacksOK, Agg
<1>3. ASSUME UNCHANGED m_st
      PROVE  m_st' \in [Thread -> Seq(StackedPair)] /\ StacksOK'
  BY <1>1, <1>3 DEF TypeInv, StacksOK, Grown
<1>4. CASE Initial
  <2>1. /\ 0 \in Thread /\ m_st' = [m_st EXCEPT ![0] = <<Pair(1, FirableObs[InitialAggregate])>>]
        /\ 1 \in State' /\ Agg(1)' = InitialAggregate
    BY <1>4, InitialEffect DEF Added, NewState, Agg
  <2>2. FirableObs[InitialAggregate] \subseteq Transition
    BY SOGAssumption
  <2> DEFINE x == Pair(1, FirableObs[InitialAggregate])
  <2>3. x \in StackedPair /\ x.state = 1 /\ x.fire = FirableObs[InitialAggregate]
    BY <2>2 DEF Pair, StackedPair
  <2> HIDE DEF x
  <2>4. <<x>> \in Seq(StackedPair) /\ \A k \in DOMAIN <<x>> : <<x>>[k] = x
    BY <2>3
  <2>5. m_st' = [m_st EXCEPT ![0] = <<x>>]
    BY <2>1 DEF x
  <2>6. \A k \in DOMAIN <<x>> : /\ <<x>>[k].state \in State'
                                /\ <<x>>[k].fire = FirableObs[m_GONodes'[<<x>>[k].state].m_lddstate]
    BY <2>1, <2>3, <2>4 DEF Agg
  <2>7. QED
    BY <1>2, <2>1, <2>4, <2>5, <2>6
<1>5. ASSUME NEW w \in Thread, Pop(w)
      PROVE  m_st' \in [Thread -> Seq(StackedPair)] /\ StacksOK'
  <2>1. m_st[w] # <<>> /\ m_st[w] \in Seq(StackedPair) /\ m_st' = [m_st EXCEPT ![w] = Tail(m_st[w])]
    BY <1>5, PopEffect
  <2>2. /\ Tail(m_st[w]) \in Seq(StackedPair)
        /\ \A k \in DOMAIN Tail(m_st[w]) :
             k + 1 \in DOMAIN m_st[w] /\ Tail(m_st[w])[k] = m_st[w][k + 1]
    BY <2>1, PopProperties
  <2>3. \A k \in DOMAIN Tail(m_st[w]) :
          /\ Tail(m_st[w])[k].state \in State'
          /\ Tail(m_st[w])[k].fire = FirableObs[m_GONodes'[Tail(m_st[w])[k].state].m_lddstate]
    BY <1>1, <2>2 DEF TypeInv, StacksOK, Grown, Agg
  <2>4. QED
    BY <1>2, <2>1, <2>2, <2>3
<1>6. ASSUME NEW w \in Thread, Push(w)
      PROVE  m_st' \in [Thread -> Seq(StackedPair)] /\ StacksOK'
  <2> DEFINE x == Pair(pos[w], FirableObs[Agg(pos[w])])
  <2>1. PICK c \in Thread : m_st' = [m_st EXCEPT ![c] = <<x>> \o m_st[c]]
    BY <1>6, PushEffect
  <2>2. x \in StackedPair /\ x.state \in State /\ x.fire = FirableObs[Agg(x.state)]
    BY <1>6, PushEffect DEF Pair
  <2> HIDE DEF x
  <2>3. m_st[c] \in Seq(StackedPair)
    BY <1>1
  <2>4. /\ <<x>> \o m_st[c] \in Seq(StackedPair)
        /\ (<<x>> \o m_st[c])[1] = x
        /\ \A k \in DOMAIN (<<x>> \o m_st[c]) \ {1} :
             k - 1 \in DOMAIN m_st[c] /\ (<<x>> \o m_st[c])[k] = m_st[c][k - 1]
    BY <2>2, <2>3, FrontProperties
  <2>5. ASSUME NEW k \in DOMAIN (<<x>> \o m_st[c])
        PROVE  /\ (<<x>> \o m_st[c])[k].state \in State'
               /\ (<<x>> \o m_st[c])[k].fire = FirableObs[m_GONodes'[(<<x>> \o m_st[c])[k].state].m_lddstate]
    <3>1. CASE k = 1
      BY <1>1, <2>2, <2>4, <3>1 DEF Grown, Agg
    <3>2. CASE k # 1
      BY <1>1, <2>4, <2>5, <3>2 DEF TypeInv, StacksOK, Grown, Agg
    <3>3. QED
      BY <3>1, <3>2
  <2>6. QED
    BY <1>2, <2>1, <2>4, <2>5
<1>7. ASSUME NEW w \in Thread,
             Quiet(w) \/ Fire(w) \/ FindInsert(w) \/ LinkSuccessor(w) \/ WritePredecessors(w)
      PROVE  UNCHANGED m_st
  BY <1>7 DEF Quiet, Fire, FindInsert, LinkSuccessor, WritePredecessors, shared
<1>8. QED
  BY <1>3, <1>4, <1>5, <1>6, <1>7, StepKinds DEF Busily, vars, shared

(* Only its thread takes from a stack. *)
LEMMA StackKept ==
  ASSUME TypeInv, [Next]_vars, NEW v \in Thread, ~Pop(v), m_st[v] # <<>>
  PROVE  m_st'[v] # <<>>
<1>1. m_st \in [Thread -> Seq(StackedPair)]
  BY DEF TypeInv, TypeOK
<1>2. CASE Initial
  <2>1. State = {}
    BY <1>2, InitialEffect
  <2>2. 1 \in DOMAIN m_st[v]
    BY <1>1, PopProperties
  <2>3. QED
    BY <2>1, <2>2 DEF TypeInv, StacksOK
<1>3. ASSUME NEW w \in Thread, Pop(w)
      PROVE  m_st'[v] # <<>>
  <2>1. w # v /\ m_st' = [m_st EXCEPT ![w] = Tail(@)]
    BY <1>3, PopEffect
  <2>2. QED
    BY <1>1, <2>1
<1>4. ASSUME NEW w \in Thread, Push(w)
      PROVE  m_st'[v] # <<>>
  <2>1. PICK c \in Thread, x \in StackedPair : m_st' = [m_st EXCEPT ![c] = <<x>> \o m_st[c]]
    BY <1>4, PushEffect
  <2>2. m_st[c] \in Seq(StackedPair)
    BY <1>1
  <2>3. 1 \in DOMAIN (<<x>> \o m_st[c])
    BY <2>2, FrontProperties
  <2>4. <<x>> \o m_st[c] # <<>>
    BY <2>3
  <2>5. QED
    BY <1>1, <2>1, <2>4
<1>5. ASSUME NEW w \in Thread,
             Quiet(w) \/ Fire(w) \/ FindInsert(w) \/ LinkSuccessor(w) \/ WritePredecessors(w)
      PROVE  UNCHANGED m_st
  BY <1>5 DEF Quiet, Fire, FindInsert, LinkSuccessor, WritePredecessors, shared
<1>6. QED
  BY <1>2, <1>3, <1>4, <1>5, StepKinds DEF Busily, vars, shared

(* A thread that does not move. *)
LEMMA ThreadKept ==
  ASSUME TypeInv, [Next]_vars, NEW v \in Thread, pc'[v] = pc[v], ~Initial,
         e'[v] = e[v], t'[v] = t[v], pos'[v] = pos[v], fresh'[v] = fresh[v]
  PROVE  ThreadOK(v)'
<1>1. Grown /\ ThreadOK(v) /\ TypeOK
  BY GrownStep DEF TypeInv
<1>2. pc[v] \in {"busy", "pop"} => m_st'[v] # <<>>
  <2>1. Pop(v) => pc[v] # "pop"
    BY <1>1, PopEffect DEF Moves
  <2>2. QED
    BY <1>1, <2>1, StackKept DEF ThreadOK, Pop
<1>3. pc[v] \in {"start", "initial"} /\ v = 0 => State' = {}
  <2>1. ASSUME pc[v] \in {"start", "initial"}, v = 0
        PROVE  State' = {}
    <3>1. State = {}
      BY <1>1, <2>1 DEF ThreadOK
    <3>2. State' = State
      <4>1. ASSUME NEW w \in Thread, FindInsert(w)
            PROVE  FALSE
        BY <3>1, <4>1, FindInsertEffect, TakenProperties DEF Taken
      <4>2. ASSUME NEW w \in Thread, LinkSuccessor(w) \/ WritePredecessors(w)
            PROVE  State' = State
        BY <4>2, LinkSuccessorEffect, WritePredecessorsEffect
      <4>3. ASSUME NEW w \in Thread, Quiet(w) \/ Pop(w) \/ Fire(w) \/ Push(w)
            PROVE  State' = State
        BY <4>3 DEF Quiet, Pop, Fire, Push, shared, State
      <4>4. CASE UNCHANGED vars
        BY <4>4 DEF vars, shared, State
      <4>5. QED
        BY <4>1, <4>2, <4>3, <4>4, StepKinds DEF Busily
    <3>3. QED
      BY <3>1, <3>2
  <2>2. QED
    BY <2>1
<1>4. pc[v] \in Working =>
        e[v].state \in State' /\ m_GONodes'[e[v].state].m_lddstate = Agg(e[v].state)
  BY <1>1 DEF ThreadOK, Grown, Agg
<1>5. pc[v] \in Aimed =>
        pos[v] \in State' /\ m_GONodes'[pos[v]].m_lddstate = Agg(pos[v])
  BY <1>1 DEF ThreadOK, Grown, Agg
<1>6. QED
  BY <1>1, <1>2, <1>3, <1>4, <1>5 DEF ThreadOK, Taken, Aimed, Working, Agg, Reached

LEMMA ThreadStepOK ==
  ASSUME TypeInv, [Next]_vars
  PROVE  \A w \in Thread : ThreadOK(w)'
<1>1. /\ Grown /\ TypeOK
      /\ e \in [Thread -> StackedPair] /\ pos \in [Thread -> Nat]
      /\ t \in [Thread -> Transition \cup {NoTransition}]
  BY GrownStep DEF TypeInv, TypeOK
<1>2. ASSUME NEW w \in Thread, NEW label, Moves(w, label), ~Initial, ThreadOK(w)',
             \A v \in Thread \ {w} :
               /\ e'[v] = e[v] /\ t'[v] = t[v]
               /\ pos'[v] = pos[v] /\ fresh'[v] = fresh[v]
      PROVE  \A v \in Thread : ThreadOK(v)'
  BY <1>2, ThreadKept DEF Moves
<1>3. CASE UNCHANGED vars
  <2>1. ~Initial
    BY <1>1, <1>3, InitialEffect DEF vars, Moves
  <2>2. QED
    BY <1>3, <2>1, ThreadKept DEF vars, local
<1>4. CASE Initial
  <2>1. ASSUME NEW v \in Thread
        PROVE  ThreadOK(v)'
    <3>1. State = {} /\ pc[0] = "initial" /\ Moves(0, "loop") /\ 0 \in Thread
      BY <1>4, InitialEffect
    <3>2. pc[v] \notin Working /\ pc[v] \notin Aimed /\ pc[v] \notin Taken
      BY <3>1 DEF TypeInv, ThreadOK, Aimed, Taken, Working
    <3>3. pc[v] \notin {"busy", "pop"}
      <4>1. ASSUME m_st[v] # <<>>
            PROVE  FALSE
        <5>1. m_st[v] \in Seq(StackedPair)
          BY <1>1 DEF TypeOK
        <5>2. 1 \in DOMAIN m_st[v]
          BY <4>1, <5>1, PopProperties
        <5>3. QED
          BY <3>1, <5>2 DEF TypeInv, StacksOK
      <4>2. QED
        BY <4>1 DEF TypeInv, ThreadOK
    <3>4. pc'[v] = pc[v] \/ pc'[v] = "loop"
      BY <3>1 DEF Moves
    <3>5. v = 0 => pc'[v] = "loop"
      BY <3>1 DEF Moves
    <3>6. QED
      BY <3>2, <3>3, <3>4, <3>5 DEF ThreadOK, Working, Taken, Aimed
  <2>2. QED
    BY <2>1
<1>5. ASSUME NEW w \in Thread, Quiet(w)
      PROVE  \A v \in Thread : ThreadOK(v)'
  <2>1. ~Initial
    <3>1. ASSUME Initial
          PROVE  FALSE
      BY <1>5, <3>1, InitialEffect DEF Quiet, Added, State
    <3>2. QED
      BY <3>1
  <2>2. /\ ThreadOK(w) /\ Moves(w, pc'[w])
        /\ UNCHANGED <<m_GONodes, m_st, e, t, pos, fresh>>
    BY <1>5 DEF Quiet, TypeInv
  <2>3. /\ pc'[w] \in Working => pc[w] \in Working
        /\ pc'[w] \in Taken => pc[w] \in Taken
        /\ pc'[w] \in Aimed => pc[w] \in Aimed
        /\ pc'[w] # "link" /\ pc'[w] # "push"
    BY <1>5 DEF Quiet, Stretches, Resting, Working, Taken, Aimed
  <2>4. /\ pc'[w] \in {"busy", "pop"} => m_st'[w] # <<>>
        /\ pc'[w] \in {"start", "initial"} => pc[w] \in {"start", "initial"}
    BY <1>5 DEF Quiet
  <2>5. ThreadOK(w)'
    BY <2>2, <2>3, <2>4 DEF ThreadOK, State, Agg
  <2>6. QED
    BY <1>2, <2>1, <2>2, <2>5
<1>6. ASSUME NEW w \in Thread, Busily(w)
      PROVE  ~Initial
  <2>1. ASSUME Initial
        PROVE  FALSE
    <3>1. pc[0] = "initial" /\ Moves(0, "loop") /\ 0 \in Thread /\ w # 0
      BY <1>6, <2>1, InitialEffect
      DEF Busily, Pop, Fire, FindInsert, LinkSuccessor, WritePredecessors, Push
    <3>2. pc'[0] = pc[0]
      BY <1>1, <1>6, <3>1, PopEffect, FireEffect, FindInsertEffect, LinkSuccessorEffect,
         WritePredecessorsEffect, PushEffect DEF Busily, Moves
    <3>3. QED
      BY <3>1, <3>2 DEF Moves
  <2>2. QED
    BY <2>1
<1>7. ASSUME NEW w \in Thread, Pop(w)
      PROVE  \A v \in Thread : ThreadOK(v)'
  <2>1. /\ Moves(w, "fire") /\ Head(m_st[w]) \in StackedPair
        /\ Head(m_st[w]).state \in State
        /\ e' = [e EXCEPT ![w] = Head(m_st[w])]
        /\ UNCHANGED <<m_GONodes, t, pos, fresh>>
    BY <1>7, PopEffect
  <2>2. e'[w].state \in State' /\ e'[w].fire \subseteq FirableObs[Agg(e'[w].state)]
    BY <1>1, <1>7, <2>1, PopEffect DEF State
  <2>3. ThreadOK(w)'
    BY <2>1, <2>2 DEF ThreadOK, Moves, Working, Taken, Aimed, Agg
  <2>4. QED
    BY <1>1, <1>2, <1>6, <1>7, <2>1, <2>3 DEF Busily
<1>8. ASSUME NEW w \in Thread, Fire(w)
      PROVE  \A v \in Thread : ThreadOK(v)'
  <2>1. UNCHANGED <<m_GONodes, m_st, pos, fresh>> /\ e[w].state \in State
    BY <1>8, FireEffect
  <2>2. CASE e[w].fire = {} /\ Moves(w, "loop") /\ UNCHANGED <<e, t>>
    <3>1. ThreadOK(w)'
      BY <2>2 DEF ThreadOK, Moves, Working, Taken, Aimed
    <3>2. QED
      BY <1>2, <1>6, <1>8, <2>1, <2>2, <3>1 DEF Busily
  <2>3. ASSUME NEW label \in {"enter", "collect", "find"}, Moves(w, label),
               NEW u \in e[w].fire, t' = [t EXCEPT ![w] = u],
               e'[w].state = e[w].state, e'[w].fire = e[w].fire \ {u}, \A v \in Thread \ {w} : e'[v] = e[v]
        PROVE  \A v \in Thread : ThreadOK(v)'
    <3>1. e[w].fire \subseteq FirableObs[Agg(e[w].state)]
      BY <1>8 DEF TypeInv, ThreadOK, Fire, Working
    <3>2. ThreadOK(w)'
      BY <1>1, <2>1, <2>3, <3>1 DEF ThreadOK, Moves, Working, Taken, Aimed, State, Agg
    <3>3. QED
      BY <1>1, <1>2, <1>6, <1>8, <2>1, <2>3, <3>2 DEF Busily
  <2>4. QED
    BY <1>8, <2>2, <2>3, FireEffect

<1>9. ASSUME NEW w \in Thread, FindInsert(w)
      PROVE  \A v \in Thread : ThreadOK(v)'
  <2>1. /\ pc[w] = "find" /\ Moves(w, "link") /\ UNCHANGED <<e, t>>
        /\ \A v \in Thread \ {w} : fresh'[v] = fresh[v]
    BY <1>9, FindInsertEffect
  <2>2. PICK n \in Nat :
          /\ pos' = [pos EXCEPT ![w] = n]
          /\ n \in State'
          /\ m_GONodes'[n].m_lddstate = Reached(w)
    <3>1. PICK n \in Nat :
            /\ pos' = [pos EXCEPT ![w] = n]
            /\ \/ UNCHANGED m_GONodes /\ n \in State /\ Agg(n) = Reached(w)
               \/ /\ Added(n, NewReached(Reached(w)))
                  /\ NewReached(Reached(w)).m_lddstate = Reached(w)
      BY <1>9, FindInsertEffect
    <3>2. n \in State' /\ m_GONodes'[n].m_lddstate = Reached(w)
      BY <3>1 DEF Added, Agg, State
    <3>3. QED
      BY <3>1, <3>2
  <2>3. /\ e[w].state \in State /\ t[w] \in FirableObs[Agg(e[w].state)]
        /\ e[w].fire \subseteq FirableObs[Agg(e[w].state)]
    BY <2>1 DEF Taken, Working, TypeInv, ThreadOK
  <2>4. e[w].state \in State' /\ m_GONodes'[e[w].state].m_lddstate = Agg(e[w].state)
    BY <1>1, <2>3 DEF Grown, Agg
  <2>5. ThreadOK(w)'
    BY <1>1, <2>1, <2>2, <2>3, <2>4 DEF ThreadOK, Moves, Reached, Agg
  <2>6. QED
    BY <1>1, <1>2, <1>6, <1>9, <2>1, <2>2, <2>5 DEF Busily
<1>10. ASSUME NEW w \in Thread, LinkSuccessor(w) \/ WritePredecessors(w) \/ Push(w)
       PROVE  \A v \in Thread : ThreadOK(v)'
  <2>1. PICK label \in {"read", "push", "leave", "fire"} : Moves(w, label)
    BY <1>10, LinkSuccessorEffect, WritePredecessorsEffect, PushEffect
  <2>2. UNCHANGED <<e, t, pos, fresh>> /\ pc[w] \in Aimed /\ pc'[w] \in {"read", "push", "leave", "fire"}
    BY <1>10, <2>1, LinkSuccessorEffect, WritePredecessorsEffect, PushEffect DEF Moves, Aimed
  <2>3. /\ pos[w] \in State /\ e[w].state \in State
        /\ e[w].fire \subseteq FirableObs[Agg(e[w].state)]
        /\ pc'[w] \in Taken => t[w] \in FirableObs[Agg(e[w].state)]
        /\ pc'[w] = "push" => fresh[w]
    BY <1>10, <2>2, LinkSuccessorEffect, WritePredecessorsEffect, PushEffect
    DEF TypeInv, ThreadOK, Aimed, Working, Taken, Moves
  <2>4. /\ pos[w] \in State' /\ e[w].state \in State'
        /\ m_GONodes'[e[w].state].m_lddstate = Agg(e[w].state)
    BY <1>1, <2>3 DEF Grown, Agg
  <2>5. ThreadOK(w)'
    BY <2>2, <2>3, <2>4 DEF ThreadOK, Agg
  <2>6. QED
    BY <1>2, <1>6, <1>10, <2>1, <2>2, <2>5 DEF Busily
<1>11. QED
  BY <1>3, <1>4, <1>5, <1>7, <1>8, <1>9, <1>10, StepKinds DEF Busily

(* The types of the variables. *)
LEMMA TypeStep ==
  ASSUME TypeInv, [Next]_vars
  PROVE  TypeOK'
<1>1. /\ TypeOK /\ Grown
      /\ m_st' \in [Thread -> Seq(StackedPair)]
      /\ m_GONodes' \in Seq(LDDState)
  BY GrownStep, StacksStep DEF TypeInv, Grown
<1>2. /\ e \in [Thread -> StackedPair] /\ t \in [Thread -> Transition \cup {NoTransition}]
      /\ pos \in [Thread -> Nat] /\ fresh \in [Thread -> BOOLEAN]
      /\ pc \in [Thread -> Working \cup Resting]
  BY <1>1 DEF TypeOK
<1>3. /\ e' \in [Thread -> StackedPair] /\ t' \in [Thread -> Transition \cup {NoTransition}]
      /\ pos' \in [Thread -> Nat] /\ fresh' \in [Thread -> BOOLEAN]
      /\ pc' \in [Thread -> Working \cup Resting]
  <2>1. CASE UNCHANGED vars
    BY <1>2, <2>1 DEF vars, local
  <2>2. CASE Initial
    BY <1>2, <2>2, InitialEffect DEF Moves
  <2>3. ASSUME NEW w \in Thread, Quiet(w)
        PROVE  UNCHANGED <<e, t, pos, fresh>> /\ pc' \in [Thread -> Working \cup Resting]
    BY <2>3 DEF Quiet, Moves
  <2>4. ASSUME NEW w \in Thread, LinkSuccessor(w) \/ WritePredecessors(w) \/ Push(w)
        PROVE  UNCHANGED <<e, t, pos, fresh>> /\ pc' \in [Thread -> Working \cup Resting]
    BY <2>4, LinkSuccessorEffect, WritePredecessorsEffect, PushEffect DEF Moves
  <2>5. ASSUME NEW w \in Thread, Pop(w)
        PROVE  /\ e' \in [Thread -> StackedPair] /\ UNCHANGED <<t, pos, fresh>>
               /\ pc' \in [Thread -> Working \cup Resting]
    BY <1>2, <2>5, PopEffect DEF Moves
  <2>6. ASSUME NEW w \in Thread, Fire(w)
        PROVE  /\ e' \in [Thread -> StackedPair] /\ UNCHANGED <<pos, fresh>>
               /\ t' \in [Thread -> Transition \cup {NoTransition}]
               /\ pc' \in [Thread -> Working \cup Resting]
    <3>1. e[w].fire \subseteq Transition
      BY <1>2 DEF StackedPair
    <3>2. QED
      BY <1>2, <2>6, <3>1, FireEffect DEF Moves
  <2>7. ASSUME NEW w \in Thread, FindInsert(w)
        PROVE  /\ pos' \in [Thread -> Nat] /\ fresh' \in [Thread -> BOOLEAN]
               /\ UNCHANGED <<e, t>> /\ pc' \in [Thread -> Working \cup Resting]
    BY <1>2, <2>7, FindInsertEffect DEF Moves
  <2>8. QED
    BY <1>2, <2>1, <2>2, <2>3, <2>4, <2>5, <2>6, <2>7, StepKinds DEF Busily
<1>4. ASSUME NEW w \in Thread
      PROVE  /\ i[w] \in Nat /\ m_nbArcs \in Nat /\ m_id_thread \in Nat /\ m_gc \in Int
             /\ m_terminaison \subseteq Thread
             /\ pc[w] \in Taken => t[w] \in Transition
             /\ pc[w] \in Working => e[w].state \in Nat
             /\ pc[w] \in Aimed => m_GONodes[pos[w]] \in LDDState
  BY <1>1, StateProperties, TakenProperties DEF TypeInv, TypeOK, ThreadOK
<1>5. seen' \in [Thread -> SUBSET [from : Nat, t : Transition]]
  <2>1. seen \in [Thread -> SUBSET [from : Nat, t : Transition]]
    BY <1>1 DEF TypeOK
  <2>2. ASSUME NEW w \in Thread, ReadPredecessors(w)
        PROVE  seen' \in [Thread -> SUBSET [from : Nat, t : Transition]]
    <3>1. m_GONodes[pos[w]].Predecessors \in SUBSET [from : Nat, t : Transition]
      BY <1>4, <2>2 DEF ReadPredecessors, Aimed, LDDState
    <3>2. QED
      BY <2>1, <2>2, <3>1 DEF ReadPredecessors
  <2>3. ASSUME NEW w \in Thread, WritePredecessors(w)
        PROVE  seen' \in [Thread -> SUBSET [from : Nat, t : Transition]]
    BY <2>1, <2>3 DEF WritePredecessors
  <2>4. ASSUME NEW w \in Thread, ThreadStep(w), ~ReadPredecessors(w), ~WritePredecessors(w)
        PROVE  UNCHANGED seen
    BY <2>4 DEF ThreadStep, Start, Loop, Busy, Pop, Fire, Enter, First, FindInsert,
                LinkSuccessor, Push, Leave, Last, Idle, isNotTerminated, Initial, Collect,
                Collected, local
  <2>5. QED
    BY <2>1, <2>2, <2>3, <2>4 DEF Next, vars, local
<1>6. i' \in [Thread -> Nat] /\ m_terminaison' \subseteq Thread
  <2>1. i \in [Thread -> Nat] /\ m_terminaison \subseteq Thread
    BY <1>1 DEF TypeOK
  <2>2. ASSUME NEW w \in Thread, Busy(w) \/ Idle(w) \/ isNotTerminated(w)
        PROVE  i' \in [Thread -> Nat] /\ m_terminaison' \subseteq Thread
    BY <2>1, <2>2 DEF Busy, Idle, isNotTerminated, shared, local
  <2>3. ASSUME NEW w \in Thread, ThreadStep(w), ~Busy(w), ~Idle(w), ~isNotTerminated(w)
        PROVE  UNCHANGED <<i, m_terminaison>>
    BY <2>3 DEF ThreadStep, Start, Loop, Pop, Fire, Enter, First, FindInsert,
                LinkSuccessor, ReadPredecessors, WritePredecessors, Push, Leave, Last,
                Initial, Collect, Collected, local, shared
  <2>4. QED
    BY <2>1, <2>2, <2>3 DEF Next, vars, local, shared
<1>7. /\ m_nbArcs' \in Nat /\ m_id_thread' \in Nat /\ m_gc' \in Int
      /\ m_gc_mutex' \in {"free", "section", "collector"} /\ method' \in Methods
  <2>1. /\ m_nbArcs \in Nat /\ m_id_thread \in Nat /\ m_gc \in Int /\ method \in Methods
        /\ m_gc_mutex \in {"free", "section", "collector"}
    BY <1>1 DEF TypeOK
  <2>2. ASSUME NEW w \in Thread, ThreadStep(w)
        PROVE  /\ m_nbArcs' \in Nat /\ m_id_thread' \in Nat /\ m_gc' \in Int
               /\ m_gc_mutex' \in {"free", "section", "collector"}
    BY <2>1, <2>2
    DEF ThreadStep, Start, Loop, Busy, Pop, Fire, Enter, First, FindInsert, LinkSuccessor,
        ReadPredecessors, WritePredecessors, Push, Leave, Last, Idle, isNotTerminated,
        Initial, Collect, Collected, shared, gc
  <2>3. QED
    BY <2>1, <2>2 DEF Next, vars, shared, gc
<1>8. QED
  BY <1>1, <1>3, <1>5, <1>6, <1>7 DEF TypeOK

LEMMA TypeInvInit == Init => TypeInv
<1> SUFFICES ASSUME Init PROVE TypeInv
  OBVIOUS
<1>1. Pair(NoState, {}) \in StackedPair
  BY DEF Pair, NoState, StackedPair
<1>2. <<>> \in Seq(StackedPair) /\ <<>> \in Seq(LDDState) /\ \A k \in DOMAIN <<>> : FALSE
  OBVIOUS
<1>3. TypeOK
  BY <1>1, <1>2 DEF Init, TypeOK, NoState, NoTransition, Resting
<1>4. StacksOK
  BY <1>2 DEF Init, StacksOK
<1>5. State = {} /\ \A w \in Thread : pc[w] \in {"start", "done"}
  BY <1>2 DEF Init, State
<1>6. \A w \in Thread : ThreadOK(w)
  BY <1>5 DEF ThreadOK, Working, Taken, Aimed
<1>7. QED
  BY <1>3, <1>4, <1>6 DEF TypeInv

LEMMA TypeInvStep == TypeInv /\ [Next]_vars => TypeInv'
<1> SUFFICES ASSUME TypeInv, [Next]_vars PROVE TypeInv'
  OBVIOUS
<1>1. QED
  BY TypeStep, StacksStep, ThreadStepOK DEF TypeInv

(* Variables keep their types, stacks hold states of the graph with their  *)
(* observable transitions, and a thread's pointers designate states.       *)
THEOREM TypeCorrect == Spec => []TypeInv
BY TypeInvInit, TypeInvStep, PTL DEF Spec

-----------------------------------------------------------------------------
(* The section that m_gc counts and m_gc_mutex protects. *)

(* The labels of the threads other than 0 that m_gc counts. *)
Counted == {"first", "find", "link", "read", "write", "push", "leave"}

(* m_gc tells whether the section is empty, and whether a thread is alone. *)
LEMMA CountProperties ==
  ASSUME NEW S \in SUBSET Thread
  PROVE  /\ Cardinality(S) \in Nat
         /\ Cardinality(S) = 0 <=> S = {}
         /\ \A w \in S : /\ Cardinality(S \ {w}) = Cardinality(S) - 1
                         /\ Cardinality(S) = 1 => S = {w}
         /\ \A w \in Thread \ S : Cardinality(S \cup {w}) = Cardinality(S) + 1
<1>1. IsFiniteSet(Thread)
  BY ThreadSOGAssumption, FS_Interval DEF Thread
<1>2. IsFiniteSet(S)
  BY <1>1, FS_Subset
<1>3. Cardinality(S) \in Nat /\ (Cardinality(S) = 0 <=> S = {})
  BY <1>2, FS_CardinalityType, FS_EmptySet
<1>4. ASSUME NEW w \in S
      PROVE  Cardinality(S \ {w}) = Cardinality(S) - 1 /\ (Cardinality(S) = 1 => S = {w})
  <2>1. IsFiniteSet(S \ {w}) /\ Cardinality(S \ {w}) = Cardinality(S) - 1
    BY <1>2, FS_RemoveElement
  <2>2. Cardinality(S) = 1 => S \ {w} = {}
    BY <1>3, <2>1, FS_EmptySet
  <2>3. QED
    BY <2>1, <2>2
<1>5. \A w \in Thread \ S : Cardinality(S \cup {w}) = Cardinality(S) + 1
  BY <1>2, FS_AddElement
<1>6. QED
  BY <1>3, <1>4, <1>5

LEMMA SectionProperties ==
  ASSUME TypeInv, LockInv
  PROVE  /\ InSection = {w \in Thread : w # 0 /\ pc[w] \in Counted}
         /\ m_gc \in Nat
         /\ m_gc = 0 <=> InSection = {}
         /\ \A w \in InSection : m_gc = 1 => InSection = {w}
<1>1. InSection \in SUBSET Thread /\ m_gc = Cardinality(InSection)
  BY DEF InSection, LockInv
<1>2. QED
  BY <1>1, CountProperties DEF InSection, Counted

(* A step of a thread that does not pass the gates of the section. *)
LEMMA SameSection ==
  ASSUME TypeInv, LockInv, NEW w \in Thread, NEW label, Moves(w, label),
         UNCHANGED <<m_gc, m_gc_mutex>>,
         pc[w] \notin {"first", "last", "collected"},
         label \notin {"first", "last", "collected"},
         label \in {"enter", "leave"} => w # 0,
         label = "collect" => w = 0,
         w # 0 => (label \in Counted <=> pc[w] \in Counted)
  PROVE  LockInv'
<1>1. InSection' = InSection
  BY DEF InSection, Moves, Counted
<1>2. \A v \in Thread : /\ pc'[v] = "first" <=> pc[v] = "first"
                        /\ pc'[v] = "last" <=> pc[v] = "last"
                        /\ pc'[v] = "collected" <=> pc[v] = "collected"
  BY DEF Moves
<1>3. \A v \in Thread : /\ pc'[v] \in {"enter", "first", "leave", "last"} => v # 0
                        /\ pc'[v] \in {"collect", "collected"} => v = 0
  BY DEF Moves, LockInv
<1>4. m_gc' = Cardinality(InSection')
  BY <1>1 DEF LockInv
<1>5. QED
  BY <1>2, <1>3, <1>4 DEF LockInv

LEMMA EnterLock ==
  ASSUME TypeInv, LockInv, NEW w \in Thread, Enter(w)
  PROVE  LockInv'
<1>1. /\ pc[w] = "enter" /\ w # 0 /\ m_gc' = m_gc + 1 /\ m_gc_mutex' = m_gc_mutex
      /\ Moves(w, IF m_gc = 0 THEN "first" ELSE "find")
  BY GotoMoves DEF Enter, LockInv, TypeInv, Working
<1>2. /\ InSection = {v \in Thread : v # 0 /\ pc[v] \in Counted}
      /\ m_gc \in Nat /\ (m_gc = 0 <=> InSection = {})
  BY SectionProperties
<1>3. InSection' = InSection \cup {w} /\ w \in Thread \ InSection
  BY <1>1 DEF InSection, Moves
<1>4. m_gc' = Cardinality(InSection')
  BY <1>1, <1>3, CountProperties DEF LockInv, InSection
<1>5. \A v \in Thread \ {w} : pc'[v] = pc[v]
  BY <1>1 DEF Moves
<1>6. CASE m_gc = 0
  <2>1. pc'[w] = "first" /\ \A v \in Thread : pc[v] # "first"
    BY <1>1, <1>2, <1>6 DEF Moves, Counted, LockInv
  <2>2. QED
    BY <1>1, <1>2, <1>4, <1>5, <1>6, <2>1 DEF LockInv
<1>7. CASE m_gc # 0
  <2>1. pc'[w] = "find"
    BY <1>1, <1>7 DEF Moves
  <2>2. \A v \in Thread : /\ pc'[v] = "first" <=> pc[v] = "first"
                          /\ pc'[v] = "last" <=> pc[v] = "last"
                          /\ pc'[v] = "collected" <=> pc[v] = "collected"
    BY <1>1, <1>5, <2>1
  <2>3. \A v \in Thread : /\ pc'[v] \in {"enter", "first", "leave", "last"} => v # 0
                          /\ pc'[v] \in {"collect", "collected"} => v = 0
    BY <1>5, <2>1 DEF LockInv
  <2>4. m_gc > 0 /\ m_gc' > 0
    BY <1>1, <1>2, <1>7
  <2>5. QED
    BY <1>1, <1>4, <2>2, <2>3, <2>4 DEF LockInv
<1>8. QED
  BY <1>6, <1>7

LEMMA FirstLock ==
  ASSUME TypeInv, LockInv, NEW w \in Thread, First(w)
  PROVE  LockInv'
<1>1. /\ pc[w] = "first" /\ w # 0 /\ m_gc' = m_gc
      /\ m_gc_mutex = "free" /\ m_gc_mutex' = "section"
      /\ Moves(w, "find")
  BY GotoMoves DEF First, LockInv, TypeInv, Working
<1>2. InSection' = InSection /\ w \in InSection
  BY <1>1 DEF InSection, Moves
<1>3. m_gc' = Cardinality(InSection') /\ m_gc > 0
  BY <1>1, <1>2, SectionProperties DEF LockInv
<1>4. \A v \in Thread : pc'[v] # "first"
  BY <1>1 DEF Moves, LockInv
<1>5. \A v \in Thread : pc'[v] # "last" /\ pc'[v] # "collected"
  BY <1>1 DEF Moves, LockInv
<1>6. \A v \in Thread : /\ pc'[v] \in {"enter", "first", "leave", "last"} => v # 0
                        /\ pc'[v] \in {"collect", "collected"} => v = 0
  BY <1>1 DEF Moves, LockInv
<1>7. QED
  BY <1>1, <1>3, <1>4, <1>5, <1>6 DEF LockInv

LEMMA LeaveLock ==
  ASSUME TypeInv, LockInv, NEW w \in Thread, Leave(w)
  PROVE  LockInv'
<1>1. /\ pc[w] = "leave" /\ w # 0 /\ m_gc' = m_gc - 1 /\ m_gc_mutex' = m_gc_mutex
      /\ Moves(w, IF m_gc = 1 THEN "last" ELSE "fire")
  BY GotoMoves DEF Leave, LockInv, TypeInv, Working
<1>2. InSection' = InSection \ {w} /\ w \in InSection
  BY <1>1 DEF InSection, Moves
<1>3. /\ m_gc \in Nat /\ m_gc > 0 /\ (m_gc = 1 => InSection = {w})
      /\ m_gc' = Cardinality(InSection')
  <2>1. m_gc = Cardinality(InSection) /\ InSection \in SUBSET Thread
    BY DEF LockInv, InSection
  <2>2. m_gc \in Nat /\ (m_gc = 0 <=> InSection = {}) /\ (m_gc = 1 => InSection = {w})
    BY <1>2, SectionProperties
  <2>3. Cardinality(InSection \ {w}) = Cardinality(InSection) - 1
    BY <1>2, <2>1, CountProperties
  <2>4. QED
    BY <1>1, <1>2, <2>1, <2>2, <2>3
<1>4. \A v \in Thread \ {w} : pc'[v] = pc[v]
  BY <1>1 DEF Moves
<1>5. \A v \in Thread : /\ pc'[v] = "first" <=> pc[v] = "first"
                        /\ pc'[v] = "collected" <=> pc[v] = "collected"
  BY <1>1 DEF Moves
<1>6. \A v \in Thread : /\ pc'[v] \in {"enter", "first", "leave", "last"} => v # 0
                        /\ pc'[v] \in {"collect", "collected"} => v = 0
  BY <1>1 DEF Moves, LockInv
<1>7. CASE m_gc = 1
  <2>1. pc'[w] = "last" /\ m_gc' = 0
    BY <1>1, <1>7 DEF Moves
  <2>2. \A v \in Thread : pc[v] # "first"
    BY <1>1, <1>3, <1>7 DEF InSection, LockInv
  <2>3. m_gc_mutex = "section" /\ \A v \in Thread : pc[v] # "last"
    BY <1>3, <2>2 DEF LockInv
  <2>4. QED
    BY <1>1, <1>3, <1>4, <1>5, <1>6, <2>1, <2>2, <2>3 DEF LockInv
<1>8. CASE m_gc # 1
  <2>1. pc'[w] = "fire" /\ m_gc' > 0
    BY <1>1, <1>3, <1>8 DEF Moves
  <2>2. \A v \in Thread : pc'[v] = "last" <=> pc[v] = "last"
    BY <1>1, <1>4, <2>1
  <2>3. QED
    BY <1>1, <1>3, <1>5, <1>6, <2>1, <2>2 DEF LockInv
<1>9. QED
  BY <1>7, <1>8

LEMMA LastLock ==
  ASSUME TypeInv, LockInv, NEW w \in Thread, Last(w)
  PROVE  LockInv'
<1>1. /\ pc[w] = "last" /\ w # 0 /\ m_gc' = m_gc /\ m_gc_mutex' = "free"
      /\ Moves(w, "fire")
  BY GotoMoves DEF Last, LockInv, TypeInv, Working
<1>2. InSection' = InSection
  BY <1>1 DEF InSection, Moves
<1>3. m_gc' = Cardinality(InSection') /\ m_gc_mutex = "section"
  BY <1>1, <1>2 DEF LockInv
<1>4. \A v \in Thread : /\ pc'[v] = "first" <=> pc[v] = "first"
                        /\ pc'[v] # "last" /\ pc'[v] # "collected"
  BY <1>1, <1>3 DEF Moves, LockInv
<1>5. \A v \in Thread : /\ pc'[v] \in {"enter", "first", "leave", "last"} => v # 0
                        /\ pc'[v] \in {"collect", "collected"} => v = 0
  BY <1>1 DEF Moves, LockInv
<1>6. m_gc > 0 => \E v \in Thread : pc'[v] = "first"
  BY <1>1, <1>4 DEF LockInv
<1>7. QED
  BY <1>1, <1>3, <1>4, <1>5, <1>6 DEF LockInv

(* Thread 0 and the mutex. *)
LEMMA CollectorLock ==
  ASSUME TypeInv, LockInv, Collect \/ Collected
  PROVE  LockInv'
<1>0. 0 \in Thread
  BY ThreadSOGAssumption DEF Thread
<1>1. CASE Collect
  <2>1. /\ pc[0] = "collect" /\ m_gc' = m_gc
        /\ m_gc_mutex = "free" /\ m_gc_mutex' = "collector"
        /\ Moves(0, "collected")
    BY <1>0, <1>1, GotoMoves DEF Collect, TypeInv, Working
  <2>2. InSection' = InSection
    BY <2>1 DEF InSection, Moves
  <2>3. \A v \in Thread : /\ pc'[v] = "first" <=> pc[v] = "first"
                          /\ pc'[v] = "last" <=> pc[v] = "last"
    BY <2>1 DEF Moves
  <2>4. \A v \in Thread : /\ pc'[v] \in {"enter", "first", "leave", "last"} => v # 0
                          /\ pc'[v] \in {"collect", "collected"} => v = 0
    BY <2>1 DEF Moves, LockInv
  <2>5. m_gc' = Cardinality(InSection') /\ pc'[0] = "collected"
    BY <2>1, <2>2 DEF LockInv, Moves
  <2>6. QED
    BY <1>0, <2>1, <2>3, <2>4, <2>5 DEF LockInv
<1>2. CASE Collected
  <2>1. /\ pc[0] = "collected" /\ m_gc' = m_gc /\ m_gc_mutex' = "free"
        /\ Moves(0, "find")
    BY <1>0, <1>2, GotoMoves DEF Collected, TypeInv, Working
  <2>2. InSection' = InSection
    BY <2>1 DEF InSection, Moves
  <2>3. \A v \in Thread : /\ pc'[v] = "first" <=> pc[v] = "first"
                          /\ pc'[v] = "last" <=> pc[v] = "last"
    BY <2>1 DEF Moves
  <2>4. \A v \in Thread : /\ pc'[v] \in {"enter", "first", "leave", "last"} => v # 0
                          /\ pc'[v] \in {"collect", "collected"} => v = 0
                          /\ pc'[v] # "collected"
    BY <1>0, <2>1 DEF Moves, LockInv
  <2>5. m_gc' = Cardinality(InSection') /\ m_gc_mutex = "collector"
    BY <1>0, <2>1, <2>2 DEF LockInv, Moves
  <2>6. QED
    BY <1>0, <2>1, <2>3, <2>4, <2>5 DEF LockInv
<1>3. QED
  BY <1>1, <1>2

LEMMA LockInvStep ==
  ASSUME TypeInv, LockInv, [Next]_vars
  PROVE  LockInv'
<1> USE DEF Counted
<1>1. TypeOK /\ 0 \in Thread
  BY ThreadSOGAssumption DEF TypeInv, Thread
<1>2. ASSUME NEW w \in Thread, NEW label \in Working \cup Resting, Goto(w, label),
             UNCHANGED gc,
             pc[w] \notin {"first", "last", "collected"},
             label \notin {"first", "last", "collected"},
             label \in {"enter", "leave"} => w # 0,
             label = "collect" => w = 0,
             w # 0 => (label \in Counted <=> pc[w] \in Counted)
      PROVE  LockInv'
  BY <1>1, <1>2, GotoMoves, SameSection DEF gc
<1> USE DEF Working, Resting
<1>3. ASSUME NEW w \in Thread, Start(w)
      PROVE  LockInv'
  <2>1. \E label \in {"initial", "loop"} : Goto(w, label)
    BY <1>3 DEF Start
  <2>2. QED
    BY <1>2, <1>3, <2>1 DEF Start
<1>4. ASSUME NEW w \in Thread, Loop(w)
      PROVE  LockInv'
  <2>1. \E label \in {"busy", "done", "idle"} : Goto(w, label)
    BY <1>4 DEF Loop
  <2>2. QED
    BY <1>2, <1>4, <2>1 DEF Loop
<1>5. ASSUME NEW w \in Thread, Busy(w) \/ Pop(w) \/ Idle(w)
      PROVE  LockInv'
  BY <1>2, <1>5 DEF Busy, Pop, Idle
<1>6. ASSUME NEW w \in Thread, Fire(w)
      PROVE  LockInv'
  <2>1. \E label \in {"enter", "collect", "find", "loop"} :
          /\ Goto(w, label)
          /\ label = "enter" => w # 0
          /\ label \in {"collect", "find"} => w = 0
    BY <1>6 DEF Fire
  <2>2. QED
    BY <1>2, <1>6, <2>1 DEF Fire
<1>7. ASSUME NEW w \in Thread, FindInsert(w) \/ LinkSuccessor(w) \/ ReadPredecessors(w)
      PROVE  LockInv'
  BY <1>2, <1>7 DEF FindInsert, LinkSuccessor, ReadPredecessors
<1>8. ASSUME NEW w \in Thread, WritePredecessors(w) \/ Push(w)
      PROVE  LockInv'
  <2>1. \E label \in {"push", "leave", "fire"} :
          /\ Goto(w, label)
          /\ label = "leave" => w # 0
          /\ label = "fire" => w = 0
    BY <1>8, Zenon DEF WritePredecessors, Push
  <2>2. QED
    BY <1>2, <1>8, <2>1 DEF WritePredecessors, Push
<1>9. ASSUME NEW w \in Thread, isNotTerminated(w)
      PROVE  LockInv'
  <2>1. CASE \E label \in {"done", "loop"} : Goto(w, label)
    BY <1>2, <1>9, <2>1 DEF isNotTerminated
  <2>2. CASE UNCHANGED pc
    BY <1>9, <2>2 DEF isNotTerminated, LockInv, InSection, gc
  <2>3. QED
    BY <1>9, <2>1, <2>2 DEF isNotTerminated
<1>10. CASE Initial
  BY <1>1, <1>2, <1>10 DEF Initial
<1>11. CASE UNCHANGED vars
  BY <1>11 DEF vars, gc, LockInv, InSection
<1>12. QED
  BY <1>3, <1>4, <1>5, <1>6, <1>7, <1>8, <1>9, <1>10, <1>11, EnterLock, FirstLock, LeaveLock,
     LastLock, CollectorLock DEF Next, ThreadStep

LEMMA LockInvInit == Init => LockInv
<1> SUFFICES ASSUME Init PROVE LockInv
  OBVIOUS
<1>1. \A w \in Thread : pc[w] \in {"start", "done"}
  BY DEF Init
<1>2. InSection = {}
  BY <1>1 DEF InSection
<1>3. Cardinality(InSection) = 0
  BY <1>2, FS_EmptySet
<1>4. QED
  BY <1>1, <1>3 DEF Init, LockInv

(* m_gc counts the threads of the section, one thread at a time has to     *)
(* lock m_gc_mutex for them and one has to unlock it.                      *)
LEMMA LockInvariant == Spec => []LockInv
<1>1. TypeInv /\ LockInv /\ [Next]_vars => LockInv'
  BY LockInvStep
<1>2. QED
  BY <1>1, LockInvInit, TypeCorrect, PTL DEF Spec

(* The mutex that the last thread of the section unlocks, maybe another    *)
(* one than the thread that locked it, is locked by the section.           *)
THEOREM SectionUnlocks == Spec => []UnlockIsLocked
<1>1. LockInv => UnlockIsLocked
  BY DEF LockInv, UnlockIsLocked
<1>2. QED
  BY <1>1, LockInvariant, PTL

-----------------------------------------------------------------------------
(* One owner per state. *)

LEMMA HoldsMeaning ==
  ASSUME NEW w, NEW n
  PROVE  Holds(w, n) <=> \/ pc[w] \in Working /\ e[w].state = n
                         \/ pc[w] \in Aimed /\ fresh[w] /\ pos[w] = n
BY DEF Holds, Working, Aimed

(* Only states of the graph are held or on a stack. *)
LEMMA OwnedStates ==
  ASSUME TypeInv, NEW w \in Thread, NEW n, Holds(w, n) \/ Stacked(w, n)
  PROVE  n \in State
BY HoldsMeaning DEF TypeInv, ThreadOK, StacksOK, Stacked

(* What thread w holds in the next state, as in HoldsMeaning. *)
HoldsNext(w, n) ==
  \/ pc'[w] \in Working /\ e'[w].state = n
  \/ pc'[w] \in Aimed /\ fresh'[w] /\ pos'[w] = n

LEMMA HoldsNextMeaning ==
  ASSUME NEW w, NEW n
  PROVE  Holds(w, n)' <=> HoldsNext(w, n)
BY DEF Holds, HoldsNext, Working, Aimed

(* The conjuncts of SingleOwner in the next state. *)
StacksDistinct ==
  \A v, w \in Thread : \A k \in DOMAIN m_st[v], l \in DOMAIN m_st[w] :
    m_st[v][k].state = m_st[w][l].state => v = w /\ k = l

HandsDistinct ==
  \A n \in State, v, w \in Thread : Holds(w, n) => ~Stacked(v, n) /\ (Holds(v, n) => v = w)

LEMMA SingleOwnerParts == SingleOwner <=> StacksDistinct /\ HandsDistinct
BY DEF SingleOwner, StacksDistinct, HandsDistinct

(* The steps after which nobody owns a state more than before. *)
LEMMA NothingTaken ==
  ASSUME SingleOwner, State' = State, UNCHANGED m_st,
         \A v \in Thread, n \in State : HoldsNext(v, n) => Holds(v, n)
  PROVE  SingleOwner'
<1>1. StacksDistinct'
  BY SingleOwnerParts DEF StacksDistinct
<1>2. HandsDistinct'
  <2>1. \A v \in Thread, n \in State : Holds(v, n)' => Holds(v, n)
    BY HoldsNextMeaning
  <2>2. \A v \in Thread, n \in State : Stacked(v, n)' = Stacked(v, n)
    BY DEF Stacked
  <2>3. QED
    BY <2>1, <2>2, SingleOwnerParts DEF HandsDistinct
<1>3. QED
  BY <1>1, <1>2 DEF SingleOwner, StacksDistinct, HandsDistinct

(* A new state goes to the thread that inserts it. *)
LEMMA NewOwner ==
  ASSUME TypeInv, SingleOwner, NEW w \in Thread, NEW n, NEW s, Added(n, s), UNCHANGED m_st,
         \A v \in Thread, k \in State' : HoldsNext(v, k) => Holds(v, k) \/ (v = w /\ k = n)
  PROVE  SingleOwner'
<1>1. StacksDistinct'
  BY SingleOwnerParts DEF StacksDistinct
<1>2. \A v \in Thread, k \in State' : Stacked(v, k)' = Stacked(v, k)
  BY DEF Stacked
<1>3. \A v \in Thread : ~Stacked(v, n) /\ ~Holds(v, n)
  BY OwnedStates DEF Added
<1>4. \A v \in Thread, k \in State' : Holds(v, k)' => Holds(v, k) \/ (v = w /\ k = n)
  BY HoldsNextMeaning
<1>5. HandsDistinct'
  BY <1>2, <1>3, <1>4, SingleOwnerParts DEF HandsDistinct, Added
<1>6. QED
  BY <1>1, <1>5 DEF SingleOwner, StacksDistinct, HandsDistinct

(* The same of the stacks, with the operators of LDDGraphProofs. *)
LEMMA DistinctMeaning ==
  /\ DOMAIN m_st = Thread => (StacksDistinct <=> DistinctStates(m_st))
  /\ DOMAIN m_st' = Thread => (StacksDistinct' <=> DistinctStates(m_st'))
BY DEF StacksDistinct, DistinctStates

LEMMA StackedMeaning ==
  ASSUME NEW n
  PROVE  /\ DOMAIN m_st = Thread =>
              (n \in StackStates(m_st) <=> \E v \in Thread : Stacked(v, n))
         /\ DOMAIN m_st' = Thread =>
              (n \in StackStates(m_st') <=> \E v \in Thread : Stacked(v, n)')
<1>1. \A v : Stacked(v, n) <=> \E z \in Elements(m_st[v]) : z.state = n
  BY DEF Stacked, Elements
<1>2. \A v : Stacked(v, n)' <=> \E z \in Elements(m_st'[v]) : z.state = n
  BY DEF Stacked, Elements
<1>3. QED
  BY <1>1, <1>2, StackStatesMeaning

LEMMA StackPushed ==
  ASSUME TypeInv, NEW x \in StackedPair, NEW c \in Thread,
         m_st' = [m_st EXCEPT ![c] = <<x>> \o m_st[c]]
  PROVE  PushesOn(Thread, StackedPair, m_st, m_st', c, x)
<1>1. m_st \in [Thread -> Seq(StackedPair)]
  BY DEF TypeInv, TypeOK
<1>2. QED
  BY <1>1, FrontElements DEF PushesOn

LEMMA StackPopped ==
  ASSUME TypeInv, NEW w \in Thread, m_st[w] # <<>>,
         m_st' = [m_st EXCEPT ![w] = Tail(m_st[w])]
  PROVE  PopsFrom(Thread, StackedPair, m_st, m_st', w, Head(m_st[w]))
<1>1. m_st \in [Thread -> Seq(StackedPair)]
  BY DEF TypeInv, TypeOK
<1>2. QED
  BY <1>1, PopElements DEF PopsFrom

(* A state goes from a thread's hands to a stack. *)
LEMMA OwnerPushes ==
  ASSUME TypeInv, SingleOwner, NEW w \in Thread, NEW n \in State, Holds(w, n),
         UNCHANGED m_GONodes,
         NEW x, x.state = n, NEW c, PushesOn(Thread, StackedPair, m_st, m_st', c, x),
         ~HoldsNext(w, n),
         \A v \in Thread, k \in State : HoldsNext(v, k) => Holds(v, k)
  PROVE  SingleOwner'
<1>1. m_st \in [Thread -> Seq(StackedPair)] /\ State' = State /\ DOMAIN m_st' = Thread
  BY DEF TypeInv, TypeOK, State, PushesOn
<1>2. \A v \in Thread : ~Stacked(v, n) /\ (Holds(v, n) => v = w)
  BY SingleOwnerParts DEF HandsDistinct
<1>3. DistinctStates(m_st) /\ n \notin StackStates(m_st)
  BY <1>1, <1>2, SingleOwnerParts, DistinctMeaning, StackedMeaning
<1>4. DistinctStates(m_st') /\ StackStates(m_st') = StackStates(m_st) \cup {n}
  <2>1. x.state \notin StackStates(m_st)
    BY <1>3
  <2>2. QED
    BY <1>3, <2>1, PushedState
<1>5. StacksDistinct'
  BY <1>1, <1>4, DistinctMeaning
<1>6. \A v \in Thread, k \in State :
        Stacked(v, k)' => k = n \/ \E u \in Thread : Stacked(u, k)
  BY <1>1, <1>4, StackedMeaning
<1>7. \A v \in Thread, k \in State : Holds(v, k)' => Holds(v, k) /\ k # n
  <2>1. \A v \in Thread, k \in State : Holds(v, k)' <=> HoldsNext(v, k)
    BY <1>1, HoldsNextMeaning
  <2>2. QED
    BY <1>2, <2>1
<1>8. HandsDistinct'
  BY <1>1, <1>6, <1>7, SingleOwnerParts DEF HandsDistinct
<1>9. QED
  BY <1>5, <1>8 DEF SingleOwner, StacksDistinct, HandsDistinct

(* A state goes from the stack to the hands of its thread. *)
LEMMA OwnerPops ==
  ASSUME TypeInv, SingleOwner, NEW w \in Thread, NEW x,
         PopsFrom(Thread, StackedPair, m_st, m_st', w, x), UNCHANGED m_GONodes,
         NEW n, n = x.state,
         \A v \in Thread, k \in State : HoldsNext(v, k) => Holds(v, k) \/ (v = w /\ k = n)
  PROVE  SingleOwner' /\ Stacked(w, n) /\ \A v \in Thread : ~Stacked(v, n)'
<1>1. m_st \in [Thread -> Seq(StackedPair)] /\ State' = State /\ DOMAIN m_st' = Thread
  BY DEF TypeInv, TypeOK, State, PopsFrom
<1>2. DistinctStates(m_st)
  BY <1>1, SingleOwnerParts, DistinctMeaning
<1>3. /\ DistinctStates(m_st')
      /\ n \in StackStates(m_st) /\ StackStates(m_st') = StackStates(m_st) \ {n}
  <2>1. /\ DistinctStates(m_st') /\ x.state \in StackStates(m_st)
        /\ StackStates(m_st') = StackStates(m_st) \ {x.state}
    BY <1>2, PoppedState
  <2>2. QED
    BY <2>1
<1>4. x = m_st[w][1] /\ 1 \in DOMAIN m_st[w]
  BY <1>1, PopProperties DEF PopsFrom
<1>5. StacksDistinct'
  BY <1>1, <1>3, DistinctMeaning
<1>6. \A v \in Thread : \A k :
        Stacked(v, k)' => k # n /\ \E u \in Thread : Stacked(u, k)
  BY <1>1, <1>3, StackedMeaning
<1>7. Stacked(w, n)
  BY <1>4 DEF Stacked
<1>8. \A v \in Thread : ~Holds(v, n)
  BY <1>7, OwnedStates, SingleOwnerParts DEF HandsDistinct
<1>9. \A v \in Thread, k \in State : Holds(v, k)' => Holds(v, k) \/ (v = w /\ k = n)
  <2>1. \A v \in Thread, k \in State : Holds(v, k)' <=> HoldsNext(v, k)
    BY <1>1, HoldsNextMeaning
  <2>2. QED
    BY <2>1
<1>10. HandsDistinct'
  BY <1>1, <1>6, <1>8, <1>9, SingleOwnerParts DEF HandsDistinct
<1>11. QED
  BY <1>5, <1>6, <1>7, <1>10 DEF SingleOwner, StacksDistinct, HandsDistinct

(* Nobody holds a state, and nothing is stacked, before the initial one.   *)
LEMMA EmptyStacks ==
  ASSUME TypeInv, State = {}, NEW w \in Thread
  PROVE  m_st[w] = <<>> /\ pc[w] \notin Working
<1>1. m_st[w] \in Seq(StackedPair)
  BY DEF TypeInv, TypeOK
<1>2. ASSUME m_st[w] # <<>>
      PROVE  FALSE
  <2>1. 1 \in DOMAIN m_st[w]
    BY <1>1, <1>2, PopProperties
  <2>2. QED
    BY <2>1 DEF TypeInv, StacksOK
<1>3. QED
  BY <1>2 DEF TypeInv, ThreadOK

(* A thread on a stretch keeps its places. *)
LEMMA QuietPlaces ==
  ASSUME NEW w \in Thread, Quiet(w)
  PROVE  /\ pc'[w] \in Working <=> pc[w] \in Working
         /\ pc'[w] \in Taken <=> pc[w] \in Taken
         /\ pc'[w] \in Aimed <=> pc[w] \in Aimed
         /\ pc'[w] \in Unlinked <=> pc[w] \in Unlinked
         /\ pc'[w] # "link" /\ pc[w] # "link"
BY DEF Quiet, Stretches, Resting, Working, Taken, Aimed, Unlinked

LEMMA OwnerInvStep ==
  ASSUME TypeInv, OwnerInv, [Next]_vars
  PROVE  OwnerInv'
<1>1. /\ TypeOK /\ SingleOwner /\ DistinctPos
      /\ m_st \in [Thread -> Seq(StackedPair)] /\ e \in [Thread -> StackedPair]
      /\ pos \in [Thread -> Nat]
  BY DEF TypeInv, TypeOK, OwnerInv
<1>2. CASE UNCHANGED vars
  BY <1>1, <1>2 DEF vars, shared, local, OwnerInv, SingleOwner, DistinctPos, State, Stacked, Holds
<1>3. CASE Initial
  <2>1. /\ 0 \in Thread /\ Moves(0, "loop") /\ State = {}
        /\ Added(1, NewState(InitialAggregate))
        /\ m_st' = [m_st EXCEPT ![0] = <<Pair(1, FirableObs[InitialAggregate])>>]
        /\ UNCHANGED <<e, pos, fresh>>
    BY <1>3, InitialEffect
  <2>2. \A v \in Thread : m_st[v] = <<>> /\ pc[v] \notin Working /\ pc'[v] \notin Working
    BY <2>1, EmptyStacks DEF Moves, Working
  <2>3. \A v \in Thread : pc'[v] \notin Aimed
    BY <2>2 DEF Aimed, Working
  <2>4. \A v \in Thread : \A k \in DOMAIN m_st'[v] : v = 0 /\ k = 1
    BY <1>1, <2>1, <2>2
  <2>5. StacksDistinct'
    BY <2>4 DEF StacksDistinct
  <2>6. HandsDistinct'
    <3>1. \A v \in Thread, n \in State' : ~HoldsNext(v, n)
      BY <2>2, <2>3 DEF HoldsNext
    <3>2. \A v \in Thread, n \in State' : ~Holds(v, n)'
      BY <3>1, HoldsNextMeaning
    <3>3. QED
      BY <3>2 DEF HandsDistinct
  <2>7. DistinctPos'
    BY <2>3 DEF DistinctPos
  <2>8. QED
    BY <2>5, <2>6, <2>7 DEF OwnerInv, SingleOwner, StacksDistinct, HandsDistinct
<1>4. ASSUME NEW w \in Thread, NEW label, Moves(w, label),
             \A v \in Thread \ {w} : e'[v].state = e[v].state /\ pos'[v] = pos[v] /\ fresh'[v] = fresh[v],
             pc'[w] \in Aimed /\ fresh'[w] => pos'[w] # e'[w].state
      PROVE  /\ DistinctPos'
             /\ \A v \in Thread \ {w} : \A n : HoldsNext(v, n) => Holds(v, n)
  <2>1. ASSUME NEW v \in Thread \ {w}, NEW n
        PROVE  /\ pc'[v] \in Aimed /\ fresh'[v] => pos'[v] # e'[v].state
               /\ HoldsNext(v, n) => Holds(v, n)
    BY <1>1, <1>4, HoldsMeaning DEF Moves, DistinctPos, HoldsNext
  <2>2. QED
    BY <1>4, <2>1 DEF DistinctPos
<1>5. ASSUME NEW w \in Thread, Quiet(w)
      PROVE  OwnerInv'
  <2>1. Moves(w, pc'[w]) /\ UNCHANGED <<m_GONodes, m_st, e, t, pos, fresh>>
    BY <1>5 DEF Quiet
  <2>2. pc'[w] \in Aimed /\ fresh'[w] => pos'[w] # e'[w].state
    BY <1>1, <1>5, <2>1, QuietPlaces DEF DistinctPos
  <2>3. \A n : HoldsNext(w, n) => Holds(w, n)
    BY <1>5, <2>1, QuietPlaces, HoldsMeaning DEF HoldsNext
  <2>4. DistinctPos' /\ \A v \in Thread, n \in State : HoldsNext(v, n) => Holds(v, n)
    BY <1>4, <2>1, <2>2, <2>3
  <2>5. QED
    BY <1>1, <2>1, <2>4, NothingTaken DEF OwnerInv, State
<1>6. ASSUME NEW w \in Thread, Pop(w)
      PROVE  OwnerInv'
  <2>1. /\ Moves(w, "fire") /\ m_st[w] # <<>> /\ m_st' = [m_st EXCEPT ![w] = Tail(m_st[w])]
        /\ e' = [e EXCEPT ![w] = Head(m_st[w])] /\ UNCHANGED <<m_GONodes, t, pos, fresh>>
    BY <1>6, PopEffect
  <2>2. pc'[w] \notin Aimed /\ e'[w].state = Head(m_st[w]).state
    BY <1>1, <2>1 DEF Moves, Aimed
  <2>3. /\ DistinctPos'
        /\ \A v \in Thread, n \in State :
             HoldsNext(v, n) => Holds(v, n) \/ (v = w /\ n = Head(m_st[w]).state)
    BY <1>1, <1>4, <2>1, <2>2 DEF HoldsNext
  <2>4. SingleOwner'
    <3>1. PICK x : x = Head(m_st[w])
      OBVIOUS
    <3>2. PopsFrom(Thread, StackedPair, m_st, m_st', w, x)
      BY <2>1, <3>1, StackPopped
    <3>3. QED
      BY <1>1, <2>1, <2>3, <3>1, <3>2, OwnerPops
  <2>5. QED
    BY <2>3, <2>4 DEF OwnerInv
<1>7. ASSUME NEW w \in Thread, Fire(w)
      PROVE  OwnerInv'
  <2>1. /\ UNCHANGED <<m_GONodes, m_st, pos, fresh>> /\ pc[w] = "fire"
        /\ \A v \in Thread : e'[v].state = e[v].state
        /\ \E label \in {"enter", "collect", "find", "loop"} : Moves(w, label)
    BY <1>7, FireEffect
  <2>2. pc'[w] \notin Aimed /\ pc[w] \in Working
    BY <2>1 DEF Moves, Aimed, Working
  <2>3. \A n : HoldsNext(w, n) => Holds(w, n)
    BY <2>1, <2>2, HoldsMeaning DEF HoldsNext
  <2>4. DistinctPos' /\ \A v \in Thread, n \in State : HoldsNext(v, n) => Holds(v, n)
    BY <1>4, <2>1, <2>2, <2>3
  <2>5. QED
    BY <1>1, <2>1, <2>4, NothingTaken DEF OwnerInv, State
<1>8. ASSUME NEW w \in Thread, FindInsert(w)
      PROVE  OwnerInv'
  <2>1. /\ pc[w] = "find" /\ Moves(w, "link") /\ UNCHANGED <<m_st, e, t>>
        /\ \A v \in Thread \ {w} : fresh'[v] = fresh[v]
    BY <1>8, FindInsertEffect
  <2>2. PICK n \in Nat :
          /\ pos' = [pos EXCEPT ![w] = n]
          /\ \/ ~fresh'[w] /\ UNCHANGED m_GONodes
             \/ fresh'[w] /\ Added(n, NewReached(Reached(w)))
    BY <1>8, FindInsertEffect
  <2>3. e[w].state \in State /\ pc[w] \in Working
    BY <2>1, TakenProperties DEF Taken, Working
  <2>4. pos'[w] = n /\ \A v \in Thread \ {w} : pos'[v] = pos[v]
    BY <1>1, <2>2
  <2>5. fresh'[w] => pos'[w] # e'[w].state
    BY <2>1, <2>2, <2>3, <2>4 DEF Added
  <2>6. \A k : HoldsNext(w, k) => Holds(w, k) \/ (fresh'[w] /\ k = n)
    BY <2>1, <2>3, <2>4, HoldsMeaning DEF HoldsNext
  <2>7. /\ DistinctPos'
        /\ \A v \in Thread : \A k : HoldsNext(v, k) => Holds(v, k) \/ (v = w /\ fresh'[w] /\ k = n)
    BY <1>4, <2>1, <2>4, <2>5, <2>6
  <2>8. CASE ~fresh'[w] /\ UNCHANGED m_GONodes
    BY <1>1, <2>1, <2>7, <2>8, NothingTaken DEF OwnerInv, State
  <2>9. CASE fresh'[w] /\ Added(n, NewReached(Reached(w)))
    BY <1>1, <2>1, <2>7, <2>9, NewOwner DEF OwnerInv
  <2>10. QED
    BY <2>2, <2>8, <2>9
<1>9. ASSUME NEW w \in Thread, LinkSuccessor(w) \/ WritePredecessors(w)
      PROVE  OwnerInv'
  <2>1. /\ UNCHANGED <<m_st, e, pos, fresh>> /\ State' = State /\ pc[w] \in {"link", "write"}
        /\ \E label \in {"read", "push", "leave", "fire"} : Moves(w, label)
    BY <1>9, LinkSuccessorEffect, WritePredecessorsEffect
  <2>2. pc[w] \in Aimed /\ pc[w] \in Working
    BY <2>1 DEF Aimed, Working
  <2>3. pc'[w] \in Aimed /\ fresh'[w] => pos'[w] # e'[w].state
    BY <1>1, <2>1, <2>2 DEF DistinctPos
  <2>4. \A n : HoldsNext(w, n) => Holds(w, n)
    BY <2>1, <2>2, HoldsMeaning DEF HoldsNext
  <2>5. DistinctPos' /\ \A v \in Thread, n \in State : HoldsNext(v, n) => Holds(v, n)
    BY <1>4, <2>1, <2>3, <2>4
  <2>6. QED
    BY <1>1, <2>1, <2>5, NothingTaken DEF OwnerInv
<1>10. ASSUME NEW w \in Thread, Push(w)
       PROVE  OwnerInv'
  <2>1. /\ pc[w] = "push" /\ UNCHANGED <<m_GONodes, e, t, pos, fresh>> /\ pos[w] \in State
        /\ \E label \in {"leave", "fire"} : Moves(w, label)
        /\ fresh[w]
    BY <1>10, PushEffect DEF TypeInv, ThreadOK
  <2>2. PICK x \in StackedPair, c \in Thread :
          x.state = pos[w] /\ m_st' = [m_st EXCEPT ![c] = <<x>> \o m_st[c]]
    <3> DEFINE p == Pair(pos[w], FirableObs[Agg(pos[w])])
    <3>1. p \in StackedPair /\ p.state = pos[w]
      BY <1>10, PushEffect DEF Pair
    <3>2. \E c \in Thread : m_st' = [m_st EXCEPT ![c] = <<p>> \o m_st[c]]
      BY <1>10, PushEffect
    <3> HIDE DEF p
    <3>3. QED
      BY <3>1, <3>2
  <2>3. pc[w] \in Aimed /\ pc[w] \in Working /\ pc'[w] \notin Aimed
    BY <2>1 DEF Aimed, Working, Moves
  <2>4. Holds(w, pos[w]) /\ pos[w] # e[w].state
    BY <1>1, <2>1, <2>3, HoldsMeaning DEF DistinctPos
  <2>5. \A n : HoldsNext(w, n) => Holds(w, n) /\ n # pos[w]
    BY <2>1, <2>3, <2>4, HoldsMeaning DEF HoldsNext
  <2>6. DistinctPos' /\ \A v \in Thread, n \in State : HoldsNext(v, n) => Holds(v, n)
    BY <1>4, <2>1, <2>3, <2>5
  <2>7. SingleOwner'
    <3>1. PushesOn(Thread, StackedPair, m_st, m_st', c, x)
      BY <2>2, StackPushed
    <3>2. QED
      BY <1>1, <2>1, <2>2, <2>4, <2>5, <2>6, <3>1, OwnerPushes
  <2>8. QED
    BY <2>6, <2>7 DEF OwnerInv
<1>11. QED
  BY <1>2, <1>3, <1>5, <1>6, <1>7, <1>8, <1>9, <1>10, StepKinds DEF Busily

LEMMA OwnerInvInit == Init => OwnerInv
<1> SUFFICES ASSUME Init PROVE OwnerInv
  OBVIOUS
<1>1. \A w \in Thread : pc[w] \in {"start", "done"} /\ m_st[w] = <<>>
  BY DEF Init
<1>2. \A w \in Thread : DOMAIN m_st[w] = {}
  BY <1>1
<1>3. QED
  BY <1>1, <1>2 DEF OwnerInv, SingleOwner, DistinctPos, Holds, Stacked, Aimed

LEMMA OwnerInvariant == Spec => []OwnerInv
<1>1. TypeInv /\ OwnerInv /\ [Next]_vars => OwnerInv'
  BY OwnerInvStep
<1>2. QED
  BY <1>1, OwnerInvInit, TypeCorrect, PTL DEF Spec

(* A state is on one stack once or in one thread's hands: nobody else      *)
(* touches its Successors, which have no lock.                             *)
THEOREM SingleOwnership == Spec => []SingleOwner
<1>1. OwnerInv => SingleOwner
  BY DEF OwnerInv
<1>2. QED
  BY <1>1, OwnerInvariant, PTL

-----------------------------------------------------------------------------
(* What has been done for each state.                                      *)

(* The step leaves alone what a state says of itself. *)
SameWork(n) ==
  /\ m_GONodes'[n].m_lddstate = m_GONodes[n].m_lddstate
  /\ m_GONodes'[n].Successors = m_GONodes[n].Successors

LEMMA SameWorkProperties ==
  ASSUME NEW n, SameWork(n)
  PROVE  /\ m_GONodes'[n].m_lddstate = Agg(n)
         /\ TransitionsOf(m_GONodes'[n]) = TransitionsOf(m_GONodes[n])
         /\ Links(m_GONodes'[n]) = Links(m_GONodes[n])
BY DEF SameWork, Agg, TransitionsOf, Links

(* Only its owner, inserting an edge, works on a state. *)
LEMMA WorkedOn ==
  ASSUME TypeInv, [Next]_vars, NEW n \in State
  PROVE  SameWork(n) \/ \E w \in Thread : LinkSuccessor(w) /\ e[w].state = n
<1>1. CASE UNCHANGED m_GONodes
  BY <1>1 DEF SameWork
<1>2. CASE Initial
  BY <1>2, InitialEffect
<1>3. ASSUME NEW w \in Thread, FindInsert(w)
      PROVE  SameWork(n)
  <2>1. UNCHANGED m_GONodes \/ \E k \in Nat : Added(k, NewReached(Reached(w)))
    BY <1>3, FindInsertEffect
  <2>2. QED
    BY <2>1 DEF Added, SameWork
<1>4. ASSUME NEW w \in Thread, LinkSuccessor(w), e[w].state # n
      PROVE  SameWork(n)
  BY <1>4, LinkSuccessorEffect DEF SameButEdges, SameWork
<1>5. ASSUME NEW w \in Thread, WritePredecessors(w)
      PROVE  SameWork(n)
  BY <1>5, WritePredecessorsEffect DEF SameButEdges, SameWork
<1>6. ASSUME NEW w \in Thread, Quiet(w) \/ Pop(w) \/ Fire(w) \/ Push(w)
      PROVE  UNCHANGED m_GONodes
  BY <1>6 DEF Quiet, Pop, Fire, Push, shared
<1>7. QED
  BY <1>1, <1>2, <1>3, <1>4, <1>5, <1>6, StepKinds DEF Busily, vars, shared

(* What a thread holds, or a stack, is not worked on by another thread. *)
LEMMA OwnedIsSame ==
  ASSUME TypeInv, OwnerInv, [Next]_vars, NEW v \in Thread, NEW n,
         \/ Stacked(v, n)
         \/ Holds(v, n) /\ ~LinkSuccessor(v)
         \/ pc[v] \in Aimed /\ fresh[v] /\ pos[v] = n
  PROVE  n \in State /\ SameWork(n)
<1>1. n \in State
  BY OwnedStates, HoldsMeaning
<1>2. ASSUME NEW w \in Thread, LinkSuccessor(w), e[w].state = n
      PROVE  FALSE
  <2>1. pc[w] \in Working /\ pc[w] \in Aimed /\ Holds(w, n)
    BY <1>2, HoldsMeaning DEF LinkSuccessor, Working, Aimed
  <2>2. ~Stacked(v, n) /\ (Holds(v, n) => v = w)
    BY <1>1, <2>1 DEF OwnerInv, SingleOwner
  <2>3. pc[v] \in Aimed /\ fresh[v] /\ pos[v] = n => v = w
    BY <2>2, HoldsMeaning
  <2>4. ~(pc[v] \in Aimed /\ fresh[v] /\ pos[v] = n)
    BY <1>2, <2>1, <2>3 DEF OwnerInv, DistinctPos
  <2>5. QED
    BY <1>2, <2>2, <2>4
<1>3. QED
  BY <1>1, <1>2, WorkedOn

(* Nobody owns what is finished. *)
LEMMA FinishedMeaning ==
  ASSUME NEW n
  PROVE  /\ Finished(n) <=> \A v \in Thread : ~Stacked(v, n) /\ ~Holds(v, n)
         /\ Finished(n)' <=> \A v \in Thread : ~Stacked(v, n)' /\ ~HoldsNext(v, n)
BY HoldsNextMeaning DEF Finished

(* What is finished and what is not, in the next state. *)
SameFinished ==
  /\ \A n \in State : Finished(n)' <=> Finished(n)
  /\ \A n \in State' : Finished(n)' => n \in State

LEMMA SameHands ==
  ASSUME UNCHANGED m_st, State' = State,
         \A v \in Thread, n \in State : HoldsNext(v, n) <=> Holds(v, n)
  PROVE  SameFinished
<1>1. \A v \in Thread, n \in State : Stacked(v, n)' <=> Stacked(v, n)
  BY DEF Stacked
<1>2. QED
  BY <1>1, FinishedMeaning DEF SameFinished

LEMMA QuietFinished ==
  ASSUME NEW w \in Thread, Quiet(w)
  PROVE  SameFinished
<1>1. /\ \A v \in Thread \ {w} : pc'[v] = pc[v]
      /\ UNCHANGED <<m_GONodes, m_st, e, t, pos, fresh>>
  BY DEF Quiet, Moves
<1>2. \A v \in Thread, n \in State : HoldsNext(v, n) <=> Holds(v, n)
  BY <1>1, QuietPlaces, HoldsMeaning DEF HoldsNext
<1>3. QED
  BY <1>1, <1>2, SameHands DEF State

LEMMA InitialFinished ==
  ASSUME TypeInv, Initial
  PROVE  SameFinished
<1>1. /\ 0 \in Thread /\ State = {} /\ State' = {1}
      /\ m_st' = [m_st EXCEPT ![0] = <<Pair(1, FirableObs[InitialAggregate])>>]
      /\ m_st \in [Thread -> Seq(StackedPair)]
  BY InitialEffect DEF Added, TypeInv, TypeOK
<1>2. Stacked(0, 1)'
  BY <1>1 DEF Stacked, Pair
<1>3. QED
  BY <1>1, <1>2, FinishedMeaning DEF SameFinished

LEMMA PopFinished ==
  ASSUME TypeInv, NEW w \in Thread, Pop(w)
  PROVE  SameFinished
<1> DEFINE h == Head(m_st[w])
<1>1. /\ pc[w] = "pop" /\ Moves(w, "fire") /\ UNCHANGED <<m_GONodes, t, pos, fresh>>
      /\ m_st[w] # <<>> /\ m_st[w] \in Seq(StackedPair)
      /\ m_st' = [m_st EXCEPT ![w] = Tail(m_st[w])] /\ e' = [e EXCEPT ![w] = h]
  BY PopEffect
<1>2. m_st \in [Thread -> Seq(StackedPair)] /\ e \in [Thread -> StackedPair]
  BY DEF TypeInv, TypeOK
<1>3. /\ 1 \in DOMAIN m_st[w] /\ h = m_st[w][1]
      /\ \A k \in DOMAIN Tail(m_st[w]) :
           k + 1 \in DOMAIN m_st[w] /\ Tail(m_st[w])[k] = m_st[w][k + 1]
      /\ \A k \in DOMAIN m_st[w] \ {1} :
           k - 1 \in DOMAIN Tail(m_st[w]) /\ Tail(m_st[w])[k - 1] = m_st[w][k]
  BY <1>1, PopProperties
<1> HIDE DEF h
<1>4. \A n : Stacked(w, n) <=> Stacked(w, n)' \/ h.state = n
  BY <1>1, <1>2, <1>3 DEF Stacked
<1>5. \A v \in Thread \ {w} : \A n : Stacked(v, n) <=> Stacked(v, n)'
  BY <1>1, <1>2 DEF Stacked
<1>6. \A n : ~Holds(w, n) /\ (HoldsNext(w, n) <=> h.state = n)
  BY <1>1, <1>2, HoldsMeaning DEF HoldsNext, Moves, Working, Aimed
<1>7. \A v \in Thread \ {w} : \A n : HoldsNext(v, n) <=> Holds(v, n)
  BY <1>1, <1>2, HoldsMeaning DEF HoldsNext, Moves
<1>8. \A n : Finished(n)' <=> Finished(n)
  BY <1>4, <1>5, <1>6, <1>7, FinishedMeaning
<1>9. QED
  BY <1>1, <1>8 DEF SameFinished, State

(* A thread that takes a transition, or releases its state. *)
LEMMA FireFinished ==
  ASSUME TypeInv, OwnerInv, NEW w \in Thread, Fire(w)
  PROVE  \/ SameFinished
         \/ /\ e[w].fire = {} /\ pc'[w] = "loop"
            /\ \A n \in State : Finished(n)' <=> Finished(n) \/ n = e[w].state
            /\ State' = State
<1>1. /\ UNCHANGED <<m_GONodes, m_st, pos, fresh>> /\ pc[w] = "fire"
      /\ \A v \in Thread : e'[v].state = e[v].state
      /\ State' = State
  BY FireEffect DEF State
<1>2. ASSUME NEW label \in Working \ Aimed, Moves(w, label)
      PROVE  SameFinished
  <2>1. \A n : HoldsNext(w, n) <=> Holds(w, n)
    BY <1>1, <1>2, HoldsMeaning DEF HoldsNext, Moves, Working, Aimed
  <2>2. \A v \in Thread \ {w} : \A n : HoldsNext(v, n) <=> Holds(v, n)
    BY <1>1, <1>2, HoldsMeaning DEF HoldsNext, Moves
  <2>3. QED
    BY <1>1, <2>1, <2>2, SameHands
<1>3. ASSUME e[w].fire = {}, Moves(w, "loop")
      PROVE  \A n \in State : Finished(n)' <=> Finished(n) \/ n = e[w].state
  <2>1. \A n : (Holds(w, n) <=> n = e[w].state) /\ ~HoldsNext(w, n)
    BY <1>1, <1>3, HoldsMeaning DEF HoldsNext, Moves, Working, Aimed
  <2>2. \A v \in Thread \ {w} : \A n : HoldsNext(v, n) <=> Holds(v, n)
    BY <1>1, <1>3, HoldsMeaning DEF HoldsNext, Moves
  <2>3. \A v \in Thread : \A n : Stacked(v, n)' <=> Stacked(v, n)
    BY <1>1 DEF Stacked
  <2>4. \A n \in State, v \in Thread : Holds(w, n) => ~Stacked(v, n) /\ (Holds(v, n) => v = w)
    BY DEF OwnerInv, SingleOwner
  <2>5. QED
    BY <2>1, <2>2, <2>3, <2>4, FinishedMeaning
<1>4. \/ \E label \in {"enter", "collect", "find"} : Moves(w, label)
      \/ e[w].fire = {} /\ Moves(w, "loop")
  BY FireEffect
<1>5. {"enter", "collect", "find"} \subseteq Working \ Aimed
  BY DEF Working, Aimed
<1>6. QED
  BY <1>1, <1>2, <1>3, <1>4, <1>5 DEF Moves

LEMMA FindInsertFinished ==
  ASSUME TypeInv, NEW w \in Thread, FindInsert(w)
  PROVE  SameFinished
<1>1. /\ pc[w] = "find" /\ Moves(w, "link") /\ UNCHANGED <<m_st, e, t>>
      /\ \A v \in Thread \ {w} : fresh'[v] = fresh[v]
  BY FindInsertEffect
<1>2. PICK n \in Nat :
        /\ pos' = [pos EXCEPT ![w] = n]
        /\ \/ ~fresh'[w] /\ UNCHANGED m_GONodes
           \/ fresh'[w] /\ Added(n, NewReached(Reached(w)))
  BY FindInsertEffect
<1>3. pos'[w] = n /\ \A v \in Thread \ {w} : pos'[v] = pos[v]
  BY <1>2 DEF TypeInv, TypeOK
<1>4. \A k : HoldsNext(w, k) <=> Holds(w, k) \/ (fresh'[w] /\ k = n)
  BY <1>1, <1>3, HoldsMeaning DEF HoldsNext, Moves, Working, Aimed
<1>5. \A v \in Thread \ {w} : \A k : HoldsNext(v, k) <=> Holds(v, k)
  BY <1>1, <1>3, HoldsMeaning DEF HoldsNext, Moves
<1>6. CASE ~fresh'[w] /\ UNCHANGED m_GONodes
  BY <1>1, <1>4, <1>5, <1>6, SameHands DEF State
<1>7. CASE fresh'[w] /\ Added(n, NewReached(Reached(w)))
  <2>1. \A v \in Thread : \A k : Stacked(v, k)' <=> Stacked(v, k)
    BY <1>1 DEF Stacked
  <2>2. \A k \in State : Finished(k)' <=> Finished(k)
    BY <1>4, <1>5, <1>7, <2>1, FinishedMeaning DEF Added
  <2>3. ~Finished(n)'
    BY <1>4, <1>7, FinishedMeaning
  <2>4. QED
    BY <1>7, <2>2, <2>3 DEF SameFinished, Added
<1>8. QED
  BY <1>2, <1>6, <1>7

LEMMA EdgeFinished ==
  ASSUME TypeInv, NEW w \in Thread, LinkSuccessor(w) \/ WritePredecessors(w)
  PROVE  SameFinished
<1>1. /\ UNCHANGED <<m_st, e, pos, fresh>> /\ State' = State
      /\ \/ pc[w] = "link" /\ Moves(w, "read")
         \/ pc[w] = "write" /\ fresh[w] /\ Moves(w, "push")
         \/ pc[w] = "write" /\ ~fresh[w] /\ \E label \in {"leave", "fire"} : Moves(w, label)
  BY LinkSuccessorEffect, WritePredecessorsEffect
<1>2. \A n : HoldsNext(w, n) <=> Holds(w, n)
  BY <1>1, HoldsMeaning DEF HoldsNext, Moves, Working, Aimed
<1>3. \A v \in Thread \ {w} : \A n : HoldsNext(v, n) <=> Holds(v, n)
  BY <1>1, HoldsMeaning DEF HoldsNext, Moves
<1>4. QED
  BY <1>1, <1>2, <1>3, SameHands

LEMMA PushFinished ==
  ASSUME TypeInv, NEW w \in Thread, Push(w)
  PROVE  SameFinished
<1> DEFINE x == Pair(pos[w], FirableObs[Agg(pos[w])])
<1>1. /\ pc[w] = "push" /\ UNCHANGED <<m_GONodes, e, t, pos, fresh>> /\ fresh[w]
      /\ \E label \in {"leave", "fire"} : Moves(w, label)
      /\ x \in StackedPair /\ x.state = pos[w]
  BY PushEffect DEF TypeInv, ThreadOK, Pair
<1>2. PICK c \in Thread : m_st' = [m_st EXCEPT ![c] = <<x>> \o m_st[c]]
  BY PushEffect
<1> HIDE DEF x
<1>3. m_st \in [Thread -> Seq(StackedPair)]
  BY DEF TypeInv, TypeOK
<1>4. /\ 1 \in DOMAIN (<<x>> \o m_st[c]) /\ (<<x>> \o m_st[c])[1] = x
      /\ \A k \in DOMAIN m_st[c] :
           k + 1 \in DOMAIN (<<x>> \o m_st[c]) /\ (<<x>> \o m_st[c])[k + 1] = m_st[c][k]
      /\ \A k \in DOMAIN (<<x>> \o m_st[c]) \ {1} :
           k - 1 \in DOMAIN m_st[c] /\ (<<x>> \o m_st[c])[k] = m_st[c][k - 1]
  BY <1>1, <1>3, FrontProperties
<1>5. ASSUME NEW n
      PROVE  Stacked(c, n)' <=> Stacked(c, n) \/ pos[w] = n
  <2>1. m_st'[c] = <<x>> \o m_st[c]
    BY <1>2, <1>3
  <2>2. ASSUME NEW k \in DOMAIN m_st[c]
        PROVE  \E l \in DOMAIN m_st'[c] : m_st'[c][l].state = m_st[c][k].state
    BY <1>4, <2>1
  <2>3. ASSUME NEW k \in DOMAIN m_st'[c]
        PROVE  \/ m_st'[c][k].state = pos[w]
               \/ \E l \in DOMAIN m_st[c] : m_st'[c][k].state = m_st[c][l].state
    BY <1>1, <1>4, <2>1
  <2>4. \E k \in DOMAIN m_st'[c] : m_st'[c][k].state = pos[w]
    BY <1>1, <1>4, <2>1
  <2>5. QED
    BY <2>2, <2>3, <2>4 DEF Stacked
<1>6. \A v \in Thread \ {c} : \A n : Stacked(v, n)' <=> Stacked(v, n)
  BY <1>2, <1>3 DEF Stacked
<1>7. \A n : Holds(w, n) <=> HoldsNext(w, n) \/ pos[w] = n
  BY <1>1, HoldsMeaning DEF HoldsNext, Moves, Working, Aimed
<1>8. \A v \in Thread \ {w} : \A n : HoldsNext(v, n) <=> Holds(v, n)
  BY <1>1, HoldsMeaning DEF HoldsNext, Moves
<1>9. \A n : Finished(n)' <=> Finished(n)
  BY <1>5, <1>6, <1>7, <1>8, FinishedMeaning
<1>10. QED
  BY <1>1, <1>9 DEF SameFinished, State

LEMMA StutterFinished ==
  ASSUME UNCHANGED vars
  PROVE  SameFinished
<1>1. \A v \in Thread : \A n : HoldsNext(v, n) <=> Holds(v, n)
  BY HoldsMeaning DEF vars, local, HoldsNext
<1>2. QED
  BY <1>1, SameHands DEF vars, shared, State

(* Inserting an edge adds it to those of its source. *)
LEMMA LinkSuccessorWork ==
  ASSUME TypeInv, NEW w \in Thread, LinkSuccessor(w)
  PROVE  /\ e[w].state \in State
         /\ m_GONodes'[e[w].state].m_lddstate = Agg(e[w].state)
         /\ Links(m_GONodes'[e[w].state])
              = Links(m_GONodes[e[w].state]) \cup {[to |-> pos[w], t |-> t[w]]}
         /\ TransitionsOf(m_GONodes'[e[w].state])
              = TransitionsOf(m_GONodes[e[w].state]) \cup {t[w]}
<1>1. e[w].state \in State /\ pos[w] \in State /\ t[w] \in Transition
  BY LinkSuccessorEffect, TakenProperties DEF Taken
<1>2. PICK n, to, u : n = e[w].state /\ to = pos[w] /\ u = t[w]
  OBVIOUS
<1>3. PICK s, r : s = m_GONodes[n] /\ r = m_GONodes'[n]
  OBVIOUS
<1>4. n \in State /\ to \in Nat /\ u \in Transition /\ s \in LDDState
  BY <1>1, <1>2, <1>3, StateProperties DEF TypeInv
<1>5. r.m_lddstate = s.m_lddstate /\ r.Successors = <<[to |-> to, t |-> u]>> \o s.Successors
  BY <1>2, <1>3, <1>4, LinkSuccessorEffect DEF SameButEdges
<1>6. /\ Links(r) = Links(s) \cup {[to |-> to, t |-> u]}
      /\ TransitionsOf(r) = TransitionsOf(s) \cup {u}
  BY <1>4, <1>5, LinkedEdges, LinkedTransitions
<1>7. QED
  BY <1>2, <1>3, <1>4, <1>5, <1>6 DEF Agg

(* A thread whose state the step does not work on. *)
LEMMA WorkKept ==
  ASSUME TypeInv, OwnerInv, [Next]_vars, NEW v \in Thread, pc[v] \in Working, WorkOK(v),
         e'[v] = e[v], t'[v] = t[v], pc'[v] \in Unlinked <=> pc[v] \in Unlinked,
         ~LinkSuccessor(v)
  PROVE  WorkOK(v)'
<1>1. SameWork(e[v].state)
  BY OwnedIsSame, HoldsMeaning
<1>2. /\ m_GONodes'[e[v].state].m_lddstate = Agg(e[v].state)
      /\ TransitionsOf(m_GONodes'[e[v].state]) = TransitionsOf(m_GONodes[e[v].state])
  BY <1>1, SameWorkProperties
<1>3. (IF pc'[v] \in Unlinked THEN {t'[v]} ELSE {}) = InHand(v)
  BY DEF InHand
<1>4. QED
  BY <1>2, <1>3 DEF WorkOK, InHand, Agg

(* The threads that do not move. *)
LEMMA OthersWork ==
  ASSUME TypeInv, OwnerInv, [Next]_vars, NEW w \in Thread, NEW label, Moves(w, label),
         \A v \in Thread : pc[v] \in Working => WorkOK(v),
         \A v \in Thread \ {w} : e'[v] = e[v] /\ t'[v] = t[v],
         label # pc[w]
  PROVE  \A v \in Thread \ {w} : pc'[v] \in Working => WorkOK(v)'
<1>1. ASSUME NEW v \in Thread \ {w}, pc'[v] \in Working
      PROVE  WorkOK(v)'
  <2>1. pc'[v] = pc[v]
    BY DEF Moves
  <2>2. ~LinkSuccessor(v)
    BY <2>1, LinkSuccessorEffect DEF Moves
  <2>3. QED
    BY <1>1, <2>1, <2>2, WorkKept
<1>2. QED
  BY <1>1

LEMMA WorkStep ==
  ASSUME TypeInv, OwnerInv, WorkInv, [Next]_vars
  PROVE  \A v \in Thread : pc'[v] \in Working => WorkOK(v)'
<1>1. /\ TypeOK /\ pc \in [Thread -> Working \cup Resting]
      /\ e \in [Thread -> StackedPair] /\ t \in [Thread -> Transition \cup {NoTransition}]
      /\ \A v \in Thread : pc[v] \in Working => WorkOK(v)
  BY DEF TypeInv, TypeOK, WorkInv
<1>2. ASSUME NEW w \in Thread, NEW label, Moves(w, label), label # pc[w],
             \A v \in Thread \ {w} : e'[v] = e[v] /\ t'[v] = t[v],
             label \in Working => WorkOK(w)'
      PROVE  \A v \in Thread : pc'[v] \in Working => WorkOK(v)'
  <2>1. \A v \in Thread \ {w} : pc'[v] \in Working => WorkOK(v)'
    BY <1>1, <1>2, OthersWork
  <2>2. pc'[w] \in Working => WorkOK(w)'
    BY <1>2 DEF Moves
  <2>3. QED
    BY <2>1, <2>2
<1>3. ASSUME NEW w \in Thread, UNCHANGED <<e, t>>,
             \A v \in Thread : /\ pc'[v] \in Working => pc[v] \in Working
                               /\ pc'[v] \in Unlinked <=> pc[v] \in Unlinked
                               /\ ~LinkSuccessor(v)
      PROVE  \A v \in Thread : pc'[v] \in Working => WorkOK(v)'
  BY <1>1, <1>3, WorkKept
<1>4. ASSUME NEW w \in Thread, Quiet(w)
      PROVE  \A v \in Thread : pc'[v] \in Working => WorkOK(v)'
  <2>1. Moves(w, pc'[w]) /\ UNCHANGED <<m_GONodes, m_st, e, t, pos, fresh>>
    BY <1>4 DEF Quiet
  <2>2. \A v \in Thread : /\ pc'[v] \in Working => pc[v] \in Working
                          /\ pc'[v] \in Unlinked <=> pc[v] \in Unlinked
    BY <1>4, <2>1, QuietPlaces DEF Moves
  <2>3. ASSUME NEW v \in Thread, LinkSuccessor(v)
        PROVE  FALSE
    <3>1. pc[v] = "link" /\ pc'[v] = "read"
      BY <2>3, LinkSuccessorEffect DEF Moves
    <3>2. v = w
      BY <2>1, <3>1 DEF Moves
    <3>3. QED
      BY <1>4, <3>1, <3>2, QuietPlaces
  <2>4. QED
    BY <1>3, <2>1, <2>2, <2>3
<1>5. CASE UNCHANGED vars
  <2>1. ASSUME NEW v \in Thread, LinkSuccessor(v)
        PROVE  FALSE
    BY <1>5, <2>1, LinkSuccessorEffect DEF vars, Moves
  <2>2. 0 \in Thread
    BY ThreadSOGAssumption DEF Thread
  <2>3. QED
    BY <1>3, <1>5, <2>1, <2>2 DEF vars, local
<1>6. CASE Initial
  <2>1. State = {} /\ Moves(0, "loop")
    BY <1>6, InitialEffect
  <2>2. \A v \in Thread : pc'[v] \notin Working
    BY <2>1, EmptyStacks DEF Moves, Working
  <2>3. QED
    BY <2>2
<1>7. ASSUME NEW w \in Thread, Pop(w)
      PROVE  \A v \in Thread : pc'[v] \in Working => WorkOK(v)'
  <2> DEFINE h == Head(m_st[w])
  <2>1. /\ pc[w] = "pop" /\ Moves(w, "fire") /\ UNCHANGED <<m_GONodes, t, pos, fresh>>
        /\ e' = [e EXCEPT ![w] = h] /\ h.state \in State /\ h.fire = FirableObs[Agg(h.state)]
        /\ m_st[w] \in Seq(StackedPair) /\ m_st[w] # <<>>
    BY <1>7, PopEffect
  <2>2. Stacked(w, h.state)
    BY <2>1, PopProperties DEF Stacked
  <2>3. Unfired(h.state)
    BY <2>1, <2>2 DEF WorkInv
  <2> HIDE DEF h
  <2>4. e'[w] = h /\ pc'[w] = "fire" /\ pc'[w] \notin Unlinked
    BY <1>1, <2>1 DEF Moves, Unlinked
  <2>5. WorkOK(w)'
    BY <2>1, <2>3, <2>4 DEF WorkOK, InHand, Unfired, Agg
  <2>6. QED
    BY <1>1, <1>2, <2>1, <2>5
<1>8. ASSUME NEW w \in Thread, Fire(w)
      PROVE  \A v \in Thread : pc'[v] \in Working => WorkOK(v)'
  <2>1. /\ UNCHANGED <<m_GONodes, m_st, pos, fresh>> /\ pc[w] = "fire"
        /\ pc[w] \in Working /\ pc[w] \notin Unlinked
    BY <1>8, FireEffect DEF Working, Unlinked
  <2>2. CASE e[w].fire = {} /\ Moves(w, "loop") /\ UNCHANGED <<e, t>>
    BY <1>2, <2>1, <2>2 DEF Working
  <2>3. ASSUME NEW label \in {"enter", "collect", "find"}, Moves(w, label),
               NEW u \in e[w].fire, t' = [t EXCEPT ![w] = u],
               e'[w].state = e[w].state, e'[w].fire = e[w].fire \ {u},
               \A v \in Thread \ {w} : e'[v] = e[v]
        PROVE  \A v \in Thread : pc'[v] \in Working => WorkOK(v)'
    <3>1. t'[w] = u /\ \A v \in Thread \ {w} : t'[v] = t[v]
      BY <1>1, <2>3
    <3>2. pc'[w] \in Unlinked /\ label # pc[w]
      BY <2>1, <2>3 DEF Moves, Unlinked
    <3>3. WorkOK(w) /\ InHand(w) = {}
      BY <1>1, <2>1 DEF InHand
    <3>4. WorkOK(w)'
      BY <2>1, <2>3, <3>1, <3>2, <3>3 DEF WorkOK, InHand, Agg
    <3>5. QED
      BY <1>2, <2>3, <3>1, <3>2, <3>4
  <2>4. QED
    BY <1>8, <2>2, <2>3, FireEffect
<1>9. ASSUME NEW w \in Thread, FindInsert(w) \/ WritePredecessors(w) \/ Push(w)
      PROVE  \A v \in Thread : pc'[v] \in Working => WorkOK(v)'
  <2>1. /\ \/ pc[w] = "find" /\ Moves(w, "link")
           \/ pc[w] = "write" /\ \E label \in {"push", "leave", "fire"} : Moves(w, label)
           \/ pc[w] = "push" /\ \E label \in {"leave", "fire"} : Moves(w, label)
        /\ UNCHANGED <<e, t>>
    BY <1>9, FindInsertEffect, WritePredecessorsEffect, PushEffect
  <2>2. \A v \in Thread : /\ pc'[v] \in Working => pc[v] \in Working
                          /\ pc'[v] \in Unlinked <=> pc[v] \in Unlinked
    BY <2>1 DEF Moves, Working, Unlinked
  <2>3. ASSUME NEW v \in Thread, LinkSuccessor(v)
        PROVE  FALSE
    BY <2>1, <2>3, LinkSuccessorEffect DEF Moves
  <2>4. QED
    BY <1>3, <2>1, <2>2, <2>3
<1>10. ASSUME NEW w \in Thread, LinkSuccessor(w)
       PROVE  \A v \in Thread : pc'[v] \in Working => WorkOK(v)'
  <2> DEFINE n == e[w].state
  <2>1. /\ pc[w] = "link" /\ Moves(w, "read") /\ UNCHANGED <<e, t>>
        /\ m_GONodes'[n].m_lddstate = Agg(n)
        /\ TransitionsOf(m_GONodes'[n]) = TransitionsOf(m_GONodes[n]) \cup {t[w]}
    BY <1>10, LinkSuccessorEffect, LinkSuccessorWork
  <2>2. WorkOK(w) /\ InHand(w) = {t[w]}
    BY <1>1, <2>1 DEF Working, InHand, Unlinked
  <2>3. pc'[w] \notin Unlinked
    BY <2>1 DEF Moves, Unlinked
  <2>4. WorkOK(w)'
    BY <2>1, <2>2, <2>3 DEF WorkOK, InHand, Agg
  <2>5. QED
    BY <1>2, <2>1, <2>4
<1>11. QED
  BY <1>4, <1>5, <1>6, <1>7, <1>8, <1>9, <1>10, StepKinds DEF Busily

(* What a thread has still to push has no edge yet. *)
FreshUnfired == \A v \in Thread : pc[v] \in Aimed /\ fresh[v] => Unfired(pos[v])

LEMMA FreshStep ==
  ASSUME TypeInv, OwnerInv, FreshUnfired, [Next]_vars
  PROVE  FreshUnfired'
<1>1. pos \in [Thread -> Nat]
  BY DEF TypeInv, TypeOK
<1>2. ASSUME NEW v \in Thread, pc[v] \in Aimed, fresh[v], pos'[v] = pos[v]
      PROVE  TransitionsOf(m_GONodes'[pos'[v]]) = {}
  BY <1>2, OwnedIsSame, SameWorkProperties DEF FreshUnfired, Unfired
<1>3. ASSUME \A v \in Thread : /\ pc'[v] \in Aimed /\ fresh'[v] => pc[v] \in Aimed /\ fresh[v]
                               /\ pos'[v] = pos[v]
      PROVE  FreshUnfired'
  BY <1>2, <1>3 DEF FreshUnfired, Unfired
<1>4. CASE UNCHANGED vars
  BY <1>3, <1>4 DEF vars, local
<1>5. CASE Initial
  BY <1>3, <1>5, InitialEffect DEF Moves, Aimed
<1>6. ASSUME NEW w \in Thread, Quiet(w)
      PROVE  FreshUnfired'
  BY <1>3, <1>6, QuietPlaces DEF Quiet, Moves
<1>7. ASSUME NEW w \in Thread, Pop(w)
      PROVE  FreshUnfired'
  BY <1>3, <1>7, PopEffect DEF Moves, Aimed
<1>8. ASSUME NEW w \in Thread, Fire(w)
      PROVE  FreshUnfired'
  BY <1>3, <1>8, FireEffect DEF Moves, Aimed
<1>9. ASSUME NEW w \in Thread, FindInsert(w)
      PROVE  FreshUnfired'
  <2>1. /\ pc[w] = "find" /\ Moves(w, "link")
        /\ \A v \in Thread \ {w} : fresh'[v] = fresh[v]
    BY <1>9, FindInsertEffect
  <2>2. PICK n \in Nat :
          /\ pos' = [pos EXCEPT ![w] = n]
          /\ fresh'[w] => /\ Added(n, NewReached(Reached(w)))
                          /\ NewReached(Reached(w)).Successors = <<>>
    BY <1>9, FindInsertEffect
  <2>3. pos'[w] = n /\ \A v \in Thread \ {w} : pos'[v] = pos[v]
    BY <1>1, <2>2
  <2>4. fresh'[w] => TransitionsOf(m_GONodes'[pos'[w]]) = {}
    BY <2>2, <2>3, EmptySeq DEF Added, TransitionsOf
  <2>5. \A v \in Thread \ {w} :
          pc'[v] \in Aimed /\ fresh'[v] => TransitionsOf(m_GONodes'[pos'[v]]) = {}
    BY <1>2, <2>1, <2>3 DEF Moves
  <2>6. QED
    BY <2>4, <2>5 DEF FreshUnfired, Unfired
<1>10. ASSUME NEW w \in Thread, LinkSuccessor(w) \/ WritePredecessors(w) \/ Push(w)
       PROVE  FreshUnfired'
  <2>1. /\ UNCHANGED <<pos, fresh>> /\ pc[w] \in Aimed
        /\ \E label \in {"read", "push", "leave", "fire"} : Moves(w, label)
    BY <1>10, LinkSuccessorEffect, WritePredecessorsEffect, PushEffect DEF Aimed
  <2>2. \A v \in Thread : pc'[v] \in Aimed => pc[v] \in Aimed
    BY <2>1 DEF Moves
  <2>3. QED
    BY <1>3, <2>1, <2>2
<1>11. QED
  BY <1>4, <1>5, <1>6, <1>7, <1>8, <1>9, <1>10, StepKinds DEF Busily

(* Neither has what a stack holds. *)
StackedUnfired == \A n \in State : (\E v \in Thread : Stacked(v, n)) => Unfired(n)

LEMMA StackedStep ==
  ASSUME TypeInv, OwnerInv, FreshUnfired, StackedUnfired, [Next]_vars
  PROVE  StackedUnfired'
<1>1. m_st \in [Thread -> Seq(StackedPair)]
  BY DEF TypeInv, TypeOK
<1>2. ASSUME NEW n, NEW v \in Thread, Stacked(v, n)
      PROVE  TransitionsOf(m_GONodes'[n]) = {}
  BY <1>2, OwnedIsSame, SameWorkProperties DEF StackedUnfired, Unfired
<1>3. ASSUME \A n \in State' : \A v \in Thread : Stacked(v, n)' => \E u \in Thread : Stacked(u, n)
      PROVE  StackedUnfired'
  BY <1>2, <1>3 DEF StackedUnfired, Unfired
<1>4. ASSUME UNCHANGED m_st
      PROVE  StackedUnfired'
  BY <1>3, <1>4 DEF Stacked
<1>5. CASE Initial
  <2>1. /\ 0 \in Thread /\ State = {} /\ State' = {1}
        /\ m_GONodes'[1] = NewState(InitialAggregate)
    BY <1>5, InitialEffect DEF Added
  <2>2. TransitionsOf(m_GONodes'[1]) = {}
    BY <2>1, EmptySeq DEF NewState, TransitionsOf
  <2>3. QED
    BY <2>1, <2>2 DEF StackedUnfired, Unfired
<1>6. ASSUME NEW w \in Thread, Pop(w)
      PROVE  StackedUnfired'
  <2>1. /\ m_st[w] # <<>> /\ m_st[w] \in Seq(StackedPair)
        /\ m_st' = [m_st EXCEPT ![w] = Tail(m_st[w])]
    BY <1>6, PopEffect
  <2>2. \A k \in DOMAIN Tail(m_st[w]) :
          k + 1 \in DOMAIN m_st[w] /\ Tail(m_st[w])[k] = m_st[w][k + 1]
    BY <2>1, PopProperties
  <2>3. \A n \in State' : \A v \in Thread : Stacked(v, n)' => Stacked(v, n)
    BY <1>1, <2>1, <2>2 DEF Stacked
  <2>4. QED
    BY <1>3, <2>3
<1>7. ASSUME NEW w \in Thread, Push(w)
      PROVE  StackedUnfired'
  <2> DEFINE x == Pair(pos[w], FirableObs[Agg(pos[w])])
  <2>1. /\ x \in StackedPair /\ x.state = pos[w] /\ UNCHANGED m_GONodes
        /\ pc[w] \in Aimed /\ fresh[w]
    BY <1>7, PushEffect DEF TypeInv, ThreadOK, Pair, Aimed
  <2>2. PICK c \in Thread : m_st' = [m_st EXCEPT ![c] = <<x>> \o m_st[c]]
    BY <1>7, PushEffect
  <2> HIDE DEF x
  <2>3. /\ (<<x>> \o m_st[c])[1] = x
        /\ \A k \in DOMAIN (<<x>> \o m_st[c]) \ {1} :
             k - 1 \in DOMAIN m_st[c] /\ (<<x>> \o m_st[c])[k] = m_st[c][k - 1]
    BY <1>1, <2>1, FrontProperties
  <2>4. ASSUME NEW n \in State', NEW v \in Thread, Stacked(v, n)'
        PROVE  Stacked(v, n) \/ n = pos[w]
    <3>1. PICK k \in DOMAIN m_st'[v] : m_st'[v][k].state = n
      BY <2>4 DEF Stacked
    <3>2. CASE v # c
      BY <1>1, <2>2, <3>1, <3>2 DEF Stacked
    <3>3. CASE v = c
      <4>1. m_st'[v] = <<x>> \o m_st[v]
        BY <1>1, <2>2, <3>3
      <4>2. k = 1 => n = pos[w]
        BY <2>1, <2>3, <3>1, <3>3, <4>1
      <4>3. k # 1 => k - 1 \in DOMAIN m_st[v] /\ m_st[v][k - 1].state = n
        BY <2>3, <3>1, <3>3, <4>1
      <4>4. QED
        BY <4>2, <4>3 DEF Stacked
    <3>4. QED
      BY <3>2, <3>3
  <2>5. TransitionsOf(m_GONodes'[pos[w]]) = {}
    BY <2>1 DEF FreshUnfired, Unfired
  <2>6. QED
    BY <1>2, <2>4, <2>5 DEF StackedUnfired, Unfired
<1>8. ASSUME NEW w \in Thread,
             Quiet(w) \/ Fire(w) \/ FindInsert(w) \/ LinkSuccessor(w) \/ WritePredecessors(w)
      PROVE  UNCHANGED m_st
  BY <1>8 DEF Quiet, Fire, FindInsert, LinkSuccessor, WritePredecessors, shared
<1>9. QED
  BY <1>4, <1>5, <1>6, <1>7, <1>8, StepKinds DEF Busily, vars, shared

(* A step that finishes no state, or the release of one.                   *)
LEMMA FinishedStep ==
  ASSUME TypeInv, OwnerInv, [Next]_vars
  PROVE  \/ SameFinished
         \/ \E w \in Thread :
              /\ Fire(w) /\ e[w].fire = {} /\ pc'[w] = "loop"
              /\ \A n \in State : Finished(n)' <=> Finished(n) \/ n = e[w].state
              /\ State' = State
BY StepKinds, StutterFinished, InitialFinished, QuietFinished, PopFinished, FireFinished,
   FindInsertFinished, EdgeFinished, PushFinished DEF Busily

(* What a thread releases has all its edges. *)
LEMMA ReleasedIsClosed ==
  ASSUME TypeInv, WorkInv, NEW w \in Thread, Fire(w), e[w].fire = {}
  PROVE  /\ e[w].state \in State
         /\ TransitionsOf(m_GONodes[e[w].state]) = FirableObs[Agg(e[w].state)]
         /\ UNCHANGED m_GONodes
<1>1. pc[w] = "fire" /\ e[w].state \in State /\ UNCHANGED m_GONodes
  BY FireEffect
<1>2. WorkOK(w) /\ InHand(w) = {}
  BY <1>1 DEF WorkInv, Working, InHand, Unlinked
<1>3. QED
  BY <1>1, <1>2 DEF WorkOK

LEMMA ClosedStep ==
  ASSUME TypeInv, OwnerInv, WorkInv, [Next]_vars
  PROVE  FinishedIsClosed'
<1> SUFFICES ASSUME NEW n \in State', Finished(n)'
             PROVE  TransitionsOf(m_GONodes'[n]) = FirableObs[m_GONodes'[n].m_lddstate]
  BY DEF FinishedIsClosed
<1>1. ASSUME n \in State, Finished(n)
      PROVE  TransitionsOf(m_GONodes'[n]) = FirableObs[m_GONodes'[n].m_lddstate]
  <2>1. ASSUME NEW w \in Thread, LinkSuccessor(w), e[w].state = n
        PROVE  FALSE
    <3>1. Holds(w, n)
      BY <2>1, HoldsMeaning DEF LinkSuccessor, Working
    <3>2. QED
      BY <1>1, <3>1 DEF Finished
  <2>2. SameWork(n)
    BY <1>1, <2>1, WorkedOn
  <2>3. QED
    BY <1>1, <2>2, SameWorkProperties DEF WorkInv, FinishedIsClosed, Agg
<1>2. CASE SameFinished
  BY <1>1, <1>2 DEF SameFinished
<1>3. ASSUME NEW w \in Thread, Fire(w), e[w].fire = {},
             \A m \in State : Finished(m)' <=> Finished(m) \/ m = e[w].state,
             State' = State
      PROVE  TransitionsOf(m_GONodes'[n]) = FirableObs[m_GONodes'[n].m_lddstate]
  <2>1. CASE n = e[w].state
    BY <1>3, <2>1, ReleasedIsClosed DEF Agg
  <2>2. CASE n # e[w].state
    BY <1>1, <1>3, <2>2
  <2>3. QED
    BY <2>1, <2>2
<1>4. QED
  BY <1>2, <1>3, FinishedStep

LEMMA WorkInvParts ==
  WorkInv <=> /\ \A w \in Thread : pc[w] \in Working => WorkOK(w)
              /\ FreshUnfired
              /\ StackedUnfired
              /\ FinishedIsClosed
BY DEF WorkInv, FreshUnfired, StackedUnfired

LEMMA WorkInvStep ==
  ASSUME TypeInv, OwnerInv, WorkInv, [Next]_vars
  PROVE  WorkInv'
<1>1. FreshUnfired' /\ StackedUnfired'
  BY WorkInvParts, FreshStep, StackedStep
<1>2. QED
  BY <1>1, WorkStep, ClosedStep DEF WorkInv, FreshUnfired, StackedUnfired

LEMMA WorkInvInit == Init => WorkInv
<1> SUFFICES ASSUME Init PROVE WorkInv
  OBVIOUS
<1>1. State = {} /\ \A w \in Thread : pc[w] \in {"start", "done"}
  BY EmptySeq DEF Init, State
<1>2. QED
  BY <1>1 DEF WorkInv, FinishedIsClosed, Working, Aimed

(* A thread's state has all its transitions linked, in hand or to fire.    *)
LEMMA WorkInvariant == Spec => []WorkInv
<1>1. TypeInv /\ OwnerInv /\ WorkInv /\ [Next]_vars => WorkInv'
  BY WorkInvStep
<1>2. QED
  BY <1>1, WorkInvInit, TypeCorrect, OwnerInvariant, PTL DEF Spec

(* A state no stack and no thread holds has all its edges. *)
THEOREM FinishedStatesAreClosed == Spec => []FinishedIsClosed
<1>1. WorkInv => FinishedIsClosed
  BY DEF WorkInv
<1>2. QED
  BY <1>1, WorkInvariant, PTL

-----------------------------------------------------------------------------
(* The graph is a part of the SOG. *)

(* The step leaves the graph alone, apart from Predecessors. *)
SameStates == State' = State /\ \A n \in State : SameWork(n)

(* What a step does to the graph. *)
LEMMA GraphSteps ==
  ASSUME TypeInv, [Next]_vars
  PROVE  \/ SameStates
         \/ Initial
         \/ \E w \in Thread : FindInsert(w) /\ fresh'[w]
         \/ \E w \in Thread : LinkSuccessor(w)
<1>1. ASSUME UNCHANGED m_GONodes
      PROVE  SameStates
  BY <1>1 DEF SameStates, SameWork, State
<1>2. ASSUME NEW w \in Thread, FindInsert(w), ~fresh'[w]
      PROVE  UNCHANGED m_GONodes
  BY <1>2, FindInsertEffect
<1>3. ASSUME NEW w \in Thread, WritePredecessors(w)
      PROVE  SameStates
  BY <1>3, WritePredecessorsEffect DEF SameButEdges, SameWork, SameStates
<1>4. ASSUME NEW w \in Thread, Quiet(w) \/ Pop(w) \/ Fire(w) \/ Push(w)
      PROVE  UNCHANGED m_GONodes
  BY <1>4 DEF Quiet, Pop, Fire, Push, shared
<1>5. QED
  BY <1>1, <1>2, <1>3, <1>4, StepKinds DEF Busily, vars, shared

(* An aggregate is inserted once, under the mutex. *)
LEMMA InitialGraph ==
  ASSUME TypeInv, GraphInv, Initial
  PROVE  /\ GraphInv'
         /\ GraphEdges(m_GONodes') = GraphEdges(m_GONodes)
         /\ State = {} /\ State' = {1}
         /\ m_GONodes'[1].m_lddstate = InitialAggregate
<1>1. State = {} /\ Added(1, NewState(InitialAggregate))
  BY InitialEffect
<1>2. State' = {1} /\ m_GONodes'[1] = NewState(InitialAggregate)
  BY <1>1 DEF Added
<1>3. m_GONodes'[1].m_lddstate = InitialAggregate /\ Links(m_GONodes'[1]) = {}
  BY <1>2, EmptySeq DEF NewState, Links
<1>4. PICK g, h : g = m_GONodes /\ h = m_GONodes'
  OBVIOUS
<1>5. /\ DOMAIN g = {} /\ DOMAIN h = DOMAIN g \cup {1} /\ Links(h[1]) = {}
      /\ PartOfSOG(g)
  BY <1>1, <1>2, <1>3, <1>4 DEF State, GraphInv
<1>6. PartOfSOG(h) /\ GraphEdges(h) = GraphEdges(g)
  BY <1>5, GrownGraph
<1>7. QED
  BY <1>1, <1>2, <1>3, <1>4, <1>6 DEF GraphInv

LEMMA FindInsertGraph ==
  ASSUME TypeInv, GraphInv, NEW w \in Thread, FindInsert(w), fresh'[w]
  PROVE  /\ GraphInv'
         /\ GraphEdges(m_GONodes') = GraphEdges(m_GONodes)
         /\ Reached(w) \notin GraphAggregates(m_GONodes, State)
         /\ GraphAggregates(m_GONodes', State')
              = GraphAggregates(m_GONodes, State) \cup {Reached(w)}
         /\ \A S \in SUBSET State :
              GraphAggregates(m_GONodes', S) = GraphAggregates(m_GONodes, S)
<1>1. PICK n \in Nat : /\ Added(n, NewReached(Reached(w)))
                       /\ NewReached(Reached(w)).m_lddstate = Reached(w)
                       /\ NewReached(Reached(w)).Successors = <<>>
                       /\ \A k \in State : Agg(k) # Reached(w)
  BY FindInsertEffect
<1>2. PICK g, h : g = m_GONodes /\ h = m_GONodes'
  OBVIOUS
<1>3. /\ n \notin DOMAIN g /\ DOMAIN h = DOMAIN g \cup {n} /\ PartOfSOG(g)
      /\ \A k \in DOMAIN g : /\ h[k].m_lddstate = g[k].m_lddstate
                             /\ Links(h[k]) = Links(g[k])
  BY <1>1, <1>2 DEF Added, State, GraphInv
<1>4. h[n].m_lddstate = Reached(w) /\ Links(h[n]) = {}
  BY <1>1, <1>2, EmptySeq DEF Added, Links
<1>5. \A k \in DOMAIN g : g[k].m_lddstate # h[n].m_lddstate
  BY <1>1, <1>2, <1>4 DEF Agg, State
<1>6. /\ PartOfSOG(h)
      /\ GraphEdges(h) = GraphEdges(g)
      /\ h[n].m_lddstate \notin GraphAggregates(g, DOMAIN g)
      /\ GraphAggregates(h, DOMAIN h) = GraphAggregates(g, DOMAIN g) \cup {h[n].m_lddstate}
      /\ \A S \in SUBSET DOMAIN g : GraphAggregates(h, S) = GraphAggregates(g, S)
  BY <1>3, <1>4, <1>5, GrownGraph
<1>7. QED
  BY <1>2, <1>4, <1>6 DEF State, GraphInv

(* An edge is inserted once: its transition was in hand, hence not linked. *)
LEMMA LinkSuccessorGraph ==
  ASSUME TypeInv, WorkInv, GraphInv, NEW w \in Thread, LinkSuccessor(w)
  PROVE  LET new == <<Agg(e[w].state), t[w], Reached(w)>>
         IN  /\ GraphInv'
             /\ new \in Edge /\ new \notin GraphEdges(m_GONodes)
             /\ GraphEdges(m_GONodes') = GraphEdges(m_GONodes) \cup {new}
             /\ Reached(w) \in GraphAggregates(m_GONodes, State)
             /\ \A S \in SUBSET State :
                  GraphAggregates(m_GONodes', S) = GraphAggregates(m_GONodes, S)
<1>1. /\ pc[w] = "link" /\ pos[w] \in State /\ State' = State
      /\ \A k \in State : SameButEdges(m_GONodes[k], m_GONodes'[k])
      /\ \A k \in State \ {e[w].state} : m_GONodes'[k].Successors = m_GONodes[k].Successors
  BY LinkSuccessorEffect
<1>2. /\ e[w].state \in State /\ Agg(e[w].state) \in Aggregate
      /\ t[w] \in FirableObs[Agg(e[w].state)]
      /\ Reached(w) = Successor[<<Agg(e[w].state), t[w]>>]
  BY <1>1, TakenProperties DEF Taken
<1>3. Agg(pos[w]) = Reached(w)
  BY <1>1 DEF TypeInv, ThreadOK
<1>4. t[w] \notin TransitionsOf(m_GONodes[e[w].state])
  <2>1. WorkOK(w) /\ InHand(w) = {t[w]}
    BY <1>1 DEF WorkInv, Working, InHand, Unlinked
  <2>2. QED
    BY <2>1 DEF WorkOK
<1>5. PICK g, h, n, m, u : /\ g = m_GONodes /\ h = m_GONodes'
                           /\ n = e[w].state /\ m = pos[w] /\ u = t[w]
  OBVIOUS
<1>6. /\ PartOfSOG(g) /\ DOMAIN h = DOMAIN g /\ n \in DOMAIN g /\ m \in DOMAIN g
      /\ g[n].m_lddstate \in Aggregate /\ u \in FirableObs[g[n].m_lddstate]
      /\ g[m].m_lddstate = Successor[<<g[n].m_lddstate, u>>]
      /\ \A k \in DOMAIN g : h[k].m_lddstate = g[k].m_lddstate
  BY <1>1, <1>2, <1>3, <1>5 DEF State, GraphInv, Agg, SameButEdges
<1>7. u \notin {x.t : x \in Links(g[n])}
  BY <1>4, <1>5 DEF TransitionsOf, Links
<1>8. \A k \in DOMAIN g \ {n} : Links(h[k]) = Links(g[k])
  BY <1>1, <1>5 DEF Links, State
<1>9. Links(h[n]) = Links(g[n]) \cup {[to |-> m, t |-> u]}
  BY <1>5, LinkSuccessorWork
<1>10. LET new == <<g[n].m_lddstate, u, g[m].m_lddstate>>
       IN  /\ PartOfSOG(h)
           /\ new \in Edge /\ new \notin GraphEdges(g)
           /\ GraphEdges(h) = GraphEdges(g) \cup {new}
           /\ \A S \in SUBSET DOMAIN g : GraphAggregates(h, S) = GraphAggregates(g, S)
  BY <1>6, <1>7, <1>8, <1>9, LinkedGraph
<1>11. g[m].m_lddstate \in GraphAggregates(g, DOMAIN g)
  BY <1>6 DEF GraphAggregates
<1>12. <<g[n].m_lddstate, u, g[m].m_lddstate>> = <<Agg(e[w].state), t[w], Reached(w)>>
  BY <1>3, <1>5 DEF Agg
<1>13. QED
  BY <1>3, <1>5, <1>10, <1>11, <1>12 DEF State, GraphInv, Agg

LEMMA SameStatesGraph ==
  ASSUME GraphInv, SameStates
  PROVE  /\ GraphInv'
         /\ GraphEdges(m_GONodes') = GraphEdges(m_GONodes)
         /\ \A S \in SUBSET State :
              GraphAggregates(m_GONodes', S) = GraphAggregates(m_GONodes, S)
<1>1. PICK g, h : g = m_GONodes /\ h = m_GONodes'
  OBVIOUS
<1>2. /\ PartOfSOG(g) /\ DOMAIN h = DOMAIN g
      /\ \A k \in DOMAIN g : /\ h[k].m_lddstate = g[k].m_lddstate
                             /\ Links(h[k]) = Links(g[k])
  BY <1>1 DEF SameStates, SameWork, Links, State, GraphInv
<1>3. /\ PartOfSOG(h)
      /\ GraphEdges(h) = GraphEdges(g)
      /\ \A S \in SUBSET DOMAIN g : GraphAggregates(h, S) = GraphAggregates(g, S)
  BY <1>2, SameGraph
<1>4. QED
  BY <1>1, <1>3 DEF State, GraphInv

(* No aggregate twice, and every edge is one of the SOG. *)
LEMMA GraphInvariant == Spec => []GraphInv
<1>1. Init => GraphInv
  BY EmptySeq DEF Init, GraphInv, PartOfSOG
<1>2. TypeInv /\ WorkInv /\ GraphInv /\ [Next]_vars => GraphInv'
  BY GraphSteps, InitialGraph, FindInsertGraph, LinkSuccessorGraph, SameStatesGraph
<1>3. QED
  BY <1>1, <1>2, TypeCorrect, WorkInvariant, PTL DEF Spec

-----------------------------------------------------------------------------
(* The construction implements SOGOnTheFly.                                *)

Closed == {n \in State : Finished(n)}

(* The mapping of ThreadSOG, said with the operators of LDDGraphProofs.    *)
LEMMA PromiseMapping ==
  /\ AggregatesOf(State) = GraphAggregates(m_GONodes, State)
  /\ AggregatesOf(State)' = GraphAggregates(m_GONodes', State')
  /\ (UNION {EdgesOf(n) : n \in State}) = GraphEdges(m_GONodes)
  /\ (UNION {EdgesOf(n) : n \in State})' = GraphEdges(m_GONodes')
  /\ AggregatesOf({n \in State : Finished(n)}) = GraphAggregates(m_GONodes, Closed)
  /\ AggregatesOf({n \in State : Finished(n)})' = GraphAggregates(m_GONodes', Closed')
BY DEF AggregatesOf, EdgesOf, GraphAggregates, GraphEdges, EdgesFromState, Links, State, Closed

LEMMA SameClosed ==
  ASSUME SameFinished, State \subseteq State'
  PROVE  Closed' = Closed
BY DEF SameFinished, Closed

(* The aggregate of the state a thread works on is not closed yet. *)
LEMMA WorkedOnIsOpen ==
  ASSUME TypeInv, GraphInv, NEW w \in Thread, pc[w] \in Working
  PROVE  /\ e[w].state \in State
         /\ Agg(e[w].state) \in GraphAggregates(m_GONodes, State)
                                  \ GraphAggregates(m_GONodes, Closed)
<1>1. e[w].state \in State /\ ~Finished(e[w].state)
  BY HoldsMeaning DEF TypeInv, ThreadOK, Finished
<1>2. Closed \subseteq State /\ e[w].state \notin Closed
  BY <1>1 DEF Closed
<1>3. PICK g, n, S : g = m_GONodes /\ n = e[w].state /\ S = Closed
  OBVIOUS
<1>4. PartOfSOG(g) /\ n \in DOMAIN g /\ S \subseteq DOMAIN g /\ n \notin S
  BY <1>1, <1>2, <1>3 DEF State, GraphInv
<1>5. g[n].m_lddstate \notin GraphAggregates(g, S)
  BY <1>4, AggregateOnce
<1>6. g[n].m_lddstate \in GraphAggregates(g, DOMAIN g)
  BY <1>4 DEF GraphAggregates
<1>7. QED
  BY <1>1, <1>3, <1>5, <1>6 DEF State, Agg

LEMMA StartsConstruction ==
  ASSUME TypeInv, GraphInv, Initial
  PROVE  Promise!Start
<1>1. /\ GraphEdges(m_GONodes') = GraphEdges(m_GONodes)
      /\ State = {} /\ State' = {1}
      /\ m_GONodes'[1].m_lddstate = InitialAggregate
  BY InitialGraph
<1>2. Closed' = Closed /\ Closed = {}
  BY <1>1, InitialFinished, SameClosed DEF Closed
<1>3. /\ GraphAggregates(m_GONodes, State) = {}
      /\ GraphAggregates(m_GONodes', State') = {InitialAggregate}
      /\ GraphAggregates(m_GONodes, Closed) = {}
      /\ GraphAggregates(m_GONodes', Closed') = {}
  BY <1>1, <1>2 DEF GraphAggregates
<1>4. QED
  BY <1>1, <1>3, PromiseMapping DEF Promise!Start

LEMMA DiscoversAggregate ==
  ASSUME TypeInv, GraphInv, NEW w \in Thread, FindInsert(w), fresh'[w]
  PROVE  \E new \in Promise!Edge : Promise!Discover(new)
<1> DEFINE new == <<Agg(e[w].state), t[w], Reached(w)>>
<1>1. pc[w] = "find"
  BY FindInsertEffect
<1>2. new \in Edge
  <2>1. /\ Agg(e[w].state) \in Aggregate /\ t[w] \in Transition
        /\ t[w] \in FirableObs[Agg(e[w].state)]
        /\ Reached(w) = Successor[<<Agg(e[w].state), t[w]>>]
    BY <1>1, TakenProperties DEF Taken
  <2>2. <<Agg(e[w].state), t[w]>> \in Arc
    BY <2>1 DEF Arc
  <2>3. QED
    BY <2>1, <2>2 DEF Edge
<1>3. new[1] = Agg(e[w].state) /\ new[3] = Reached(w)
  OBVIOUS
<1>4. Agg(e[w].state) \in GraphAggregates(m_GONodes, State)
                            \ GraphAggregates(m_GONodes, Closed)
  BY <1>1, WorkedOnIsOpen DEF Working
<1>5. /\ GraphEdges(m_GONodes') = GraphEdges(m_GONodes)
      /\ Reached(w) \notin GraphAggregates(m_GONodes, State)
      /\ GraphAggregates(m_GONodes', State')
           = GraphAggregates(m_GONodes, State) \cup {Reached(w)}
      /\ \A S \in SUBSET State :
           GraphAggregates(m_GONodes', S) = GraphAggregates(m_GONodes, S)
  BY FindInsertGraph
<1>6. GraphAggregates(m_GONodes', Closed') = GraphAggregates(m_GONodes, Closed)
  <2>1. State \subseteq State'
    BY FindInsertEffect DEF Added
  <2>2. Closed' = Closed /\ Closed \subseteq State
    BY <2>1, FindInsertFinished, SameClosed DEF Closed
  <2>3. QED
    BY <1>5, <2>2
<1> HIDE DEF new
<1>7. Promise!Discover(new)
  BY <1>3, <1>4, <1>5, <1>6, PromiseMapping DEF Promise!Discover
<1>8. QED
  BY <1>2, <1>7 DEF Promise!Edge, Edge, Promise!Arc, Arc

LEMMA LinksAggregates ==
  ASSUME TypeInv, WorkInv, GraphInv, NEW w \in Thread, LinkSuccessor(w)
  PROVE  \E new \in Promise!Edge : Promise!Link(new)
<1> DEFINE new == <<Agg(e[w].state), t[w], Reached(w)>>
<1>1. pc[w] = "link" /\ State' = State
  BY LinkSuccessorEffect
<1>2. /\ new \in Edge /\ new \notin GraphEdges(m_GONodes)
      /\ GraphEdges(m_GONodes') = GraphEdges(m_GONodes) \cup {new}
      /\ Reached(w) \in GraphAggregates(m_GONodes, State)
      /\ \A S \in SUBSET State :
           GraphAggregates(m_GONodes', S) = GraphAggregates(m_GONodes, S)
  BY LinkSuccessorGraph
<1>3. new[1] = Agg(e[w].state) /\ new[3] = Reached(w)
  OBVIOUS
<1>4. Agg(e[w].state) \in GraphAggregates(m_GONodes, State)
                            \ GraphAggregates(m_GONodes, Closed)
  BY <1>1, WorkedOnIsOpen DEF Working
<1>5. /\ GraphAggregates(m_GONodes', State') = GraphAggregates(m_GONodes, State)
      /\ GraphAggregates(m_GONodes', Closed') = GraphAggregates(m_GONodes, Closed)
  <2>1. Closed' = Closed /\ Closed \subseteq State
    BY <1>1, EdgeFinished, SameClosed DEF Closed
  <2>2. QED
    BY <1>1, <1>2, <2>1
<1> HIDE DEF new
<1>6. Promise!Link(new)
  BY <1>2, <1>3, <1>4, <1>5, PromiseMapping DEF Promise!Link
<1>7. QED
  BY <1>2, <1>6 DEF Promise!Edge, Edge, Promise!Arc, Arc

LEMMA ClosesAggregate ==
  ASSUME TypeInv, WorkInv, GraphInv, NEW w \in Thread, Fire(w), e[w].fire = {},
         \A n \in State : Finished(n)' <=> Finished(n) \/ n = e[w].state,
         State' = State
  PROVE  \E a \in Aggregate : Promise!Finalize(a)
<1> DEFINE a == Agg(e[w].state)
<1>1. /\ e[w].state \in State /\ UNCHANGED m_GONodes
      /\ TransitionsOf(m_GONodes[e[w].state]) = FirableObs[a]
  BY ReleasedIsClosed
<1>2. pc[w] \in Working
  BY FireEffect DEF Working
<1>3. a \in GraphAggregates(m_GONodes, State) \ GraphAggregates(m_GONodes, Closed)
  BY <1>2, WorkedOnIsOpen
<1>4. {new \in Edge : new[1] = a} \subseteq GraphEdges(m_GONodes)
  <2>1. PICK g, n : g = m_GONodes /\ n = e[w].state
    OBVIOUS
  <2>2. PartOfSOG(g) /\ n \in DOMAIN g /\ {x.t : x \in Links(g[n])} = FirableObs[g[n].m_lddstate]
    BY <1>1, <2>1 DEF State, GraphInv, Agg, TransitionsOf, Links
  <2>3. {new \in Edge : new[1] = g[n].m_lddstate} \subseteq GraphEdges(g)
    BY <2>2, ClosedGraph
  <2>4. QED
    BY <2>1, <2>3 DEF Agg
<1>5. Closed' = Closed \cup {e[w].state}
  BY <1>1 DEF Closed
<1>6. GraphAggregates(m_GONodes', Closed') = GraphAggregates(m_GONodes, Closed) \cup {a}
  BY <1>1, <1>5 DEF GraphAggregates, Agg
<1>7. /\ GraphAggregates(m_GONodes', State') = GraphAggregates(m_GONodes, State)
      /\ GraphEdges(m_GONodes') = GraphEdges(m_GONodes)
  BY <1>1
<1>8. a \in Aggregate
  BY <1>1, StateProperties DEF TypeInv
<1> HIDE DEF a
<1>9. Promise!EdgesFrom(a) = {new \in Edge : new[1] = a}
  BY DEF Promise!EdgesFrom, Promise!Edge, Edge, Promise!Arc, Arc
<1>10. Promise!Finalize(a)
  BY <1>3, <1>4, <1>6, <1>7, <1>9, PromiseMapping DEF Promise!Finalize
<1>11. QED
  BY <1>8, <1>10

(* Every other step leaves what is promised as it is. *)
LEMMA KeepsPromise ==
  ASSUME TypeInv, GraphInv, SameStates, SameFinished
  PROVE  UNCHANGED Promise!vars
<1>1. State' = State /\ Closed' = Closed /\ Closed \subseteq State
  BY SameClosed DEF SameStates, Closed
<1>2. /\ GraphEdges(m_GONodes') = GraphEdges(m_GONodes)
      /\ GraphAggregates(m_GONodes', State') = GraphAggregates(m_GONodes, State)
      /\ GraphAggregates(m_GONodes', Closed') = GraphAggregates(m_GONodes, Closed)
  BY <1>1, SameStatesGraph
<1>3. QED
  BY <1>2, PromiseMapping DEF Promise!vars

LEMMA PromiseStep ==
  ASSUME TypeInv, OwnerInv, WorkInv, GraphInv, [Next]_vars
  PROVE  [Promise!Next]_(Promise!vars)
<1>1. CASE Initial
  BY <1>1, StartsConstruction DEF Promise!Next
<1>2. ASSUME NEW w \in Thread, FindInsert(w), fresh'[w]
      PROVE  Promise!Next
  BY <1>2, DiscoversAggregate DEF Promise!Next
<1>3. ASSUME NEW w \in Thread, LinkSuccessor(w)
      PROVE  Promise!Next
  BY <1>3, LinksAggregates DEF Promise!Next
<1>4. ASSUME SameStates
      PROVE  [Promise!Next]_(Promise!vars)
  <2>1. CASE SameFinished
    BY <1>4, <2>1, KeepsPromise
  <2>2. ASSUME NEW w \in Thread, Fire(w), e[w].fire = {},
               \A n \in State : Finished(n)' <=> Finished(n) \/ n = e[w].state,
               State' = State
        PROVE  Promise!Next
    BY <2>2, ClosesAggregate DEF Promise!Next
  <2>3. QED
    BY <2>1, <2>2, FinishedStep
<1>5. QED
  BY <1>1, <1>2, <1>3, <1>4, GraphSteps

LEMMA PromiseInit == Init => Promise!Init
<1> SUFFICES ASSUME Init PROVE Promise!Init
  OBVIOUS
<1>1. State = {} /\ Closed = {}
  BY EmptySeq DEF Init, State, Closed
<1>2. /\ GraphAggregates(m_GONodes, State) = {} /\ GraphAggregates(m_GONodes, Closed) = {}
      /\ GraphEdges(m_GONodes) = {}
  BY <1>1 DEF GraphAggregates, GraphEdges, State
<1>3. QED
  BY <1>2, PromiseMapping DEF Promise!Init

(* The threads together build the SOG and nothing else: an aggregate is    *)
(* inserted once, as the target of an edge of an unfinished one, an edge   *)
(* once, and a state that nobody holds any more has the edges of the SOG.  *)
THEOREM ConstructionRefinesSOG == Spec => ImplementsSOGOnTheFly
<1>1. TypeInv /\ OwnerInv /\ WorkInv /\ GraphInv /\ [Next]_vars
        => [Promise!Next]_(Promise!vars)
  BY PromiseStep
<1>2. QED
  BY <1>1, PromiseInit, TypeCorrect, OwnerInvariant, WorkInvariant, GraphInvariant,
     PTL DEF Spec, ImplementsSOGOnTheFly, Promise!Spec
=============================================================================
