--------------------- MODULE ModelCheckerCPPThreadProofs ---------------------
(***************************************************************************)
(* What holds of the multi-core model checker for every number of builders *)
(* and every Symbolic Observation Graph.  The argument goes in layers,     *)
(* each an invariant relative to the ones before it:                       *)
(*   TypeInv   types, and pointers that designate states of the graph;     *)
(*   FirstInv  the initial aggregate is inserted into an empty graph;      *)
(*   OwnerInv  a state has one owner;                                      *)
(*   FinalInv  a state its owner leaves has all its edges and its flags;   *)
(*   OnceInv   a builder takes each transition of its state once;          *)
(*   GraphInv  every edge is one of the Symbolic Observation Graph;        *)
(*   AskInv    the checker waits for the initial state or for the target   *)
(*             of an edge it has read.                                     *)
(* With the last three every step is a step of SOGOnTheFly or a stutter.   *)
(***************************************************************************)
EXTENDS ModelCheckerCPPThread, LDDGraphProofs

Agg(n) == m_GONodes[n].m_lddstate

(* A builder has taken a transition of the state it holds. *)
Firing == {"insert", "flags", "push", "notify", "edge"}

(* The places of a builder's loop, and of its start, where it works on no  *)
(* state at all.                                                           *)
Idle == BuilderPc \ (Holding \cup {"initPush"})

QueueOK ==
  \A i \in DOMAIN m_common_stack :
    /\ m_common_stack[i].state \in State
    /\ m_common_stack[i].fire = FirableObs[Agg(m_common_stack[i].state)]

BuilderOK(w) ==
  /\ pc[w] \in Holding =>
       e[w].state \in State /\ e[w].fire \subseteq FirableObs[Agg(e[w].state)]
  /\ pc[w] \in Firing => t[w] \in FirableObs[Agg(e[w].state)]
  /\ pc[w] \in Firing \ {"insert"} => pos[w] \in State /\ Agg(pos[w]) = reduced_meta(w)
  /\ pc[w] = "initPush" => pos[w] \in State /\ Agg(pos[w]) = InitialAggregate
  /\ pc[w] \in {"initPush", "initNotify", "initFinish"} => 1 \in State

CheckerOK ==
  /\ m_finish_initial => 1 \in State
  /\ mcPc \in {"check", "sleep", "waiting"} => agregate \in State

LinksOK == \A n \in State : \A i \in DOMAIN m_GONodes[n].Successors :
             m_GONodes[n].Successors[i].to \in State

TypeInv ==
  /\ TypeOK
  /\ QueueOK
  /\ \A w \in Thread : BuilderOK(w)
  /\ CheckerOK
  /\ LinksOK

-----------------------------------------------------------------------------
(* Facts about the constants and the graph. *)

(* What the vector holds, field by field. *)
LEMMA StateProperties ==
  ASSUME TypeOK, NEW n \in State
  PROVE  /\ n \in Nat
         /\ m_GONodes[n] \in LDDState
         /\ Agg(n) \in Aggregate
         /\ m_GONodes[n].Successors \in Seq([to : Nat, t : Transition])
         /\ m_GONodes[n].m_completed \in BOOLEAN
         /\ m_GONodes[n].m_visited \in BOOLEAN
<1>1. n \in Nat /\ m_GONodes[n] \in LDDState
  BY GraphDomain DEF TypeOK, State
<1>2. QED
  BY <1>1 DEF LDDState, Agg

(* The graph of the next state holds the states of this one, unmoved. *)
Grown ==
  /\ m_GONodes' \in Seq(LDDState)
  /\ State \subseteq State'
  /\ \A n \in State : Agg(n)' = Agg(n)

-----------------------------------------------------------------------------
(* Steps that touch no state of the graph, no queued pair and no local     *)
(* variable of a builder at work.                                          *)
Quiet ==
  /\ UNCHANGED <<m_GONodes, m_common_stack, e, t, pos>>
  /\ pc' \in [Thread -> BuilderPc]
  /\ \A v \in Thread :
       \/ pc'[v] = pc[v]
       \/ /\ pc[v] \in Idle /\ pc'[v] \in Idle
          /\ pc'[v] \in {"initNotify", "initFinish"} => 1 \in State

(* The other steps. *)
Working(w) ==
  \/ InitialInsert(w) \/ InitialPush(w) \/ Pop(w) \/ Popped(w) \/ Fire(w)
  \/ InsertFind(w) \/ SetFlags(w) \/ Push(w) \/ Notify(w) \/ AddEdge(w) \/ Complete(w)

(* notify_one moves one builder besides the notifier, from idle to idle. *)
LEMMA NotifyOneProperties ==
  ASSUME TypeOK, NEW w \in Thread, NEW label \in BuilderPc, NotifyOneBuilder(w, label),
         pc[w] # "waiting"
  PROVE  /\ pc' \in [Thread -> BuilderPc]
         /\ pc'[w] = label
         /\ \A v \in Thread \ {w} :
              pc'[v] = pc[v] \/ (pc[v] = "waiting" /\ pc'[v] = "lock")
<1>1. CASE Goto(w, label)
  BY <1>1 DEF Goto, TypeOK
<1>2. CASE \E u \in {u \in Thread : pc[u] = "waiting"} :
             pc' = [pc EXCEPT ![w] = label, ![u] = "lock"]
  <2>1. PICK u \in Thread : /\ pc[u] = "waiting"
                            /\ pc' = [pc EXCEPT ![w] = label, ![u] = "lock"]
    BY <1>2
  <2>2. "lock" \in BuilderPc /\ u # w
    BY <2>1 DEF BuilderPc
  <2>3. QED
    BY <2>1, <2>2 DEF TypeOK
<1>3. QED
  BY <1>1, <1>2 DEF NotifyOneBuilder

(* Every step is quiet, or a builder's work, or the checker's visit. *)
LEMMA StepKinds ==
  ASSUME TypeInv, [Next]_vars
  PROVE  \/ Quiet
         \/ \E w \in Thread : Working(w)
         \/ GetInitial \/ Explore
<1> USE DEF Idle, Holding, BuilderPc
<1>0. TypeOK
  BY DEF TypeInv
<1>1. ASSUME NEW w \in Thread, Start(w)
      PROVE  Quiet
  BY <1>0, <1>1 DEF Start, Goto, Quiet, TypeOK, graph
<1>2. ASSUME NEW w \in Thread, InitialNotify(w)
      PROVE  Quiet
  <2>1. pc[w] = "initNotify" /\ NotifyOneBuilder(w, "initFinish")
    BY <1>2 DEF InitialNotify
  <2>2. /\ pc' \in [Thread -> BuilderPc]
        /\ pc'[w] = "initFinish"
        /\ \A v \in Thread \ {w} :
             pc'[v] = pc[v] \/ (pc[v] = "waiting" /\ pc'[v] = "lock")
    BY <1>0, <2>1, NotifyOneProperties
  <2>3. 1 \in State
    BY <2>1 DEF TypeInv, BuilderOK
  <2>4. \A v \in Thread :
          \/ pc'[v] = pc[v]
          \/ /\ pc[v] \in Idle /\ pc'[v] \in Idle
             /\ pc'[v] \in {"initNotify", "initFinish"} => 1 \in State
    BY <2>1, <2>2, <2>3
  <2>5. QED
    BY <1>2, <2>2, <2>4 DEF InitialNotify, Quiet, graph
<1>3. ASSUME NEW w \in Thread,
             \/ InitialFinish(w) \/ Lock(w) \/ Check(w) \/ CheckQueue(w) \/ Sleep(w)
             \/ Until(w) \/ SpuriousWakeUp(w)
      PROVE  Quiet
  BY <1>0, <1>3 DEF InitialFinish, Lock, Check, CheckQueue, Sleep, Until, SpuriousWakeUp,
              Goto, Quiet, TypeOK, graph
<1>4. ASSUME NEW w \in Thread, NotifyBuild(w)
      PROVE  Quiet
  BY <1>0, <1>4 DEF NotifyBuild, Goto, Quiet, TypeOK, graph
<1>5. ASSUME \/ CheckBuild \/ SleepBuild \/ SpuriousWakeUpBuild \/ Finish
             \/ PrintCompleteInformation \/ Join
      PROVE  Quiet
  BY <1>0, <1>5 DEF TypeOK, CheckBuild, SleepBuild, SpuriousWakeUpBuild, Finish,
              PrintCompleteInformation, Join, Quiet, graph, builder
<1>6. ASSUME Destroy
      PROVE  Quiet
  BY <1>0, <1>6 DEF Destroy, Quiet, TypeOK, graph
<1>7. CASE UNCHANGED vars
  BY <1>0, <1>7 DEF TypeOK, vars, Quiet, graph, builder
<1>8. QED
  BY <1>1, <1>2, <1>3, <1>4, <1>5, <1>6, <1>7
  DEF Next, BuilderStep, CheckerStep, Working

-----------------------------------------------------------------------------
(* What each step that writes the graph does to it. *)

(* A state s is added, nothing else changes. *)
Added(n, s) ==
  /\ m_GONodes' \in Seq(LDDState)
  /\ n \notin State /\ n \in Nat
  /\ State' = State \cup {n}
  /\ m_GONodes'[n] = s
  /\ \A k \in State : m_GONodes'[k] = m_GONodes[k]

(* State n becomes s, nothing else changes. *)
Assigned(n, s) ==
  /\ m_GONodes' \in Seq(LDDState)
  /\ State' = State
  /\ \A k \in State : m_GONodes'[k] = IF k = n THEN s ELSE m_GONodes[k]

LEMMA InitialInsertEffect ==
  ASSUME TypeOK, NEW w \in Thread, InitialInsert(w)
  PROVE  /\ Added(Len(m_GONodes) + 1, WithFlags(NewState(InitialAggregate)))
         /\ WithFlags(NewState(InitialAggregate)) \in LDDState
         /\ pos' = [pos EXCEPT ![w] = Len(m_GONodes) + 1]
         /\ pc[w] = "initInsert" /\ pc' = [pc EXCEPT ![w] = "initPush"]
         /\ UNCHANGED <<m_common_stack, e, t>>
<1>1. WithFlags(NewState(InitialAggregate)) \in LDDState
  BY SOGAssumption, NewStateType, WithFlagsType
<1>2. m_GONodes \in Seq(LDDState)
  BY DEF TypeOK
<1>3. m_GONodes' = insert(m_GONodes, WithFlags(NewState(InitialAggregate)))
  BY DEF InitialInsert
<1>4. Added(Len(m_GONodes) + 1, WithFlags(NewState(InitialAggregate)))
  BY <1>1, <1>2, <1>3, InsertProperties DEF Added, State
<1>5. QED
  BY <1>1, <1>4 DEF InitialInsert, Goto

(* A builder at work: what it holds and where the transition leads. *)
LEMMA FiringProperties ==
  ASSUME TypeInv, NEW w \in Thread, pc[w] \in Firing
  PROVE  /\ e[w].state \in State
         /\ t[w] \in FirableObs[Agg(e[w].state)]
         /\ t[w] \in Transition
         /\ reduced_meta(w) \in Aggregate
         /\ FirableObs[reduced_meta(w)] \subseteq Transition
<1>1. e[w].state \in State /\ t[w] \in FirableObs[Agg(e[w].state)]
  BY DEF TypeInv, BuilderOK, Firing, Holding
<1>2. Agg(e[w].state) \in Aggregate
  BY <1>1, StateProperties DEF TypeInv
<1>3. t[w] \in Transition /\ reduced_meta(w) \in Aggregate
  BY <1>1, <1>2, FirableProperties DEF reduced_meta, Agg
<1>4. QED
  BY <1>1, <1>3, FirableProperties

LEMMA InsertFindEffect ==
  ASSUME TypeInv, NEW w \in Thread, InsertFind(w)
  PROVE  /\ pc[w] = "insert"
         /\ UNCHANGED <<m_common_stack, e, t>>
         /\ \/ /\ m_GONodes' = m_GONodes
               /\ pc' = [pc EXCEPT ![w] = "edge"]
               /\ \E n \in State : /\ Agg(n) = reduced_meta(w)
                                   /\ pos' = [pos EXCEPT ![w] = n]
            \/ /\ Added(Len(m_GONodes) + 1, NewState(reduced_meta(w)))
               /\ NewState(reduced_meta(w)) \in LDDState
               /\ \A k \in State : Agg(k) # reduced_meta(w)
               /\ pc' = [pc EXCEPT ![w] = "flags"]
               /\ pos' = [pos EXCEPT ![w] = Len(m_GONodes) + 1]
<1>1. pc[w] = "insert" /\ UNCHANGED <<m_common_stack, e, t>>
  BY DEF InsertFind
<1>2. CASE FindState(w)
  BY <1>1, <1>2 DEF FindState, StatesOf, State, Agg, Goto
<1>3. CASE InsertState(w)
  <2>1. reduced_meta(w) \in Aggregate
    BY <1>1, FiringProperties DEF Firing
  <2>2. NewState(reduced_meta(w)) \in LDDState
    BY <2>1, NewStateType
  <2>3. m_GONodes \in Seq(LDDState)
    BY DEF TypeInv, TypeOK
  <2>4. m_GONodes' = insert(m_GONodes, NewState(reduced_meta(w)))
    BY <1>3 DEF InsertState
  <2>5. Added(Len(m_GONodes) + 1, NewState(reduced_meta(w)))
    BY <2>2, <2>3, <2>4, InsertProperties DEF Added, State
  <2>6. \A k \in State : Agg(k) # reduced_meta(w)
    BY <1>3 DEF InsertState, StatesOf, State, Agg
  <2>7. QED
    BY <1>1, <1>3, <2>2, <2>5, <2>6 DEF InsertState, Goto
<1>4. QED
  BY <1>2, <1>3 DEF InsertFind

LEMMA SetFlagsEffect ==
  ASSUME TypeInv, NEW w \in Thread, SetFlags(w)
  PROVE  /\ pos[w] \in State
         /\ Assigned(pos[w], WithFlags(m_GONodes[pos[w]]))
         /\ pc[w] = "flags" /\ pc' = [pc EXCEPT ![w] = "push"]
         /\ UNCHANGED <<m_common_stack, e, t, pos>>
<1>1. pc[w] = "flags" /\ pc' = [pc EXCEPT ![w] = "push"]
  BY DEF SetFlags, Goto
<1>2. pos[w] \in State
  BY <1>1 DEF TypeInv, BuilderOK, Firing
<1>3. m_GONodes \in Seq(LDDState)
  BY DEF TypeInv, TypeOK
<1>4. m_GONodes' = [m_GONodes EXCEPT ![pos[w]] = WithFlags(@)]
  BY DEF SetFlags
<1>5. Assigned(pos[w], WithFlags(m_GONodes[pos[w]]))
  BY <1>2, <1>3, <1>4, SetFlagsProperties DEF Assigned, State
<1>6. QED
  BY <1>1, <1>2, <1>5 DEF SetFlags

LEMMA CompleteEffect ==
  ASSUME TypeInv, NEW w \in Thread, Complete(w)
  PROVE  /\ e[w].state \in State
         /\ Assigned(e[w].state, [m_GONodes[e[w].state] EXCEPT !.m_completed = TRUE])
         /\ pc[w] = "complete" /\ pc' = [pc EXCEPT ![w] = "notifyBuild"]
         /\ UNCHANGED <<m_common_stack, e, t, pos>>
<1>1. pc[w] = "complete" /\ pc' = [pc EXCEPT ![w] = "notifyBuild"]
  BY DEF Complete, Goto
<1>2. e[w].state \in State
  BY <1>1 DEF TypeInv, BuilderOK, Holding
<1>3. m_GONodes \in Seq(LDDState)
  BY DEF TypeInv, TypeOK
<1>4. m_GONodes' = [m_GONodes EXCEPT ![e[w].state].m_completed = TRUE]
  BY DEF Complete
<1>5. Assigned(e[w].state, [m_GONodes[e[w].state] EXCEPT !.m_completed = TRUE])
  BY <1>2, <1>3, <1>4, SetCompletedProperties DEF Assigned, State
<1>6. QED
  BY <1>1, <1>2, <1>5 DEF Complete

LEMMA BuildSuccEffect ==
  ASSUME TypeInv, NEW n \in State, buildSucc(n)
  PROVE  /\ Assigned(n, [m_GONodes[n] EXCEPT !.m_visited = TRUE])
         /\ agregate' = n /\ mcPc' = "check"
<1>1. m_GONodes \in Seq(LDDState)
  BY DEF TypeInv, TypeOK
<1>2. m_GONodes' = [m_GONodes EXCEPT ![n].m_visited = TRUE]
  BY DEF buildSucc
<1>3. Assigned(n, [m_GONodes[n] EXCEPT !.m_visited = TRUE])
  BY <1>1, <1>2, SetVisitedProperties DEF Assigned, State
<1>4. QED
  BY <1>3 DEF buildSucc

(* The checker visits a state of the graph. *)
LEMMA VisitEffect ==
  ASSUME TypeInv, GetInitial \/ Explore
  PROVE  /\ \E n \in State :
              /\ Assigned(n, [m_GONodes[n] EXCEPT !.m_visited = TRUE])
              /\ agregate' = n
         /\ mcPc \in {"initial", "explore"} /\ mcPc' = "check"
         /\ UNCHANGED <<m_common_stack, m_finish, m_finish_initial, pc, e, t, pos>>
<1>1. CASE GetInitial
  <2>1. 1 \in State /\ buildSucc(1)
    BY <1>1 DEF GetInitial, TypeInv, CheckerOK
  <2>2. QED
    BY <1>1, <2>1, BuildSuccEffect DEF GetInitial, builder, flags
<1>2. CASE Explore
  <2>1. PICK n \in State : \E i \in DOMAIN m_GONodes[n].Successors :
                             buildSucc(m_GONodes[n].Successors[i].to)
    BY <1>2 DEF Explore
  <2>2. PICK i \in DOMAIN m_GONodes[n].Successors :
               buildSucc(m_GONodes[n].Successors[i].to)
    BY <2>1
  <2>3. m_GONodes[n].Successors[i].to \in State
    BY DEF TypeInv, LinksOK
  <2>4. QED
    BY <1>2, <2>2, <2>3, BuildSuccEffect DEF Explore, builder, flags
<1>3. QED
  BY <1>1, <1>2

LEMMA AddEdgeEffect ==
  ASSUME TypeInv, NEW w \in Thread, AddEdge(w)
  PROVE  /\ e[w].state \in State /\ pos[w] \in State
         /\ m_GONodes' \in Seq(LDDState)
         /\ State' = State
         /\ \A k \in State :
              /\ SameButEdges(m_GONodes[k], m_GONodes'[k])
              /\ m_GONodes'[k].Successors =
                   IF k = e[w].state
                   THEN <<[to |-> pos[w], t |-> t[w]]>> \o m_GONodes[k].Successors
                   ELSE m_GONodes[k].Successors
         /\ pc[w] = "edge" /\ pc' = [pc EXCEPT ![w] = "fire"]
         /\ UNCHANGED <<m_common_stack, e, t, pos>>
<1>1. pc[w] = "edge" /\ pc' = [pc EXCEPT ![w] = "fire"]
  BY DEF AddEdge, Goto
<1>2. e[w].state \in State /\ pos[w] \in State /\ t[w] \in Transition
  BY <1>1, FiringProperties DEF TypeInv, BuilderOK, Firing
<1>3. m_GONodes \in Seq(LDDState)
  BY DEF TypeInv, TypeOK
<1>4. m_GONodes' = AddPredecessor(AddSuccessor(m_GONodes, e[w].state, pos[w], t[w]),
                                  pos[w], e[w].state, t[w])
  BY DEF AddEdge
<1>5. /\ m_GONodes' \in Seq(LDDState)
      /\ State' = State
      /\ \A k \in State :
           /\ SameButEdges(m_GONodes[k], m_GONodes'[k])
           /\ m_GONodes'[k].Successors =
                IF k = e[w].state
                THEN <<[to |-> pos[w], t |-> t[w]]>> \o m_GONodes[k].Successors
                ELSE m_GONodes[k].Successors
  <2>1. Linked(m_GONodes, m_GONodes', e[w].state, pos[w], t[w])
    BY <1>2, <1>3, <1>4, AddEdgeProperties, Zenon DEF State
  <2>2. QED
    BY <2>1, Zenon DEF Linked, State
<1>6. QED
  BY <1>1, <1>2, <1>5 DEF AddEdge

-----------------------------------------------------------------------------
(* The type invariant, part by part. *)

LEMMA AddedGrows ==
  ASSUME TypeInv, NEW n, NEW s, Added(n, s), s.Successors = <<>>
  PROVE  Grown /\ LinksOK'
BY DEF Added, Grown, LinksOK, TypeInv, Agg

LEMMA AssignedGrows ==
  ASSUME TypeInv, NEW n \in State, NEW s, Assigned(n, s),
         s.m_lddstate = Agg(n), s.Successors = m_GONodes[n].Successors
  PROVE  Grown /\ LinksOK'
BY DEF Assigned, Grown, LinksOK, TypeInv, Agg

LEMMA GrownStep ==
  ASSUME TypeInv, [Next]_vars
  PROVE  Grown /\ LinksOK'
<1>1. TypeOK /\ m_GONodes \in Seq(LDDState)
  BY DEF TypeInv, TypeOK
<1>2. ASSUME UNCHANGED m_GONodes
      PROVE  Grown /\ LinksOK'
  BY <1>1, <1>2 DEF Grown, LinksOK, TypeInv, State, Agg
<1>3. ASSUME NEW w \in Thread, InitialInsert(w)
      PROVE  Grown /\ LinksOK'
  <2>1. NewState(InitialAggregate) \in LDDState /\ NewState(InitialAggregate).Successors = <<>>
    BY SOGAssumption, NewStateType DEF NewState
  <2>2. WithFlags(NewState(InitialAggregate)).Successors = <<>>
    BY <2>1, WithFlagsType
  <2>3. QED
    BY <1>1, <1>3, <2>2, InitialInsertEffect, AddedGrows
<1>4. ASSUME NEW w \in Thread, InsertFind(w)
      PROVE  Grown /\ LinksOK'
  <2>1. NewState(reduced_meta(w)).Successors = <<>>
    BY DEF NewState
  <2>2. QED
    BY <1>2, <1>4, <2>1, InsertFindEffect, AddedGrows
<1>5. ASSUME NEW w \in Thread, SetFlags(w)
      PROVE  Grown /\ LinksOK'
  <2>1. pos[w] \in State /\ m_GONodes[pos[w]] \in LDDState
    BY <1>1, <1>5, SetFlagsEffect, StateProperties
  <2>2. /\ WithFlags(m_GONodes[pos[w]]).m_lddstate = Agg(pos[w])
        /\ WithFlags(m_GONodes[pos[w]]).Successors = m_GONodes[pos[w]].Successors
    BY <2>1, WithFlagsType DEF Agg
  <2>3. QED
    BY <1>5, <2>1, <2>2, SetFlagsEffect, AssignedGrows
<1>6. ASSUME NEW w \in Thread, AddEdge(w)
      PROVE  Grown /\ LinksOK'
  <2> DEFINE h == e[w].state
  <2>1. /\ h \in State /\ pos[w] \in State
        /\ m_GONodes' \in Seq(LDDState) /\ State' = State
        /\ \A k \in State :
              /\ SameButEdges(m_GONodes[k], m_GONodes'[k])
              /\ m_GONodes'[k].Successors =
                   IF k = h
                   THEN <<[to |-> pos[w], t |-> t[w]]>> \o m_GONodes[k].Successors
                   ELSE m_GONodes[k].Successors
    BY <1>6, AddEdgeEffect
  <2>2. Grown
    BY <2>1 DEF Grown, SameButEdges, Agg
  <2>3. m_GONodes[h] \in LDDState /\ pos[w] \in Nat /\ t[w] \in Transition
    BY <1>1, <1>6, <2>1, StateProperties, FiringProperties DEF AddEdge, Firing
  <2>4. ASSUME NEW i \in DOMAIN m_GONodes'[h].Successors
        PROVE  m_GONodes'[h].Successors[i].to \in State
    <3> DEFINE l == <<[to |-> pos[w], t |-> t[w]]>> \o m_GONodes[h].Successors
    <3>1. /\ DOMAIN l = 1 .. Len(m_GONodes[h].Successors) + 1
          /\ Len(m_GONodes[h].Successors) \in Nat
          /\ DOMAIN m_GONodes[h].Successors = 1 .. Len(m_GONodes[h].Successors)
          /\ l[1] = [to |-> pos[w], t |-> t[w]]
          /\ \A j \in 1 .. Len(m_GONodes[h].Successors) : l[j + 1] = m_GONodes[h].Successors[j]
      BY <2>3, EdgeInFront
    <3>2. m_GONodes'[h].Successors = l
      BY <2>1
    <3> HIDE DEF l
    <3>3. CASE i = 1
      BY <2>1, <3>1, <3>2, <3>3
    <3>4. CASE i # 1
      <4>1. i - 1 \in DOMAIN m_GONodes[h].Successors /\ l[i] = m_GONodes[h].Successors[i - 1]
        <5>1. i \in 2 .. Len(m_GONodes[h].Successors) + 1
          BY <2>4, <3>1, <3>2, <3>4
        <5>2. i - 1 \in 1 .. Len(m_GONodes[h].Successors) /\ i - 1 + 1 = i
          BY <5>1, <3>1
        <5>3. QED
          BY <5>2, <3>1
      <4>2. QED
        BY <2>1, <3>2, <4>1 DEF TypeInv, LinksOK
    <3>5. QED
      BY <3>3, <3>4
  <2> HIDE DEF h
  <2>5. LinksOK'
    BY <2>1, <2>4 DEF LinksOK, TypeInv
  <2>6. QED
    BY <2>2, <2>5
<1>7. ASSUME NEW w \in Thread, Complete(w)
      PROVE  Grown /\ LinksOK'
  <2>1. e[w].state \in State /\ m_GONodes[e[w].state] \in LDDState
    BY <1>1, <1>7, CompleteEffect, StateProperties
  <2>2. LET s == [m_GONodes[e[w].state] EXCEPT !.m_completed = TRUE]
        IN  s.m_lddstate = Agg(e[w].state) /\ s.Successors = m_GONodes[e[w].state].Successors
    BY <2>1 DEF LDDState, Agg
  <2>3. QED
    BY <1>7, <2>1, <2>2, CompleteEffect, AssignedGrows
<1>8. ASSUME GetInitial \/ Explore
      PROVE  Grown /\ LinksOK'
  <2>1. PICK n \in State : Assigned(n, [m_GONodes[n] EXCEPT !.m_visited = TRUE])
    BY <1>8, VisitEffect
  <2>2. m_GONodes[n] \in LDDState
    BY <1>1, StateProperties
  <2>3. LET s == [m_GONodes[n] EXCEPT !.m_visited = TRUE]
        IN  s.m_lddstate = Agg(n) /\ s.Successors = m_GONodes[n].Successors
    BY <2>2 DEF LDDState, Agg
  <2>4. QED
    BY <2>1, <2>3, AssignedGrows
<1>9. ASSUME NEW w \in Thread, InitialPush(w) \/ Pop(w) \/ Popped(w) \/ Fire(w) \/ Push(w) \/ Notify(w)
      PROVE  UNCHANGED m_GONodes
  BY <1>9 DEF InitialPush, Pop, Popped, Fire, Push, Notify, graph
<1>10. QED
  BY <1>1, <1>2, <1>3, <1>4, <1>5, <1>6, <1>7, <1>8, <1>9, StepKinds DEF Quiet, Working

(* Adding to the queue. *)
LEMMA PushProperties ==
  ASSUME NEW S, NEW q \in Seq(S), NEW x \in S
  PROVE  /\ Append(q, x) \in Seq(S)
         /\ Len(q) \in Nat
         /\ DOMAIN Append(q, x) = DOMAIN q \cup {Len(q) + 1}
         /\ DOMAIN q = 1 .. Len(q)
         /\ \A i \in DOMAIN q : Append(q, x)[i] = q[i]
         /\ Append(q, x)[Len(q) + 1] = x
<1>1. /\ Append(q, x) \in Seq(S)
      /\ Len(Append(q, x)) = Len(q) + 1
      /\ \A i \in 1 .. Len(q) : Append(q, x)[i] = q[i]
      /\ Append(q, x)[Len(q) + 1] = x
  BY AppendProperties
<1>2. Len(q) \in Nat /\ DOMAIN q = 1 .. Len(q) /\ DOMAIN Append(q, x) = 1 .. Len(Append(q, x))
  BY <1>1, LenProperties
<1>3. DOMAIN Append(q, x) = 1 .. Len(q) + 1
  BY <1>1, <1>2
<1>4. QED
  BY <1>1, <1>2, <1>3

(* The pairs the queue holds. *)
QueuedPair == [state : Nat, fire : SUBSET Transition]

LEMMA QueueStep ==
  ASSUME TypeInv, [Next]_vars
  PROVE  m_common_stack' \in Seq(QueuedPair) /\ QueueOK'
<1>1. Grown /\ TypeOK /\ m_common_stack \in Seq(QueuedPair) /\ QueueOK
  BY GrownStep DEF TypeInv, TypeOK, QueuedPair
<1>2. ASSUME UNCHANGED m_common_stack
      PROVE  m_common_stack' \in Seq(QueuedPair) /\ QueueOK'
  BY <1>1, <1>2 DEF QueueOK, Grown
<1>3. ASSUME NEW n \in State, NEW a \in Aggregate, a = Agg(n),
             m_common_stack' = Append(m_common_stack, Pair(n, FirableObs[a]))
      PROVE  m_common_stack' \in Seq(QueuedPair) /\ QueueOK'
  <2>1. Pair(n, FirableObs[a]) \in QueuedPair
    BY <1>1, StateProperties, FirableProperties DEF Pair, QueuedPair
  <2>2. /\ m_common_stack' \in Seq(QueuedPair)
        /\ DOMAIN m_common_stack' = DOMAIN m_common_stack \cup {Len(m_common_stack) + 1}
        /\ \A i \in DOMAIN m_common_stack : m_common_stack'[i] = m_common_stack[i]
        /\ m_common_stack'[Len(m_common_stack) + 1] = Pair(n, FirableObs[a])
    BY <1>1, <1>3, <2>1, PushProperties
  <2>3. QED
    BY <1>1, <1>3, <2>2 DEF QueueOK, Grown, Pair
<1>4. ASSUME NEW w \in Thread, InitialPush(w)
      PROVE  m_common_stack' \in Seq(QueuedPair) /\ QueueOK'
  <2>1. pos[w] \in State /\ Agg(pos[w]) = InitialAggregate
    BY <1>4 DEF InitialPush, TypeInv, BuilderOK
  <2>2. QED
    BY <1>3, <1>4, <2>1, SOGAssumption DEF InitialPush
<1>5. ASSUME NEW w \in Thread, Push(w)
      PROVE  m_common_stack' \in Seq(QueuedPair) /\ QueueOK'
  <2>1. pos[w] \in State /\ Agg(pos[w]) = reduced_meta(w)
    BY <1>5 DEF Push, TypeInv, BuilderOK, Firing
  <2>2. reduced_meta(w) \in Aggregate
    BY <1>5, FiringProperties DEF Push, Firing
  <2>3. QED
    BY <1>3, <1>5, <2>1, <2>2 DEF Push
<1>6. ASSUME NEW w \in Thread, Pop(w)
      PROVE  m_common_stack' \in Seq(QueuedPair) /\ QueueOK'
  <2>1. CASE m_common_stack = <<>>
    BY <1>2, <1>6, <2>1 DEF Pop
  <2>2. CASE m_common_stack # <<>>
    <3>1. m_common_stack' = Tail(m_common_stack)
      BY <1>6, <2>2 DEF Pop
    <3>2. /\ Tail(m_common_stack) \in Seq(QueuedPair)
          /\ \A i \in DOMAIN Tail(m_common_stack) :
               /\ i + 1 \in DOMAIN m_common_stack
               /\ Tail(m_common_stack)[i] = m_common_stack[i + 1]
      BY <1>1, <2>2, PopProperties
    <3>3. QED
      BY <1>1, <3>1, <3>2 DEF QueueOK, Grown
  <2>3. QED
    BY <2>1, <2>2
<1>7. ASSUME NEW w \in Thread,
             \/ InitialInsert(w) \/ Popped(w) \/ Fire(w) \/ InsertFind(w) \/ SetFlags(w)
             \/ Notify(w) \/ AddEdge(w) \/ Complete(w)
      PROVE  UNCHANGED m_common_stack
  BY <1>7 DEF InitialInsert, Popped, Fire, InsertFind, SetFlags, Notify, AddEdge, Complete
<1>8. ASSUME GetInitial \/ Explore
      PROVE  UNCHANGED m_common_stack
  BY <1>8 DEF GetInitial, Explore
<1>9. QED
  BY <1>1, <1>2, <1>4, <1>5, <1>6, <1>7, <1>8, StepKinds DEF Quiet, Working

(* A builder that does not move, or stays idle, stays well-formed. *)
LEMMA KeptBuilder ==
  ASSUME TypeInv, Grown, NEW v \in Thread, pc'[v] = pc[v], e'[v] = e[v], t'[v] = t[v],
         pos'[v] = pos[v]
  PROVE  BuilderOK(v)'
BY DEF TypeInv, BuilderOK, Grown, Agg, reduced_meta, Firing, Holding

LEMMA IdleBuilder ==
  ASSUME Grown, NEW v \in Thread, pc'[v] \in Idle,
         pc'[v] \in {"initNotify", "initFinish"} => 1 \in State
  PROVE  BuilderOK(v)'
BY DEF BuilderOK, Grown, Idle, Holding, Firing

LEMMA BuilderStepOK ==
  ASSUME TypeInv, [Next]_vars
  PROVE  \A v \in Thread : BuilderOK(v)'
<1>1. Grown /\ TypeOK /\ \A v \in Thread : BuilderOK(v)
  BY GrownStep DEF TypeInv
<1>2. ASSUME Quiet
      PROVE  \A v \in Thread : BuilderOK(v)'
  BY <1>1, <1>2, KeptBuilder, IdleBuilder DEF Quiet
<1>3. ASSUME NEW w \in Thread, InitialInsert(w)
      PROVE  \A v \in Thread : BuilderOK(v)'
  <2>1. PICK n : /\ Added(n, WithFlags(NewState(InitialAggregate)))
                 /\ pos' = [pos EXCEPT ![w] = n] /\ pc' = [pc EXCEPT ![w] = "initPush"]
                 /\ UNCHANGED <<e, t>>
    BY <1>1, <1>3, InitialInsertEffect
  <2>2. WithFlags(NewState(InitialAggregate)).m_lddstate = InitialAggregate
    BY DEF WithFlags, NewState
  <2>3. 1 \in State'
    <3>1. n \in DOMAIN m_GONodes' /\ m_GONodes' \in Seq(LDDState)
      BY <2>1 DEF Added, State
    <3>2. Len(m_GONodes') \in Nat /\ DOMAIN m_GONodes' = 1 .. Len(m_GONodes')
      BY <3>1, GraphDomain
    <3>3. QED
      BY <3>1, <3>2 DEF State
  <2>4. BuilderOK(w)'
    <3>1. pc'[w] = "initPush" /\ pos'[w] = n
      BY <1>1, <2>1 DEF TypeOK
    <3>2. n \in State' /\ Agg(n)' = InitialAggregate
      BY <2>1, <2>2 DEF Added, Agg
    <3>3. QED
      BY <3>1, <3>2, <2>3 DEF BuilderOK, Holding, Firing, Agg
  <2>5. ASSUME NEW v \in Thread \ {w}
        PROVE  BuilderOK(v)'
    BY <1>1, <2>1, KeptBuilder DEF TypeOK
  <2>6. QED
    BY <2>4, <2>5
<1>4. ASSUME NEW w \in Thread, InitialPush(w)
      PROVE  \A v \in Thread : BuilderOK(v)'
  <2>1. pc' = [pc EXCEPT ![w] = "initNotify"] /\ UNCHANGED <<e, t, pos>> /\ 1 \in State'
    BY <1>1, <1>4 DEF InitialPush, Goto, BuilderOK, Grown
  <2>2. BuilderOK(w)'
    BY <1>1, <2>1 DEF TypeOK, BuilderOK, Holding, Firing
  <2>3. ASSUME NEW v \in Thread \ {w}
        PROVE  BuilderOK(v)'
    BY <1>1, <2>1, KeptBuilder DEF TypeOK
  <2>4. QED
    BY <2>2, <2>3
<1>5. ASSUME NEW w \in Thread, Pop(w)
      PROVE  \A v \in Thread : BuilderOK(v)'
  <2>1. CASE m_common_stack = <<>>
    <3>1. pc' = [pc EXCEPT ![w] = "until"] /\ UNCHANGED <<e, t, pos>>
      BY <1>5, <2>1 DEF Pop, Goto
    <3>2. BuilderOK(w)'
      BY <1>1, <3>1 DEF TypeOK, BuilderOK, Holding, Firing
    <3>3. ASSUME NEW v \in Thread \ {w}
          PROVE  BuilderOK(v)'
      BY <1>1, <3>1, KeptBuilder DEF TypeOK
    <3>4. QED
      BY <3>2, <3>3
  <2>2. CASE m_common_stack # <<>>
    <3> DEFINE x == Head(m_common_stack)
    <3>1. /\ pc' = [pc EXCEPT ![w] = "popped"] /\ e' = [e EXCEPT ![w] = x]
          /\ UNCHANGED <<t, pos>>
      BY <1>5, <2>2 DEF Pop, Goto
    <3>2. m_common_stack \in Seq(QueuedPair)
      BY <1>1 DEF TypeOK, QueuedPair
    <3>3. 1 \in DOMAIN m_common_stack /\ x = m_common_stack[1]
      BY <2>2, <3>2, PopProperties
    <3>4. x.state \in State /\ x.fire = FirableObs[Agg(x.state)]
      BY <3>3 DEF TypeInv, QueueOK
    <3> HIDE DEF x
    <3>5. BuilderOK(w)'
      BY <1>1, <3>1, <3>4 DEF TypeOK, BuilderOK, Holding, Firing, Grown
    <3>6. ASSUME NEW v \in Thread \ {w}
          PROVE  BuilderOK(v)'
      BY <1>1, <3>1, KeptBuilder DEF TypeOK
    <3>7. QED
      BY <3>5, <3>6
  <2>3. QED
    BY <2>1, <2>2
<1>6. ASSUME NEW w \in Thread, Popped(w)
      PROVE  \A v \in Thread : BuilderOK(v)'
  <2>1. /\ pc' = [pc EXCEPT ![w] = "until"] \/ pc' = [pc EXCEPT ![w] = "fire"]
        /\ pc[w] = "popped" /\ UNCHANGED <<e, t, pos>>
    BY <1>6 DEF Popped, Goto
  <2>2. BuilderOK(w)'
    BY <1>1, <2>1 DEF TypeOK, BuilderOK, Holding, Firing, Grown
  <2>3. ASSUME NEW v \in Thread \ {w}
        PROVE  BuilderOK(v)'
    BY <1>1, <2>1, KeptBuilder DEF TypeOK
  <2>4. QED
    BY <2>2, <2>3
<1>7. ASSUME NEW w \in Thread, Fire(w)
      PROVE  \A v \in Thread : BuilderOK(v)'
  <2>1. CASE /\ pc' = [pc EXCEPT ![w] = "complete"] /\ UNCHANGED <<e, t, pos>>
    <3>1. BuilderOK(w)'
      BY <1>1, <1>7, <2>1 DEF Fire, TypeOK, BuilderOK, Holding, Firing, Grown
    <3>2. ASSUME NEW v \in Thread \ {w}
          PROVE  BuilderOK(v)'
      BY <1>1, <2>1, KeptBuilder DEF TypeOK
    <3>3. QED
      BY <3>1, <3>2
  <2>2. CASE \E u \in e[w].fire :
               /\ t' = [t EXCEPT ![w] = u]
               /\ e' = [e EXCEPT ![w].fire = @ \ {u}]
               /\ pc' = [pc EXCEPT ![w] = "insert"]
               /\ pos' = pos
    <3>1. PICK u \in e[w].fire :
               /\ t' = [t EXCEPT ![w] = u]
               /\ e' = [e EXCEPT ![w].fire = @ \ {u}]
               /\ pc' = [pc EXCEPT ![w] = "insert"]
               /\ pos' = pos
      BY <2>2
    <3>2. e'[w].state = e[w].state /\ e'[w].fire = e[w].fire \ {u}
      BY <1>1, <3>1 DEF TypeOK
    <3>3. BuilderOK(w)'
      BY <1>1, <1>7, <3>1, <3>2 DEF Fire, TypeOK, BuilderOK, Holding, Firing, Grown
    <3>4. ASSUME NEW v \in Thread \ {w}
          PROVE  BuilderOK(v)'
      BY <1>1, <3>1, KeptBuilder DEF TypeOK
    <3>5. QED
      BY <3>3, <3>4
  <2>3. QED
    BY <1>7, <2>1, <2>2 DEF Fire, Goto
<1>8. ASSUME NEW w \in Thread, InsertFind(w)
      PROVE  \A v \in Thread : BuilderOK(v)'
  <2>1. PICK n \in State', label \in {"edge", "flags"} :
          /\ pos' = [pos EXCEPT ![w] = n] /\ pc' = [pc EXCEPT ![w] = label]
          /\ Agg(n)' = reduced_meta(w)
          /\ UNCHANGED <<e, t>> /\ pc[w] = "insert"
    <3>1. NewState(reduced_meta(w)).m_lddstate = reduced_meta(w)
      BY DEF NewState
    <3>2. QED
      BY <1>1, <1>8, <3>1, InsertFindEffect DEF Added, Agg, Grown
  <2>2. BuilderOK(w)'
    <3>1. pos'[w] = n /\ pc'[w] = label /\ e'[w].state \in State /\ e'[w] = e[w]
      BY <1>1, <2>1 DEF TypeOK, BuilderOK, Holding
    <3>2. reduced_meta(w)' = reduced_meta(w)
      BY <1>1, <2>1, <3>1 DEF Grown, reduced_meta, Agg
    <3>3. QED
      BY <1>1, <2>1, <3>1, <3>2 DEF BuilderOK, Holding, Firing, Grown
  <2>3. ASSUME NEW v \in Thread \ {w}
        PROVE  BuilderOK(v)'
    BY <1>1, <2>1, KeptBuilder DEF TypeOK
  <2>4. QED
    BY <2>2, <2>3
<1>9. ASSUME NEW w \in Thread, NEW label \in Firing \ {"insert"}, NEW next \in Firing \cup {"fire"},
             pc[w] = label, pc' = [pc EXCEPT ![w] = next], UNCHANGED <<e, t, pos>>
      PROVE  \A v \in Thread : BuilderOK(v)'
  <2>1. BuilderOK(w)'
    <3>1. e[w].state \in State /\ pc'[w] = next
      BY <1>1, <1>9 DEF BuilderOK, Holding, Firing, TypeOK
    <3>2. reduced_meta(w)' = reduced_meta(w)
      BY <1>1, <1>9, <3>1 DEF Grown, reduced_meta, Agg
    <3>3. QED
      BY <1>1, <1>9, <3>1, <3>2 DEF BuilderOK, Holding, Firing, Grown
  <2>2. ASSUME NEW v \in Thread \ {w}
        PROVE  BuilderOK(v)'
    BY <1>1, <1>9, KeptBuilder DEF TypeOK
  <2>3. QED
    BY <2>1, <2>2
<1>10. ASSUME NEW w \in Thread, SetFlags(w) \/ Push(w) \/ AddEdge(w)
       PROVE  \A v \in Thread : BuilderOK(v)'
  BY <1>9, <1>10 DEF SetFlags, Push, AddEdge, Goto, Firing
<1>11. ASSUME NEW w \in Thread, Notify(w)
       PROVE  \A v \in Thread : BuilderOK(v)'
  <2>1. pc[w] = "notify" /\ NotifyOneBuilder(w, "edge") /\ UNCHANGED <<e, t, pos>>
    BY <1>11 DEF Notify
  <2>2. /\ pc'[w] = "edge"
        /\ \A v \in Thread \ {w} : pc'[v] = pc[v] \/ (pc[v] = "waiting" /\ pc'[v] = "lock")
    BY <1>1, <2>1, NotifyOneProperties DEF BuilderPc, Holding
  <2>3. BuilderOK(w)'
    <3>1. e[w].state \in State
      BY <1>1, <2>1 DEF BuilderOK, Holding
    <3>2. reduced_meta(w)' = reduced_meta(w)
      BY <1>1, <2>1, <3>1 DEF Grown, reduced_meta, Agg
    <3>3. QED
      BY <1>1, <2>1, <2>2, <3>1, <3>2 DEF BuilderOK, Holding, Firing, Grown
  <2>4. ASSUME NEW v \in Thread \ {w}
        PROVE  BuilderOK(v)'
    BY <1>1, <2>1, <2>2, KeptBuilder, IdleBuilder DEF Idle, Holding, BuilderPc
  <2>5. QED
    BY <2>3, <2>4
<1>12. ASSUME NEW w \in Thread, Complete(w)
       PROVE  \A v \in Thread : BuilderOK(v)'
  <2>1. pc' = [pc EXCEPT ![w] = "notifyBuild"] /\ UNCHANGED <<e, t, pos>>
    BY <1>12 DEF Complete, Goto
  <2>2. BuilderOK(w)'
    BY <1>1, <2>1 DEF TypeOK, BuilderOK, Holding, Firing
  <2>3. ASSUME NEW v \in Thread \ {w}
        PROVE  BuilderOK(v)'
    BY <1>1, <2>1, KeptBuilder DEF TypeOK
  <2>4. QED
    BY <2>2, <2>3
<1>13. ASSUME GetInitial \/ Explore
       PROVE  \A v \in Thread : BuilderOK(v)'
  BY <1>1, <1>13, VisitEffect, KeptBuilder
<1>14. QED
  BY <1>2, <1>3, <1>4, <1>5, <1>6, <1>7, <1>8, <1>10, <1>11, <1>12, <1>13, StepKinds
  DEF Working

LEMMA CheckerStepOK ==
  ASSUME TypeInv, [Next]_vars
  PROVE  CheckerOK'
<1>1. Grown /\ CheckerOK
  BY GrownStep DEF TypeInv
<1>2. ASSUME GetInitial \/ Explore
      PROVE  CheckerOK'
  <2>1. PICK n \in State : agregate' = n
    BY <1>2, VisitEffect
  <2>2. UNCHANGED m_finish_initial
    BY <1>2, VisitEffect
  <2>3. QED
    BY <1>1, <2>1, <2>2 DEF CheckerOK, Grown
<1>3. ASSUME NEW w \in Thread, InitialFinish(w)
      PROVE  CheckerOK'
  <2>1. 1 \in State
    BY <1>3 DEF InitialFinish, TypeInv, BuilderOK
  <2>2. QED
    BY <1>1, <1>3, <2>1 DEF InitialFinish, checker, CheckerOK, Grown
<1>4. ASSUME UNCHANGED <<m_finish_initial, checker>>
      PROVE  CheckerOK'
  BY <1>1, <1>4 DEF checker, CheckerOK, Grown
<1>5. ASSUME NEW w \in Thread, NotifyBuild(w)
      PROVE  CheckerOK'
  BY <1>1, <1>5 DEF NotifyBuild, flags, CheckerOK, Grown
<1>6. ASSUME NEW w \in Thread,
             \/ Start(w) \/ InitialInsert(w) \/ InitialPush(w) \/ InitialNotify(w)
             \/ Lock(w) \/ Check(w) \/ CheckQueue(w) \/ Sleep(w) \/ Pop(w) \/ Popped(w)
             \/ Fire(w) \/ InsertFind(w) \/ SetFlags(w) \/ Push(w) \/ Notify(w)
             \/ AddEdge(w) \/ Complete(w) \/ Until(w) \/ SpuriousWakeUp(w)
      PROVE  UNCHANGED <<m_finish_initial, checker>>
  BY <1>6 DEF Start, InitialInsert, InitialPush, InitialNotify, Lock, Check, CheckQueue,
    Sleep, Pop, Popped, Fire, InsertFind, SetFlags, Push, Notify, AddEdge, Complete, Until,
    SpuriousWakeUp, flags
<1>7. ASSUME \/ CheckBuild \/ SleepBuild \/ SpuriousWakeUpBuild \/ Finish
             \/ PrintCompleteInformation \/ Destroy \/ Join
      PROVE  CheckerOK'
  BY <1>1, <1>7 DEF CheckBuild, SleepBuild, SpuriousWakeUpBuild, Finish,
    PrintCompleteInformation, Destroy, Join, flags, CheckerOK, Grown
<1>8. CASE UNCHANGED vars
  BY <1>4, <1>8 DEF vars, flags
<1>9. QED
  BY <1>2, <1>3, <1>4, <1>5, <1>6, <1>7, <1>8 DEF Next, BuilderStep, CheckerStep

(* The local variables of the builders and the checker's place. *)
LEMMA LocalTypes ==
  ASSUME TypeInv, [Next]_vars
  PROVE  /\ pc' \in [Thread -> BuilderPc]
         /\ e' \in [Thread -> QueuedPair]
         /\ t' \in [Thread -> Transition \cup {NoTransition}]
         /\ pos' \in [Thread -> Nat]
<1>1. /\ TypeOK
      /\ pc \in [Thread -> BuilderPc]
      /\ e \in [Thread -> QueuedPair]
      /\ t \in [Thread -> Transition \cup {NoTransition}]
      /\ pos \in [Thread -> Nat]
      /\ m_common_stack \in Seq(QueuedPair)
  BY DEF TypeInv, TypeOK, QueuedPair
<1>2. ASSUME NEW w \in Thread, NEW label \in BuilderPc, Goto(w, label)
      PROVE  pc' \in [Thread -> BuilderPc]
  BY <1>1, <1>2 DEF Goto
<1>3. ASSUME NEW w \in Thread,
             \/ InitialPush(w) \/ Pop(w) \/ Popped(w) \/ Fire(w) \/ Push(w) \/ Notify(w)
             \/ AddEdge(w) \/ Complete(w) \/ SetFlags(w) \/ InitialInsert(w) \/ InsertFind(w)
      PROVE  pc' \in [Thread -> BuilderPc]
  <2>1. CASE Notify(w)
    BY <1>1, <2>1, NotifyOneProperties DEF Notify, BuilderPc, Holding
  <2>2. QED
    BY <1>1, <1>3, <2>1 DEF InitialPush, Pop, Popped, Fire, Push, AddEdge, Complete, SetFlags,
      InitialInsert, InsertFind, FindState, InsertState, Goto, BuilderPc, Holding
<1>4. ASSUME NEW w \in Thread, InitialInsert(w)
      PROVE  pos' \in [Thread -> Nat] /\ UNCHANGED <<e, t>>
  <2>1. PICK n : Added(n, WithFlags(NewState(InitialAggregate))) /\ pos' = [pos EXCEPT ![w] = n]
    BY <1>1, <1>4, InitialInsertEffect
  <2>2. QED
    BY <1>1, <1>4, <2>1 DEF InitialInsert, Added
<1>5. ASSUME NEW w \in Thread, InsertFind(w)
      PROVE  pos' \in [Thread -> Nat] /\ UNCHANGED <<e, t>>
  <2>1. \A n \in State : n \in Nat
    BY <1>1, StateProperties
  <2>2. PICK n \in Nat : pos' = [pos EXCEPT ![w] = n]
    BY <1>5, <2>1, InsertFindEffect DEF Added
  <2>3. QED
    BY <1>1, <1>5, <2>2 DEF InsertFind
<1>6. ASSUME NEW w \in Thread, Pop(w)
      PROVE  e' \in [Thread -> QueuedPair] /\ UNCHANGED <<t, pos>>
  <2>1. CASE m_common_stack = <<>>
    BY <1>1, <1>6, <2>1 DEF Pop
  <2>2. CASE m_common_stack # <<>>
    <3>1. Head(m_common_stack) \in QueuedPair
      BY <1>1, <2>2, PopProperties
    <3>2. e' = [e EXCEPT ![w] = Head(m_common_stack)] /\ UNCHANGED <<t, pos>>
      BY <1>6, <2>2 DEF Pop
    <3>3. QED
      BY <1>1, <3>1, <3>2
  <2>3. QED
    BY <2>1, <2>2
<1>7. ASSUME NEW w \in Thread, Fire(w)
      PROVE  /\ e' \in [Thread -> QueuedPair]
             /\ t' \in [Thread -> Transition \cup {NoTransition}]
             /\ UNCHANGED pos
  <2>1. CASE UNCHANGED <<e, t, pos>>
    BY <1>1, <2>1
  <2>2. CASE \E u \in e[w].fire : /\ t' = [t EXCEPT ![w] = u]
                                  /\ e' = [e EXCEPT ![w].fire = @ \ {u}]
                                  /\ pos' = pos
    <3>1. PICK u \in e[w].fire : /\ t' = [t EXCEPT ![w] = u]
                                 /\ e' = [e EXCEPT ![w].fire = @ \ {u}]
                                 /\ pos' = pos
      BY <2>2
    <3>2. e[w] \in QueuedPair /\ u \in Transition
      BY <1>1 DEF QueuedPair
    <3>3. [e[w] EXCEPT !.fire = @ \ {u}] \in QueuedPair
      BY <3>2 DEF QueuedPair
    <3>4. QED
      BY <1>1, <3>1, <3>2, <3>3
  <2>3. QED
    BY <1>7, <2>1, <2>2 DEF Fire
<1>8. ASSUME NEW w \in Thread,
             \/ InitialPush(w) \/ Popped(w) \/ Push(w) \/ Notify(w) \/ AddEdge(w)
             \/ Complete(w) \/ SetFlags(w)
      PROVE  UNCHANGED <<e, t, pos>>
  BY <1>8 DEF InitialPush, Popped, Push, Notify, AddEdge, Complete, SetFlags
<1>9. ASSUME GetInitial \/ Explore
      PROVE  UNCHANGED <<pc, e, t, pos>>
  BY <1>9, VisitEffect
<1>10. QED
  BY <1>1, <1>3, <1>4, <1>5, <1>6, <1>7, <1>8, <1>9, StepKinds DEF Quiet, Working

(* The counters, the flags and the checker. *)
LEMMA OtherTypes ==
  ASSUME TypeInv, [Next]_vars
  PROVE  /\ m_nbArcs' \in Nat /\ m_id_thread' \in Nat
         /\ m_finish' \in BOOLEAN /\ m_finish_initial' \in BOOLEAN
         /\ mcPc' \in CheckerPc /\ agregate' \in Nat
<1>1. /\ m_nbArcs \in Nat /\ m_id_thread \in Nat
      /\ m_finish \in BOOLEAN /\ m_finish_initial \in BOOLEAN
      /\ mcPc \in CheckerPc /\ agregate \in Nat
      /\ TypeOK
  BY DEF TypeInv, TypeOK
<1> USE DEF CheckerPc, graph, flags, checker
<1>2. ASSUME NEW w \in Thread,
             \/ InitialInsert(w) \/ InitialPush(w) \/ InitialNotify(w)
             \/ InitialFinish(w) \/ Lock(w) \/ Check(w) \/ CheckQueue(w) \/ Sleep(w)
             \/ SpuriousWakeUp(w) \/ Start(w)
      PROVE  /\ m_nbArcs' \in Nat /\ m_id_thread' \in Nat
             /\ m_finish' \in BOOLEAN /\ m_finish_initial' \in BOOLEAN
             /\ mcPc' \in CheckerPc /\ agregate' \in Nat
  <2>1. CASE InitialFinish(w)
    BY <1>1, <2>1 DEF InitialFinish
  <2>2. CASE Start(w)
    BY <1>1, <2>2 DEF Start
  <2>3. QED
    BY <1>1, <1>2, <2>1, <2>2 DEF InitialInsert, InitialPush, InitialNotify, Lock,
      Check, CheckQueue, Sleep, SpuriousWakeUp
<1>3. ASSUME NEW w \in Thread,
             \/ Pop(w) \/ Popped(w) \/ Fire(w) \/ InsertFind(w) \/ SetFlags(w) \/ Push(w)
             \/ Notify(w) \/ AddEdge(w) \/ Complete(w) \/ NotifyBuild(w) \/ Until(w)
      PROVE  /\ m_nbArcs' \in Nat /\ m_id_thread' \in Nat
             /\ m_finish' \in BOOLEAN /\ m_finish_initial' \in BOOLEAN
             /\ mcPc' \in CheckerPc /\ agregate' \in Nat
  BY <1>1, <1>3 DEF Pop, Popped, Fire, InsertFind, SetFlags, Push, Notify, AddEdge,
    Complete, NotifyBuild, Until
<1>4. ASSUME GetInitial \/ Explore
      PROVE  /\ m_nbArcs' \in Nat /\ m_id_thread' \in Nat
             /\ m_finish' \in BOOLEAN /\ m_finish_initial' \in BOOLEAN
             /\ mcPc' \in CheckerPc /\ agregate' \in Nat
  <2>1. PICK n \in State : agregate' = n
    BY <1>4, VisitEffect
  <2>2. n \in Nat
    BY <1>1, StateProperties
  <2>3. UNCHANGED <<m_nbArcs, m_id_thread>>
    BY <1>4 DEF GetInitial, Explore
  <2>4. QED
    BY <1>1, <1>4, <2>1, <2>2, <2>3, VisitEffect
<1>5. ASSUME \/ CheckBuild \/ SleepBuild \/ SpuriousWakeUpBuild \/ Finish
             \/ PrintCompleteInformation \/ Destroy \/ Join
      PROVE  /\ m_nbArcs' \in Nat /\ m_id_thread' \in Nat
             /\ m_finish' \in BOOLEAN /\ m_finish_initial' \in BOOLEAN
             /\ mcPc' \in CheckerPc /\ agregate' \in Nat
  BY <1>1, <1>5 DEF CheckBuild, SleepBuild, SpuriousWakeUpBuild, Finish,
    PrintCompleteInformation, Destroy, Join
<1>6. CASE UNCHANGED vars
  BY <1>1, <1>6 DEF vars
<1>7. QED
  BY <1>2, <1>3, <1>4, <1>5, <1>6 DEF Next, BuilderStep, CheckerStep

LEMMA TypeInvInit == Init => TypeInv
<1> SUFFICES ASSUME Init PROVE TypeInv
  OBVIOUS
<1>1. <<>> \in Seq(LDDState) /\ <<>> \in Seq(QueuedPair) /\ DOMAIN <<>> = {}
  BY EmptySeq
<1>2. TypeOK
  BY <1>1 DEF Init, TypeOK, BuilderPc, CheckerPc, NoPair, Pair, NoState, NoTransition, QueuedPair
<1>3. QueueOK /\ CheckerOK /\ LinksOK /\ \A w \in Thread : BuilderOK(w)
  BY <1>1 DEF Init, QueueOK, CheckerOK, LinksOK, BuilderOK, Holding, Firing, State
<1>4. QED
  BY <1>2, <1>3 DEF TypeInv

LEMMA TypeInvStep == TypeInv /\ [Next]_vars => TypeInv'
<1> SUFFICES ASSUME TypeInv, [Next]_vars PROVE TypeInv'
  OBVIOUS
<1>1. TypeOK'
  BY GrownStep, QueueStep, LocalTypes, OtherTypes DEF TypeOK, Grown, QueuedPair
<1>2. QED
  BY <1>1, GrownStep, QueueStep, BuilderStepOK, CheckerStepOK DEF TypeInv

LEMMA TypeInvariant == Spec => []TypeInv
BY TypeInvInit, TypeInvStep, PTL DEF Spec

(* Every variable keeps its type, and no step of a builder or of the       *)
(* checker goes through a pointer that designates no state of the graph.   *)
THEOREM TypeCorrect == Spec => []TypeOK
<1>1. TypeInv => TypeOK
  BY DEF TypeInv
<1>2. QED
  BY <1>1, TypeInvariant, PTL

-----------------------------------------------------------------------------
(* One owner per state. *)

(* What a builder has still to queue is not the state it works on. *)
DistinctPos == \A w \in Thread : pc[w] \in {"flags", "push"} => e[w].state # pos[w]

OwnerInv == SingleOwner /\ DistinctPos

(* Only states of the graph are held or queued. *)
LEMMA OwnedStates ==
  ASSUME TypeInv
  PROVE  /\ \A n : \A w \in Thread : Holds(w, n) => n \in State
         /\ \A n : Queued(n) => n \in State
BY DEF TypeInv, BuilderOK, QueueOK, Holds, Queued, Firing

(* Taking a transition does not change the state a builder works on. *)
LEMMA FireKeepsState ==
  ASSUME TypeOK, NEW w \in Thread, Fire(w)
  PROVE  \A v \in Thread : e'[v].state = e[v].state
<1>1. e \in [Thread -> QueuedPair]
  BY DEF TypeOK, QueuedPair
<1>2. CASE e' = e
  BY <1>2
<1>3. CASE \E u : e' = [e EXCEPT ![w].fire = @ \ {u}]
  <2>1. PICK u : e' = [e EXCEPT ![w].fire = @ \ {u}]
    BY <1>3
  <2>2. [e[w] EXCEPT !.fire = @ \ {u}].state = e[w].state
    BY <1>1 DEF QueuedPair
  <2>3. QED
    BY <1>1, <2>1, <2>2
<1>4. QED
  BY <1>2, <1>3 DEF Fire

(* The steps after which nobody owns a state more than before. *)
LEMMA NothingTaken ==
  ASSUME OwnerInv, State' = State, UNCHANGED m_common_stack,
         \A n \in State : m_GONodes'[n].m_completed => m_GONodes[n].m_completed,
         \A v \in Thread, n \in State : Holds(v, n)' => Holds(v, n)
  PROVE  SingleOwner'
BY DEF OwnerInv, SingleOwner, Queued

(* A new state goes to the builder that inserts it. *)
LEMMA NewOwner ==
  ASSUME TypeInv, OwnerInv, NEW w \in Thread, NEW n, NEW s, Added(n, s), ~s.m_completed,
         UNCHANGED m_common_stack,
         \A v \in Thread, k \in State' : Holds(v, k)' => Holds(v, k) \/ (v = w /\ k = n)
  PROVE  SingleOwner'
<1>1. \A k : Queued(k)' = Queued(k)
  BY DEF Queued
<1>2. ~Queued(n) /\ \A v \in Thread : ~Holds(v, n)
  BY OwnedStates DEF Added
<1>3. \A v \in Thread, k \in State : Holds(v, k)' => Holds(v, k)
  BY DEF Added
<1>4. \A k \in State : m_GONodes'[k].m_completed = m_GONodes[k].m_completed
  BY DEF Added
<1>5. ASSUME NEW k \in State'
      PROVE  /\ \A u, v \in Thread : Holds(u, k)' /\ Holds(v, k)' => u = v
             /\ \A v \in Thread : Holds(v, k)' => ~Queued(k)'
             /\ m_GONodes'[k].m_completed =>
                  ~Queued(k)' /\ \A v \in Thread : ~Holds(v, k)'
  <2>1. CASE k = n
    BY <1>1, <1>2, <2>1 DEF Added
  <2>2. CASE k \in State
    BY <1>1, <1>3, <1>4, <2>2 DEF OwnerInv, SingleOwner
  <2>3. QED
    BY <2>1, <2>2 DEF Added
<1>6. QED
  BY <1>5 DEF OwnerInv, SingleOwner

(* A held state goes from the builder's hands to the queue. *)
LEMMA OwnerQueues ==
  ASSUME TypeInv, OwnerInv, NEW w \in Thread, NEW n \in State, Holds(w, n),
         UNCHANGED m_GONodes,
         NEW x, x.state = n, x \in QueuedPair, m_common_stack' = Append(m_common_stack, x),
         ~Holds(w, n)',
         \A v \in Thread, k \in State : Holds(v, k)' => Holds(v, k)
  PROVE  SingleOwner'
<1>1. m_common_stack \in Seq(QueuedPair)
  BY DEF TypeInv, TypeOK, QueuedPair
<1>2. /\ DOMAIN m_common_stack' = DOMAIN m_common_stack \cup {Len(m_common_stack) + 1}
      /\ \A i \in DOMAIN m_common_stack : m_common_stack'[i] = m_common_stack[i]
      /\ m_common_stack'[Len(m_common_stack) + 1] = x
  BY <1>1, PushProperties
<1>3. \A k : Queued(k)' <=> Queued(k) \/ k = n
  BY <1>2 DEF Queued
<1>4. ~Queued(n) /\ ~m_GONodes[n].m_completed /\ \A v \in Thread : ~Holds(v, n)'
  BY DEF OwnerInv, SingleOwner
<1>5. \A i \in DOMAIN m_common_stack : m_common_stack[i].state # n
  BY <1>4 DEF Queued
<1>6. \A i, j \in DOMAIN m_common_stack' :
        m_common_stack'[i].state = m_common_stack'[j].state => i = j
  BY <1>2, <1>5 DEF OwnerInv, SingleOwner
<1>7. \A k \in State : /\ \A u, v \in Thread : Holds(u, k)' /\ Holds(v, k)' => u = v
                       /\ \A v \in Thread : Holds(v, k)' => ~Queued(k)'
                       /\ m_GONodes[k].m_completed =>
                            ~Queued(k)' /\ \A v \in Thread : ~Holds(v, k)'
  BY <1>3, <1>4 DEF OwnerInv, SingleOwner
<1>8. QED
  BY <1>6, <1>7 DEF SingleOwner, State

(* A queued state goes to the builder that pops it. *)
LEMMA OwnerPops ==
  ASSUME TypeInv, OwnerInv, NEW w \in Thread, m_common_stack # <<>>,
         m_common_stack' = Tail(m_common_stack), UNCHANGED m_GONodes,
         \A v \in Thread, k \in State :
           Holds(v, k)' => Holds(v, k) \/ (v = w /\ k = Head(m_common_stack).state)
  PROVE  SingleOwner'
<1>0. PICK n : n = Head(m_common_stack).state
  OBVIOUS
<1>1. m_common_stack \in Seq(QueuedPair)
  BY DEF TypeInv, TypeOK, QueuedPair
<1>2. /\ 1 \in DOMAIN m_common_stack /\ n = m_common_stack[1].state
      /\ DOMAIN m_common_stack \subseteq Nat \ {0}
      /\ \A i \in DOMAIN m_common_stack' :
           i + 1 \in DOMAIN m_common_stack /\ m_common_stack'[i] = m_common_stack[i + 1]
      /\ m_common_stack' \in Seq(QueuedPair)
  BY <1>0, <1>1, PopProperties
<1>3. DOMAIN m_common_stack' \subseteq Nat \ {0}
  BY <1>2, LenProperties
<1>4. Queued(n) /\ n \in State
  BY <1>2, OwnedStates DEF Queued
<1>5. ~Queued(n)'
  <2>1. ASSUME NEW i \in DOMAIN m_common_stack', m_common_stack'[i].state = n
        PROVE  FALSE
    <3>1. m_common_stack[i + 1].state = m_common_stack[1].state /\ i + 1 \in DOMAIN m_common_stack
      BY <1>2, <2>1
    <3>2. i + 1 = 1
      BY <1>2, <3>1 DEF OwnerInv, SingleOwner
    <3>3. QED
      BY <1>3, <3>2
  <2>2. QED
    BY <2>1 DEF Queued
<1>6. \A k : Queued(k)' => Queued(k)
  BY <1>2 DEF Queued
<1>7. ASSUME NEW i \in DOMAIN m_common_stack', NEW j \in DOMAIN m_common_stack',
             m_common_stack'[i].state = m_common_stack'[j].state
      PROVE  i = j
  <2>1. i + 1 = j + 1
    BY <1>2, <1>7 DEF OwnerInv, SingleOwner
  <2>2. QED
    BY <2>1, <1>3
<1>8. \A v \in Thread, k \in State : Holds(v, k)' => Holds(v, k) \/ (v = w /\ k = n)
  BY <1>0
<1>9. \A k \in State : /\ \A u, v \in Thread : Holds(u, k)' /\ Holds(v, k)' => u = v
                       /\ \A v \in Thread : Holds(v, k)' => ~Queued(k)'
                       /\ m_GONodes[k].m_completed =>
                            ~Queued(k)' /\ \A v \in Thread : ~Holds(v, k)'
  BY <1>4, <1>5, <1>6, <1>8 DEF OwnerInv, SingleOwner
<1>10. QED
  BY <1>7, <1>9 DEF SingleOwner, State

LEMMA SingleOwnerStep ==
  ASSUME TypeInv, OwnerInv, [Next]_vars
  PROVE  SingleOwner'
<1> USE DEF Holding
<1>1. /\ TypeOK /\ pc \in [Thread -> BuilderPc]
      /\ e \in [Thread -> QueuedPair] /\ pos \in [Thread -> Nat]
  BY DEF TypeInv, TypeOK, QueuedPair
<1>2. ASSUME Quiet
      PROVE  SingleOwner'
  BY <1>2, NothingTaken DEF Quiet, Holds, Idle, State
<1>3. ASSUME NEW w \in Thread, InitialInsert(w)
      PROVE  SingleOwner'
  <2>1. PICK n : /\ Added(n, WithFlags(NewState(InitialAggregate)))
                 /\ pos' = [pos EXCEPT ![w] = n] /\ pc' = [pc EXCEPT ![w] = "initPush"]
                 /\ UNCHANGED <<e, m_common_stack>>
    BY <1>1, <1>3, InitialInsertEffect
  <2>2. ~WithFlags(NewState(InitialAggregate)).m_completed
    BY DEF WithFlags, NewState
  <2>3. \A v \in Thread, k \in State' : Holds(v, k)' => Holds(v, k) \/ (v = w /\ k = n)
    BY <1>1, <2>1 DEF Holds
  <2>4. QED
    BY <2>1, <2>2, <2>3, NewOwner
<1>4. ASSUME NEW w \in Thread, InitialPush(w)
      PROVE  SingleOwner'
  <2>1. pc[w] = "initPush" /\ pc' = [pc EXCEPT ![w] = "initNotify"] /\ UNCHANGED <<m_GONodes, e, pos>>
    BY <1>4 DEF InitialPush, Goto, graph
  <2>2. pos[w] \in State /\ Holds(w, pos[w])
    BY <2>1 DEF TypeInv, BuilderOK, Holds
  <2>3. PICK n : n = pos[w]
    OBVIOUS
  <2>4. ~Holds(w, n)' /\ \A v \in Thread, k \in State : Holds(v, k)' => Holds(v, k)
    BY <1>1, <2>1 DEF Holds
  <2>5. /\ m_common_stack' = Append(m_common_stack, Pair(n, FirableObs[InitialAggregate]))
        /\ Pair(n, FirableObs[InitialAggregate]) \in QueuedPair
        /\ Pair(n, FirableObs[InitialAggregate]).state = n
    BY <1>1, <1>4, <2>3, SOGAssumption DEF InitialPush, Pair, QueuedPair
  <2>6. QED
    BY <2>1, <2>2, <2>3, <2>4, <2>5, OwnerQueues
<1>5. ASSUME NEW w \in Thread, Push(w)
      PROVE  SingleOwner'
  <2>1. pc[w] = "push" /\ pc' = [pc EXCEPT ![w] = "notify"] /\ UNCHANGED <<m_GONodes, e, pos>>
    BY <1>5 DEF Push, Goto, graph
  <2>2. pos[w] \in State /\ Holds(w, pos[w]) /\ e[w].state # pos[w]
    BY <2>1 DEF TypeInv, BuilderOK, Holds, Firing, OwnerInv, DistinctPos
  <2>3. PICK n : n = pos[w]
    OBVIOUS
  <2>4. ~Holds(w, n)' /\ \A v \in Thread, k \in State : Holds(v, k)' => Holds(v, k)
    BY <1>1, <2>1, <2>2, <2>3 DEF Holds
  <2>5. reduced_meta(w) \in Aggregate /\ FirableObs[reduced_meta(w)] \subseteq Transition
    BY <2>1, FiringProperties DEF Firing
  <2>6. /\ m_common_stack' = Append(m_common_stack, Pair(n, FirableObs[reduced_meta(w)]))
        /\ Pair(n, FirableObs[reduced_meta(w)]) \in QueuedPair
        /\ Pair(n, FirableObs[reduced_meta(w)]).state = n
    BY <1>1, <1>5, <2>3, <2>5 DEF Push, Pair, QueuedPair
  <2>7. QED
    BY <2>1, <2>2, <2>3, <2>4, <2>6, OwnerQueues
<1>6. ASSUME NEW w \in Thread, Pop(w)
      PROVE  SingleOwner'
  <2>1. CASE m_common_stack = <<>>
    <3>1. pc' = [pc EXCEPT ![w] = "until"] /\ UNCHANGED <<e, pos, m_common_stack, m_GONodes>>
      BY <1>6, <2>1 DEF Pop, Goto, graph
    <3>2. \A v \in Thread, k \in State : Holds(v, k)' => Holds(v, k)
      BY <1>1, <3>1 DEF Holds
    <3>3. QED
      BY <3>1, <3>2, NothingTaken DEF State
  <2>2. CASE m_common_stack # <<>>
    <3>1. /\ pc' = [pc EXCEPT ![w] = "popped"] /\ UNCHANGED <<pos, m_GONodes>>
          /\ e' = [e EXCEPT ![w] = Head(m_common_stack)]
          /\ m_common_stack' = Tail(m_common_stack)
          /\ pc[w] = "pop"
      BY <1>6, <2>2 DEF Pop, Goto, graph
    <3>2. \A v \in Thread, k \in State :
            Holds(v, k)' => Holds(v, k) \/ (v = w /\ k = Head(m_common_stack).state)
      BY <1>1, <3>1 DEF Holds
    <3>3. QED
      BY <2>2, <3>1, <3>2, OwnerPops
  <2>3. QED
    BY <2>1, <2>2
<1>7. ASSUME NEW w \in Thread, Popped(w)
      PROVE  SingleOwner'
  <2>1. /\ pc' = [pc EXCEPT ![w] = "until"] \/ pc' = [pc EXCEPT ![w] = "fire"]
        /\ pc[w] = "popped" /\ UNCHANGED <<e, pos, m_common_stack, m_GONodes>>
    BY <1>7 DEF Popped, Goto, graph
  <2>2. \A v \in Thread, k \in State : Holds(v, k)' => Holds(v, k)
    BY <1>1, <2>1 DEF Holds
  <2>3. QED
    BY <2>1, <2>2, NothingTaken DEF State
<1>8. ASSUME NEW w \in Thread, Fire(w)
      PROVE  SingleOwner'
  <2>1. /\ pc' = [pc EXCEPT ![w] = "insert"] \/ pc' = [pc EXCEPT ![w] = "complete"]
        /\ pc[w] = "fire" /\ UNCHANGED <<pos, m_common_stack, m_GONodes>>
    BY <1>8 DEF Fire, Goto, graph
  <2>2. \A v \in Thread : e'[v].state = e[v].state
    BY <1>1, <1>8, FireKeepsState
  <2>3. \A v \in Thread, k \in State : Holds(v, k)' => Holds(v, k)
    BY <1>1, <2>1, <2>2 DEF Holds
  <2>4. QED
    BY <2>1, <2>3, NothingTaken DEF State
<1>9. ASSUME NEW w \in Thread, InsertFind(w)
      PROVE  SingleOwner'
  <2>1. pc[w] = "insert" /\ UNCHANGED <<e, m_common_stack>>
    BY <1>9, InsertFindEffect
  <2>2. CASE /\ m_GONodes' = m_GONodes /\ pc' = [pc EXCEPT ![w] = "edge"]
             /\ \E n \in State : pos' = [pos EXCEPT ![w] = n]
    <3>1. \A v \in Thread, k \in State : Holds(v, k)' => Holds(v, k)
      BY <1>1, <2>1, <2>2 DEF Holds
    <3>2. QED
      BY <2>1, <2>2, <3>1, NothingTaken DEF State
  <2>3. CASE \E n : /\ Added(n, NewState(reduced_meta(w)))
                    /\ pc' = [pc EXCEPT ![w] = "flags"] /\ pos' = [pos EXCEPT ![w] = n]
    <3>1. PICK n : /\ Added(n, NewState(reduced_meta(w)))
                   /\ pc' = [pc EXCEPT ![w] = "flags"] /\ pos' = [pos EXCEPT ![w] = n]
      BY <2>3
    <3>2. ~NewState(reduced_meta(w)).m_completed
      BY DEF NewState
    <3>3. \A v \in Thread, k \in State' : Holds(v, k)' => Holds(v, k) \/ (v = w /\ k = n)
      BY <1>1, <2>1, <3>1 DEF Holds
    <3>4. QED
      BY <2>1, <3>1, <3>2, <3>3, NewOwner
  <2>4. QED
    BY <1>9, <2>2, <2>3, InsertFindEffect
<1>10. ASSUME NEW w \in Thread, SetFlags(w)
       PROVE  SingleOwner'
  <2>1. /\ Assigned(pos[w], WithFlags(m_GONodes[pos[w]])) /\ pos[w] \in State
        /\ pc[w] = "flags" /\ pc' = [pc EXCEPT ![w] = "push"]
        /\ UNCHANGED <<e, pos, m_common_stack>>
    BY <1>10, SetFlagsEffect
  <2>2. WithFlags(m_GONodes[pos[w]]).m_completed = m_GONodes[pos[w]].m_completed
    BY <1>1, <2>1, StateProperties, WithFlagsType
  <2>3. \A v \in Thread, k \in State : Holds(v, k)' => Holds(v, k)
    BY <1>1, <2>1 DEF Holds
  <2>4. QED
    BY <2>1, <2>2, <2>3, NothingTaken DEF Assigned
<1>11. ASSUME NEW w \in Thread, Notify(w)
       PROVE  SingleOwner'
  <2>1. pc[w] = "notify" /\ NotifyOneBuilder(w, "edge") /\ UNCHANGED <<e, pos, m_common_stack, m_GONodes>>
    BY <1>11 DEF Notify, graph
  <2>2. /\ pc'[w] = "edge"
        /\ \A v \in Thread \ {w} : pc'[v] = pc[v] \/ (pc[v] = "waiting" /\ pc'[v] = "lock")
    BY <1>1, <2>1, NotifyOneProperties DEF BuilderPc
  <2>3. \A v \in Thread, k \in State : Holds(v, k)' => Holds(v, k)
    BY <1>1, <2>1, <2>2 DEF Holds
  <2>4. QED
    BY <2>1, <2>3, NothingTaken DEF State
<1>12. ASSUME NEW w \in Thread, AddEdge(w)
       PROVE  SingleOwner'
  <2>1. /\ \A k \in State : m_GONodes'[k].m_completed = m_GONodes[k].m_completed
        /\ State' = State
        /\ pc[w] = "edge" /\ pc' = [pc EXCEPT ![w] = "fire"]
        /\ UNCHANGED <<e, pos, m_common_stack>>
    BY <1>12, AddEdgeEffect DEF SameButEdges
  <2>2. \A v \in Thread, k \in State : Holds(v, k)' => Holds(v, k)
    BY <1>1, <2>1 DEF Holds
  <2>3. QED
    BY <2>1, <2>2, NothingTaken
<1>13. ASSUME NEW w \in Thread, Complete(w)
       PROVE  SingleOwner'
  <2>1. PICK n : n = e[w].state
    OBVIOUS
  <2>2. /\ n \in State /\ State' = State
        /\ \A k \in State \ {n} : m_GONodes'[k] = m_GONodes[k]
        /\ pc[w] = "complete" /\ pc' = [pc EXCEPT ![w] = "notifyBuild"]
        /\ UNCHANGED <<e, pos, m_common_stack>>
    BY <1>13, <2>1, CompleteEffect DEF Assigned
  <2>3. Holds(w, n) /\ \A v \in Thread, k \in State : Holds(v, k)' => Holds(v, k)
    BY <1>1, <2>1, <2>2 DEF Holds
  <2>4. ~Holds(w, n)'
    BY <1>1, <2>2 DEF Holds
  <2>5. \A v \in Thread : ~Holds(v, n)'
    BY <2>2, <2>3, <2>4 DEF OwnerInv, SingleOwner
  <2>6. ~Queued(n) /\ \A k : Queued(k)' = Queued(k)
    BY <2>2, <2>3 DEF OwnerInv, SingleOwner, Queued
  <2>7. QED
    BY <2>2, <2>3, <2>5, <2>6 DEF OwnerInv, SingleOwner
<1>14. ASSUME GetInitial \/ Explore
       PROVE  SingleOwner'
  <2>1. PICK n \in State : Assigned(n, [m_GONodes[n] EXCEPT !.m_visited = TRUE])
    BY <1>14, VisitEffect
  <2>2. UNCHANGED <<pc, e, pos, m_common_stack>>
    BY <1>14, VisitEffect
  <2>3. [m_GONodes[n] EXCEPT !.m_visited = TRUE].m_completed = m_GONodes[n].m_completed
    BY <1>1, StateProperties DEF LDDState
  <2>4. \A v \in Thread, k \in State : Holds(v, k)' => Holds(v, k)
    BY <2>2 DEF Holds
  <2>5. QED
    BY <2>1, <2>2, <2>3, <2>4, NothingTaken DEF Assigned
<1>15. QED
  BY <1>2, <1>3, <1>4, <1>5, <1>6, <1>7, <1>8, <1>9, <1>10, <1>11, <1>12, <1>13, <1>14,
     StepKinds DEF Working

LEMMA DistinctPosStep ==
  ASSUME TypeInv, OwnerInv, [Next]_vars
  PROVE  DistinctPos'
<1>1. /\ TypeOK /\ pc \in [Thread -> BuilderPc]
      /\ e \in [Thread -> QueuedPair] /\ pos \in [Thread -> Nat] /\ DistinctPos
  BY DEF TypeInv, TypeOK, QueuedPair, OwnerInv
<1>2. ASSUME NEW w \in Thread, InsertFind(w)
      PROVE  DistinctPos'
  <2>1. e[w].state \in State /\ e' = e
    BY <1>2, InsertFindEffect DEF TypeInv, BuilderOK, Holding
  <2>2. CASE pc' = [pc EXCEPT ![w] = "edge"] /\ \E n \in State : pos' = [pos EXCEPT ![w] = n]
    BY <1>1, <2>1, <2>2 DEF DistinctPos
  <2>3. CASE \E n : n \notin State /\ n \in Nat /\ pos' = [pos EXCEPT ![w] = n] /\ pc' = [pc EXCEPT ![w] = "flags"]
    BY <1>1, <2>1, <2>3 DEF DistinctPos
  <2>4. QED
    BY <1>2, <2>2, <2>3, InsertFindEffect DEF Added
<1>3. ASSUME NEW w \in Thread, Notify(w)
      PROVE  DistinctPos'
  <2>1. pc[w] = "notify" /\ NotifyOneBuilder(w, "edge") /\ UNCHANGED <<e, pos>>
    BY <1>3 DEF Notify
  <2>2. /\ pc'[w] = "edge"
        /\ \A v \in Thread \ {w} : pc'[v] = pc[v] \/ (pc[v] = "waiting" /\ pc'[v] = "lock")
    BY <1>1, <2>1, NotifyOneProperties DEF BuilderPc, Holding
  <2>3. QED
    BY <1>1, <2>1, <2>2 DEF DistinctPos
<1>4. ASSUME NEW w \in Thread, Pop(w)
      PROVE  DistinctPos'
  BY <1>1, <1>4 DEF Pop, Goto, DistinctPos
<1>5. ASSUME NEW w \in Thread, Fire(w)
      PROVE  DistinctPos'
  BY <1>1, <1>5 DEF Fire, Goto, DistinctPos
<1>6. ASSUME NEW w \in Thread, InitialInsert(w)
      PROVE  DistinctPos'
  BY <1>1, <1>6 DEF InitialInsert, Goto, DistinctPos
<1>7. ASSUME NEW w \in Thread,
             \/ InitialPush(w) \/ Popped(w) \/ SetFlags(w) \/ Push(w) \/ AddEdge(w) \/ Complete(w)
      PROVE  DistinctPos'
  BY <1>1, <1>7 DEF InitialPush, Popped, SetFlags, Push, AddEdge, Complete, Goto, DistinctPos
<1>8. ASSUME Quiet \/ GetInitial \/ Explore
      PROVE  DistinctPos'
  BY <1>1, <1>8, VisitEffect DEF Quiet, Idle, Holding, DistinctPos
<1>9. QED
  BY <1>2, <1>3, <1>4, <1>5, <1>6, <1>7, <1>8, StepKinds DEF Working

LEMMA OwnerInvariant == Spec => []OwnerInv
<1>1. Init => OwnerInv
  BY EmptySeq DEF Init, OwnerInv, SingleOwner, DistinctPos, State
<1>2. TypeInv /\ OwnerInv /\ [Next]_vars => OwnerInv'
  BY SingleOwnerStep, DistinctPosStep DEF OwnerInv
<1>3. QED
  BY <1>1, <1>2, TypeInvariant, PTL DEF Spec

(* A state is never worked on twice, whatever the number of builders.      *)
THEOREM SingleOwnership == Spec => []SingleOwner
<1>1. OwnerInv => SingleOwner
  BY DEF OwnerInv
<1>2. QED
  BY <1>1, OwnerInvariant, PTL

-----------------------------------------------------------------------------
(* Completed states. *)

(* A step gives a state edges or flags only on behalf of its owner. *)
LEMMA FrozenStep ==
  ASSUME TypeInv, OwnerInv, [Next]_vars, NEW n \in State, m_GONodes[n].m_completed
  PROVE  /\ m_GONodes'[n].m_completed
         /\ m_GONodes'[n].m_lddstate = m_GONodes[n].m_lddstate
         /\ m_GONodes'[n].Successors = m_GONodes[n].Successors
         /\ m_GONodes'[n].m_blocage = m_GONodes[n].m_blocage
         /\ m_GONodes'[n].m_boucle = m_GONodes[n].m_boucle
<1>1. TypeOK /\ m_GONodes[n] \in LDDState
  BY StateProperties DEF TypeInv
<1>2. \A w \in Thread : ~Holds(w, n)
  BY DEF OwnerInv, SingleOwner
<1>3. ASSUME m_GONodes'[n] = m_GONodes[n]
      PROVE  /\ m_GONodes'[n].m_completed
             /\ m_GONodes'[n].m_lddstate = m_GONodes[n].m_lddstate
             /\ m_GONodes'[n].Successors = m_GONodes[n].Successors
             /\ m_GONodes'[n].m_blocage = m_GONodes[n].m_blocage
             /\ m_GONodes'[n].m_boucle = m_GONodes[n].m_boucle
  BY <1>3
<1>4. ASSUME NEW w \in Thread, InitialInsert(w)
      PROVE  m_GONodes'[n] = m_GONodes[n]
  BY <1>1, <1>4, InitialInsertEffect DEF Added
<1>5. ASSUME NEW w \in Thread, InsertFind(w)
      PROVE  m_GONodes'[n] = m_GONodes[n]
  BY <1>5, InsertFindEffect DEF Added
<1>6. ASSUME NEW w \in Thread, SetFlags(w)
      PROVE  m_GONodes'[n] = m_GONodes[n]
  <2>1. pos[w] # n
    BY <1>2, <1>6 DEF SetFlags, Holds
  <2>2. QED
    BY <1>6, <2>1, SetFlagsEffect DEF Assigned
<1>7. ASSUME NEW w \in Thread, AddEdge(w)
      PROVE  SameButEdges(m_GONodes[n], m_GONodes'[n]) /\ m_GONodes'[n].Successors = m_GONodes[n].Successors
  <2>1. e[w].state # n
    BY <1>2, <1>7 DEF AddEdge, Holds, Holding
  <2>2. QED
    BY <1>7, <2>1, AddEdgeEffect
<1>8. ASSUME NEW w \in Thread, Complete(w)
      PROVE  m_GONodes'[n] = m_GONodes[n]
  <2>1. e[w].state # n
    BY <1>2, <1>8 DEF Complete, Holds, Holding
  <2>2. QED
    BY <1>8, <2>1, CompleteEffect DEF Assigned
<1>9. ASSUME GetInitial \/ Explore
      PROVE  SameButEdges([m_GONodes[n] EXCEPT !.m_visited = m_GONodes'[n].m_visited], m_GONodes'[n])
             /\ m_GONodes'[n].Successors = m_GONodes[n].Successors
  <2>1. PICK k \in State : Assigned(k, [m_GONodes[k] EXCEPT !.m_visited = TRUE])
    BY <1>9, VisitEffect
  <2>2. m_GONodes'[n] = m_GONodes[n] \/ m_GONodes'[n] = [m_GONodes[n] EXCEPT !.m_visited = TRUE]
    BY <2>1 DEF Assigned
  <2>3. QED
    BY <1>1, <2>2 DEF LDDState, SameButEdges
<1>10. ASSUME NEW w \in Thread, InitialPush(w) \/ Pop(w) \/ Popped(w) \/ Fire(w) \/ Push(w) \/ Notify(w)
       PROVE  m_GONodes'[n] = m_GONodes[n]
  BY <1>10 DEF InitialPush, Pop, Popped, Fire, Push, Notify, graph
<1>11. ASSUME Quiet
       PROVE  m_GONodes'[n] = m_GONodes[n]
  BY <1>11 DEF Quiet
<1>12. ASSUME NEW w \in Thread, AddEdge(w)
       PROVE  /\ m_GONodes'[n].m_completed
              /\ m_GONodes'[n].m_lddstate = m_GONodes[n].m_lddstate
              /\ m_GONodes'[n].Successors = m_GONodes[n].Successors
              /\ m_GONodes'[n].m_blocage = m_GONodes[n].m_blocage
              /\ m_GONodes'[n].m_boucle = m_GONodes[n].m_boucle
  BY <1>7, <1>12 DEF SameButEdges
<1>13. ASSUME GetInitial \/ Explore
       PROVE  /\ m_GONodes'[n].m_completed
              /\ m_GONodes'[n].m_lddstate = m_GONodes[n].m_lddstate
              /\ m_GONodes'[n].Successors = m_GONodes[n].Successors
              /\ m_GONodes'[n].m_blocage = m_GONodes[n].m_blocage
              /\ m_GONodes'[n].m_boucle = m_GONodes[n].m_boucle
  BY <1>1, <1>9, <1>13 DEF SameButEdges, LDDState
<1>14. QED
  BY <1>3, <1>4, <1>5, <1>6, <1>8, <1>10, <1>11, <1>12, <1>13, StepKinds DEF Working

(* A completed state keeps its edges and its flags for ever: what Spot     *)
(* reads of it without a lock is stable.                                   *)
THEOREM CompletedStable == Spec => CompletedIsFrozen
<1>1. TypeInv /\ OwnerInv /\ [Next]_vars =>
        [\A n \in State : m_GONodes[n].m_completed =>
           /\ m_GONodes'[n].m_completed
           /\ m_GONodes'[n].m_lddstate = m_GONodes[n].m_lddstate
           /\ m_GONodes'[n].Successors = m_GONodes[n].Successors
           /\ m_GONodes'[n].m_blocage = m_GONodes[n].m_blocage
           /\ m_GONodes'[n].m_boucle = m_GONodes[n].m_boucle]_vars
  BY FrozenStep
<1>2. QED
  BY <1>1, TypeInvariant, OwnerInvariant, PTL DEF Spec, CompletedIsFrozen

-----------------------------------------------------------------------------
(* The initial aggregate, and no duplicate. *)

(* The thread that numbers itself 0 is alone to insert without a search,   *)
(* and inserts into an empty graph.                                        *)
FirstInv ==
  /\ m_id_thread = 0 => m_GONodes = <<>> /\ \A w \in Thread : pc[w] = "start"
  /\ \A w \in Thread : pc[w] = "initInsert" => m_GONodes = <<>>
  /\ \A v, w \in Thread : pc[v] = "initInsert" /\ pc[w] = "initInsert" => v = w

(* Nothing but the first insertion happens to an empty graph. *)
LEMMA EmptyGraph ==
  ASSUME TypeInv, [Next]_vars, m_GONodes = <<>>
  PROVE  \/ \E w \in Thread : InitialInsert(w)
         \/ UNCHANGED m_GONodes
<1>1. State = {}
  BY EmptySeq DEF State
<1>2. \A w \in Thread : pc[w] \notin Holding
  BY <1>1 DEF TypeInv, BuilderOK
<1>3. ~(GetInitial \/ Explore)
  BY <1>1, VisitEffect
<1>4. \A w \in Thread : ~InsertFind(w) /\ ~SetFlags(w) /\ ~AddEdge(w) /\ ~Complete(w)
  BY <1>2 DEF InsertFind, SetFlags, AddEdge, Complete, Holding
<1>5. ASSUME NEW w \in Thread, InitialPush(w) \/ Pop(w) \/ Popped(w) \/ Fire(w) \/ Push(w) \/ Notify(w)
      PROVE  UNCHANGED m_GONodes
  BY <1>5 DEF InitialPush, Pop, Popped, Fire, Push, Notify, graph
<1>6. QED
  BY <1>3, <1>4, <1>5, StepKinds DEF Quiet, Working

LEMMA FirstInvStep ==
  ASSUME TypeInv, FirstInv, [Next]_vars
  PROVE  FirstInv'
<1>1. TypeOK /\ pc \in [Thread -> BuilderPc] /\ m_id_thread \in Nat
  BY DEF TypeInv, TypeOK
<1>2. ASSUME NEW w \in Thread, Start(w)
      PROVE  FirstInv'
  <2>1. /\ pc[w] = "start" /\ m_id_thread' = m_id_thread + 1 /\ m_GONodes' = m_GONodes
        /\ pc' = [pc EXCEPT ![w] = IF m_id_thread = 0 THEN "initInsert" ELSE "lock"]
    BY <1>2 DEF Start, Goto, graph
  <2>2. m_id_thread' # 0
    BY <1>1, <2>1
  <2>3. CASE m_id_thread = 0
    <3>1. m_GONodes = <<>> /\ \A v \in Thread \ {w} : pc'[v] = "start"
      BY <1>1, <2>1, <2>3 DEF FirstInv
    <3>2. QED
      BY <1>1, <2>1, <2>2, <2>3, <3>1 DEF FirstInv
  <2>4. CASE m_id_thread # 0
    <3>1. \A v \in Thread : pc'[v] = "initInsert" => pc[v] = "initInsert"
      BY <1>1, <2>1, <2>4
    <3>2. QED
      BY <2>1, <2>2, <3>1 DEF FirstInv
  <2>5. QED
    BY <2>3, <2>4
<1>3. ASSUME NEW w \in Thread, InitialInsert(w)
      PROVE  FirstInv'
  <2>1. pc[w] = "initInsert" /\ pc' = [pc EXCEPT ![w] = "initPush"] /\ m_id_thread' = m_id_thread
    BY <1>3 DEF InitialInsert, Goto
  <2>2. m_id_thread # 0
    BY <2>1 DEF FirstInv
  <2>3. \A v \in Thread : pc'[v] # "initInsert"
    BY <1>1, <2>1 DEF FirstInv
  <2>4. QED
    BY <2>1, <2>2, <2>3 DEF FirstInv
<1>4. ASSUME m_id_thread' = m_id_thread, \A w \in Thread : ~InitialInsert(w),
             \A v \in Thread : pc'[v] = "initInsert" => pc[v] = "initInsert",
             m_id_thread = 0 => \A v \in Thread : pc[v] = "start" => pc'[v] = "start"
      PROVE  FirstInv'
  <2>1. m_GONodes = <<>> => m_GONodes' = <<>>
    BY <1>4, EmptyGraph
  <2>2. QED
    BY <1>4, <2>1 DEF FirstInv
<1>5. ASSUME NEW w \in Thread, InitialNotify(w) \/ Notify(w)
      PROVE  FirstInv'
  <2>1. /\ pc[w] \in {"notify", "initNotify"} /\ m_id_thread' = m_id_thread
        /\ NotifyOneBuilder(w, "edge") \/ NotifyOneBuilder(w, "initFinish")
    BY <1>5 DEF InitialNotify, Notify
  <2>2. /\ pc'[w] \in {"edge", "initFinish"}
        /\ \A v \in Thread \ {w} : pc'[v] = pc[v] \/ (pc[v] = "waiting" /\ pc'[v] = "lock")
    BY <1>1, <2>1, NotifyOneProperties DEF BuilderPc, Holding
  <2>3. \A v \in Thread : pc'[v] = "initInsert" => pc[v] = "initInsert"
    BY <2>2
  <2>4. \A v \in Thread : pc[v] = "start" => pc'[v] = "start"
    BY <2>1, <2>2
  <2>5. \A v \in Thread : ~InitialInsert(v)
    <3>1. ASSUME NEW v \in Thread, InitialInsert(v)
          PROVE  FALSE
      <4>1. pc[v] = "initInsert" /\ pc'[v] = "initPush"
        BY <1>1, <3>1 DEF InitialInsert, Goto
      <4>2. QED
        BY <2>1, <2>2, <4>1
    <3>2. QED
      BY <3>1
  <2>6. QED
    BY <1>4, <2>1, <2>3, <2>4, <2>5
<1>6. ASSUME NEW w \in Thread, NEW from \in BuilderPc \ {"start", "initInsert"},
             NEW to \in BuilderPc \ {"initInsert"},
             pc[w] = from, pc' = [pc EXCEPT ![w] = to], m_id_thread' = m_id_thread
      PROVE  FirstInv'
  <2>1. /\ \A v \in Thread : pc'[v] = "initInsert" => pc[v] = "initInsert"
        /\ \A v \in Thread : pc[v] = "start" => pc'[v] = "start"
        /\ \A v \in Thread : pc[v] = "initInsert" => pc'[v] = "initInsert"
    BY <1>1, <1>6
  <2>2. \A v \in Thread : ~InitialInsert(v)
    BY <1>1, <2>1 DEF InitialInsert, Goto
  <2>3. QED
    BY <1>4, <1>6, <2>1, <2>2
<1>7. ASSUME NEW w \in Thread,
             \/ InitialPush(w) \/ InitialFinish(w) \/ Lock(w) \/ Check(w) \/ CheckQueue(w)
             \/ Sleep(w) \/ SpuriousWakeUp(w)
      PROVE  FirstInv'
  BY <1>6, <1>7 DEF InitialPush, InitialFinish, Lock, Check, CheckQueue, Sleep, SpuriousWakeUp,
    Goto, BuilderPc, Holding
<1>8. ASSUME NEW w \in Thread,
             \/ Pop(w) \/ Popped(w) \/ Fire(w) \/ InsertFind(w) \/ SetFlags(w) \/ Push(w)
             \/ AddEdge(w) \/ Complete(w) \/ NotifyBuild(w) \/ Until(w)
      PROVE  FirstInv'
  BY <1>6, <1>8 DEF Pop, Popped, Fire, InsertFind, FindState, InsertState, SetFlags, Push,
    AddEdge, Complete, NotifyBuild, Until, Goto, BuilderPc, Holding
<1>9. ASSUME UNCHANGED <<pc, m_id_thread>>
      PROVE  FirstInv'
  <2>1. \A v \in Thread : ~InitialInsert(v)
    BY <1>1, <1>9 DEF InitialInsert, Goto
  <2>2. QED
    BY <1>4, <1>9, <2>1
<1>10. ASSUME CheckerStep \/ SpuriousWakeUpBuild \/ UNCHANGED vars
       PROVE  FirstInv'
  <2>1. CASE Destroy
    <3>1. /\ \A v \in Thread : pc'[v] = "initInsert" => pc[v] = "initInsert"
          /\ \A v \in Thread : pc[v] = "start" => pc'[v] = "start"
          /\ \A v \in Thread : pc[v] = "initInsert" => pc'[v] = "initInsert"
          /\ m_id_thread' = m_id_thread
      BY <1>1, <2>1 DEF Destroy
    <3>2. \A v \in Thread : ~InitialInsert(v)
      BY <1>1, <3>1 DEF InitialInsert, Goto
    <3>3. QED
      BY <1>4, <3>1, <3>2
  <2>2. QED
    BY <1>9, <1>10, <2>1 DEF CheckerStep, GetInitial, CheckBuild, SleepBuild, Explore, Finish,
      PrintCompleteInformation, Join, SpuriousWakeUpBuild, builder, vars
<1>11. QED
  BY <1>2, <1>3, <1>5, <1>7, <1>8, <1>10 DEF Next, BuilderStep

LEMMA FirstInvariant == Spec => []FirstInv
<1>1. Init => FirstInv
  BY DEF Init, FirstInv
<1>2. QED
  BY <1>1, FirstInvStep, TypeInvariant, PTL DEF Spec

LEMMA NoDuplicateStep ==
  ASSUME TypeInv, FirstInv, NoDuplicateAggregate, [Next]_vars
  PROVE  NoDuplicateAggregate'
<1>1. Grown /\ TypeOK
  BY GrownStep DEF TypeInv
<1>2. ASSUME State' = State
      PROVE  NoDuplicateAggregate'
  BY <1>1, <1>2 DEF NoDuplicateAggregate, Grown, Agg
<1>3. ASSUME NEW n, NEW s, Added(n, s), \A k \in State : Agg(k) # s.m_lddstate
      PROVE  NoDuplicateAggregate'
  BY <1>1, <1>3 DEF NoDuplicateAggregate, Grown, Agg, Added
<1>4. ASSUME NEW w \in Thread, InitialInsert(w)
      PROVE  NoDuplicateAggregate'
  <2>1. State = {}
    BY <1>4, EmptySeq DEF InitialInsert, FirstInv, State
  <2>2. QED
    BY <1>1, <1>3, <1>4, <2>1, InitialInsertEffect
<1>5. ASSUME NEW w \in Thread, InsertFind(w)
      PROVE  NoDuplicateAggregate'
  <2>1. NewState(reduced_meta(w)).m_lddstate = reduced_meta(w)
    BY DEF NewState
  <2>2. QED
    BY <1>2, <1>3, <1>5, <2>1, InsertFindEffect DEF State
<1>6. ASSUME NEW w \in Thread,
             \/ InitialPush(w) \/ Pop(w) \/ Popped(w) \/ Fire(w) \/ Push(w) \/ Notify(w)
             \/ SetFlags(w) \/ AddEdge(w) \/ Complete(w)
      PROVE  State' = State
  <2>1. CASE SetFlags(w) \/ AddEdge(w) \/ Complete(w)
    BY <2>1, SetFlagsEffect, AddEdgeEffect, CompleteEffect DEF Assigned
  <2>2. QED
    BY <1>6, <2>1 DEF InitialPush, Pop, Popped, Fire, Push, Notify, graph, State
<1>7. ASSUME GetInitial \/ Explore
      PROVE  State' = State
  BY <1>7, VisitEffect DEF Assigned
<1>8. QED
  BY <1>2, <1>4, <1>5, <1>6, <1>7, StepKinds DEF Quiet, Working, State

(* The graph never holds an aggregate twice. *)
THEOREM NoDuplicates == Spec => []NoDuplicateAggregate
<1>1. Init => NoDuplicateAggregate
  BY EmptySeq DEF Init, NoDuplicateAggregate, State
<1>2. QED
  BY <1>1, NoDuplicateStep, TypeInvariant, FirstInvariant, PTL DEF Spec

-----------------------------------------------------------------------------
(* No state is forgotten. *)

Covered(n) == m_GONodes[n].m_completed \/ Queued(n) \/ \E w \in Thread : Holds(w, n)

(* The checker never takes its verdict back. *)
LEMMA FinishStays ==
  ASSUME [Next]_vars, m_finish
  PROVE  m_finish'
<1> USE DEF flags
<1>1. ASSUME NEW w \in Thread, BuilderStep(w) \/ SpuriousWakeUp(w)
      PROVE  m_finish'
  BY <1>1 DEF BuilderStep, Start, InitialInsert, InitialPush, InitialNotify, InitialFinish, Lock,
    Check, CheckQueue, Sleep, Pop, Popped, Fire, InsertFind, SetFlags, Push, Notify, AddEdge,
    Complete, NotifyBuild, Until, SpuriousWakeUp
<1>2. ASSUME CheckerStep \/ SpuriousWakeUpBuild
      PROVE  m_finish'
  BY <1>2 DEF CheckerStep, GetInitial, CheckBuild, SleepBuild, Explore, Finish,
    PrintCompleteInformation, Destroy, Join, SpuriousWakeUpBuild
<1>3. CASE UNCHANGED vars
  BY <1>3 DEF vars
<1>4. QED
  BY <1>1, <1>2, <1>3 DEF Next

(* The steps that leave the queue and every builder's hands as they are. *)
LEMMA StillCovered ==
  ASSUME UNCHANGED m_common_stack, NEW n, Covered(n),
         m_GONodes[n].m_completed => m_GONodes'[n].m_completed,
         \A v \in Thread : Holds(v, n) => Holds(v, n)' \/ m_GONodes'[n].m_completed
  PROVE  Covered(n)'
BY DEF Covered, Queued

LEMMA CoveredStep ==
  ASSUME TypeInv, OwnerInv, [Next]_vars, ~m_finish, NEW n \in State, Covered(n)
  PROVE  Covered(n)'
<1> USE DEF Holding
<1>1. /\ TypeOK /\ pc \in [Thread -> BuilderPc]
      /\ e \in [Thread -> QueuedPair] /\ pos \in [Thread -> Nat]
      /\ m_common_stack \in Seq(QueuedPair)
  BY DEF TypeInv, TypeOK, QueuedPair
<1>2. m_GONodes[n].m_completed => m_GONodes'[n].m_completed
  BY FrozenStep
<1>3. ASSUME Quiet
      PROVE  Covered(n)'
  <2>1. \A v \in Thread : Holds(v, n) => Holds(v, n)'
    BY <1>3 DEF Quiet, Holds, Idle
  <2>2. QED
    BY <1>2, <1>3, <2>1, StillCovered DEF Quiet
<1>4. ASSUME NEW w \in Thread, NEW x,
             m_common_stack' = Append(m_common_stack, x), x \in QueuedPair,
             \A v \in Thread : Holds(v, n) => Holds(v, n)' \/ n = x.state
      PROVE  Covered(n)'
  <2>1. \A k : Queued(k)' <=> Queued(k) \/ k = x.state
    BY <1>1, <1>4, PushProperties DEF Queued
  <2>2. QED
    BY <1>2, <1>4, <2>1 DEF Covered
<1>5. ASSUME NEW w \in Thread, InitialInsert(w)
      PROVE  Covered(n)'
  <2>1. /\ pos' = [pos EXCEPT ![w] = Len(m_GONodes) + 1] /\ pc' = [pc EXCEPT ![w] = "initPush"]
        /\ UNCHANGED <<e, m_common_stack>> /\ pc[w] = "initInsert"
    BY <1>1, <1>5, InitialInsertEffect
  <2>2. \A v \in Thread : Holds(v, n) => Holds(v, n)'
    BY <1>1, <2>1 DEF Holds
  <2>3. QED
    BY <1>2, <2>1, <2>2, StillCovered
<1>6. ASSUME NEW w \in Thread, InitialPush(w)
      PROVE  Covered(n)'
  <2>1. /\ pc[w] = "initPush" /\ pc' = [pc EXCEPT ![w] = "initNotify"] /\ UNCHANGED <<e, pos>>
        /\ m_common_stack' = Append(m_common_stack, Pair(pos[w], FirableObs[InitialAggregate]))
    BY <1>6 DEF InitialPush, Goto
  <2>2. Pair(pos[w], FirableObs[InitialAggregate]) \in QueuedPair
    BY <1>1, SOGAssumption DEF Pair, QueuedPair
  <2>3. Pair(pos[w], FirableObs[InitialAggregate]).state = pos[w]
    BY DEF Pair
  <2>4. \A v \in Thread : Holds(v, n) => Holds(v, n)' \/ n = pos[w]
    BY <1>1, <2>1 DEF Holds
  <2>5. QED
    BY <1>4, <2>1, <2>2, <2>3, <2>4
<1>7. ASSUME NEW w \in Thread, Push(w)
      PROVE  Covered(n)'
  <2>1. /\ pc[w] = "push" /\ pc' = [pc EXCEPT ![w] = "notify"] /\ UNCHANGED <<e, pos>>
        /\ m_common_stack' = Append(m_common_stack, Pair(pos[w], FirableObs[reduced_meta(w)]))
    BY <1>7 DEF Push, Goto
  <2>2. Pair(pos[w], FirableObs[reduced_meta(w)]) \in QueuedPair
    BY <1>1, <2>1, FiringProperties DEF Pair, QueuedPair, Firing
  <2>3. Pair(pos[w], FirableObs[reduced_meta(w)]).state = pos[w]
    BY DEF Pair
  <2>4. \A v \in Thread : Holds(v, n) => Holds(v, n)' \/ n = pos[w]
    BY <1>1, <2>1 DEF Holds
  <2>5. QED
    BY <1>4, <2>1, <2>2, <2>3, <2>4
<1>8. ASSUME NEW w \in Thread, Pop(w)
      PROVE  Covered(n)'
  <2>1. CASE m_common_stack = <<>>
    <3>1. /\ pc' = [pc EXCEPT ![w] = "until"] /\ UNCHANGED <<e, pos, m_common_stack>>
          /\ pc[w] = "pop"
      BY <1>8, <2>1 DEF Pop, Goto
    <3>2. \A v \in Thread : Holds(v, n) => Holds(v, n)'
      BY <1>1, <3>1 DEF Holds
    <3>3. QED
      BY <1>2, <3>1, <3>2, StillCovered
  <2>2. CASE m_common_stack # <<>>
    <3>1. /\ pc' = [pc EXCEPT ![w] = "popped"] /\ pos' = pos
          /\ e' = [e EXCEPT ![w] = Head(m_common_stack)]
          /\ m_common_stack' = Tail(m_common_stack) /\ pc[w] = "pop"
      BY <1>8, <2>2 DEF Pop, Goto
    <3>2. \A v \in Thread : Holds(v, n) => Holds(v, n)'
      BY <1>1, <3>1 DEF Holds
    <3>3. ASSUME Queued(n), n # Head(m_common_stack).state
          PROVE  Queued(n)'
      <4>1. PICK i \in DOMAIN m_common_stack : m_common_stack[i].state = n
        BY <3>3 DEF Queued
      <4>2. /\ Head(m_common_stack) = m_common_stack[1]
            /\ i # 1 => /\ i - 1 \in DOMAIN m_common_stack'
                        /\ m_common_stack'[i - 1] = m_common_stack[i]
        BY <1>1, <2>2, <3>1, PopProperties
      <4>3. QED
        BY <3>3, <4>1, <4>2 DEF Queued
    <3>4. n = Head(m_common_stack).state => Holds(w, n)'
      BY <1>1, <3>1 DEF Holds
    <3>5. QED
      BY <1>2, <3>2, <3>3, <3>4 DEF Covered
  <2>3. QED
    BY <2>1, <2>2
<1>9. ASSUME NEW w \in Thread, Popped(w)
      PROVE  Covered(n)'
  <2>1. /\ pc' = [pc EXCEPT ![w] = "fire"]
        /\ pc[w] = "popped" /\ UNCHANGED <<e, pos, m_common_stack>>
    BY <1>9 DEF Popped, Goto
  <2>2. \A v \in Thread : Holds(v, n) => Holds(v, n)'
    BY <1>1, <2>1 DEF Holds
  <2>3. QED
    BY <1>2, <2>1, <2>2, StillCovered
<1>10. ASSUME NEW w \in Thread, Fire(w)
       PROVE  Covered(n)'
  <2>1. /\ pc' = [pc EXCEPT ![w] = "insert"] \/ pc' = [pc EXCEPT ![w] = "complete"]
        /\ pc[w] = "fire" /\ UNCHANGED <<pos, m_common_stack>>
    BY <1>10 DEF Fire, Goto
  <2>2. \A v \in Thread : e'[v].state = e[v].state
    BY <1>1, <1>10, FireKeepsState
  <2>3. \A v \in Thread : Holds(v, n) => Holds(v, n)'
    BY <1>1, <2>1, <2>2 DEF Holds
  <2>4. QED
    BY <1>2, <2>1, <2>3, StillCovered
<1>11. ASSUME NEW w \in Thread, InsertFind(w)
       PROVE  Covered(n)'
  <2>1. /\ pc[w] = "insert" /\ UNCHANGED <<e, m_common_stack>>
        /\ pc' = [pc EXCEPT ![w] = "edge"] \/ pc' = [pc EXCEPT ![w] = "flags"]
        /\ \E k : pos' = [pos EXCEPT ![w] = k]
    BY <1>11, InsertFindEffect
  <2>2. \A v \in Thread : Holds(v, n) => Holds(v, n)'
    BY <1>1, <2>1 DEF Holds
  <2>3. QED
    BY <1>2, <2>1, <2>2, StillCovered
<1>12. ASSUME NEW w \in Thread, SetFlags(w) \/ AddEdge(w)
       PROVE  Covered(n)'
  <2>1. /\ UNCHANGED <<e, pos, m_common_stack>>
        /\ \/ pc[w] = "flags" /\ pc' = [pc EXCEPT ![w] = "push"]
           \/ pc[w] = "edge" /\ pc' = [pc EXCEPT ![w] = "fire"]
    BY <1>12 DEF SetFlags, AddEdge, Goto
  <2>2. \A v \in Thread : Holds(v, n) => Holds(v, n)'
    BY <1>1, <2>1 DEF Holds
  <2>3. QED
    BY <1>2, <2>1, <2>2, StillCovered
<1>13. ASSUME NEW w \in Thread, Notify(w)
       PROVE  Covered(n)'
  <2>1. pc[w] = "notify" /\ NotifyOneBuilder(w, "edge") /\ UNCHANGED <<e, pos, m_common_stack>>
    BY <1>13 DEF Notify
  <2>2. /\ pc'[w] = "edge"
        /\ \A v \in Thread \ {w} : pc'[v] = pc[v] \/ (pc[v] = "waiting" /\ pc'[v] = "lock")
    BY <1>1, <2>1, NotifyOneProperties DEF BuilderPc
  <2>3. \A v \in Thread : Holds(v, n) => Holds(v, n)'
    BY <1>1, <2>1, <2>2 DEF Holds
  <2>4. QED
    BY <1>2, <2>1, <2>3, StillCovered
<1>14. ASSUME NEW w \in Thread, Complete(w)
       PROVE  Covered(n)'
  <2>1. /\ pc[w] = "complete" /\ pc' = [pc EXCEPT ![w] = "notifyBuild"]
        /\ UNCHANGED <<e, pos, m_common_stack>>
        /\ e[w].state = n => m_GONodes'[n] = [m_GONodes[n] EXCEPT !.m_completed = TRUE]
    BY <1>14, CompleteEffect DEF Assigned
  <2>2. m_GONodes[n] \in LDDState
    BY <1>1, StateProperties
  <2>3. e[w].state = n => m_GONodes'[n].m_completed
    BY <2>1, <2>2 DEF LDDState
  <2>4. \A v \in Thread : Holds(v, n) => Holds(v, n)' \/ e[w].state = n
    BY <1>1, <2>1 DEF Holds
  <2>5. QED
    BY <1>2, <2>1, <2>3, <2>4, StillCovered
<1>15. ASSUME GetInitial \/ Explore
       PROVE  Covered(n)'
  <2>1. UNCHANGED <<pc, e, pos, m_common_stack>>
    BY <1>15, VisitEffect
  <2>2. \A v \in Thread : Holds(v, n) => Holds(v, n)'
    BY <2>1 DEF Holds
  <2>3. QED
    BY <1>2, <2>1, <2>2, StillCovered
<1>16. QED
  BY <1>3, <1>5, <1>6, <1>7, <1>8, <1>9, <1>10, <1>11, <1>12, <1>13, <1>14, <1>15, StepKinds
  DEF Working

(* A state that appears is in the hands of the builder that inserts it. *)
LEMMA NewIsCovered ==
  ASSUME TypeInv, [Next]_vars, NEW n \in State', n \notin State
  PROVE  Covered(n)'
<1>1. /\ TypeOK /\ pc \in [Thread -> BuilderPc] /\ pos \in [Thread -> Nat]
  BY DEF TypeInv, TypeOK
<1>2. ASSUME NEW w \in Thread, InitialInsert(w)
      PROVE  Covered(n)'
  <2>1. PICK k : /\ Added(k, WithFlags(NewState(InitialAggregate)))
                 /\ pos' = [pos EXCEPT ![w] = k] /\ pc' = [pc EXCEPT ![w] = "initPush"]
    BY <1>1, <1>2, InitialInsertEffect
  <2>2. n = k
    BY <2>1 DEF Added
  <2>3. QED
    BY <1>1, <2>1, <2>2 DEF Covered, Holds
<1>3. ASSUME NEW w \in Thread, InsertFind(w)
      PROVE  Covered(n)'
  <2>1. PICK k : /\ Added(k, NewState(reduced_meta(w)))
                 /\ pos' = [pos EXCEPT ![w] = k] /\ pc' = [pc EXCEPT ![w] = "flags"]
    BY <1>3, InsertFindEffect DEF State
  <2>2. n = k
    BY <2>1 DEF Added
  <2>3. QED
    BY <1>1, <2>1, <2>2 DEF Covered, Holds
<1>4. ASSUME NEW w \in Thread,
             \/ InitialPush(w) \/ Pop(w) \/ Popped(w) \/ Fire(w) \/ Push(w) \/ Notify(w)
             \/ SetFlags(w) \/ AddEdge(w) \/ Complete(w)
      PROVE  State' = State
  <2>1. CASE SetFlags(w) \/ AddEdge(w) \/ Complete(w)
    BY <2>1, SetFlagsEffect, AddEdgeEffect, CompleteEffect DEF Assigned
  <2>2. QED
    BY <1>4, <2>1 DEF InitialPush, Pop, Popped, Fire, Push, Notify, graph, State
<1>5. ASSUME GetInitial \/ Explore
      PROVE  State' = State
  BY <1>5, VisitEffect DEF Assigned
<1>6. QED
  BY <1>2, <1>3, <1>4, <1>5, StepKinds DEF Quiet, Working, State

(* Until the checker has its verdict, a state that is not complete is in   *)
(* the queue or in the hands of a builder: no aggregate is left unbuilt.   *)
THEOREM NothingForgotten == Spec => []NoWorkLost
<1>1. Init => NoWorkLost
  BY EmptySeq DEF Init, NoWorkLost, State
<1>2. TypeInv /\ OwnerInv /\ NoWorkLost /\ [Next]_vars => NoWorkLost'
  <2> SUFFICES ASSUME TypeInv, OwnerInv, NoWorkLost, [Next]_vars, ~m_finish', NEW n \in State'
               PROVE  Covered(n)'
    BY DEF NoWorkLost, Covered
  <2>1. ~m_finish
    BY FinishStays
  <2>2. CASE n \in State
    BY <2>1, <2>2, CoveredStep DEF NoWorkLost, Covered
  <2>3. CASE n \notin State
    BY <2>3, NewIsCovered
  <2>4. QED
    BY <2>2, <2>3
<1>3. QED
  BY <1>1, <1>2, TypeInvariant, OwnerInvariant, PTL DEF Spec

-----------------------------------------------------------------------------
(* What the checker reads is final. *)

FlagsSet(n) ==
  /\ m_GONodes[n].m_blocage = (Agg(n) \in Deadlocked)
  /\ m_GONodes[n].m_boucle = (Agg(n) \in Divergent)

(* A state nobody has fired a transition from. *)
Unfired(n) == m_GONodes[n].Successors = <<>>

Final(n) == FlagsSet(n) /\ TransitionsOf(m_GONodes[n]) = FirableObs[Agg(n)]

(* The transition a builder has taken from its set and not linked yet. *)
InHand(w) == IF pc[w] \in Firing THEN {t[w]} ELSE {}

(* What a builder has linked, what it has in hand and what it has still to *)
(* fire make up the observable transitions of the state it works on.       *)
WorkOK(w) ==
  /\ pc[w] \in Holding =>
       /\ FlagsSet(e[w].state)
       /\ TransitionsOf(m_GONodes[e[w].state]) \cup InHand(w) \cup e[w].fire
            = FirableObs[Agg(e[w].state)]
  /\ pc[w] \in {"flags", "push", "initPush"} => Unfired(pos[w])
  /\ pc[w] \in {"push", "initPush"} => FlagsSet(pos[w])
  /\ pc[w] = "complete" /\ ~m_finish => e[w].fire = {}

Fresh(n) == Unfired(n) /\ FlagsSet(n)

QueueFresh == \A i \in DOMAIN m_common_stack : Fresh(m_common_stack[i].state)

VerdictOK == m_finish <=> mcPc \in {"print", "destroy", "join", "end"}

FinalInv ==
  /\ \A w \in Thread : WorkOK(w)
  /\ QueueFresh
  /\ ~m_finish => \A n \in State : m_GONodes[n].m_completed => Final(n)
  /\ VerdictOK

(* The step leaves alone what a state says of itself. *)
SameWork(n) ==
  /\ m_GONodes'[n].m_lddstate = m_GONodes[n].m_lddstate
  /\ m_GONodes'[n].Successors = m_GONodes[n].Successors
  /\ m_GONodes'[n].m_blocage = m_GONodes[n].m_blocage
  /\ m_GONodes'[n].m_boucle = m_GONodes[n].m_boucle

LEMMA SameWorkProperties ==
  ASSUME NEW n, SameWork(n)
  PROVE  /\ Agg(n)' = Agg(n) /\ FlagsSet(n)' = FlagsSet(n) /\ Unfired(n)' = Unfired(n)
         /\ TransitionsOf(m_GONodes'[n]) = TransitionsOf(m_GONodes[n])
         /\ Final(n)' = Final(n)
BY DEF SameWork, Agg, FlagsSet, Unfired, TransitionsOf, Final

(* Only its owner, setting flags or linking, works on a state. *)
LEMMA WorkedOn ==
  ASSUME TypeInv, [Next]_vars, NEW n \in State
  PROVE  \/ SameWork(n)
         \/ \E w \in Thread : \/ SetFlags(w) /\ pos[w] = n
                              \/ AddEdge(w) /\ e[w].state = n
<1>1. TypeOK /\ m_GONodes[n] \in LDDState
  BY StateProperties DEF TypeInv
<1>2. ASSUME NEW w \in Thread, InitialInsert(w)
      PROVE  SameWork(n)
  BY <1>1, <1>2, InitialInsertEffect DEF Added, SameWork
<1>3. ASSUME NEW w \in Thread, InsertFind(w)
      PROVE  SameWork(n)
  BY <1>3, InsertFindEffect DEF Added, SameWork
<1>4. ASSUME NEW w \in Thread, SetFlags(w), pos[w] # n
      PROVE  SameWork(n)
  BY <1>4, SetFlagsEffect DEF Assigned, SameWork
<1>5. ASSUME NEW w \in Thread, AddEdge(w), e[w].state # n
      PROVE  SameWork(n)
  BY <1>5, AddEdgeEffect DEF SameButEdges, SameWork
<1>6. ASSUME NEW w \in Thread, Complete(w)
      PROVE  SameWork(n)
  <2>1. \/ m_GONodes'[n] = m_GONodes[n]
        \/ m_GONodes'[n] = [m_GONodes[n] EXCEPT !.m_completed = TRUE]
    BY <1>6, CompleteEffect DEF Assigned
  <2>2. QED
    BY <1>1, <2>1 DEF LDDState, SameWork
<1>7. ASSUME GetInitial \/ Explore
      PROVE  SameWork(n)
  <2>1. PICK k \in State : Assigned(k, [m_GONodes[k] EXCEPT !.m_visited = TRUE])
    BY <1>7, VisitEffect
  <2>2. \/ m_GONodes'[n] = m_GONodes[n]
        \/ m_GONodes'[n] = [m_GONodes[n] EXCEPT !.m_visited = TRUE]
    BY <2>1 DEF Assigned
  <2>3. QED
    BY <1>1, <2>2 DEF LDDState, SameWork
<1>8. ASSUME NEW w \in Thread,
             InitialPush(w) \/ Pop(w) \/ Popped(w) \/ Fire(w) \/ Push(w) \/ Notify(w)
      PROVE  SameWork(n)
  BY <1>8 DEF InitialPush, Pop, Popped, Fire, Push, Notify, graph, SameWork
<1>9. ASSUME Quiet
      PROVE  SameWork(n)
  BY <1>9 DEF Quiet, SameWork
<1>10. QED
  BY <1>2, <1>3, <1>4, <1>5, <1>6, <1>7, <1>8, <1>9, StepKinds DEF Working

(* A state another builder owns, or the queue, is not worked on. *)
LEMMA OwnedIsSame ==
  ASSUME TypeInv, OwnerInv, [Next]_vars, NEW v \in Thread, NEW n \in State, Holds(v, n),
         ~SetFlags(v), ~AddEdge(v)
  PROVE  SameWork(n)
<1>1. ASSUME NEW w \in Thread, (SetFlags(w) /\ pos[w] = n) \/ (AddEdge(w) /\ e[w].state = n)
      PROVE  FALSE
  <2>1. Holds(w, n)
    BY <1>1 DEF SetFlags, AddEdge, Holds, Holding
  <2>2. w = v
    BY <2>1 DEF OwnerInv, SingleOwner
  <2>3. QED
    BY <1>1, <2>2
<1>2. QED
  BY <1>1, WorkedOn

LEMMA QueuedIsSame ==
  ASSUME TypeInv, OwnerInv, [Next]_vars, NEW n \in State, Queued(n)
  PROVE  SameWork(n)
<1>1. ASSUME NEW w \in Thread, (SetFlags(w) /\ pos[w] = n) \/ (AddEdge(w) /\ e[w].state = n)
      PROVE  FALSE
  <2>1. Holds(w, n)
    BY <1>1 DEF SetFlags, AddEdge, Holds, Holding
  <2>2. QED
    BY <2>1 DEF OwnerInv, SingleOwner
<1>2. QED
  BY <1>1, WorkedOn

LEMMA NoTransitionYet ==
  ASSUME NEW n, Unfired(n)
  PROVE  TransitionsOf(m_GONodes[n]) = {}
BY EmptySeq DEF Unfired, TransitionsOf

(* A builder whose state the step does not work on. *)
LEMMA WorkKept ==
  ASSUME TypeInv, OwnerInv, FinalInv, [Next]_vars, NEW v \in Thread,
         pc'[v] = pc[v], e'[v] = e[v], t'[v] = t[v], pos'[v] = pos[v],
         ~SetFlags(v), ~AddEdge(v)
  PROVE  WorkOK(v)'
<1>1. WorkOK(v) /\ (m_finish => m_finish')
  BY FinishStays DEF FinalInv
<1>2. pc[v] \in Holding => e[v].state \in State /\ SameWork(e[v].state)
  BY OwnedStates, OwnedIsSame DEF Holds
<1>3. pc[v] \in {"flags", "push", "initPush"} => pos[v] \in State /\ SameWork(pos[v])
  BY OwnedStates, OwnedIsSame DEF Holds
<1>4. InHand(v)' = InHand(v)
  BY DEF InHand
<1>5. pc[v] \in Holding =>
        /\ FlagsSet(e[v].state)'
        /\ TransitionsOf(m_GONodes'[e[v].state]) \cup InHand(v)' \cup e'[v].fire
             = FirableObs[Agg(e[v].state)']
  BY <1>1, <1>2, <1>4, SameWorkProperties DEF WorkOK
<1>6. pc[v] \in {"flags", "push", "initPush"} => Unfired(pos[v])'
  BY <1>1, <1>3, SameWorkProperties DEF WorkOK
<1>7. pc[v] \in {"push", "initPush"} => FlagsSet(pos[v])'
  BY <1>1, <1>3, SameWorkProperties DEF WorkOK
<1>8. QED
  BY <1>1, <1>5, <1>6, <1>7 DEF WorkOK

LEMMA WorkIdle ==
  ASSUME NEW v \in Thread, pc'[v] \in Idle
  PROVE  WorkOK(v)'
BY DEF WorkOK, Idle, Holding

(* The builder that moves, when it neither sets flags nor links. *)
LEMMA OwnWork ==
  ASSUME TypeInv, OwnerInv, FinalInv, [Next]_vars, NEW w \in Thread, pc[w] \in Holding,
         ~SetFlags(w), ~AddEdge(w)
  PROVE  /\ e[w].state \in State
         /\ m_GONodes'[e[w].state].m_lddstate = Agg(e[w].state)
         /\ FlagsSet(e[w].state)
         /\ m_GONodes'[e[w].state].m_blocage = (Agg(e[w].state) \in Deadlocked)
         /\ m_GONodes'[e[w].state].m_boucle = (Agg(e[w].state) \in Divergent)
         /\ TransitionsOf(m_GONodes'[e[w].state]) = TransitionsOf(m_GONodes[e[w].state])
         /\ TransitionsOf(m_GONodes[e[w].state]) \cup InHand(w) \cup e[w].fire
              = FirableObs[Agg(e[w].state)]
<1>1. Holds(w, e[w].state) /\ e[w].state \in State
  BY OwnedStates DEF Holds
<1>2. SameWork(e[w].state)
  BY <1>1, OwnedIsSame
<1>3. WorkOK(w)
  BY DEF FinalInv
<1>4. QED
  BY <1>1, <1>2, <1>3, SameWorkProperties DEF WorkOK, SameWork, FlagsSet, Agg

(* The builders that do not move in a step, or only wake up in it. *)
LEMMA OthersWork ==
  ASSUME TypeInv, OwnerInv, FinalInv, [Next]_vars, NEW S \in SUBSET Thread,
         \A v \in S : /\ pc'[v] = pc[v] \/ pc'[v] \in Idle
                     /\ e'[v] = e[v] /\ t'[v] = t[v] /\ pos'[v] = pos[v]
  PROVE  \A v \in S : WorkOK(v)'
<1> SUFFICES ASSUME NEW v \in S PROVE WorkOK(v)'
  OBVIOUS
<1>1. CASE pc'[v] = pc[v]
  <2>1. pc \in [Thread -> BuilderPc]
    BY DEF TypeInv, TypeOK
  <2>2. ~SetFlags(v) /\ ~AddEdge(v)
    BY <1>1, <2>1 DEF SetFlags, AddEdge, Goto
  <2>3. QED
    BY <1>1, <2>2, WorkKept
<1>2. CASE pc'[v] \in Idle
  BY <1>2, WorkIdle
<1>3. QED
  BY <1>1, <1>2

LEMMA WorkStep ==
  ASSUME TypeInv, OwnerInv, FinalInv, [Next]_vars
  PROVE  \A v \in Thread : WorkOK(v)'
<1>1. /\ TypeOK /\ pc \in [Thread -> BuilderPc] /\ e \in [Thread -> QueuedPair]
      /\ t \in [Thread -> Transition \cup {NoTransition}] /\ pos \in [Thread -> Nat]
      /\ m_common_stack \in Seq(QueuedPair)
  BY DEF TypeInv, TypeOK, QueuedPair
<1>2. ASSUME NEW w \in Thread, pc[w] \in {"popped", "notify", "push"},
             pc'[w] \in {"fire", "edge", "notify"},
             pc'[w] \in Firing <=> pc[w] \in Firing,
             UNCHANGED <<e, t, pos>>
      PROVE  WorkOK(w)'
  <2>1. ~SetFlags(w) /\ ~AddEdge(w)
    BY <1>2 DEF SetFlags, AddEdge
  <2>2. InHand(w)' = InHand(w)
    BY <1>2 DEF InHand
  <2>3. QED
    BY <1>2, <2>1, <2>2, OwnWork DEF WorkOK, Holding, FlagsSet, Agg
<1>3. ASSUME Quiet
      PROVE  \A v \in Thread : WorkOK(v)'
  <2>1. \A v \in Thread : pc'[v] = pc[v] \/ pc'[v] \in Idle
    BY <1>3 DEF Quiet
  <2>2. QED
    BY <1>3, <2>1, OthersWork DEF Quiet
<1>4. ASSUME NEW w \in Thread, InitialInsert(w)
      PROVE  \A v \in Thread : WorkOK(v)'
  <2>1. PICK n : /\ Added(n, WithFlags(NewState(InitialAggregate)))
                 /\ pos' = [pos EXCEPT ![w] = n] /\ pc' = [pc EXCEPT ![w] = "initPush"]
                 /\ UNCHANGED <<e, t>>
    BY <1>1, <1>4, InitialInsertEffect
  <2>2. NewState(InitialAggregate) \in LDDState /\ NewState(InitialAggregate).Successors = <<>>
    BY SOGAssumption, NewStateType DEF NewState
  <2>3. m_GONodes'[n].Successors = <<>> /\ FlagsSet(n)'
    BY <2>1, <2>2, WithFlagsType DEF Added, FlagsSet, Agg
  <2>4. WorkOK(w)'
    BY <1>1, <2>1, <2>3 DEF WorkOK, Holding, Unfired, FlagsSet, Agg
  <2>5. \A v \in Thread \ {w} : WorkOK(v)'
    BY <1>1, <2>1, OthersWork
  <2>6. QED
    BY <2>4, <2>5
<1>5. ASSUME NEW w \in Thread, InitialPush(w) \/ Complete(w)
      PROVE  \A v \in Thread : WorkOK(v)'
  <2>1. /\ pc' = [pc EXCEPT ![w] = "initNotify"] \/ pc' = [pc EXCEPT ![w] = "notifyBuild"]
        /\ UNCHANGED <<e, t, pos>>
    BY <1>5 DEF InitialPush, Complete, Goto
  <2>2. WorkOK(w)'
    BY <1>1, <2>1, WorkIdle DEF Idle, BuilderPc, Holding
  <2>3. \A v \in Thread \ {w} : WorkOK(v)'
    BY <1>1, <2>1, OthersWork
  <2>4. QED
    BY <2>2, <2>3
<1>6. ASSUME NEW w \in Thread, Pop(w)
      PROVE  \A v \in Thread : WorkOK(v)'
  <2>1. CASE m_common_stack = <<>>
    <3>1. pc' = [pc EXCEPT ![w] = "until"] /\ UNCHANGED <<e, t, pos>>
      BY <1>6, <2>1 DEF Pop, Goto
    <3>2. WorkOK(w)'
      BY <1>1, <3>1, WorkIdle DEF Idle, BuilderPc, Holding
    <3>3. \A v \in Thread \ {w} : WorkOK(v)'
      BY <1>1, <3>1, OthersWork
    <3>4. QED
      BY <3>2, <3>3
  <2>2. CASE m_common_stack # <<>>
    <3>1. PICK x : x = Head(m_common_stack)
      OBVIOUS
    <3>2. /\ pc' = [pc EXCEPT ![w] = "popped"] /\ e' = [e EXCEPT ![w] = x]
          /\ UNCHANGED <<t, pos>>
      BY <1>6, <2>2, <3>1 DEF Pop, Goto
    <3>3. 1 \in DOMAIN m_common_stack /\ x = m_common_stack[1]
      BY <1>1, <2>2, <3>1, PopProperties
    <3>4. /\ x.state \in State /\ x.fire = FirableObs[Agg(x.state)]
          /\ Queued(x.state) /\ Unfired(x.state) /\ FlagsSet(x.state)
      BY <3>3 DEF TypeInv, QueueOK, Queued, FinalInv, QueueFresh, Fresh
    <3>5. SameWork(x.state) /\ TransitionsOf(m_GONodes[x.state]) = {}
      BY <3>4, QueuedIsSame, NoTransitionYet
    <3>6. /\ TransitionsOf(m_GONodes'[x.state]) = {}
          /\ m_GONodes'[x.state].m_lddstate = Agg(x.state)
          /\ m_GONodes'[x.state].m_blocage = (Agg(x.state) \in Deadlocked)
          /\ m_GONodes'[x.state].m_boucle = (Agg(x.state) \in Divergent)
      BY <3>4, <3>5 DEF SameWork, TransitionsOf, FlagsSet, Agg
    <3>7. e'[w] = x /\ pc'[w] = "popped"
      BY <1>1, <3>2
    <3>8. WorkOK(w)'
      BY <3>4, <3>6, <3>7 DEF WorkOK, FlagsSet, Agg, InHand, Firing
    <3>9. \A v \in Thread \ {w} : WorkOK(v)'
      BY <1>1, <3>2, OthersWork
    <3>10. QED
      BY <3>8, <3>9
  <2>3. QED
    BY <2>1, <2>2
<1>7. ASSUME NEW w \in Thread, Popped(w)
      PROVE  \A v \in Thread : WorkOK(v)'
  <2>1. /\ pc' = [pc EXCEPT ![w] = "until"] \/ pc' = [pc EXCEPT ![w] = "fire"]
        /\ pc[w] = "popped" /\ UNCHANGED <<e, t, pos>>
    BY <1>7 DEF Popped, Goto
  <2>2. WorkOK(w)'
    BY <1>1, <1>2, <2>1, WorkIdle DEF Idle, BuilderPc, Holding, Firing
  <2>3. \A v \in Thread \ {w} : WorkOK(v)'
    BY <1>1, <2>1, OthersWork
  <2>4. QED
    BY <2>2, <2>3
<1>8. ASSUME NEW w \in Thread, Fire(w)
      PROVE  \A v \in Thread : WorkOK(v)'
  <2>1. pc[w] = "fire" /\ pos' = pos /\ ~SetFlags(w) /\ ~AddEdge(w)
    BY <1>8 DEF Fire, SetFlags, AddEdge
  <2>2. CASE /\ pc' = [pc EXCEPT ![w] = "complete"] /\ UNCHANGED <<e, t, m_finish>>
             /\ m_finish \/ e[w].fire = {}
    <3>1. pc'[w] = "complete" /\ InHand(w)' = InHand(w) /\ (~m_finish' => e[w].fire = {})
      BY <1>1, <2>1, <2>2 DEF InHand, Firing
    <3>2. WorkOK(w)'
      BY <2>1, <2>2, <3>1, OwnWork DEF WorkOK, Holding, FlagsSet, Agg
    <3>3. \A v \in Thread \ {w} : WorkOK(v)'
      BY <1>1, <2>1, <2>2, OthersWork
    <3>4. QED
      BY <3>2, <3>3
  <2>3. CASE \E u \in e[w].fire : /\ t' = [t EXCEPT ![w] = u]
                                  /\ e' = [e EXCEPT ![w].fire = @ \ {u}]
                                  /\ pc' = [pc EXCEPT ![w] = "insert"]
    <3>1. PICK u \in e[w].fire : /\ t' = [t EXCEPT ![w] = u]
                                 /\ e' = [e EXCEPT ![w].fire = @ \ {u}]
                                 /\ pc' = [pc EXCEPT ![w] = "insert"]
      BY <2>3
    <3>2. /\ e'[w].state = e[w].state /\ e'[w].fire = e[w].fire \ {u}
          /\ pc'[w] = "insert" /\ t'[w] = u
      BY <1>1, <3>1 DEF QueuedPair
    <3>3. InHand(w)' = {u} /\ InHand(w) = {}
      BY <2>1, <3>2 DEF InHand, Firing
    <3>4. InHand(w)' \cup e'[w].fire = InHand(w) \cup e[w].fire
      BY <3>2, <3>3
    <3>5. /\ m_GONodes'[e[w].state].m_lddstate = Agg(e[w].state)
          /\ m_GONodes'[e[w].state].m_blocage = (Agg(e[w].state) \in Deadlocked)
          /\ m_GONodes'[e[w].state].m_boucle = (Agg(e[w].state) \in Divergent)
          /\ TransitionsOf(m_GONodes'[e[w].state]) \cup InHand(w) \cup e[w].fire
               = FirableObs[Agg(e[w].state)]
      BY <2>1, OwnWork DEF Holding
    <3>6. TransitionsOf(m_GONodes'[e[w].state]) \cup InHand(w)' \cup e'[w].fire
            = FirableObs[Agg(e[w].state)]
      BY <3>4, <3>5
    <3>7. WorkOK(w)'
      BY <3>2, <3>5, <3>6 DEF WorkOK, FlagsSet, Agg
    <3>8. \A v \in Thread \ {w} : WorkOK(v)'
      BY <1>1, <2>1, <3>1, OthersWork
    <3>9. QED
      BY <3>7, <3>8
  <2>4. QED
    BY <1>8, <2>2, <2>3 DEF Fire, Goto, flags
<1>9. ASSUME NEW w \in Thread, InsertFind(w)
      PROVE  \A v \in Thread : WorkOK(v)'
  <2>1. /\ pc[w] = "insert" /\ UNCHANGED <<e, t>> /\ ~SetFlags(w) /\ ~AddEdge(w)
        /\ \E k, label : /\ pos' = [pos EXCEPT ![w] = k] /\ pc' = [pc EXCEPT ![w] = label]
                         /\ \/ label = "edge"
                            \/ label = "flags" /\ Added(k, NewState(reduced_meta(w)))
    BY <1>9, InsertFindEffect DEF SetFlags, AddEdge
  <2>2. PICK k, label : /\ pos' = [pos EXCEPT ![w] = k] /\ pc' = [pc EXCEPT ![w] = label]
                        /\ \/ label = "edge"
                           \/ label = "flags" /\ Added(k, NewState(reduced_meta(w)))
    BY <2>1
  <2>3. pc'[w] = label /\ pos'[w] = k /\ InHand(w)' = InHand(w)
    BY <1>1, <2>1, <2>2 DEF InHand, Firing
  <2>4. label = "flags" => Unfired(k)'
    BY <2>2 DEF Unfired, Added, NewState
  <2>5. WorkOK(w)'
    BY <2>1, <2>2, <2>3, <2>4, OwnWork DEF WorkOK, Holding, FlagsSet, Agg, Unfired
  <2>6. \A v \in Thread \ {w} : WorkOK(v)'
    BY <1>1, <2>1, <2>2, OthersWork
  <2>7. QED
    BY <2>5, <2>6
<1>10. ASSUME NEW w \in Thread, SetFlags(w)
       PROVE  \A v \in Thread : WorkOK(v)'
  <2>1. /\ pos[w] \in State /\ Assigned(pos[w], WithFlags(m_GONodes[pos[w]]))
        /\ pc[w] = "flags" /\ pc' = [pc EXCEPT ![w] = "push"] /\ UNCHANGED <<e, t, pos>>
    BY <1>10, SetFlagsEffect
  <2>2. /\ e[w].state # pos[w] /\ e[w].state \in State
        /\ WorkOK(w)
    BY <2>1 DEF OwnerInv, DistinctPos, TypeInv, BuilderOK, Holding, FinalInv
  <2>3. m_GONodes'[e[w].state] = m_GONodes[e[w].state]
    BY <2>1, <2>2 DEF Assigned
  <2>4. m_GONodes[pos[w]] \in LDDState
    BY <1>1, <2>1, StateProperties
  <2>5. m_GONodes'[pos[w]] = WithFlags(m_GONodes[pos[w]])
    BY <2>1 DEF Assigned
  <2>6. /\ m_GONodes'[pos[w]].Successors = <<>>
        /\ m_GONodes'[pos[w]].m_blocage = (m_GONodes'[pos[w]].m_lddstate \in Deadlocked)
        /\ m_GONodes'[pos[w]].m_boucle = (m_GONodes'[pos[w]].m_lddstate \in Divergent)
    BY <2>1, <2>2, <2>4, <2>5, WithFlagsType DEF WorkOK, Unfired
  <2>7. pc'[w] = "push" /\ InHand(w)' = InHand(w)
    BY <1>1, <2>1 DEF InHand, Firing
  <2>8. WorkOK(w)'
    BY <2>1, <2>2, <2>3, <2>6, <2>7 DEF WorkOK, Holding, FlagsSet, Agg, Unfired
  <2>9. \A v \in Thread \ {w} : WorkOK(v)'
    BY <1>1, <2>1, OthersWork
  <2>10. QED
    BY <2>8, <2>9
<1>11. ASSUME NEW w \in Thread, Push(w)
       PROVE  \A v \in Thread : WorkOK(v)'
  <2>1. pc[w] = "push" /\ pc' = [pc EXCEPT ![w] = "notify"] /\ UNCHANGED <<e, t, pos>>
    BY <1>11 DEF Push, Goto
  <2>2. WorkOK(w)'
    BY <1>1, <1>2, <2>1 DEF Firing
  <2>3. \A v \in Thread \ {w} : WorkOK(v)'
    BY <1>1, <2>1, OthersWork
  <2>4. QED
    BY <2>2, <2>3
<1>12. ASSUME NEW w \in Thread, Notify(w)
       PROVE  \A v \in Thread : WorkOK(v)'
  <2>1. pc[w] = "notify" /\ NotifyOneBuilder(w, "edge") /\ UNCHANGED <<e, t, pos>>
    BY <1>12 DEF Notify
  <2>2. /\ pc'[w] = "edge"
        /\ \A v \in Thread \ {w} : pc'[v] = pc[v] \/ (pc[v] = "waiting" /\ pc'[v] = "lock")
    BY <1>1, <2>1, NotifyOneProperties DEF BuilderPc, Holding
  <2>3. WorkOK(w)'
    BY <1>1, <1>2, <2>1, <2>2 DEF Firing
  <2>4. \A v \in Thread \ {w} : WorkOK(v)'
    BY <1>1, <2>1, <2>2, OthersWork DEF Idle, BuilderPc, Holding
  <2>5. QED
    BY <2>3, <2>4
<1>13. ASSUME NEW w \in Thread, AddEdge(w)
       PROVE  \A v \in Thread : WorkOK(v)'
  <2>1. PICK h : h = e[w].state
    OBVIOUS
  <2>2. /\ h \in State /\ pos[w] \in State
        /\ SameButEdges(m_GONodes[h], m_GONodes'[h])
        /\ m_GONodes'[h].Successors = <<[to |-> pos[w], t |-> t[w]]>> \o m_GONodes[h].Successors
        /\ pc[w] = "edge" /\ pc' = [pc EXCEPT ![w] = "fire"] /\ UNCHANGED <<e, t, pos>>
    BY <1>13, <2>1, AddEdgeEffect
  <2>3. m_GONodes[h] \in LDDState /\ pos[w] \in Nat /\ t[w] \in Transition
    BY <1>1, <2>2, StateProperties, FiringProperties DEF Firing
  <2>4. TransitionsOf(m_GONodes'[h]) = TransitionsOf(m_GONodes[h]) \cup {t[w]}
    <3>1. PICK s, r, to, u : s = m_GONodes[h] /\ r = m_GONodes'[h] /\ to = pos[w] /\ u = t[w]
      OBVIOUS
    <3>2. /\ s \in LDDState /\ to \in Nat /\ u \in Transition
          /\ r.Successors = <<[to |-> to, t |-> u]>> \o s.Successors
      BY <2>2, <2>3, <3>1
    <3>3. TransitionsOf(r) = TransitionsOf(s) \cup {u}
      BY <3>2, LinkedTransitions
    <3>4. QED
      BY <3>1, <3>3
  <2>5. /\ FlagsSet(h)
        /\ TransitionsOf(m_GONodes[h]) \cup {t[w]} \cup e[w].fire = FirableObs[Agg(h)]
    BY <2>1, <2>2 DEF FinalInv, WorkOK, Holding, InHand, Firing
  <2>6. pc'[w] = "fire" /\ InHand(w)' = {} /\ e'[w].state = h /\ e'[w].fire = e[w].fire
    BY <1>1, <2>1, <2>2 DEF InHand, Firing
  <2>7. TransitionsOf(m_GONodes'[h]) \cup InHand(w)' \cup e'[w].fire = FirableObs[Agg(h)]
    BY <2>4, <2>5, <2>6
  <2>8. WorkOK(w)'
    BY <2>2, <2>5, <2>6, <2>7 DEF WorkOK, SameButEdges, FlagsSet, Agg
  <2>9. \A v \in Thread \ {w} : WorkOK(v)'
    BY <1>1, <2>2, OthersWork
  <2>10. QED
    BY <2>8, <2>9
<1>14. ASSUME GetInitial \/ Explore
       PROVE  \A v \in Thread : WorkOK(v)'
  BY <1>14, VisitEffect, OthersWork
<1>15. QED
  BY <1>3, <1>4, <1>5, <1>6, <1>7, <1>8, <1>9, <1>10, <1>11, <1>12, <1>13, <1>14, StepKinds
  DEF Working

LEMMA QueueFreshStep ==
  ASSUME TypeInv, OwnerInv, FinalInv, [Next]_vars
  PROVE  QueueFresh'
<1>1. /\ TypeOK /\ m_common_stack \in Seq(QueuedPair) /\ QueueFresh
  BY DEF TypeInv, TypeOK, QueuedPair, FinalInv
<1>2. ASSUME NEW n \in State, Fresh(n), SameWork(n)
      PROVE  Fresh(n)'
  BY <1>2, SameWorkProperties DEF Fresh
<1>3. ASSUME NEW n, Queued(n)
      PROVE  Fresh(n)'
  <2>1. n \in State /\ Fresh(n)
    BY <1>1, <1>3, OwnedStates DEF Queued, QueueFresh
  <2>2. QED
    BY <1>2, <1>3, <2>1, QueuedIsSame
<1>4. ASSUME \A i \in DOMAIN m_common_stack' :
               \/ Queued(m_common_stack'[i].state)
               \/ \E n : m_common_stack'[i].state = n /\ Fresh(n)'
      PROVE  QueueFresh'
  <2> SUFFICES ASSUME NEW i \in DOMAIN m_common_stack'
               PROVE  \A n : n = m_common_stack'[i].state => Fresh(n)'
    BY DEF QueueFresh, Fresh, Unfired, FlagsSet, Agg
  <2>1. QED
    BY <1>3, <1>4
<1>5. ASSUME UNCHANGED m_common_stack
      PROVE  QueueFresh'
  <2>1. \A i \in DOMAIN m_common_stack' : Queued(m_common_stack'[i].state)
    BY <1>5 DEF Queued
  <2>2. QED
    BY <1>4, <2>1
<1>6. ASSUME NEW w \in Thread, pc[w] \in {"push", "initPush"}, pos[w] \in State,
             NEW F \in SUBSET Transition,
             m_common_stack' = Append(m_common_stack, Pair(pos[w], F))
      PROVE  QueueFresh'
  <2>1. Fresh(pos[w]) /\ ~SetFlags(w) /\ ~AddEdge(w) /\ Holds(w, pos[w])
    BY <1>6 DEF FinalInv, WorkOK, SetFlags, AddEdge, Holds, Fresh
  <2>2. PICK n \in State : n = pos[w]
    BY <1>6
  <2>3. Fresh(n)'
    BY <1>2, <2>1, <2>2, OwnedIsSame
  <2>4. Pair(n, F) \in QueuedPair
    BY <1>1, StateProperties DEF Pair, QueuedPair
  <2>5. /\ DOMAIN m_common_stack' = DOMAIN m_common_stack \cup {Len(m_common_stack) + 1}
        /\ \A i \in DOMAIN m_common_stack : m_common_stack'[i] = m_common_stack[i]
        /\ m_common_stack'[Len(m_common_stack) + 1].state = n
    BY <1>1, <1>6, <2>2, <2>4, PushProperties DEF Pair
  <2>6. \A i \in DOMAIN m_common_stack : Queued(m_common_stack'[i].state)
    BY <2>5 DEF Queued
  <2>7. QED
    BY <1>4, <2>3, <2>5, <2>6
<1>7. ASSUME NEW w \in Thread, InitialPush(w)
      PROVE  QueueFresh'
  <2>1. pc[w] = "initPush" /\ pos[w] \in State /\ FirableObs[InitialAggregate] \subseteq Transition
    BY <1>7, SOGAssumption, FirableProperties DEF InitialPush, TypeInv, BuilderOK
  <2>2. QED
    BY <1>6, <1>7, <2>1 DEF InitialPush
<1>8. ASSUME NEW w \in Thread, Push(w)
      PROVE  QueueFresh'
  <2>1. pc[w] = "push" /\ pos[w] \in State
    BY <1>8 DEF Push, TypeInv, BuilderOK, Firing
  <2>2. FirableObs[reduced_meta(w)] \subseteq Transition
    BY <2>1, FiringProperties DEF Firing
  <2>3. QED
    BY <1>6, <1>8, <2>1, <2>2 DEF Push
<1>9. ASSUME NEW w \in Thread, Pop(w)
      PROVE  QueueFresh'
  <2>1. CASE m_common_stack = <<>>
    BY <1>5, <1>9, <2>1 DEF Pop
  <2>2. CASE m_common_stack # <<>>
    <3>1. m_common_stack' = Tail(m_common_stack)
      BY <1>9, <2>2 DEF Pop
    <3>2. \A i \in DOMAIN Tail(m_common_stack) :
            /\ i + 1 \in DOMAIN m_common_stack
            /\ Tail(m_common_stack)[i] = m_common_stack[i + 1]
      BY <1>1, <2>2, PopProperties
    <3>3. \A i \in DOMAIN m_common_stack' : Queued(m_common_stack'[i].state)
      BY <3>1, <3>2 DEF Queued
    <3>4. QED
      BY <1>4, <3>3
  <2>3. QED
    BY <2>1, <2>2
<1>10. ASSUME NEW w \in Thread,
              \/ InitialInsert(w) \/ Popped(w) \/ Fire(w) \/ InsertFind(w) \/ SetFlags(w)
              \/ Notify(w) \/ AddEdge(w) \/ Complete(w)
       PROVE  UNCHANGED m_common_stack
  BY <1>10 DEF InitialInsert, Popped, Fire, InsertFind, SetFlags, Notify, AddEdge, Complete
<1>11. ASSUME GetInitial \/ Explore
       PROVE  UNCHANGED m_common_stack
  BY <1>11, VisitEffect
<1>12. QED
  BY <1>5, <1>7, <1>8, <1>9, <1>10, <1>11, StepKinds DEF Quiet, Working

(* The checker's verdict is its own step. *)
LEMMA VerdictStep ==
  ASSUME VerdictOK, [Next]_vars
  PROVE  VerdictOK'
<1> DEFINE Over == {"print", "destroy", "join", "end"}
<1>1. ASSUME m_finish' = m_finish, mcPc' \in Over <=> mcPc \in Over
      PROVE  VerdictOK'
  BY <1>1, Zenon DEF VerdictOK
<1> USE DEF flags, checker
<1>2. ASSUME NEW w \in Thread, BuilderStep(w) \/ SpuriousWakeUp(w)
      PROVE  m_finish' = m_finish /\ (mcPc' \in Over <=> mcPc \in Over)
  BY <1>2 DEF BuilderStep, Start, InitialInsert, InitialPush, InitialNotify, InitialFinish, Lock,
    Check, CheckQueue, Sleep, Pop, Popped, Fire, InsertFind, SetFlags, Push, Notify, AddEdge,
    Complete, NotifyBuild, Until, SpuriousWakeUp
<1>3. ASSUME \/ GetInitial \/ CheckBuild \/ SleepBuild \/ Explore
             \/ PrintCompleteInformation \/ Join \/ SpuriousWakeUpBuild
      PROVE  m_finish' = m_finish /\ (mcPc' \in Over <=> mcPc \in Over)
  BY <1>3 DEF GetInitial, CheckBuild, SleepBuild, Explore, PrintCompleteInformation, Join,
    SpuriousWakeUpBuild, buildSucc
<1>4. ASSUME Finish \/ Destroy
      PROVE  VerdictOK'
  <2>1. m_finish' = TRUE /\ mcPc' \in Over
    BY <1>4 DEF Finish, Destroy
  <2>2. QED
    BY <2>1 DEF VerdictOK
<1>5. CASE UNCHANGED vars
  BY <1>1, <1>5 DEF vars
<1>6. QED
  BY <1>1, <1>2, <1>3, <1>4, <1>5 DEF Next, CheckerStep

(* A state becomes complete in one way only. *)
LEMMA NewlyCompleted ==
  ASSUME TypeInv, [Next]_vars, NEW n \in State', m_GONodes'[n].m_completed
  PROVE  \/ n \in State /\ m_GONodes[n].m_completed
         \/ \E w \in Thread : Complete(w) /\ e[w].state = n
<1>1. /\ TypeOK
      /\ \A k \in State : m_GONodes[k] \in LDDState
  BY StateProperties DEF TypeInv
<1>2. ASSUME UNCHANGED m_GONodes
      PROVE  n \in State /\ m_GONodes[n].m_completed
  BY <1>2 DEF State
<1>3. ASSUME NEW k, NEW s, Added(k, s), ~s.m_completed
      PROVE  n \in State /\ m_GONodes[n].m_completed
  BY <1>3 DEF Added
<1>4. ASSUME NEW k \in State, NEW s, Assigned(k, s), s.m_completed => m_GONodes[k].m_completed
      PROVE  n \in State /\ m_GONodes[n].m_completed
  BY <1>4 DEF Assigned
<1>5. ASSUME NEW w \in Thread, InitialInsert(w)
      PROVE  n \in State /\ m_GONodes[n].m_completed
  <2>1. PICK k : Added(k, WithFlags(NewState(InitialAggregate)))
    BY <1>1, <1>5, InitialInsertEffect
  <2>2. NewState(InitialAggregate) \in LDDState /\ ~NewState(InitialAggregate).m_completed
    BY SOGAssumption, NewStateType DEF NewState
  <2>3. ~WithFlags(NewState(InitialAggregate)).m_completed
    BY <2>2, WithFlagsType
  <2>4. QED
    BY <1>3, <2>1, <2>3
<1>6. ASSUME NEW w \in Thread, InsertFind(w)
      PROVE  n \in State /\ m_GONodes[n].m_completed
  <2>1. \/ UNCHANGED m_GONodes
        \/ \E k : Added(k, NewState(reduced_meta(w)))
    BY <1>6, InsertFindEffect
  <2>2. ~NewState(reduced_meta(w)).m_completed
    BY DEF NewState
  <2>3. QED
    BY <1>2, <1>3, <2>1, <2>2
<1>7. ASSUME NEW w \in Thread, SetFlags(w)
      PROVE  n \in State /\ m_GONodes[n].m_completed
  <2>1. PICK k \in State : Assigned(k, WithFlags(m_GONodes[k]))
    BY <1>7, SetFlagsEffect
  <2>2. WithFlags(m_GONodes[k]).m_completed = m_GONodes[k].m_completed
    BY <1>1, WithFlagsType
  <2>3. QED
    BY <1>4, <2>1, <2>2
<1>8. ASSUME NEW w \in Thread, AddEdge(w)
      PROVE  n \in State /\ m_GONodes[n].m_completed
  BY <1>8, AddEdgeEffect DEF SameButEdges
<1>9. ASSUME NEW w \in Thread, Complete(w)
      PROVE  \/ n \in State /\ m_GONodes[n].m_completed
             \/ \E v \in Thread : Complete(v) /\ e[v].state = n
  BY <1>9, CompleteEffect DEF Assigned
<1>10. ASSUME GetInitial \/ Explore
       PROVE  n \in State /\ m_GONodes[n].m_completed
  <2>1. PICK k \in State : Assigned(k, [m_GONodes[k] EXCEPT !.m_visited = TRUE])
    BY <1>10, VisitEffect
  <2>2. [m_GONodes[k] EXCEPT !.m_visited = TRUE].m_completed = m_GONodes[k].m_completed
    BY <1>1 DEF LDDState
  <2>3. QED
    BY <1>4, <2>1, <2>2
<1>11. ASSUME NEW w \in Thread,
              InitialPush(w) \/ Pop(w) \/ Popped(w) \/ Fire(w) \/ Push(w) \/ Notify(w)
       PROVE  n \in State /\ m_GONodes[n].m_completed
  BY <1>2, <1>11 DEF InitialPush, Pop, Popped, Fire, Push, Notify, graph
<1>12. QED
  BY <1>2, <1>5, <1>6, <1>7, <1>8, <1>9, <1>10, <1>11, StepKinds DEF Working, Quiet

(* Until the verdict, completing a state finds all its edges in place.     *)
LEMMA CompletedStep ==
  ASSUME TypeInv, OwnerInv, FinalInv, [Next]_vars, ~m_finish,
         NEW n \in State', m_GONodes'[n].m_completed
  PROVE  Final(n)'
<1>1. CASE n \in State /\ m_GONodes[n].m_completed
  <2>1. Final(n)
    BY <1>1 DEF FinalInv
  <2>2. SameWork(n)
    BY <1>1, FrozenStep DEF SameWork
  <2>3. QED
    BY <2>1, <2>2, SameWorkProperties
<1>2. CASE \E w \in Thread : Complete(w) /\ e[w].state = n
  <2>1. PICK w \in Thread : Complete(w) /\ e[w].state = n
    BY <1>2
  <2>2. pc[w] = "complete" /\ ~SetFlags(w) /\ ~AddEdge(w) /\ n \in State /\ Holds(w, n)
    BY <2>1, CompleteEffect DEF SetFlags, AddEdge, Holds, Holding
  <2>3. /\ FlagsSet(n)
        /\ TransitionsOf(m_GONodes[n]) \cup InHand(w) \cup e[w].fire = FirableObs[Agg(n)]
        /\ e[w].fire = {} /\ InHand(w) = {}
    BY <2>1, <2>2 DEF FinalInv, WorkOK, Holding, InHand, Firing
  <2>4. Final(n)
    BY <2>3 DEF Final
  <2>5. SameWork(n)
    BY <2>2, OwnedIsSame
  <2>6. QED
    BY <2>4, <2>5, SameWorkProperties
<1>3. QED
  BY <1>1, <1>2, NewlyCompleted

LEMMA FinalInvariant == Spec => []FinalInv
<1>1. Init => FinalInv
  <2> SUFFICES ASSUME Init PROVE FinalInv
    OBVIOUS
  <2>1. DOMAIN <<>> = {}
    BY EmptySeq
  <2>2. QED
    BY <2>1 DEF Init, FinalInv, WorkOK, QueueFresh, VerdictOK, Holding, State
<1>2. TypeInv /\ OwnerInv /\ FinalInv /\ [Next]_vars => FinalInv'
  <2> SUFFICES ASSUME TypeInv, OwnerInv, FinalInv, [Next]_vars PROVE FinalInv'
    OBVIOUS
  <2>1. VerdictOK'
    BY VerdictStep DEF FinalInv
  <2>2. ~m_finish' => \A n \in State' : m_GONodes'[n].m_completed => Final(n)'
    BY CompletedStep, FinishStays
  <2>3. QED
    BY <2>1, <2>2, WorkStep, QueueFreshStep DEF FinalInv
<1>3. QED
  BY <1>1, <1>2, TypeInvariant, OwnerInvariant, PTL DEF Spec

(* The checker marks a state and has to wait for it. *)
LEMMA NewlyVisited ==
  ASSUME TypeInv, [Next]_vars, NEW n \in State', m_GONodes'[n].m_visited
  PROVE  \/ n \in State /\ m_GONodes[n].m_visited
         \/ agregate' = n /\ mcPc' = "check"
<1>1. /\ TypeOK
      /\ \A k \in State : m_GONodes[k] \in LDDState
  BY StateProperties DEF TypeInv
<1>2. ASSUME UNCHANGED m_GONodes
      PROVE  n \in State /\ m_GONodes[n].m_visited
  BY <1>2 DEF State
<1>3. ASSUME NEW k, NEW s, Added(k, s), ~s.m_visited
      PROVE  n \in State /\ m_GONodes[n].m_visited
  BY <1>3 DEF Added
<1>4. ASSUME NEW k \in State, NEW s, Assigned(k, s), s.m_visited => m_GONodes[k].m_visited
      PROVE  n \in State /\ m_GONodes[n].m_visited
  BY <1>4 DEF Assigned
<1>5. ASSUME NEW w \in Thread, InitialInsert(w)
      PROVE  n \in State /\ m_GONodes[n].m_visited
  <2>1. PICK k : Added(k, WithFlags(NewState(InitialAggregate)))
    BY <1>1, <1>5, InitialInsertEffect
  <2>2. NewState(InitialAggregate) \in LDDState /\ ~NewState(InitialAggregate).m_visited
    BY SOGAssumption, NewStateType DEF NewState
  <2>3. ~WithFlags(NewState(InitialAggregate)).m_visited
    BY <2>2, WithFlagsType
  <2>4. QED
    BY <1>3, <2>1, <2>3
<1>6. ASSUME NEW w \in Thread, InsertFind(w)
      PROVE  n \in State /\ m_GONodes[n].m_visited
  <2>1. \/ UNCHANGED m_GONodes
        \/ \E k : Added(k, NewState(reduced_meta(w)))
    BY <1>6, InsertFindEffect
  <2>2. ~NewState(reduced_meta(w)).m_visited
    BY DEF NewState
  <2>3. QED
    BY <1>2, <1>3, <2>1, <2>2
<1>7. ASSUME NEW w \in Thread, SetFlags(w)
      PROVE  n \in State /\ m_GONodes[n].m_visited
  <2>1. PICK k \in State : Assigned(k, WithFlags(m_GONodes[k]))
    BY <1>7, SetFlagsEffect
  <2>2. WithFlags(m_GONodes[k]).m_visited = m_GONodes[k].m_visited
    BY <1>1, WithFlagsType
  <2>3. QED
    BY <1>4, <2>1, <2>2
<1>8. ASSUME NEW w \in Thread, AddEdge(w)
      PROVE  n \in State /\ m_GONodes[n].m_visited
  BY <1>8, AddEdgeEffect DEF SameButEdges
<1>9. ASSUME NEW w \in Thread, Complete(w)
      PROVE  n \in State /\ m_GONodes[n].m_visited
  <2>1. PICK k \in State : Assigned(k, [m_GONodes[k] EXCEPT !.m_completed = TRUE])
    BY <1>9, CompleteEffect
  <2>2. [m_GONodes[k] EXCEPT !.m_completed = TRUE].m_visited = m_GONodes[k].m_visited
    BY <1>1 DEF LDDState
  <2>3. QED
    BY <1>4, <2>1, <2>2
<1>10. ASSUME GetInitial \/ Explore
       PROVE  \/ n \in State /\ m_GONodes[n].m_visited
              \/ agregate' = n /\ mcPc' = "check"
  BY <1>10, VisitEffect DEF Assigned
<1>11. ASSUME NEW w \in Thread,
              InitialPush(w) \/ Pop(w) \/ Popped(w) \/ Fire(w) \/ Push(w) \/ Notify(w)
       PROVE  n \in State /\ m_GONodes[n].m_visited
  BY <1>2, <1>11 DEF InitialPush, Pop, Popped, Fire, Push, Notify, graph
<1>12. QED
  BY <1>2, <1>5, <1>6, <1>7, <1>8, <1>9, <1>10, <1>11, StepKinds DEF Working, Quiet

(* It leaves the wait once it has read m_completed. *)
LEMMA CheckerWaits ==
  ASSUME [Next]_vars, mcPc \in {"check", "sleep", "waiting"}
  PROVE  \/ agregate' = agregate /\ mcPc' \in {"check", "sleep", "waiting"}
         \/ m_GONodes[agregate].m_completed
<1> USE DEF checker
<1>1. ASSUME NEW w \in Thread, BuilderStep(w) \/ SpuriousWakeUp(w)
      PROVE  agregate' = agregate /\ mcPc' \in {"check", "sleep", "waiting"}
  BY <1>1 DEF BuilderStep, Start, InitialInsert, InitialPush, InitialNotify, InitialFinish, Lock,
    Check, CheckQueue, Sleep, Pop, Popped, Fire, InsertFind, SetFlags, Push, Notify, AddEdge,
    Complete, NotifyBuild, Until, SpuriousWakeUp
<1>2. ASSUME CheckerStep \/ SpuriousWakeUpBuild
      PROVE  \/ agregate' = agregate /\ mcPc' \in {"check", "sleep", "waiting"}
             \/ m_GONodes[agregate].m_completed
  BY <1>2 DEF CheckerStep, GetInitial, CheckBuild, SleepBuild, Explore, Finish,
    PrintCompleteInformation, Destroy, Join, SpuriousWakeUpBuild
<1>3. CASE UNCHANGED vars
  BY <1>3 DEF vars
<1>4. QED
  BY <1>1, <1>2, <1>3 DEF Next

(* The same as ObtainedIsFinal, in the terms of this module. *)
ObtainedFinal == \A n \in State : Obtained(n) => m_GONodes[n].m_completed /\ Final(n)

(* What Spot reads without a lock is final: a state the checker obtained   *)
(* is complete, has exactly one kind of edge per observable transition the *)
(* aggregate enables, and has both its flags.                              *)
THEOREM ObtainedAreFinal == Spec => []ObtainedIsFinal
<1>1. Init => ObtainedFinal
  BY EmptySeq DEF Init, ObtainedFinal, State
<1>2. TypeInv /\ OwnerInv /\ FinalInv /\ ObtainedFinal /\ [Next]_vars => ObtainedFinal'
  <2> SUFFICES ASSUME TypeInv, OwnerInv, FinalInv, ObtainedFinal, [Next]_vars,
                      NEW n \in State', Obtained(n)'
               PROVE  m_GONodes'[n].m_completed /\ Final(n)'
    BY DEF ObtainedFinal
  <2>1. n \in State /\ m_GONodes[n].m_visited
    BY NewlyVisited DEF Obtained
  <2>2. m_GONodes[n].m_completed /\ Final(n)
    <3>1. CASE Obtained(n)
      BY <2>1, <3>1 DEF ObtainedFinal
    <3>2. CASE ~Obtained(n)
      <4>1. agregate = n /\ mcPc \in {"check", "sleep", "waiting"}
        BY <2>1, <3>2 DEF Obtained
      <4>2. m_GONodes[n].m_completed
        BY <4>1, CheckerWaits DEF Obtained
      <4>3. ~m_finish
        BY <4>1 DEF FinalInv, VerdictOK
      <4>4. QED
        BY <2>1, <4>2, <4>3 DEF FinalInv
    <3>3. QED
      BY <3>1, <3>2
  <2>3. SameWork(n) /\ m_GONodes'[n].m_completed
    BY <2>1, <2>2, FrozenStep DEF SameWork
  <2>4. QED
    BY <2>2, <2>3, SameWorkProperties
<1>3. ObtainedFinal => ObtainedIsFinal
  BY DEF ObtainedFinal, ObtainedIsFinal, Final, FlagsSet, Agg
<1>4. QED
  BY <1>1, <1>2, <1>3, TypeInvariant, OwnerInvariant, FinalInvariant, PTL DEF Spec

-----------------------------------------------------------------------------
(***************************************************************************)
(* The multi-core model checker implements SOGOnTheFly: its builders make  *)
(* the graph grow towards the Symbolic Observation Graph, and the checker  *)
(* obtains an aggregate only with all its edges, for every number of       *)
(* builders.  Beside the invariants above:                                 *)
(*   OnceInv   a builder takes each transition of its state once;          *)
(*   GraphInv  no aggregate twice, and every edge is one of the SOG;       *)
(*   AskInv    the checker waits for the initial state, or for the target  *)
(*             of an edge of a state it has obtained.                      *)
(***************************************************************************)

(* The transitions of the state a builder works on are linked, in hand or  *)
(* still to fire, in one of these places.                                  *)
OnceOK(w) ==
  pc[w] \in Holding =>
    /\ TransitionsOf(m_GONodes[e[w].state]) \cap InHand(w) = {}
    /\ TransitionsOf(m_GONodes[e[w].state]) \cap e[w].fire = {}
    /\ InHand(w) \cap e[w].fire = {}

OnceInv == \A w \in Thread : OnceOK(w)

GraphInv == PartOfSOG(m_GONodes) /\ (1 \in State => Agg(1) = InitialAggregate)

Waiting == {"check", "sleep", "waiting"}

AskInv ==
  mcPc \in Waiting =>
    \/ Agg(agregate) = InitialAggregate
    \/ \E n \in State : Obtained(n) /\ \E x \in Links(m_GONodes[n]) : x.to = agregate

-----------------------------------------------------------------------------
(* A builder takes each transition of its state once.                      *)

(* Only its owner links a state. *)
LEMMA SameLinks ==
  ASSUME TypeInv, [Next]_vars, NEW n \in State,
         \A w \in Thread : ~(AddEdge(w) /\ e[w].state = n)
  PROVE  /\ m_GONodes'[n].m_lddstate = m_GONodes[n].m_lddstate
         /\ Links(m_GONodes'[n]) = Links(m_GONodes[n])
         /\ TransitionsOf(m_GONodes'[n]) = TransitionsOf(m_GONodes[n])
<1>1. m_GONodes[n] \in LDDState
  BY StateProperties DEF TypeInv
<1>2. /\ m_GONodes'[n].m_lddstate = m_GONodes[n].m_lddstate
      /\ m_GONodes'[n].Successors = m_GONodes[n].Successors
  <2>1. CASE SameWork(n)
    BY <2>1 DEF SameWork
  <2>2. ASSUME NEW w \in Thread, SetFlags(w), pos[w] = n
        PROVE  m_GONodes'[n] = WithFlags(m_GONodes[n])
    BY <2>2, SetFlagsEffect DEF Assigned
  <2>3. QED
    BY <1>1, <2>1, <2>2, WorkedOn, WithFlagsType
<1>3. QED
  BY <1>2 DEF Links, TransitionsOf

LEMMA HeldLinks ==
  ASSUME TypeInv, OwnerInv, [Next]_vars, NEW v \in Thread, pc[v] \in Holding, ~AddEdge(v)
  PROVE  TransitionsOf(m_GONodes'[e[v].state]) = TransitionsOf(m_GONodes[e[v].state])
<1>1. Holds(v, e[v].state) /\ e[v].state \in State
  BY OwnedStates DEF Holds
<1>2. ASSUME NEW w \in Thread, AddEdge(w), e[w].state = e[v].state
      PROVE  FALSE
  <2>1. Holds(w, e[v].state)
    BY <1>2, AddEdgeEffect DEF Holds, Holding
  <2>2. QED
    BY <1>1, <1>2, <2>1 DEF OwnerInv, SingleOwner
<1>3. QED
  BY <1>1, <1>2, SameLinks

(* A builder that keeps its state, its transition and its set. *)
LEMMA OnceKept ==
  ASSUME TypeInv, OwnerInv, [Next]_vars, NEW v \in Thread, OnceOK(v),
         pc'[v] \in Holding => pc[v] \in Holding,
         pc'[v] \in Firing <=> pc[v] \in Firing,
         e'[v] = e[v], t'[v] = t[v], ~AddEdge(v)
  PROVE  OnceOK(v)'
<1>1. (IF pc'[v] \in Firing THEN {t'[v]} ELSE {}) = InHand(v)
  BY DEF InHand
<1>2. QED
  BY <1>1, HeldLinks DEF OnceOK, InHand

LEMMA OnceIdle ==
  ASSUME NEW v \in Thread, pc'[v] \notin Holding
  PROVE  OnceOK(v)'
BY DEF OnceOK

(* The builders that do not move in a step, or only wake up in it. *)
LEMMA OthersOnce ==
  ASSUME TypeInv, OwnerInv, OnceInv, [Next]_vars, NEW S \in SUBSET Thread,
         \A v \in S : /\ pc'[v] = pc[v] \/ pc'[v] \in Idle
                     /\ e'[v] = e[v] /\ t'[v] = t[v]
  PROVE  \A v \in S : OnceOK(v)'
<1> SUFFICES ASSUME NEW v \in S PROVE OnceOK(v)'
  OBVIOUS
<1>1. CASE pc'[v] = pc[v]
  <2>1. pc \in [Thread -> BuilderPc]
    BY DEF TypeInv, TypeOK
  <2>2. ~AddEdge(v)
    BY <1>1, <2>1 DEF AddEdge, Goto
  <2>3. QED
    BY <1>1, <2>2, OnceKept DEF OnceInv
<1>2. CASE pc'[v] \in Idle
  BY <1>2, OnceIdle DEF Idle
<1>3. QED
  BY <1>1, <1>2

(* What a builder's own step does to its place, its state and its set. *)
LEMMA OwnStep ==
  ASSUME TypeInv, NEW w \in Thread, Working(w)
  PROVE  /\ \A v \in Thread \ {w} : /\ pc'[v] = pc[v] \/ pc'[v] \in Idle
                                    /\ e'[v] = e[v] /\ t'[v] = t[v]
         /\ \/ pc'[w] \notin Holding
            \/ /\ pc[w] \in Holding /\ pc'[w] \in Holding
               /\ pc'[w] \in Firing <=> pc[w] \in Firing
               /\ e'[w] = e[w] /\ t'[w] = t[w] /\ ~AddEdge(w)
            \/ Pop(w) /\ pc'[w] = "popped" /\ m_common_stack # <<>>
            \/ /\ Fire(w) /\ pc[w] = "fire" /\ pc'[w] = "insert" /\ ~AddEdge(w)
               /\ \E u \in e[w].fire : /\ e'[w].state = e[w].state /\ t'[w] = u
                                       /\ e'[w].fire = e[w].fire \ {u}
            \/ AddEdge(w) /\ pc[w] = "edge" /\ pc'[w] = "fire" /\ e'[w] = e[w]
<1>1. /\ TypeOK /\ pc \in [Thread -> BuilderPc] /\ e \in [Thread -> QueuedPair]
      /\ t \in [Thread -> Transition \cup {NoTransition}]
  BY DEF TypeInv, TypeOK, QueuedPair
<1> USE DEF Holding, Firing, Idle, BuilderPc
<1>2. CASE InitialInsert(w) \/ InitialPush(w) \/ Popped(w) \/ SetFlags(w) \/ Push(w) \/ Complete(w)
  BY <1>1, <1>2 DEF InitialInsert, InitialPush, Popped, SetFlags, Push, Complete, Goto, AddEdge
<1>3. CASE Pop(w)
  BY <1>1, <1>3 DEF Pop, Goto
<1>4. CASE Fire(w)
  <2>1. ASSUME NEW u \in e[w].fire, e' = [e EXCEPT ![w].fire = @ \ {u}]
        PROVE  /\ e'[w].state = e[w].state /\ e'[w].fire = e[w].fire \ {u}
               /\ \A v \in Thread \ {w} : e'[v] = e[v]
    BY <1>1, <2>1 DEF QueuedPair
  <2>2. CASE pc' = [pc EXCEPT ![w] = "complete"] /\ UNCHANGED <<e, t>>
    BY <1>1, <1>4, <2>2 DEF Fire, AddEdge
  <2>3. CASE /\ pc' = [pc EXCEPT ![w] = "insert"]
             /\ \E u \in e[w].fire : /\ t' = [t EXCEPT ![w] = u]
                                     /\ e' = [e EXCEPT ![w].fire = @ \ {u}]
    BY <1>1, <1>4, <2>1, <2>3 DEF Fire, AddEdge
  <2>4. QED
    BY <1>4, <2>2, <2>3 DEF Fire, Goto
<1>5. CASE InsertFind(w)
  BY <1>1, <1>5, InsertFindEffect DEF AddEdge
<1>6. CASE Notify(w)
  <2>1. pc[w] = "notify" /\ NotifyOneBuilder(w, "edge") /\ UNCHANGED <<e, t>>
    BY <1>6 DEF Notify
  <2>2. /\ pc'[w] = "edge"
        /\ \A v \in Thread \ {w} : pc'[v] = pc[v] \/ pc'[v] = "lock"
    BY <1>1, <2>1, NotifyOneProperties
  <2>3. QED
    BY <1>1, <2>1, <2>2 DEF AddEdge
<1>7. CASE AddEdge(w)
  BY <1>1, <1>7, AddEdgeEffect
<1>8. QED
  BY <1>2, <1>3, <1>4, <1>5, <1>6, <1>7 DEF Working

(* Linking adds an edge to those of the state. *)
LEMMA AddEdgeWork ==
  ASSUME TypeInv, NEW w \in Thread, AddEdge(w)
  PROVE  /\ Links(m_GONodes'[e[w].state])
              = Links(m_GONodes[e[w].state]) \cup {[to |-> pos[w], t |-> t[w]]}
         /\ TransitionsOf(m_GONodes'[e[w].state])
              = TransitionsOf(m_GONodes[e[w].state]) \cup {t[w]}
<1>1. e[w].state \in State /\ pos[w] \in State /\ t[w] \in Transition
  BY AddEdgeEffect, FiringProperties DEF Firing
<1>2. PICK n, to, u, s, r : /\ n = e[w].state /\ to = pos[w] /\ u = t[w]
                            /\ s = m_GONodes[n] /\ r = m_GONodes'[n]
  OBVIOUS
<1>3. n \in State /\ to \in Nat /\ u \in Transition /\ s \in LDDState
  BY <1>1, <1>2, StateProperties DEF TypeInv
<1>4. r.Successors = <<[to |-> to, t |-> u]>> \o s.Successors
  BY <1>2, <1>3, AddEdgeEffect
<1>5. /\ Links(r) = Links(s) \cup {[to |-> to, t |-> u]}
      /\ TransitionsOf(r) = TransitionsOf(s) \cup {u}
  BY <1>3, <1>4, LinkedEdges, LinkedTransitions
<1>6. QED
  BY <1>2, <1>5

LEMMA OnceStep ==
  ASSUME TypeInv, OwnerInv, FinalInv, OnceInv, [Next]_vars
  PROVE  OnceInv'
<1>1. ASSUME Quiet
      PROVE  OnceInv'
  <2>1. \A v \in Thread : pc'[v] = pc[v] \/ pc'[v] \in Idle
    BY <1>1 DEF Quiet
  <2>2. QED
    BY <1>1, <2>1, OthersOnce DEF Quiet, OnceInv
<1>2. ASSUME GetInitial \/ Explore
      PROVE  OnceInv'
  BY <1>2, VisitEffect, OthersOnce DEF OnceInv
<1>3. ASSUME NEW w \in Thread, Working(w)
      PROVE  OnceInv'
  <2>1. OnceOK(w)
    BY DEF OnceInv
  <2> SUFFICES OnceOK(w)'
    <3>1. \A v \in Thread \ {w} : OnceOK(v)'
      BY <1>3, OwnStep, OthersOnce
    <3>2. QED
      BY <3>1 DEF OnceInv
  <2>2. CASE pc'[w] \notin Holding
    BY <2>2, OnceIdle
  <2>3. CASE /\ pc[w] \in Holding /\ pc'[w] \in Holding
             /\ pc'[w] \in Firing <=> pc[w] \in Firing
             /\ e'[w] = e[w] /\ t'[w] = t[w] /\ ~AddEdge(w)
    BY <2>1, <2>3, OnceKept
  <2>4. CASE Pop(w) /\ pc'[w] = "popped" /\ m_common_stack # <<>>
    <3>1. PICK x : x = Head(m_common_stack)
      OBVIOUS
    <3>2. e' = [e EXCEPT ![w] = x] /\ UNCHANGED m_GONodes /\ e \in [Thread -> QueuedPair]
      BY <2>4, <3>1 DEF Pop, graph, TypeInv, TypeOK, QueuedPair
    <3>3. 1 \in DOMAIN m_common_stack /\ x = m_common_stack[1]
      BY <2>4, <3>1, PopProperties DEF TypeInv, TypeOK
    <3>4. TransitionsOf(m_GONodes[x.state]) = {}
      BY <3>3, NoTransitionYet DEF FinalInv, QueueFresh, Fresh
    <3>5. e'[w] = x /\ pc'[w] \notin Firing
      BY <2>4, <3>2 DEF Firing
    <3>6. QED
      BY <3>2, <3>4, <3>5 DEF OnceOK, InHand
  <2>5. CASE /\ Fire(w) /\ pc[w] = "fire" /\ pc'[w] = "insert" /\ ~AddEdge(w)
             /\ \E u \in e[w].fire : /\ e'[w].state = e[w].state /\ t'[w] = u
                                     /\ e'[w].fire = e[w].fire \ {u}
    <3>1. TransitionsOf(m_GONodes'[e[w].state]) = TransitionsOf(m_GONodes[e[w].state])
      BY <2>5, HeldLinks DEF Holding
    <3>2. QED
      BY <2>1, <2>5, <3>1 DEF OnceOK, InHand, Holding, Firing
  <2>6. CASE AddEdge(w) /\ pc[w] = "edge" /\ pc'[w] = "fire" /\ e'[w] = e[w]
    <3>1. InHand(w) = {t[w]} /\ pc'[w] \notin Firing
      BY <2>6 DEF InHand, Firing
    <3>2. QED
      BY <2>1, <2>6, <3>1, AddEdgeWork DEF OnceOK, InHand, Holding
  <2>7. QED
    BY <1>3, <2>2, <2>3, <2>4, <2>5, <2>6, OwnStep
<1>4. QED
  BY <1>1, <1>2, <1>3, StepKinds

LEMMA OnceInvariant == Spec => []OnceInv
<1>1. Init => OnceInv
  BY DEF Init, OnceInv, OnceOK, Holding
<1>2. TypeInv /\ OwnerInv /\ FinalInv /\ OnceInv /\ [Next]_vars => OnceInv'
  BY OnceStep
<1>3. QED
  BY <1>1, <1>2, TypeInvariant, OwnerInvariant, FinalInvariant, PTL DEF Spec

-----------------------------------------------------------------------------
(* The graph is a part of the SOG. *)

(* A builder inserts a state for the aggregate it has reached. *)
Inserts(w) == InsertFind(w) /\ ~UNCHANGED m_GONodes

(* The step leaves the graph alone, but for flags, marks and Predecessors. *)
SameStates ==
  /\ State' = State
  /\ \A n \in State : /\ m_GONodes'[n].m_lddstate = m_GONodes[n].m_lddstate
                      /\ Links(m_GONodes'[n]) = Links(m_GONodes[n])

LEMMA GraphSteps ==
  ASSUME TypeInv, [Next]_vars
  PROVE  \/ SameStates
         \/ \E w \in Thread : InitialInsert(w) \/ Inserts(w) \/ AddEdge(w)
<1> SUFFICES ASSUME \A w \in Thread : ~InitialInsert(w) /\ ~Inserts(w) /\ ~AddEdge(w)
             PROVE  SameStates
  OBVIOUS
<1>1. State' = State
  <2>1. ASSUME UNCHANGED m_GONodes
        PROVE  State' = State
    BY <2>1 DEF State
  <2>2. ASSUME NEW w \in Thread,
               InitialPush(w) \/ Pop(w) \/ Popped(w) \/ Fire(w) \/ Push(w) \/ Notify(w)
        PROVE  UNCHANGED m_GONodes
    BY <2>2 DEF InitialPush, Pop, Popped, Fire, Push, Notify, graph
  <2>3. ASSUME NEW w \in Thread, SetFlags(w) \/ Complete(w)
        PROVE  State' = State
    BY <2>3, SetFlagsEffect, CompleteEffect DEF Assigned
  <2>4. ASSUME GetInitial \/ Explore
        PROVE  State' = State
    BY <2>4, VisitEffect DEF Assigned
  <2>5. QED
    BY <2>1, <2>2, <2>3, <2>4, StepKinds DEF Working, Quiet, Inserts
<1>2. QED
  BY <1>1, SameLinks DEF SameStates

LEMMA SameStatesGraph ==
  ASSUME GraphInv, SameStates
  PROVE  /\ GraphInv'
         /\ GraphEdges(m_GONodes') = GraphEdges(m_GONodes)
         /\ \A S \in SUBSET State :
              GraphAggregates(m_GONodes', S) = GraphAggregates(m_GONodes, S)
<1>1. PICK g, h : g = m_GONodes /\ h = m_GONodes'
  OBVIOUS
<1>2. /\ PartOfSOG(g) /\ DOMAIN h = DOMAIN g
      /\ \A k \in DOMAIN g : /\ h[k].m_lddstate = g[k].m_lddstate
                             /\ Links(h[k]) = Links(g[k])
  BY <1>1 DEF SameStates, State, GraphInv
<1>3. /\ PartOfSOG(h)
      /\ GraphEdges(h) = GraphEdges(g)
      /\ \A S \in SUBSET DOMAIN g : GraphAggregates(h, S) = GraphAggregates(g, S)
  BY <1>2, SameGraph
<1>4. 1 \in State' => Agg(1)' = InitialAggregate
  BY DEF SameStates, GraphInv, Agg
<1>5. QED
  BY <1>1, <1>3, <1>4 DEF State, GraphInv

(* The graph grows by a state without edges. *)
LEMMA AddedGraph ==
  ASSUME TypeInv, GraphInv, NEW n, NEW s, Added(n, s), s.Successors = <<>>,
         \A k \in State : Agg(k) # s.m_lddstate
  PROVE  /\ PartOfSOG(m_GONodes')
         /\ GraphEdges(m_GONodes') = GraphEdges(m_GONodes)
         /\ s.m_lddstate \notin GraphAggregates(m_GONodes, State)
         /\ GraphAggregates(m_GONodes', State')
              = GraphAggregates(m_GONodes, State) \cup {s.m_lddstate}
         /\ \A S \in SUBSET State :
              GraphAggregates(m_GONodes', S) = GraphAggregates(m_GONodes, S)
<1>1. PICK g, h : g = m_GONodes /\ h = m_GONodes'
  OBVIOUS
<1>2. /\ n \notin DOMAIN g /\ DOMAIN h = DOMAIN g \cup {n} /\ PartOfSOG(g)
      /\ \A k \in DOMAIN g : /\ h[k].m_lddstate = g[k].m_lddstate
                             /\ Links(h[k]) = Links(g[k])
      /\ h[n] = s
  BY <1>1 DEF Added, State, GraphInv
<1>3. Links(h[n]) = {}
  BY <1>2, EmptySeq DEF Links
<1>4. \A k \in DOMAIN g : g[k].m_lddstate # h[n].m_lddstate
  BY <1>1, <1>2 DEF Agg, State
<1>5. /\ PartOfSOG(h)
      /\ GraphEdges(h) = GraphEdges(g)
      /\ h[n].m_lddstate \notin GraphAggregates(g, DOMAIN g)
      /\ GraphAggregates(h, DOMAIN h) = GraphAggregates(g, DOMAIN g) \cup {h[n].m_lddstate}
      /\ \A S \in SUBSET DOMAIN g : GraphAggregates(h, S) = GraphAggregates(g, S)
  BY <1>2, <1>3, <1>4, GrownGraph
<1>6. QED
  BY <1>1, <1>2, <1>5 DEF State

LEMMA InitialInsertGraph ==
  ASSUME TypeInv, FirstInv, GraphInv, NEW w \in Thread, InitialInsert(w)
  PROVE  /\ GraphInv'
         /\ GraphEdges(m_GONodes') = GraphEdges(m_GONodes)
         /\ State = {} /\ State' = {1}
         /\ m_GONodes'[1].m_lddstate = InitialAggregate
         /\ ~m_GONodes'[1].m_completed /\ ~m_GONodes'[1].m_visited
<1> DEFINE s == WithFlags(NewState(InitialAggregate))
<1>1. State = {} /\ Len(m_GONodes) = 0
  BY EmptySeq DEF InitialInsert, FirstInv, State
<1>2. Added(1, s)
  BY <1>1, InitialInsertEffect DEF TypeInv
<1>3. /\ NewState(InitialAggregate) \in LDDState
      /\ NewState(InitialAggregate).Successors = <<>>
      /\ NewState(InitialAggregate).m_lddstate = InitialAggregate
      /\ ~NewState(InitialAggregate).m_completed /\ ~NewState(InitialAggregate).m_visited
  BY SOGAssumption, NewStateType DEF NewState
<1>4. /\ s.Successors = <<>> /\ s.m_lddstate = InitialAggregate
      /\ ~s.m_completed /\ ~s.m_visited
  BY <1>3, WithFlagsType
<1> HIDE DEF s
<1>5. PartOfSOG(m_GONodes') /\ GraphEdges(m_GONodes') = GraphEdges(m_GONodes)
  BY <1>1, <1>2, <1>4, AddedGraph
<1>6. QED
  BY <1>1, <1>2, <1>4, <1>5 DEF Added, GraphInv, Agg

LEMMA InsertsEffect ==
  ASSUME TypeInv, NEW w \in Thread, Inserts(w)
  PROVE  /\ pc[w] = "insert"
         /\ \E n : Added(n, NewState(reduced_meta(w)))
         /\ \A k \in State : Agg(k) # reduced_meta(w)
         /\ NewState(reduced_meta(w)).Successors = <<>>
         /\ NewState(reduced_meta(w)).m_lddstate = reduced_meta(w)
         /\ ~NewState(reduced_meta(w)).m_completed
BY InsertFindEffect DEF Inserts, NewState

LEMMA InsertsGraph ==
  ASSUME TypeInv, GraphInv, NEW w \in Thread, Inserts(w)
  PROVE  /\ GraphInv'
         /\ GraphEdges(m_GONodes') = GraphEdges(m_GONodes)
         /\ reduced_meta(w) \notin GraphAggregates(m_GONodes, State)
         /\ GraphAggregates(m_GONodes', State')
              = GraphAggregates(m_GONodes, State) \cup {reduced_meta(w)}
         /\ \A S \in SUBSET State :
              GraphAggregates(m_GONodes', S) = GraphAggregates(m_GONodes, S)
<1>1. PICK s, a : s = NewState(reduced_meta(w)) /\ a = reduced_meta(w)
  OBVIOUS
<1>2. PICK n : Added(n, s)
  BY <1>1, InsertsEffect
<1>3. s.Successors = <<>> /\ s.m_lddstate = a /\ \A k \in State : Agg(k) # a
  BY <1>1, InsertsEffect
<1>4. /\ PartOfSOG(m_GONodes')
      /\ GraphEdges(m_GONodes') = GraphEdges(m_GONodes)
      /\ a \notin GraphAggregates(m_GONodes, State)
      /\ GraphAggregates(m_GONodes', State') = GraphAggregates(m_GONodes, State) \cup {a}
      /\ \A S \in SUBSET State :
           GraphAggregates(m_GONodes', S) = GraphAggregates(m_GONodes, S)
  BY <1>2, <1>3, AddedGraph
<1>5. 1 \in State' => m_GONodes'[1].m_lddstate = InitialAggregate
  <2>1. 1 \in State
    <3>1. m_GONodes \in Seq(LDDState) /\ e[w].state \in DOMAIN m_GONodes
      BY InsertsEffect, FiringProperties DEF Firing, TypeInv, TypeOK, State
    <3>2. QED
      BY <3>1, GraphDomain DEF State
  <2>2. QED
    BY <1>2, <2>1 DEF Added, GraphInv, Agg
<1>6. QED
  BY <1>1, <1>4, <1>5 DEF GraphInv, Agg

LEMMA FiredEdge ==
  ASSUME TypeInv, NEW w \in Thread, pc[w] \in Firing
  PROVE  /\ e[w].state \in State /\ Agg(e[w].state) \in Aggregate
         /\ t[w] \in FirableObs[Agg(e[w].state)]
         /\ reduced_meta(w) = Successor[<<Agg(e[w].state), t[w]>>]
         /\ <<Agg(e[w].state), t[w], reduced_meta(w)>> \in Edge
<1>1. /\ e[w].state \in State /\ t[w] \in Transition
      /\ t[w] \in FirableObs[Agg(e[w].state)]
      /\ reduced_meta(w) = Successor[<<Agg(e[w].state), t[w]>>]
  BY FiringProperties DEF reduced_meta, Agg
<1>2. Agg(e[w].state) \in Aggregate
  BY <1>1, StateProperties DEF TypeInv
<1>3. <<Agg(e[w].state), t[w]>> \in Arc
  BY <1>1, <1>2 DEF Arc
<1>4. QED
  BY <1>1, <1>2, <1>3 DEF Edge

LEMMA AddEdgeGraph ==
  ASSUME TypeInv, OnceInv, GraphInv, NEW w \in Thread, AddEdge(w)
  PROVE  LET new == <<Agg(e[w].state), t[w], reduced_meta(w)>>
         IN  /\ GraphInv'
             /\ new \in Edge /\ new \notin GraphEdges(m_GONodes)
             /\ GraphEdges(m_GONodes') = GraphEdges(m_GONodes) \cup {new}
             /\ reduced_meta(w) \in GraphAggregates(m_GONodes, State)
             /\ \A S \in SUBSET State :
                  GraphAggregates(m_GONodes', S) = GraphAggregates(m_GONodes, S)
<1>1. /\ pc[w] = "edge" /\ pos[w] \in State /\ State' = State
      /\ \A k \in State : SameButEdges(m_GONodes[k], m_GONodes'[k])
      /\ \A k \in State \ {e[w].state} : m_GONodes'[k].Successors = m_GONodes[k].Successors
  BY AddEdgeEffect
<1>2. /\ e[w].state \in State /\ Agg(e[w].state) \in Aggregate
      /\ t[w] \in FirableObs[Agg(e[w].state)]
      /\ reduced_meta(w) = Successor[<<Agg(e[w].state), t[w]>>]
  BY <1>1, FiredEdge DEF Firing
<1>3. Agg(pos[w]) = reduced_meta(w)
  BY <1>1 DEF TypeInv, BuilderOK, Firing
<1>4. t[w] \notin TransitionsOf(m_GONodes[e[w].state])
  BY <1>1 DEF OnceInv, OnceOK, InHand, Firing, Holding
<1>5. PICK g, h, n, m, u : /\ g = m_GONodes /\ h = m_GONodes'
                           /\ n = e[w].state /\ m = pos[w] /\ u = t[w]
  OBVIOUS
<1>6. /\ PartOfSOG(g) /\ DOMAIN h = DOMAIN g /\ n \in DOMAIN g /\ m \in DOMAIN g
      /\ g[n].m_lddstate \in Aggregate /\ u \in FirableObs[g[n].m_lddstate]
      /\ g[m].m_lddstate = Successor[<<g[n].m_lddstate, u>>]
      /\ \A k \in DOMAIN g : h[k].m_lddstate = g[k].m_lddstate
  BY <1>1, <1>2, <1>3, <1>5 DEF State, GraphInv, Agg, SameButEdges
<1>7. u \notin {x.t : x \in Links(g[n])}
  BY <1>4, <1>5 DEF TransitionsOf, Links
<1>8. \A k \in DOMAIN g \ {n} : Links(h[k]) = Links(g[k])
  BY <1>1, <1>5 DEF Links, State
<1>9. Links(h[n]) = Links(g[n]) \cup {[to |-> m, t |-> u]}
  BY <1>5, AddEdgeWork
<1>10. LET new == <<g[n].m_lddstate, u, g[m].m_lddstate>>
       IN  /\ PartOfSOG(h)
           /\ new \in Edge /\ new \notin GraphEdges(g)
           /\ GraphEdges(h) = GraphEdges(g) \cup {new}
           /\ \A S \in SUBSET DOMAIN g : GraphAggregates(h, S) = GraphAggregates(g, S)
  BY <1>6, <1>7, <1>8, <1>9, LinkedGraph
<1>11. g[m].m_lddstate \in GraphAggregates(g, DOMAIN g)
  BY <1>6 DEF GraphAggregates
<1>12. <<g[n].m_lddstate, u, g[m].m_lddstate>> = <<Agg(e[w].state), t[w], reduced_meta(w)>>
  BY <1>3, <1>5 DEF Agg
<1>13. 1 \in State' => m_GONodes'[1].m_lddstate = InitialAggregate
  BY <1>1 DEF SameButEdges, GraphInv, Agg
<1>14. QED
  BY <1>3, <1>5, <1>10, <1>11, <1>12, <1>13 DEF State, GraphInv, Agg

(* No aggregate twice, every edge is one of the SOG, the first state is    *)
(* the initial one.                                                        *)
LEMMA GraphInvariant == Spec => []GraphInv
<1>1. Init => GraphInv
  BY EmptySeq DEF Init, GraphInv, PartOfSOG, State
<1>2. TypeInv /\ FirstInv /\ OnceInv /\ GraphInv /\ [Next]_vars => GraphInv'
  BY GraphSteps, InitialInsertGraph, InsertsGraph, AddEdgeGraph, SameStatesGraph
<1>3. QED
  BY <1>1, <1>2, TypeInvariant, FirstInvariant, OnceInvariant, PTL DEF Spec

-----------------------------------------------------------------------------
(* What the checker has obtained. *)

(* A mark stays. *)
LEMMA VisitedStays ==
  ASSUME TypeInv, [Next]_vars, NEW n \in State, m_GONodes[n].m_visited
  PROVE  n \in State' /\ m_GONodes'[n].m_visited
<1>1. /\ TypeOK
      /\ \A k \in State : m_GONodes[k] \in LDDState
  BY StateProperties DEF TypeInv
<1>2. ASSUME UNCHANGED m_GONodes
      PROVE  n \in State' /\ m_GONodes'[n].m_visited
  BY <1>2 DEF State
<1>3. ASSUME NEW k, NEW s, Added(k, s)
      PROVE  n \in State' /\ m_GONodes'[n].m_visited
  BY <1>3 DEF Added
<1>4. ASSUME NEW k \in State, NEW s, Assigned(k, s), m_GONodes[k].m_visited => s.m_visited
      PROVE  n \in State' /\ m_GONodes'[n].m_visited
  BY <1>4 DEF Assigned
<1>5. ASSUME NEW w \in Thread, InitialInsert(w)
      PROVE  \E k, s : Added(k, s)
  BY <1>1, <1>5, InitialInsertEffect
<1>6. ASSUME NEW w \in Thread, InsertFind(w)
      PROVE  UNCHANGED m_GONodes \/ \E k, s : Added(k, s)
  BY <1>6, InsertFindEffect
<1>7. ASSUME NEW w \in Thread, SetFlags(w)
      PROVE  n \in State' /\ m_GONodes'[n].m_visited
  <2>1. PICK k \in State : Assigned(k, WithFlags(m_GONodes[k]))
    BY <1>7, SetFlagsEffect
  <2>2. WithFlags(m_GONodes[k]).m_visited = m_GONodes[k].m_visited
    BY <1>1, WithFlagsType
  <2>3. QED
    BY <1>4, <2>1, <2>2
<1>8. ASSUME NEW w \in Thread, AddEdge(w)
      PROVE  n \in State' /\ m_GONodes'[n].m_visited
  BY <1>8, AddEdgeEffect DEF SameButEdges
<1>9. ASSUME NEW w \in Thread, Complete(w)
      PROVE  n \in State' /\ m_GONodes'[n].m_visited
  <2>1. PICK k \in State : Assigned(k, [m_GONodes[k] EXCEPT !.m_completed = TRUE])
    BY <1>9, CompleteEffect
  <2>2. [m_GONodes[k] EXCEPT !.m_completed = TRUE].m_visited = m_GONodes[k].m_visited
    BY <1>1 DEF LDDState
  <2>3. QED
    BY <1>4, <2>1, <2>2
<1>10. ASSUME GetInitial \/ Explore
       PROVE  n \in State' /\ m_GONodes'[n].m_visited
  <2>1. PICK k \in State : Assigned(k, [m_GONodes[k] EXCEPT !.m_visited = TRUE])
    BY <1>10, VisitEffect
  <2>2. [m_GONodes[k] EXCEPT !.m_visited = TRUE].m_visited
    BY <1>1 DEF LDDState
  <2>3. QED
    BY <1>4, <2>1, <2>2
<1>11. ASSUME NEW w \in Thread,
              InitialPush(w) \/ Pop(w) \/ Popped(w) \/ Fire(w) \/ Push(w) \/ Notify(w)
       PROVE  UNCHANGED m_GONodes
  BY <1>11 DEF InitialPush, Pop, Popped, Fire, Push, Notify, graph
<1>12. QED
  BY <1>2, <1>3, <1>5, <1>6, <1>7, <1>8, <1>9, <1>10, <1>11, StepKinds DEF Working, Quiet

(* The checker waits on, gets what it waits for, or asks for a state.      *)
LEMMA WaitSteps ==
  ASSUME [Next]_vars
  PROVE  \/ UNCHANGED <<mcPc, agregate>>
         \/ agregate' = agregate /\ mcPc \in Waiting /\ mcPc' \in Waiting
         \/ CheckBuild /\ m_GONodes[agregate].m_completed
         \/ GetInitial \/ Explore
         \/ agregate' = agregate /\ mcPc \notin Waiting /\ mcPc' \notin Waiting
<1> USE DEF checker, Waiting
<1>1. ASSUME NEW w \in Thread, BuilderStep(w) \/ SpuriousWakeUp(w)
      PROVE  \/ UNCHANGED <<mcPc, agregate>>
             \/ agregate' = agregate /\ mcPc \in Waiting /\ mcPc' \in Waiting
  BY <1>1 DEF BuilderStep, Start, InitialInsert, InitialPush, InitialNotify, InitialFinish, Lock,
    Check, CheckQueue, Sleep, Pop, Popped, Fire, InsertFind, SetFlags, Push, Notify, AddEdge,
    Complete, NotifyBuild, Until, SpuriousWakeUp
<1>2. CASE CheckBuild
  BY <1>2 DEF CheckBuild
<1>3. CASE SleepBuild \/ SpuriousWakeUpBuild
  BY <1>3 DEF SleepBuild, SpuriousWakeUpBuild
<1>4. CASE Finish \/ PrintCompleteInformation \/ Destroy \/ Join
  BY <1>4 DEF Finish, PrintCompleteInformation, Destroy, Join
<1>5. CASE UNCHANGED vars
  BY <1>5 DEF vars
<1>6. QED
  BY <1>1, <1>2, <1>3, <1>4, <1>5 DEF Next, CheckerStep

(* What the checker asks for has not been asked for before. *)
LEMMA AskEffect ==
  ASSUME TypeInv, GetInitial \/ Explore
  PROVE  /\ ~m_GONodes[agregate'].m_visited /\ mcPc' = "check" /\ mcPc \notin Waiting
         /\ \/ GetInitial /\ agregate' = 1
            \/ \E n \in State : Obtained(n) /\ \E x \in Links(m_GONodes[n]) : x.to = agregate'
<1>1. CASE GetInitial
  BY <1>1 DEF GetInitial, buildSucc, Waiting
<1>2. CASE Explore
  <2>1. PICK n \in State : /\ m_GONodes[n].m_visited
                           /\ \E i \in DOMAIN m_GONodes[n].Successors :
                                buildSucc(m_GONodes[n].Successors[i].to)
    BY <1>2 DEF Explore
  <2>2. PICK x \in Links(m_GONodes[n]) : buildSucc(x.to)
    BY <2>1 DEF Links
  <2>3. mcPc = "explore" /\ Obtained(n)
    BY <1>2, <2>1 DEF Explore, Obtained
  <2>4. QED
    BY <2>2, <2>3 DEF buildSucc, Waiting
<1>3. QED
  BY <1>1, <1>2

Read == {n \in State : Obtained(n)}

(* Once obtained, a state stays so. *)
LEMMA ReadStays ==
  ASSUME TypeInv, [Next]_vars
  PROVE  Read \subseteq Read'
<1> SUFFICES ASSUME NEW n \in State, Obtained(n)
             PROVE  n \in State' /\ Obtained(n)'
  BY DEF Read
<1>1. n \in State' /\ m_GONodes'[n].m_visited
  BY VisitedStays DEF Obtained
<1>2. ~(agregate' = n /\ mcPc' \in {"check", "sleep", "waiting"})
  BY WaitSteps, AskEffect DEF Obtained, Waiting, CheckBuild
<1>3. QED
  BY <1>1, <1>2 DEF Obtained

(* A state is obtained in one way only. *)
LEMMA ReadStep ==
  ASSUME TypeInv, [Next]_vars
  PROVE  \/ Read' = Read
         \/ /\ CheckBuild /\ m_GONodes[agregate].m_completed /\ m_GONodes[agregate].m_visited
            /\ Read' = Read \cup {agregate}
<1>1. ASSUME NEW n \in Read', n \notin Read
      PROVE  /\ CheckBuild /\ m_GONodes[agregate].m_completed /\ n = agregate
             /\ m_GONodes[agregate].m_visited
  <2>1. n \in State' /\ m_GONodes'[n].m_visited /\ Obtained(n)'
    BY <1>1 DEF Read, Obtained
  <2>2. n \in State /\ m_GONodes[n].m_visited
    BY <2>1, NewlyVisited DEF Obtained
  <2>3. n = agregate /\ mcPc \in Waiting
    BY <1>1, <2>2 DEF Read, Obtained, Waiting
  <2>4. ~(agregate' = n /\ mcPc' \in Waiting)
    BY <2>1 DEF Obtained, Waiting
  <2>5. QED
    BY <2>2, <2>3, <2>4, WaitSteps, AskEffect
<1>2. Read \subseteq Read'
  BY ReadStays
<1>3. CASE Read' \subseteq Read
  BY <1>2, <1>3
<1>4. CASE \E n \in Read' : n \notin Read
  BY <1>1, <1>2, <1>4
<1>5. QED
  BY <1>3, <1>4

(* Edges stay. *)
LEMMA LinksStay ==
  ASSUME TypeInv, [Next]_vars, NEW n \in State
  PROVE  Links(m_GONodes[n]) \subseteq Links(m_GONodes'[n])
<1>1. CASE \A w \in Thread : ~(AddEdge(w) /\ e[w].state = n)
  BY <1>1, SameLinks
<1>2. CASE \E w \in Thread : AddEdge(w) /\ e[w].state = n
  BY <1>2, AddEdgeWork
<1>3. QED
  BY <1>1, <1>2

LEMMA AskStep ==
  ASSUME TypeInv, GraphInv, AskInv, [Next]_vars
  PROVE  AskInv'
<1> SUFFICES ASSUME mcPc' \in Waiting
             PROVE  \/ m_GONodes'[agregate'].m_lddstate = InitialAggregate
                    \/ \E n \in Read' : \E x \in Links(m_GONodes'[n]) : x.to = agregate'
  BY DEF AskInv, Agg, Read
<1>1. /\ Read \subseteq Read' /\ Read \subseteq State
      /\ \A n \in State : Links(m_GONodes[n]) \subseteq Links(m_GONodes'[n])
      /\ \A n \in State : m_GONodes'[n].m_lddstate = Agg(n)
  BY ReadStays, LinksStay, GrownStep DEF Read, Grown, Agg
<1>2. CASE mcPc \in Waiting /\ agregate' = agregate
  <2>1. agregate \in State
    BY <1>2 DEF TypeInv, CheckerOK, Waiting
  <2>2. \/ Agg(agregate) = InitialAggregate
        \/ \E n \in Read : \E x \in Links(m_GONodes[n]) : x.to = agregate
    BY <1>2 DEF AskInv, Read
  <2>3. QED
    BY <1>1, <1>2, <2>1, <2>2
<1>3. CASE GetInitial \/ Explore
  <2>1. CASE GetInitial /\ agregate' = 1
    BY <1>1, <2>1 DEF GetInitial, TypeInv, CheckerOK, GraphInv
  <2>2. CASE \E n \in State : Obtained(n) /\ \E x \in Links(m_GONodes[n]) : x.to = agregate'
    BY <1>1, <2>2 DEF Read
  <2>3. QED
    BY <1>3, <2>1, <2>2, AskEffect
<1>4. ~(CheckBuild /\ m_GONodes[agregate].m_completed)
  BY DEF CheckBuild, Waiting
<1>5. QED
  BY <1>2, <1>3, <1>4, WaitSteps

(* The checker goes from the initial state along edges of what it has.     *)
LEMMA AskInvariant == Spec => []AskInv
<1>1. Init => AskInv
  BY DEF Init, AskInv, Waiting
<1>2. TypeInv /\ GraphInv /\ AskInv /\ [Next]_vars => AskInv'
  BY AskStep
<1>3. QED
  BY <1>1, <1>2, TypeInvariant, GraphInvariant, PTL DEF Spec

-----------------------------------------------------------------------------
(* The construction implements SOGOnTheFly.                                *)

Completed == {n \in State : m_GONodes[n].m_completed}

(* The mapping of ModelCheckerCPPThread, with the operators of             *)
(* LDDGraphProofs.                                                         *)
LEMMA PromiseMapping ==
  /\ {m_GONodes[n].m_lddstate : n \in State} = GraphAggregates(m_GONodes, State)
  /\ {m_GONodes[n].m_lddstate : n \in State}' = GraphAggregates(m_GONodes', State')
  /\ (UNION {EdgesOf(n) : n \in State}) = GraphEdges(m_GONodes)
  /\ (UNION {EdgesOf(n) : n \in State})' = GraphEdges(m_GONodes')
  /\ {m_GONodes[n].m_lddstate : n \in {m \in State : m_GONodes[m].m_completed}}
       = GraphAggregates(m_GONodes, Completed)
  /\ {m_GONodes[n].m_lddstate : n \in {m \in State : m_GONodes[m].m_completed}}'
       = GraphAggregates(m_GONodes', Completed')
  /\ {m_GONodes[n].m_lddstate : n \in {m \in State : Obtained(m)}}
       = GraphAggregates(m_GONodes, Read)
  /\ {m_GONodes[n].m_lddstate : n \in {m \in State : Obtained(m)}}'
       = GraphAggregates(m_GONodes', Read')
BY DEF EdgesOf, GraphAggregates, GraphEdges, EdgesFromState, Links, State, Completed, Read

(* Only a builder completes a state, and only the verdict is the verdict.  *)
LEMMA CompletedSame ==
  ASSUME TypeInv, OwnerInv, [Next]_vars, \A w \in Thread : ~Complete(w)
  PROVE  Completed' = Completed
<1>1. State \subseteq State'
  BY GrownStep DEF Grown
<1>2. \A n \in State : m_GONodes[n].m_completed => m_GONodes'[n].m_completed
  BY FrozenStep
<1>3. \A n \in State' : m_GONodes'[n].m_completed => n \in State /\ m_GONodes[n].m_completed
  BY NewlyCompleted
<1>4. QED
  BY <1>1, <1>2, <1>3 DEF Completed

LEMMA FinishSame ==
  ASSUME FinalInv, [Next]_vars, ~Finish
  PROVE  m_finish' = m_finish
<1> USE DEF flags
<1>1. ASSUME NEW w \in Thread, BuilderStep(w) \/ SpuriousWakeUp(w)
      PROVE  m_finish' = m_finish
  BY <1>1 DEF BuilderStep, Start, InitialInsert, InitialPush, InitialNotify, InitialFinish, Lock,
    Check, CheckQueue, Sleep, Pop, Popped, Fire, InsertFind, SetFlags, Push, Notify, AddEdge,
    Complete, NotifyBuild, Until, SpuriousWakeUp
<1>2. ASSUME \/ GetInitial \/ CheckBuild \/ SleepBuild \/ Explore
             \/ PrintCompleteInformation \/ Join \/ SpuriousWakeUpBuild
      PROVE  m_finish' = m_finish
  BY <1>2 DEF GetInitial, CheckBuild, SleepBuild, Explore, PrintCompleteInformation, Join,
    SpuriousWakeUpBuild
<1>3. CASE Destroy
  BY <1>3 DEF Destroy, FinalInv, VerdictOK
<1>4. CASE UNCHANGED vars
  BY <1>4 DEF vars
<1>5. QED
  BY <1>1, <1>2, <1>3, <1>4 DEF Next, CheckerStep

(* A step of a builder that touches the graph is seen by nothing else.     *)
LEMMA BuilderAlone ==
  ASSUME TypeInv, OwnerInv, [Next]_vars, NEW w \in Thread,
         InitialInsert(w) \/ Inserts(w) \/ AddEdge(w)
  PROVE  Completed' = Completed /\ Read' = Read /\ m_finish' = m_finish
<1>1. UNCHANGED <<mcPc, agregate, m_finish>>
  BY DEF InitialInsert, Inserts, InsertFind, AddEdge, flags, checker
<1>2. \E label \in {"initPush", "edge", "flags", "fire"} : pc' = [pc EXCEPT ![w] = label]
  BY InitialInsertEffect, InsertFindEffect, AddEdgeEffect DEF Inserts, TypeInv
<1>3. pc \in [Thread -> BuilderPc]
  BY DEF TypeInv, TypeOK
<1>4. \A v \in Thread : ~Complete(v)
  BY <1>2, <1>3 DEF Complete, Goto
<1>5. Read' = Read
  BY <1>1, ReadStep DEF CheckBuild
<1>6. QED
  BY <1>1, <1>4, <1>5, CompletedSame

(* The aggregate of the state a builder works on is not complete yet. *)
LEMMA HeldIsOpen ==
  ASSUME TypeInv, OwnerInv, GraphInv, NEW w \in Thread, pc[w] \in Holding
  PROVE  /\ e[w].state \in State /\ e[w].state \notin Completed
         /\ Agg(e[w].state) \in GraphAggregates(m_GONodes, State)
                                  \ GraphAggregates(m_GONodes, Completed)
<1>1. e[w].state \in State /\ Holds(w, e[w].state)
  BY OwnedStates DEF Holds
<1>2. Completed \subseteq State /\ e[w].state \notin Completed
  BY <1>1 DEF Completed, OwnerInv, SingleOwner
<1>3. PICK g, n, S : g = m_GONodes /\ n = e[w].state /\ S = Completed
  OBVIOUS
<1>4. PartOfSOG(g) /\ n \in DOMAIN g /\ S \subseteq DOMAIN g /\ n \notin S
  BY <1>1, <1>2, <1>3 DEF State, GraphInv
<1>5. g[n].m_lddstate \notin GraphAggregates(g, S)
  BY <1>4, AggregateOnce
<1>6. g[n].m_lddstate \in GraphAggregates(g, DOMAIN g)
  BY <1>4 DEF GraphAggregates
<1>7. QED
  BY <1>1, <1>2, <1>3, <1>5, <1>6 DEF State, Agg

(* A state with all its transitions has all the edges of its aggregate.    *)
LEMMA FinalIsClosed ==
  ASSUME GraphInv, NEW n \in State, TransitionsOf(m_GONodes[n]) = FirableObs[Agg(n)]
  PROVE  Promise!EdgesFrom(Agg(n)) \subseteq GraphEdges(m_GONodes)
<1>1. PICK g : g = m_GONodes
  OBVIOUS
<1>2. PartOfSOG(g) /\ n \in DOMAIN g /\ {x.t : x \in Links(g[n])} = FirableObs[g[n].m_lddstate]
  BY <1>1 DEF State, GraphInv, Agg, TransitionsOf, Links
<1>3. {new \in Edge : new[1] = g[n].m_lddstate} \subseteq GraphEdges(g)
  BY <1>2, ClosedGraph
<1>4. Promise!EdgesFrom(Agg(n)) = {new \in Edge : new[1] = Agg(n)}
  BY DEF Promise!EdgesFrom, Promise!Edge, Edge, Promise!Arc, Arc
<1>5. QED
  BY <1>1, <1>3, <1>4 DEF Agg

LEMMA StartsConstruction ==
  ASSUME TypeInv, FirstInv, OwnerInv, GraphInv, [Next]_vars, NEW w \in Thread, InitialInsert(w)
  PROVE  Promise!Start
<1>1. /\ GraphEdges(m_GONodes') = GraphEdges(m_GONodes)
      /\ State = {} /\ State' = {1}
      /\ m_GONodes'[1].m_lddstate = InitialAggregate
  BY InitialInsertGraph
<1>2. Completed' = Completed /\ Read' = Read /\ m_finish' = m_finish
  BY BuilderAlone
<1>3. Completed = {} /\ Read = {}
  BY <1>1 DEF Completed, Read
<1>4. /\ GraphAggregates(m_GONodes, State) = {}
      /\ GraphAggregates(m_GONodes', State') = {InitialAggregate}
      /\ GraphAggregates(m_GONodes', Completed') = GraphAggregates(m_GONodes, Completed)
      /\ GraphAggregates(m_GONodes', Read') = GraphAggregates(m_GONodes, Read)
  BY <1>1, <1>2, <1>3 DEF GraphAggregates
<1>5. QED
  BY <1>1, <1>2, <1>4, PromiseMapping DEF Promise!Start

LEMMA DiscoversAggregate ==
  ASSUME TypeInv, OwnerInv, GraphInv, [Next]_vars, NEW w \in Thread, Inserts(w)
  PROVE  \E new \in Promise!Edge : Promise!Discover(new)
<1>n. PICK new : new = <<Agg(e[w].state), t[w], reduced_meta(w)>>
  OBVIOUS
<1>1. pc[w] = "insert"
  BY InsertsEffect
<1>2. new \in Edge /\ new[1] = Agg(e[w].state) /\ new[3] = reduced_meta(w)
  BY <1>1, <1>n, FiredEdge DEF Firing
<1>3. Agg(e[w].state) \in GraphAggregates(m_GONodes, State)
                            \ GraphAggregates(m_GONodes, Completed)
  BY <1>1, HeldIsOpen DEF Holding
<1>4. /\ GraphEdges(m_GONodes') = GraphEdges(m_GONodes)
      /\ reduced_meta(w) \notin GraphAggregates(m_GONodes, State)
      /\ GraphAggregates(m_GONodes', State')
           = GraphAggregates(m_GONodes, State) \cup {reduced_meta(w)}
      /\ \A S \in SUBSET State :
           GraphAggregates(m_GONodes', S) = GraphAggregates(m_GONodes, S)
  BY InsertsGraph
<1>5. /\ Completed' = Completed /\ Read' = Read /\ m_finish' = m_finish
      /\ Completed \subseteq State /\ Read \subseteq State
  BY BuilderAlone DEF Completed, Read
<1>6. /\ GraphAggregates(m_GONodes', Completed') = GraphAggregates(m_GONodes, Completed)
      /\ GraphAggregates(m_GONodes', Read') = GraphAggregates(m_GONodes, Read)
  BY <1>4, <1>5
<1>7. Promise!Discover(new)
  BY <1>2, <1>3, <1>4, <1>5, <1>6, PromiseMapping DEF Promise!Discover
<1>8. new \in Promise!Edge
  BY <1>2 DEF Promise!Edge, Edge, Promise!Arc, Arc
<1>9. QED
  BY <1>7, <1>8, Zenon

LEMMA LinksAggregates ==
  ASSUME TypeInv, OwnerInv, OnceInv, GraphInv, [Next]_vars, NEW w \in Thread, AddEdge(w)
  PROVE  \E new \in Promise!Edge : Promise!Link(new)
<1> DEFINE new == <<Agg(e[w].state), t[w], reduced_meta(w)>>
<1>1. pc[w] = "edge" /\ State' = State
  BY AddEdgeEffect
<1>2. /\ new \in Edge /\ new \notin GraphEdges(m_GONodes)
      /\ GraphEdges(m_GONodes') = GraphEdges(m_GONodes) \cup {new}
      /\ reduced_meta(w) \in GraphAggregates(m_GONodes, State)
      /\ \A S \in SUBSET State :
           GraphAggregates(m_GONodes', S) = GraphAggregates(m_GONodes, S)
  BY AddEdgeGraph
<1>3. new[1] = Agg(e[w].state) /\ new[3] = reduced_meta(w)
  OBVIOUS
<1>4. Agg(e[w].state) \in GraphAggregates(m_GONodes, State)
                            \ GraphAggregates(m_GONodes, Completed)
  BY <1>1, HeldIsOpen DEF Holding
<1>5. /\ Completed' = Completed /\ Read' = Read /\ m_finish' = m_finish
      /\ Completed \subseteq State /\ Read \subseteq State
  BY BuilderAlone DEF Completed, Read
<1>6. /\ GraphAggregates(m_GONodes', State') = GraphAggregates(m_GONodes, State)
      /\ GraphAggregates(m_GONodes', Completed') = GraphAggregates(m_GONodes, Completed)
      /\ GraphAggregates(m_GONodes', Read') = GraphAggregates(m_GONodes, Read)
  BY <1>1, <1>2, <1>5
<1> HIDE DEF new
<1>7. Promise!Link(new)
  BY <1>2, <1>3, <1>4, <1>5, <1>6, PromiseMapping DEF Promise!Link
<1>8. QED
  BY <1>2, <1>7 DEF Promise!Edge, Edge, Promise!Arc, Arc

(* A builder completes its state: all its edges are there, or the verdict  *)
(* has cut it short.                                                       *)
LEMMA CompletesAggregate ==
  ASSUME TypeInv, OwnerInv, FinalInv, GraphInv, [Next]_vars, NEW w \in Thread, Complete(w)
  PROVE  \E a \in Aggregate : Promise!Finalize(a)
<1> DEFINE n == e[w].state
<1>1. /\ pc[w] = "complete" /\ n \in State /\ State' = State
      /\ \A k \in State : m_GONodes'[k] = IF k = n THEN [m_GONodes[n] EXCEPT !.m_completed = TRUE]
                                                  ELSE m_GONodes[k]
  BY CompleteEffect DEF Assigned
<1>2. m_GONodes[n] \in LDDState /\ Agg(n) \in Aggregate
  BY <1>1, StateProperties DEF TypeInv
<1>3. /\ Agg(n) \in GraphAggregates(m_GONodes, State) \ GraphAggregates(m_GONodes, Completed)
  BY <1>1, HeldIsOpen DEF Holding
<1>4. Promise!EdgesFrom(Agg(n)) \subseteq GraphEdges(m_GONodes) \/ m_finish
  <2>1. ASSUME ~m_finish
        PROVE  TransitionsOf(m_GONodes[n]) = FirableObs[Agg(n)]
    <3>1. WorkOK(w) /\ InHand(w) = {}
      BY <1>1 DEF FinalInv, InHand, Firing
    <3>2. QED
      BY <1>1, <2>1, <3>1 DEF WorkOK, Holding
  <2>2. QED
    BY <1>1, <2>1, FinalIsClosed
<1>5. /\ m_GONodes'[n].m_completed
      /\ m_GONodes'[n].m_lddstate = m_GONodes[n].m_lddstate
      /\ m_GONodes'[n].Successors = m_GONodes[n].Successors
  BY <1>1, <1>2 DEF LDDState
<1>6. SameStates /\ Completed' = Completed \cup {n}
  <2> HIDE DEF n
  <2>1. QED
    BY <1>1, <1>5 DEF SameStates, Completed, Links
<1>7. UNCHANGED <<mcPc, agregate, m_finish>>
  BY DEF Complete, flags, checker
<1>8. Read' = Read /\ Read \subseteq State /\ Completed \subseteq State
  BY <1>7, ReadStep DEF CheckBuild, Read, Completed
<1>9. /\ GraphAggregates(m_GONodes', State') = GraphAggregates(m_GONodes, State)
      /\ GraphEdges(m_GONodes') = GraphEdges(m_GONodes)
      /\ GraphAggregates(m_GONodes', Read') = GraphAggregates(m_GONodes, Read)
      /\ GraphAggregates(m_GONodes', Completed')
           = GraphAggregates(m_GONodes, Completed \cup {n})
  <2>1. Completed \cup {n} \in SUBSET State
    BY <1>1, <1>8
  <2> HIDE DEF n
  <2>2. QED
    BY <1>1, <1>6, <1>8, <2>1, SameStatesGraph
<1>10. GraphAggregates(m_GONodes, Completed \cup {n})
         = GraphAggregates(m_GONodes, Completed) \cup {Agg(n)}
  BY DEF GraphAggregates, Agg
<1> HIDE DEF n
<1>a. PICK a : a = Agg(n)
  OBVIOUS
<1>11. /\ a \in GraphAggregates(m_GONodes, State) \ GraphAggregates(m_GONodes, Completed)
       /\ Promise!EdgesFrom(a) \subseteq GraphEdges(m_GONodes) \/ m_finish
       /\ GraphAggregates(m_GONodes', Completed') = GraphAggregates(m_GONodes, Completed) \cup {a}
  BY <1>3, <1>4, <1>9, <1>10, <1>a
<1>12. a \in Aggregate
  BY <1>2, <1>a
<1>13. Promise!Finalize(a)
  BY <1>7, <1>9, <1>11, PromiseMapping DEF Promise!Finalize
<1>14. QED
  BY <1>12, <1>13

(* The checker's wait returns. *)
LEMMA ReadsAggregate ==
  ASSUME TypeInv, OwnerInv, FinalInv, GraphInv, AskInv, [Next]_vars, SameStates,
         Completed' = Completed, CheckBuild, m_GONodes[agregate].m_completed,
         Read' = Read \cup {agregate}, m_finish' = m_finish
  PROVE  \E a \in Aggregate : Promise!Read(a)
<1> DEFINE n == agregate
<1>1. mcPc = "check" /\ n \in State /\ n \in Completed
  BY DEF CheckBuild, TypeInv, CheckerOK, Completed
<1>2. Agg(n) \in Aggregate
  BY <1>1, StateProperties DEF TypeInv
<1>3. ~m_finish /\ TransitionsOf(m_GONodes[n]) = FirableObs[Agg(n)]
  BY <1>1 DEF FinalInv, VerdictOK, Final
<1>4. Promise!EdgesFrom(Agg(n)) \subseteq GraphEdges(m_GONodes)
  BY <1>1, <1>3, FinalIsClosed
<1>5. n \notin Read /\ Read \subseteq State /\ Completed \subseteq State
  BY <1>1 DEF Read, Obtained, Completed
<1>6. Agg(n) \in GraphAggregates(m_GONodes, Completed) \ GraphAggregates(m_GONodes, Read)
  <2>1. PICK g, S : g = m_GONodes /\ S = Read
    OBVIOUS
  <2>2. PartOfSOG(g) /\ n \in DOMAIN g /\ S \subseteq DOMAIN g /\ n \notin S
    BY <1>1, <1>5, <2>1 DEF State, GraphInv
  <2>3. g[n].m_lddstate \notin GraphAggregates(g, S)
    BY <2>2, AggregateOnce
  <2>4. Agg(n) \in GraphAggregates(m_GONodes, Completed)
    BY <1>1 DEF GraphAggregates, Agg
  <2>5. QED
    BY <2>1, <2>3, <2>4 DEF Agg
<1>7. \/ Agg(n) = InitialAggregate
      \/ \E new \in GraphEdges(m_GONodes) :
           new[1] \in GraphAggregates(m_GONodes, Read) /\ new[3] = Agg(n)
  <2>1. ASSUME NEW m \in Read, NEW x \in Links(m_GONodes[m]), x.to = n
        PROVE  \E new \in GraphEdges(m_GONodes) :
                 new[1] \in GraphAggregates(m_GONodes, Read) /\ new[3] = Agg(n)
    <3>1. m \in State
      BY <1>5
    <3>2. <<Agg(m), x.t, Agg(n)>> \in GraphEdges(m_GONodes)
      BY <2>1, <3>1 DEF GraphEdges, EdgesFromState, State, Agg
    <3>3. Agg(m) \in GraphAggregates(m_GONodes, Read)
      BY DEF GraphAggregates, Agg
    <3>4. QED
      BY <3>2, <3>3
  <2>2. QED
    BY <1>1, <2>1 DEF AskInv, Waiting, Read
<1>8. /\ GraphAggregates(m_GONodes', State') = GraphAggregates(m_GONodes, State)
      /\ GraphEdges(m_GONodes') = GraphEdges(m_GONodes)
      /\ GraphAggregates(m_GONodes', Completed') = GraphAggregates(m_GONodes, Completed)
      /\ GraphAggregates(m_GONodes', Read') = GraphAggregates(m_GONodes, Read \cup {n})
  <2>1. State' = State /\ Read \cup {n} \in SUBSET State
    BY <1>1, <1>5 DEF SameStates
  <2>2. QED
    BY <1>5, <2>1, SameStatesGraph
<1>9. GraphAggregates(m_GONodes, Read \cup {n}) = GraphAggregates(m_GONodes, Read) \cup {Agg(n)}
  BY DEF GraphAggregates, Agg
<1> HIDE DEF n
<1>a. PICK a : a = Agg(n)
  OBVIOUS
<1>10. /\ a \in GraphAggregates(m_GONodes, Completed) \ GraphAggregates(m_GONodes, Read)
       /\ Promise!EdgesFrom(a) \subseteq GraphEdges(m_GONodes)
       /\ \/ a = InitialAggregate
          \/ \E new \in GraphEdges(m_GONodes) :
               new[1] \in GraphAggregates(m_GONodes, Read) /\ new[3] = a
       /\ GraphAggregates(m_GONodes', Read') = GraphAggregates(m_GONodes, Read) \cup {a}
  BY <1>4, <1>6, <1>7, <1>8, <1>9, <1>a
<1>11. a \in Aggregate
  BY <1>2, <1>a
<1>12. Promise!Read(a)
  BY <1>3, <1>8, <1>10, PromiseMapping DEF Promise!Read
<1>13. QED
  BY <1>11, <1>12

(* The verdict, and the steps that change nothing of what is promised.     *)
LEMMA StopsOrKeeps ==
  ASSUME TypeInv, FinalInv, GraphInv, SameStates, Completed' = Completed, Read' = Read,
         Finish \/ m_finish' = m_finish
  PROVE  Promise!Stop \/ UNCHANGED Promise!vars
<1>1. State' = State /\ Completed \subseteq State /\ Read \subseteq State
  BY DEF SameStates, Completed, Read
<1>2. /\ GraphEdges(m_GONodes') = GraphEdges(m_GONodes)
      /\ GraphAggregates(m_GONodes', State') = GraphAggregates(m_GONodes, State)
      /\ GraphAggregates(m_GONodes', Completed') = GraphAggregates(m_GONodes, Completed)
      /\ GraphAggregates(m_GONodes', Read') = GraphAggregates(m_GONodes, Read)
  BY <1>1, SameStatesGraph
<1>3. CASE Finish
  <2>1. ~m_finish /\ m_finish' = TRUE
    BY <1>3 DEF Finish, FinalInv, VerdictOK
  <2>2. QED
    BY <1>2, <2>1, PromiseMapping DEF Promise!Stop
<1>4. CASE m_finish' = m_finish
  BY <1>2, <1>4, PromiseMapping DEF Promise!vars
<1>5. QED
  BY <1>3, <1>4

LEMMA PromiseStep ==
  ASSUME TypeInv, FirstInv, OwnerInv, FinalInv, OnceInv, GraphInv, AskInv, [Next]_vars
  PROVE  [Promise!Next]_(Promise!vars)
<1>1. ASSUME NEW w \in Thread, InitialInsert(w)
      PROVE  Promise!Next
  BY <1>1, StartsConstruction DEF Promise!Next
<1>2. ASSUME NEW w \in Thread, Inserts(w)
      PROVE  Promise!Next
  BY <1>2, DiscoversAggregate DEF Promise!Next
<1>3. ASSUME NEW w \in Thread, AddEdge(w)
      PROVE  Promise!Next
  BY <1>3, LinksAggregates DEF Promise!Next
<1>4. ASSUME NEW w \in Thread, Complete(w)
      PROVE  Promise!Next
  BY <1>4, CompletesAggregate DEF Promise!Next
<1>5. ASSUME SameStates, \A w \in Thread : ~Complete(w)
      PROVE  [Promise!Next]_(Promise!vars)
  <2>1. Completed' = Completed
    BY <1>5, CompletedSame
  <2>2. Finish \/ m_finish' = m_finish
    BY FinishSame
  <2>3. CASE Read' = Read
    BY <1>5, <2>1, <2>2, <2>3, StopsOrKeeps DEF Promise!Next
  <2>4. CASE /\ CheckBuild /\ m_GONodes[agregate].m_completed
             /\ Read' = Read \cup {agregate}
    <3>1. m_finish' = m_finish
      BY <2>4 DEF CheckBuild, flags
    <3>2. QED
      BY <1>5, <2>1, <2>4, <3>1, ReadsAggregate DEF Promise!Next
  <2>5. QED
    BY <2>3, <2>4, ReadStep
<1>6. QED
  BY <1>1, <1>2, <1>3, <1>4, <1>5, GraphSteps

LEMMA PromiseInit == Init => Promise!Init
<1> SUFFICES ASSUME Init PROVE Promise!Init
  OBVIOUS
<1>1. State = {} /\ Completed = {} /\ Read = {} /\ m_finish = FALSE
  BY EmptySeq DEF Init, State, Completed, Read
<1>2. /\ GraphAggregates(m_GONodes, State) = {}
      /\ GraphAggregates(m_GONodes, Completed) = {} /\ GraphAggregates(m_GONodes, Read) = {}
      /\ GraphEdges(m_GONodes) = {}
  BY <1>1 DEF GraphAggregates, GraphEdges, State
<1>3. QED
  BY <1>1, <1>2, PromiseMapping DEF Promise!Init

(* Whatever the builders and the checker do, the graph only grows towards  *)
(* the SOG, a completed aggregate has its edges unless the verdict is in,  *)
(* and the checker walks from the initial aggregate along edges and        *)
(* obtains an aggregate only with all its edges.                           *)
THEOREM ModelCheckerRefinesSOG == Spec => ImplementsSOGOnTheFly
<1>1. TypeInv /\ FirstInv /\ OwnerInv /\ FinalInv /\ OnceInv /\ GraphInv /\ AskInv /\ [Next]_vars
        => [Promise!Next]_(Promise!vars)
  BY PromiseStep
<1>2. QED
  BY <1>1, PromiseInit, TypeInvariant, FirstInvariant, OwnerInvariant, FinalInvariant,
     OnceInvariant, GraphInvariant, AskInvariant,
     PTL DEF Spec, ImplementsSOGOnTheFly, Promise!Spec
=============================================================================
