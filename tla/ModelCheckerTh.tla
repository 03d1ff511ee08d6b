--------------------------- MODULE ModelCheckerTh ---------------------------
(***************************************************************************)
(* The on-the-fly multi-core model checker over POSIX threads: each builder*)
(* has a stack, polls it, and leaves when every builder has announced an   *)
(* empty stack or when the destructor says so.  Nobody sleeps but the main *)
(* thread, in buildSucc.                                                   *)
(*                                                                         *)
(* ModelCheckerTh declares an m_finish of its own.  finish() sets the one  *)
(* of CommonSOG, which no builder reads; the builders' is set by the       *)
(* destructor.                                                             *)
(*                                                                         *)
(* An aggregate is linked, and m_graph_mutex released, before it is in     *)
(* m_GONodes: the objects are a sequence of their own here, heap, and      *)
(* m_GONodes is a vector of pointers to them.  As in ThreadSOG any stack   *)
(* may be chosen by minCharge, whose loads have no lock.                   *)
(***************************************************************************)
EXTENDS LDDGraph, FiniteSets

CONSTANT m_nb_thread  \* the number of builder threads

ASSUME ModelCheckerThAssumption == m_nb_thread \in Nat \ {0}

Thread == 0 .. m_nb_thread - 1

VARIABLES
  heap,              \* the LDDState objects; a pointer is a position
  m_GONodes,         \* the vector of LDDGraph: pointers
  m_nbArcs,          \* the atomic counter of LDDGraph
  m_st,              \* the stack of each builder, its top first
  m_terminaison,     \* the builders that have announced an empty stack
  m_id_thread,       \* the atomic counter that numbers the builders
  m_finish,          \* the destructor has told the builders to stop
  m_finish_initial,  \* the initial aggregate is in the graph
  pc,                \* where each builder is
  e,                 \* each builder's local e: a state and its transitions to fire
  t,                 \* each builder's local t
  pos,               \* each builder's target of t
  i,                 \* the index of each builder in isNotTerminated
  mcPc,              \* where the main thread is
  agregate           \* the argument of the main thread's current buildSucc

graph == <<heap, m_GONodes, m_nbArcs>>
stacks == <<m_st, m_terminaison>>
flags == <<m_finish, m_finish_initial>>
builder == <<m_id_thread, pc, e, t, pos, i>>
checker == <<mcPc, agregate>>
vars == <<graph, stacks, flags, builder, checker>>

Object == DOMAIN heap
InGraph == {m_GONodes[k] : k \in DOMAIN m_GONodes}

Pair(n, fire) == [state |-> n, fire |-> fire]

Working == {"fire", "find", "link", "insert", "flags", "push", "complete"}

Goto(w, label) == pc' = [pc EXCEPT ![w] = label]

(* m_graph_mutex is held from the search to the edges. *)
GraphMutexFree == \A w \in Thread : pc[w] # "link"

-----------------------------------------------------------------------------
(* The builder thread: Compute_successors. *)

Start(w) ==
  /\ pc[w] = "start"
  /\ m_id_thread = w
  /\ m_id_thread' = m_id_thread + 1
  /\ Goto(w, IF w = 0 THEN "initial" ELSE "loop")
  /\ UNCHANGED <<graph, stacks, flags, e, t, pos, i, checker>>

(* The initial state, flags included; the checker waits for the last       *)
(* assignment.                                                             *)
Initial ==
  /\ pc[0] = "initial"
  /\ heap' = <<WithFlags(NewState(InitialAggregate))>>
  /\ m_st' = [m_st EXCEPT ![0] = <<Pair(1, FirableObs[InitialAggregate])>>]
  /\ m_GONodes' = insert(m_GONodes, 1)
  /\ m_finish_initial' = TRUE
  /\ Goto(0, "loop")
  /\ UNCHANGED <<m_nbArcs, m_terminaison, m_finish, m_id_thread, e, t, pos, i, checker>>

(* while (!m_st[id_thread].empty() && !m_finish) *)
Loop(w) ==
  /\ pc[w] = "loop"
  /\ Goto(w, IF m_st[w] # <<>> /\ ~m_finish THEN "busy" ELSE "idle")
  /\ UNCHANGED <<graph, stacks, flags, m_id_thread, e, t, pos, i, checker>>

Busy(w) ==
  /\ pc[w] = "busy"
  /\ m_terminaison' = m_terminaison \ {w}
  /\ Goto(w, "pop")
  /\ UNCHANGED <<graph, m_st, flags, m_id_thread, e, t, pos, i, checker>>

Pop(w) ==
  /\ pc[w] = "pop"
  /\ e' = [e EXCEPT ![w] = Head(m_st[w])]
  /\ m_st' = [m_st EXCEPT ![w] = Tail(@)]
  /\ Goto(w, "fire")
  /\ UNCHANGED <<graph, m_terminaison, flags, m_id_thread, t, pos, i, checker>>

(* Mutant: the loop ends one transition too early. *)
FireAllButLast(w) ==
  /\ pc[w] = "fire"
  /\ \/ /\ ~m_finish
        /\ Cardinality(e[w].fire) > 1
        /\ \E u \in e[w].fire :
             /\ \A v \in e[w].fire : u <= v
             /\ t' = [t EXCEPT ![w] = u]
             /\ e' = [e EXCEPT ![w].fire = @ \ {u}]
        /\ Goto(w, "find")
     \/ /\ m_finish \/ Cardinality(e[w].fire) <= 1
        /\ Goto(w, "complete")
        /\ UNCHANGED <<e, t>>
  /\ UNCHANGED <<graph, stacks, flags, m_id_thread, pos, i, checker>>

(* while (!e.second.empty() && !m_finish) *)
Fire(w) ==
  /\ pc[w] = "fire"
  /\ \/ /\ ~m_finish
        /\ \E u \in e[w].fire :
             /\ \A v \in e[w].fire : u <= v
             /\ t' = [t EXCEPT ![w] = u]
             /\ e' = [e EXCEPT ![w].fire = @ \ {u}]
        /\ Goto(w, "find")
     \/ (m_finish \/ e[w].fire = {}) /\ Goto(w, "complete") /\ UNCHANGED <<e, t>>
  /\ UNCHANGED <<graph, stacks, flags, m_id_thread, pos, i, checker>>

(* The aggregate t leads to from the state of e. *)
Reached(w) == Successor[<<heap[e[w].state].m_lddstate, t[w]>>]

(* m_graph->find looks through m_GONodes only; when it finds nothing, the  *)
(* new object is used.                                                     *)
Find(w) ==
  /\ pc[w] = "find"
  /\ GraphMutexFree
  /\ LET found == {k \in DOMAIN m_GONodes : heap[m_GONodes[k]].m_lddstate = Reached(w)}
     IN  \/ /\ \E k \in found :
                 (\A l \in found : k <= l) /\ pos' = [pos EXCEPT ![w] = m_GONodes[k]]
            /\ UNCHANGED heap
         \/ /\ found = {}
            /\ heap' = Append(heap, NewState(Reached(w)))
            /\ pos' = [pos EXCEPT ![w] = Len(heap) + 1]
  /\ Goto(w, "link")
  /\ UNCHANGED <<m_GONodes, m_nbArcs, stacks, flags, m_id_thread, e, t, i, checker>>

(* The edge at both ends, then m_graph_mutex.unlock() and addArc().        *)
Link(w) ==
  /\ pc[w] = "link"
  /\ heap' = AddPredecessor(AddSuccessor(heap, e[w].state, pos[w], t[w]),
                            pos[w], e[w].state, t[w])
  /\ m_nbArcs' = m_nbArcs + 1
  /\ Goto(w, IF pos[w] \in InGraph THEN "fire" ELSE "insert")
  /\ UNCHANGED <<m_GONodes, stacks, flags, m_id_thread, e, t, pos, i, checker>>

(* The insertion, without m_graph_mutex. *)
Insert(w) ==
  /\ pc[w] = "insert"
  /\ m_GONodes' = insert(m_GONodes, pos[w])
  /\ Goto(w, "flags")
  /\ UNCHANGED <<heap, m_nbArcs, stacks, flags, m_id_thread, e, t, pos, i, checker>>

(* Mutant: the flags are forgotten. *)
SetFlagsNot(w) ==
  /\ pc[w] = "flags"
  /\ Goto(w, "push")
  /\ UNCHANGED <<graph, stacks, flags, m_id_thread, e, t, pos, i, checker>>

SetFlags(w) ==
  /\ pc[w] = "flags"
  /\ heap' = [heap EXCEPT ![pos[w]] = WithFlags(@)]
  /\ Goto(w, "push")
  /\ UNCHANGED <<m_GONodes, m_nbArcs, stacks, flags, m_id_thread, e, t, pos, i, checker>>

(* Mutant: the second state of an aggregate is not pushed. *)
PushOnce(w) ==
  /\ pc[w] = "push"
  /\ \E min_charge \in Thread :
       LET a == heap[pos[w]].m_lddstate
           twin == {n \in InGraph \ {pos[w]} : heap[n].m_lddstate = a}
       IN  m_st' = IF twin # {} THEN m_st
                   ELSE [m_st EXCEPT ![min_charge] = <<Pair(pos[w], FirableObs[a])>> \o @]
  /\ Goto(w, "fire")
  /\ UNCHANGED <<graph, m_terminaison, flags, m_id_thread, e, t, pos, i, checker>>

(* The stack of min_charge may be that of a builder that has left. *)
Push(w) ==
  /\ pc[w] = "push"
  /\ \E min_charge \in Thread :
       m_st' = [m_st EXCEPT ![min_charge] =
                  <<Pair(pos[w], FirableObs[heap[pos[w]].m_lddstate])>> \o @]
  /\ Goto(w, "fire")
  /\ UNCHANGED <<graph, m_terminaison, flags, m_id_thread, e, t, pos, i, checker>>

Complete(w) ==
  /\ pc[w] = "complete"
  /\ heap' = [heap EXCEPT ![e[w].state].m_completed = TRUE]
  /\ Goto(w, "notifyBuild")
  /\ UNCHANGED <<m_GONodes, m_nbArcs, stacks, flags, m_id_thread, e, t, pos, i, checker>>

(* Mutant: the builder waits for the checker to be asleep. *)
NotifyBuildRendezvous(w) ==
  /\ pc[w] = "notifyBuild"
  /\ mcPc = "waiting"
  /\ mcPc' = "check"
  /\ Goto(w, "loop")
  /\ UNCHANGED <<graph, stacks, flags, m_id_thread, e, t, pos, i, agregate>>

(* notify_one on m_condBuild: lost unless the main thread is asleep.       *)
NotifyBuild(w) ==
  /\ pc[w] = "notifyBuild"
  /\ mcPc' = IF mcPc = "waiting" THEN "check" ELSE mcPc
  /\ Goto(w, "loop")
  /\ UNCHANGED <<graph, stacks, flags, m_id_thread, e, t, pos, i, agregate>>

Idle(w) ==
  /\ pc[w] = "idle"
  /\ m_terminaison' = m_terminaison \cup {w}
  /\ i' = [i EXCEPT ![w] = 0]
  /\ Goto(w, "scan")
  /\ UNCHANGED <<graph, m_st, flags, m_id_thread, e, t, pos, checker>>

(* while (isNotTerminated() && !m_finish) *)
isNotTerminated(w) ==
  /\ pc[w] = "scan"
  /\ \/ i[w] = m_nb_thread /\ Goto(w, "done") /\ UNCHANGED i
     \/ /\ i[w] \in m_terminaison
        /\ i' = [i EXCEPT ![w] = @ + 1]
        /\ UNCHANGED pc
     \/ /\ i[w] \in Thread \ m_terminaison
        /\ Goto(w, IF m_finish THEN "done" ELSE "loop")
        /\ UNCHANGED i
  /\ UNCHANGED <<graph, stacks, flags, m_id_thread, e, t, pos, checker>>

BuilderStep(w) ==
  \/ Start(w) \/ Loop(w) \/ Busy(w) \/ Pop(w) \/ Fire(w) \/ Find(w) \/ Link(w) \/ Insert(w)
  \/ SetFlags(w) \/ Push(w) \/ Complete(w) \/ NotifyBuild(w) \/ Idle(w)
  \/ isNotTerminated(w)
  \/ w = 0 /\ Initial

-----------------------------------------------------------------------------
(* The main thread: getInitialMetaState, Spot's walk, finish(), delete.    *)

(* buildSucc up to the lock of m_mutexBuild, for a state not visited yet.  *)
buildSucc(n) ==
  /\ ~heap[n].m_visited
  /\ heap' = [heap EXCEPT ![n].m_visited = TRUE]
  /\ agregate' = n
  /\ mcPc' = "check"

(* while (!m_finish_initial); then the first state of the vector.          *)
GetInitial ==
  /\ mcPc = "initial"
  /\ m_finish_initial
  /\ buildSucc(m_GONodes[1])
  /\ UNCHANGED <<m_GONodes, m_nbArcs, stacks, flags, builder>>

CheckBuild ==
  /\ mcPc = "check"
  /\ mcPc' = IF heap[agregate].m_completed THEN "explore" ELSE "sleep"
  /\ UNCHANGED <<graph, stacks, flags, builder, agregate>>

SleepBuild ==
  /\ mcPc = "sleep"
  /\ mcPc' = "waiting"
  /\ UNCHANGED <<graph, stacks, flags, builder, agregate>>

SpuriousWakeUpBuild ==
  /\ mcPc = "waiting"
  /\ mcPc' = "check"
  /\ UNCHANGED <<graph, stacks, flags, builder, agregate>>

(* Spot asks for a successor of a state it has. *)
Explore ==
  /\ mcPc = "explore"
  /\ \E n \in Object :
       /\ heap[n].m_visited
       /\ \E k \in DOMAIN heap[n].Successors : buildSucc(heap[n].Successors[k].to)
  /\ UNCHANGED <<m_GONodes, m_nbArcs, stacks, flags, builder>>

(* The verdict; finish() sets a flag that no builder reads. *)
Finish ==
  /\ mcPc = "explore"
  /\ mcPc' = "print"
  /\ UNCHANGED <<graph, stacks, flags, builder, agregate>>

PrintCompleteInformation ==
  /\ mcPc = "print"
  /\ mcPc' = "destroy"
  /\ UNCHANGED <<graph, stacks, flags, builder, agregate>>

Destroy ==
  /\ mcPc = "destroy"
  /\ m_finish' = TRUE
  /\ mcPc' = "join"
  /\ UNCHANGED <<graph, stacks, m_finish_initial, builder, agregate>>

Join ==
  /\ mcPc = "join"
  /\ \A w \in Thread : pc[w] = "done"
  /\ mcPc' = "end"
  /\ UNCHANGED <<graph, stacks, flags, builder, agregate>>

CheckerStep ==
  \/ GetInitial \/ CheckBuild \/ SleepBuild \/ Explore \/ Finish
  \/ PrintCompleteInformation \/ Destroy \/ Join

-----------------------------------------------------------------------------
Init ==
  /\ heap = <<>>
  /\ m_GONodes = <<>>
  /\ m_nbArcs = 0
  /\ m_st = [w \in Thread |-> <<>>]
  /\ m_terminaison = {}
  /\ m_id_thread = 0
  /\ m_finish = FALSE
  /\ m_finish_initial = FALSE
  /\ pc = [w \in Thread |-> "start"]
  /\ e = [w \in Thread |-> Pair(NoState, {})]
  /\ t = [w \in Thread |-> NoTransition]
  /\ pos = [w \in Thread |-> NoState]
  /\ i = [w \in Thread |-> 0]
  /\ mcPc = "initial"
  /\ agregate = NoState

Next ==
  \/ \E w \in Thread : BuilderStep(w)
  \/ CheckerStep
  \/ SpuriousWakeUpBuild

(* Every thread is scheduled while it can run. *)
Fairness ==
  /\ \A w \in Thread : WF_vars(BuilderStep(w))
  /\ WF_vars(CheckerStep)

Spec == Init /\ [][Next]_vars /\ Fairness
-----------------------------------------------------------------------------
(* Properties. *)

Stacked(v, n) == \E k \in DOMAIN m_st[v] : m_st[v][k].state = n

(* Builder w works on state n, or has still to push it. *)
Holds(w, n) ==
  \/ pc[w] \in Working /\ e[w].state = n
  \/ pc[w] \in {"insert", "flags", "push"} /\ pos[w] = n
  \/ pc[w] = "link" /\ pos[w] = n /\ n \notin InGraph

(* Until the destructor runs, a state that is not completed is on a stack  *)
(* or in a builder's hands; it may be on the stack of a builder that left. *)
NoWorkLost ==
  ~m_finish => \A n \in Object :
    heap[n].m_completed \/ \E w \in Thread : Stacked(w, n) \/ Holds(w, n)

(* The states whose buildSucc has returned to the checker. *)
Obtained(n) ==
  /\ heap[n].m_visited
  /\ ~(agregate = n /\ mcPc \in {"check", "sleep", "waiting"})

AllEdges(n) == TransitionsOf(heap[n]) = FirableObs[heap[n].m_lddstate]

(* What Spot reads without a lock is final, although flags are assigned    *)
(* and the vector is filled after the state has been linked.               *)
ObtainedIsFinal ==
  \A n \in Object : Obtained(n) =>
    /\ n \in InGraph
    /\ heap[n].m_completed
    /\ AllEdges(n)
    /\ heap[n].m_blocage = (heap[n].m_lddstate \in Deadlocked)
    /\ heap[n].m_boucle = (heap[n].m_lddstate \in Divergent)

(* Two states of one aggregate do not break the promise of an on-the-fly   *)
(* construction: an aggregate is final when one of its states is complete  *)
(* with all its edges.  Without the last words it would not be kept: once  *)
(* the destructor has set m_finish, a builder completes its state early    *)
(* while another one may still link an edge of the state's twin.           *)
EdgesOf(n) ==
  {<<heap[n].m_lddstate, s.t, heap[s.to].m_lddstate>> :
     s \in {heap[n].Successors[k] : k \in DOMAIN heap[n].Successors}}
AggregatesOf(S) == {heap[n].m_lddstate : n \in S}
Promise == INSTANCE SOGOnTheFly WITH
  known <- AggregatesOf(Object),
  edges <- UNION {EdgesOf(n) : n \in Object},
  final <- AggregatesOf({n \in Object : heap[n].m_completed /\ AllEdges(n)}),
  read <- AggregatesOf({n \in Object : Obtained(n)}),
  stopped <- m_finish
ImplementsSOGOnTheFly == Promise!Spec

(* main.cpp:509, "stop model checker process": once the check is over the  *)
(* builders stop and are joined.                                           *)
StopEnds == (mcPc = "print") ~> (mcPc = "end")

=============================================================================
