----------------------- MODULE ModelCheckerCPPThread -----------------------
(***************************************************************************)
(* The on-the-fly multi-core model checker over the C++ thread library     *)
(* (the one `pmc-sog` runs by default): builder threads take aggregates    *)
(* from a common queue and fire their observable transitions, while the    *)
(* main thread walks the graph they build (ModelCheckBaseMT, SogKripkeTh)  *)
(* and finally stops and joins them.  MCCPPThPor has the same threads; it  *)
(* only computes an aggregate and its transitions with saturatePOR.        *)
(*                                                                         *)
(* A step of a thread is one access to what the threads share, or one      *)
(* critical section; what a thread computes alone, and what no other       *)
(* thread can tell apart, is part of the step before.                      *)
(* condition_variable::wait is split at the point where the predicate has  *)
(* been found false and the thread is not asleep yet: the notifiers and    *)
(* the writers of the predicates hold none of the waiters' mutexes.        *)
(***************************************************************************)
EXTENDS LDDGraph, FiniteSets

CONSTANT Thread    \* the builder threads m_list_thread creates

ASSUME ThreadAssumption == IsFiniteSet(Thread) /\ Thread # {}

VARIABLES
  m_GONodes,         \* the vector of LDDGraph
  m_nbArcs,          \* the atomic counter of LDDGraph
  m_common_stack,    \* the SafeDequeue (a FIFO queue in spite of its name)
  m_id_thread,       \* the atomic counter that numbers the threads
  m_finish,          \* the model checker has told the builders to stop
  m_finish_initial,  \* the initial aggregate is in the graph
  pc,                \* where each builder thread is
  e,                 \* each builder's local e: a state and its transitions to fire
  t,                 \* each builder's local t
  pos,               \* each builder's local pos: the target of t
  mcPc,              \* where the main thread is
  agregate           \* the argument of the main thread's current buildSucc

builder == <<pc, e, t, pos>>
graph == <<m_GONodes, m_nbArcs>>
flags == <<m_finish, m_finish_initial>>
checker == <<mcPc, agregate>>
vars == <<graph, m_common_stack, m_id_thread, flags, builder, checker>>

State == DOMAIN m_GONodes

(* What the queue holds and what a builder works on: an LDDState and the   *)
(* observable transitions of it that are still to be fired.                *)
Pair(n, fire) == [state |-> n, fire |-> fire]
NoPair == Pair(NoState, {})

Holding == {"popped", "fire", "insert", "flags", "push", "notify", "edge", "complete"}
BuilderPc == Holding \cup
  {"start", "initInsert", "initPush", "initNotify", "initFinish",
   "lock", "check", "checkQueue", "sleep", "waiting", "pop", "notifyBuild", "until", "done"}
CheckerPc == {"initial", "check", "sleep", "waiting", "explore", "print",
              "destroy", "join", "end"}

Goto(w, label) == pc' = [pc EXCEPT ![w] = label]

(* The two halves of m_mutexStack: a waiter owns it while it evaluates the *)
(* predicate and until it is asleep.  m_mutexBuild has no contender: only  *)
(* the main thread ever locks it.                                          *)
StackMutexFree == \A w \in Thread : pc[w] \notin {"check", "checkQueue", "sleep"}

(* notify_one on m_condStack by thread w, which goes on at label: one of   *)
(* the sleeping threads, if there is one, goes back to the mutex.          *)
NotifyOneBuilder(w, label) ==
  LET asleep == {u \in Thread : pc[u] = "waiting"}
  IN  IF asleep = {}
      THEN Goto(w, label)
      ELSE \E u \in asleep : pc' = [pc EXCEPT ![w] = label, ![u] = "lock"]

-----------------------------------------------------------------------------
(* The builder thread: Compute_successors. *)

(* id_thread = m_id_thread++ *)
Start(w) ==
  /\ pc[w] = "start"
  /\ m_id_thread' = m_id_thread + 1
  /\ Goto(w, IF m_id_thread = 0 THEN "initInsert" ELSE "lock")
  /\ UNCHANGED <<graph, m_common_stack, flags, e, t, pos, checker>>

(* Thread 0 builds the initial aggregate, flags included, and inserts it.  *)
InitialInsert(w) ==
  /\ pc[w] = "initInsert"
  /\ m_GONodes' = insert(m_GONodes, WithFlags(NewState(InitialAggregate)))
  /\ pos' = [pos EXCEPT ![w] = Len(m_GONodes) + 1]
  /\ Goto(w, "initPush")
  /\ UNCHANGED <<m_nbArcs, m_common_stack, m_id_thread, flags, e, t, checker>>

InitialPush(w) ==
  /\ pc[w] = "initPush"
  /\ m_common_stack' =
       Append(m_common_stack, Pair(pos[w], FirableObs[InitialAggregate]))
  /\ Goto(w, "initNotify")
  /\ UNCHANGED <<graph, m_id_thread, flags, e, t, pos, checker>>

InitialNotify(w) ==
  /\ pc[w] = "initNotify"
  /\ NotifyOneBuilder(w, "initFinish")
  /\ UNCHANGED <<graph, m_common_stack, m_id_thread, flags, e, t, pos, checker>>

InitialFinish(w) ==
  /\ pc[w] = "initFinish"
  /\ m_finish_initial' = TRUE
  /\ Goto(w, "lock")
  /\ UNCHANGED <<graph, m_common_stack, m_id_thread, m_finish, e, t, pos, checker>>

(* unique_lock lk(m_mutexStack), or the lock a woken thread takes again.   *)
Lock(w) ==
  /\ pc[w] = "lock"
  /\ StackMutexFree
  /\ Goto(w, "check")
  /\ UNCHANGED <<graph, m_common_stack, m_id_thread, flags, e, t, pos, checker>>

(* hasToProcess, the predicate of the wait, reads m_finish and then the    *)
(* queue; when it holds, wait returns and lk.unlock().                     *)
Check(w) ==
  /\ pc[w] = "check"
  /\ Goto(w, IF m_finish THEN "pop" ELSE "checkQueue")
  /\ UNCHANGED <<graph, m_common_stack, m_id_thread, flags, e, t, pos, checker>>

(* Mutant: the predicate forgets the queue. *)
CheckQueueNot(w) ==
  /\ pc[w] = "checkQueue"
  /\ Goto(w, "sleep")
  /\ UNCHANGED <<graph, m_common_stack, m_id_thread, flags, e, t, pos, checker>>

CheckQueue(w) ==
  /\ pc[w] = "checkQueue"
  /\ Goto(w, IF m_common_stack # <<>> THEN "pop" ELSE "sleep")
  /\ UNCHANGED <<graph, m_common_stack, m_id_thread, flags, e, t, pos, checker>>

(* wait releases the mutex and blocks, whatever happened since Check.      *)
Sleep(w) ==
  /\ pc[w] = "sleep"
  /\ Goto(w, "waiting")
  /\ UNCHANGED <<graph, m_common_stack, m_id_thread, flags, e, t, pos, checker>>

(* A condition variable may wake a thread nobody notified. *)
SpuriousWakeUp(w) ==
  /\ pc[w] = "waiting"
  /\ Goto(w, "lock")
  /\ UNCHANGED <<graph, m_common_stack, m_id_thread, flags, e, t, pos, checker>>

(* try_pop(e) *)
Pop(w) ==
  /\ pc[w] = "pop"
  /\ IF m_common_stack = <<>>
     THEN /\ Goto(w, "until")
          /\ UNCHANGED <<m_common_stack, e>>
     ELSE /\ e' = [e EXCEPT ![w] = Head(m_common_stack)]
          /\ m_common_stack' = Tail(m_common_stack)
          /\ Goto(w, "popped")
  /\ UNCHANGED <<graph, m_id_thread, flags, t, pos, checker>>

(* Mutant: a state without transition to fire is thrown away. *)
PoppedNonEmpty(w) ==
  /\ pc[w] = "popped"
  /\ Goto(w, IF m_finish \/ e[w].fire = {} THEN "until" ELSE "fire")
  /\ UNCHANGED <<graph, m_common_stack, m_id_thread, flags, e, t, pos, checker>>

(* && !m_finish: an element taken before the end is noticed is dropped.    *)
Popped(w) ==
  /\ pc[w] = "popped"
  /\ Goto(w, IF m_finish THEN "until" ELSE "fire")
  /\ UNCHANGED <<graph, m_common_stack, m_id_thread, flags, e, t, pos, checker>>

(* Mutant: the loop ends one transition too early. *)
FireAllButLast(w) ==
  /\ pc[w] = "fire"
  /\ \/ /\ ~m_finish
        /\ Cardinality(e[w].fire) > 1
        /\ \E u \in e[w].fire :
             /\ t' = [t EXCEPT ![w] = u]
             /\ e' = [e EXCEPT ![w].fire = @ \ {u}]
        /\ Goto(w, "insert")
     \/ /\ m_finish \/ Cardinality(e[w].fire) <= 1
        /\ Goto(w, "complete")
        /\ UNCHANGED <<e, t>>
  /\ UNCHANGED <<graph, m_common_stack, m_id_thread, flags, pos, checker>>

(* One turn of the while loop takes the smallest transition left, the loop *)
(* ends when none is left or when the model checker has finished.          *)
Fire(w) ==
  /\ pc[w] = "fire"
  /\ \/ /\ ~m_finish
        /\ \E u \in e[w].fire :
             /\ \A v \in e[w].fire : u <= v
             /\ t' = [t EXCEPT ![w] = u]
             /\ e' = [e EXCEPT ![w].fire = @ \ {u}]
        /\ Goto(w, "insert")
     \/ /\ m_finish \/ e[w].fire = {}
        /\ Goto(w, "complete")
        /\ UNCHANGED <<e, t>>
  /\ UNCHANGED <<graph, m_common_stack, m_id_thread, flags, pos, checker>>

(* The aggregate thread w reaches by firing t from the state it holds.     *)
reduced_meta(w) == Successor[<<m_GONodes[e[w].state].m_lddstate, t[w]>>]

(* Mutant: the result of the search is ignored, a known state is queued.   *)
FindStateQueued(w) ==
  /\ \E n \in StatesOf(m_GONodes, reduced_meta(w)) : pos' = [pos EXCEPT ![w] = n]
  /\ Goto(w, "flags")
  /\ UNCHANGED m_GONodes

(* insertFindByMDD is one critical section of the graph: the first state   *)
(* that holds the aggregate, or a new one, which the caller has to queue.  *)
FindState(w) ==
  /\ \E n \in StatesOf(m_GONodes, reduced_meta(w)) :
       /\ \A m \in StatesOf(m_GONodes, reduced_meta(w)) : n <= m
       /\ pos' = [pos EXCEPT ![w] = n]
  /\ Goto(w, "edge")
  /\ UNCHANGED m_GONodes

InsertState(w) ==
  /\ StatesOf(m_GONodes, reduced_meta(w)) = {}
  /\ m_GONodes' = insert(m_GONodes, NewState(reduced_meta(w)))
  /\ pos' = [pos EXCEPT ![w] = Len(m_GONodes) + 1]
  /\ Goto(w, "flags")

(* insertFindByMDD, then addArc. *)
InsertFind(w) ==
  /\ pc[w] = "insert"
  /\ FindState(w) \/ InsertState(w)
  /\ m_nbArcs' = m_nbArcs + 1
  /\ UNCHANGED <<m_common_stack, m_id_thread, flags, e, t, checker>>

(* The flags are assigned after the state is visible in the graph.         *)
SetFlags(w) ==
  /\ pc[w] = "flags"
  /\ m_GONodes' = [m_GONodes EXCEPT ![pos[w]] = WithFlags(@)]
  /\ Goto(w, "push")
  /\ UNCHANGED <<m_nbArcs, m_common_stack, m_id_thread, flags, e, t, pos, checker>>

Push(w) ==
  /\ pc[w] = "push"
  /\ m_common_stack' =
       Append(m_common_stack, Pair(pos[w], FirableObs[reduced_meta(w)]))
  /\ Goto(w, "notify")
  /\ UNCHANGED <<graph, m_id_thread, flags, e, t, pos, checker>>

Notify(w) ==
  /\ pc[w] = "notify"
  /\ NotifyOneBuilder(w, "edge")
  /\ UNCHANGED <<graph, m_common_stack, m_id_thread, flags, e, t, pos, checker>>

(* Both ends of the edge, under m_graph_mutex. *)
AddEdge(w) ==
  /\ pc[w] = "edge"
  /\ m_GONodes' =
       AddPredecessor(AddSuccessor(m_GONodes, e[w].state, pos[w], t[w]),
                      pos[w], e[w].state, t[w])
  /\ Goto(w, "fire")
  /\ UNCHANGED <<m_nbArcs, m_common_stack, m_id_thread, flags, e, t, pos, checker>>

Complete(w) ==
  /\ pc[w] = "complete"
  /\ m_GONodes' = [m_GONodes EXCEPT ![e[w].state].m_completed = TRUE]
  /\ Goto(w, "notifyBuild")
  /\ UNCHANGED <<m_nbArcs, m_common_stack, m_id_thread, flags, e, t, pos, checker>>

(* Mutant: a notified checker does not evaluate the predicate again.       *)
NotifyBuildNoPredicate(w) ==
  /\ pc[w] = "notifyBuild"
  /\ mcPc' = IF mcPc = "waiting" THEN "explore" ELSE mcPc
  /\ Goto(w, "until")
  /\ UNCHANGED <<graph, m_common_stack, m_id_thread, flags, e, t, pos, agregate>>

(* notify_one on m_condBuild: lost unless the main thread is asleep.       *)
NotifyBuild(w) ==
  /\ pc[w] = "notifyBuild"
  /\ mcPc' = IF mcPc = "waiting" THEN "check" ELSE mcPc
  /\ Goto(w, "until")
  /\ UNCHANGED <<graph, m_common_stack, m_id_thread, flags, e, t, pos, agregate>>

Until(w) ==
  /\ pc[w] = "until"
  /\ Goto(w, IF m_finish THEN "done" ELSE "lock")
  /\ UNCHANGED <<graph, m_common_stack, m_id_thread, flags, e, t, pos, checker>>

BuilderStep(w) ==
  \/ Start(w) \/ InitialInsert(w) \/ InitialPush(w) \/ InitialNotify(w)
  \/ InitialFinish(w) \/ Lock(w) \/ Check(w) \/ CheckQueue(w) \/ Sleep(w) \/ Pop(w)
  \/ Popped(w) \/ Fire(w) \/ InsertFind(w) \/ SetFlags(w) \/ Push(w) \/ Notify(w) \/ AddEdge(w)
  \/ Complete(w) \/ NotifyBuild(w) \/ Until(w)

-----------------------------------------------------------------------------
(* The main thread: getInitialMetaState, Spot's walk, finish(), delete.    *)

(* buildSucc up to the lock of m_mutexBuild, for a state not visited yet.  *)
(* A visited one makes buildSucc return at once and changes nothing.       *)
buildSucc(n) ==
  /\ ~m_GONodes[n].m_visited
  /\ m_GONodes' = [m_GONodes EXCEPT ![n].m_visited = TRUE]
  /\ agregate' = n
  /\ mcPc' = "check"

(* while (!m_finish_initial); then the first state of the vector.          *)
GetInitial ==
  /\ mcPc = "initial"
  /\ m_finish_initial
  /\ buildSucc(1)
  /\ UNCHANGED <<m_nbArcs, m_common_stack, m_id_thread, flags, builder>>

CheckBuild ==
  /\ mcPc = "check"
  /\ mcPc' = IF m_GONodes[agregate].m_completed THEN "explore" ELSE "sleep"
  /\ UNCHANGED <<graph, m_common_stack, m_id_thread, flags, builder, agregate>>

SleepBuild ==
  /\ mcPc = "sleep"
  /\ mcPc' = "waiting"
  /\ UNCHANGED <<graph, m_common_stack, m_id_thread, flags, builder, agregate>>

SpuriousWakeUpBuild ==
  /\ mcPc = "waiting"
  /\ mcPc' = "check"
  /\ UNCHANGED <<graph, m_common_stack, m_id_thread, flags, builder, agregate>>

(* Spot asks for a successor of a state it has: SogKripkeIteratorTh copies *)
(* its Successors and dst() makes a SogKripkeStateTh of one of them.       *)
Explore ==
  /\ mcPc = "explore"
  /\ \E n \in State :
       /\ m_GONodes[n].m_visited
       /\ \E i \in DOMAIN m_GONodes[n].Successors :
            buildSucc(m_GONodes[n].Successors[i].to)
  /\ UNCHANGED <<m_nbArcs, m_common_stack, m_id_thread, flags, builder>>

(* Spot has a counter-example, or has seen enough; main calls finish().    *)
Finish ==
  /\ mcPc = "explore"
  /\ m_finish' = TRUE
  /\ mcPc' = "print"
  /\ UNCHANGED <<graph, m_common_stack, m_id_thread, m_finish_initial, builder,
                 agregate>>

(* printCompleteInformation walks m_GONodes from one step to the other.    *)
PrintCompleteInformation ==
  /\ mcPc = "print"
  /\ mcPc' = "destroy"
  /\ UNCHANGED <<graph, m_common_stack, m_id_thread, flags, builder, agregate>>

(* Mutant: the destructor wakes one builder only. *)
DestroyNotifyOne ==
  /\ mcPc = "destroy"
  /\ m_finish' = TRUE
  /\ LET asleep == {w \in Thread : pc[w] = "waiting"}
     IN  IF asleep = {} THEN UNCHANGED pc
         ELSE \E u \in asleep : Goto(u, "lock")
  /\ mcPc' = "join"
  /\ UNCHANGED <<graph, m_common_stack, m_id_thread, m_finish_initial, e, t, pos,
                 agregate>>

(* The destructor: m_finish is set again, then notify_all. *)
Destroy ==
  /\ mcPc = "destroy"
  /\ m_finish' = TRUE
  /\ pc' = [w \in Thread |-> IF pc[w] = "waiting" THEN "lock" ELSE pc[w]]
  /\ mcPc' = "join"
  /\ UNCHANGED <<graph, m_common_stack, m_id_thread, m_finish_initial, e, t, pos,
                 agregate>>

Join ==
  /\ mcPc = "join"
  /\ \A w \in Thread : pc[w] = "done"
  /\ mcPc' = "end"
  /\ UNCHANGED <<graph, m_common_stack, m_id_thread, flags, builder, agregate>>

CheckerStep ==
  \/ GetInitial \/ CheckBuild \/ SleepBuild \/ Explore \/ Finish
  \/ PrintCompleteInformation \/ Destroy \/ Join

-----------------------------------------------------------------------------
Init ==
  /\ m_GONodes = <<>>
  /\ m_nbArcs = 0
  /\ m_common_stack = <<>>
  /\ m_id_thread = 0
  /\ m_finish = FALSE
  /\ m_finish_initial = FALSE
  /\ pc = [w \in Thread |-> "start"]
  /\ e = [w \in Thread |-> NoPair]
  /\ t = [w \in Thread |-> NoTransition]
  /\ pos = [w \in Thread |-> NoState]
  /\ mcPc = "initial"
  /\ agregate = NoState

Next ==
  \/ \E w \in Thread : BuilderStep(w) \/ SpuriousWakeUp(w)
  \/ CheckerStep
  \/ SpuriousWakeUpBuild

(* Every thread is scheduled while it can run; a spurious wake-up is never *)
(* owed to anybody.                                                        *)
Fairness ==
  /\ \A w \in Thread : WF_vars(BuilderStep(w))
  /\ WF_vars(CheckerStep)

Spec == Init /\ [][Next]_vars /\ Fairness
-----------------------------------------------------------------------------
(* Properties. *)

(* The shape of the state. *)
TypeOK ==
  /\ m_GONodes \in Seq(LDDState)
  /\ m_nbArcs \in Nat
  /\ m_common_stack \in Seq([state : Nat, fire : SUBSET Transition])
  /\ m_id_thread \in Nat
  /\ m_finish \in BOOLEAN
  /\ m_finish_initial \in BOOLEAN
  /\ pc \in [Thread -> BuilderPc]
  /\ e \in [Thread -> [state : Nat, fire : SUBSET Transition]]
  /\ t \in [Thread -> Transition \cup {NoTransition}]
  /\ pos \in [Thread -> Nat]
  /\ mcPc \in CheckerPc
  /\ agregate \in Nat

(* No two states of the graph hold the same aggregate, however the         *)
(* searches and insertions of the builders interleave (insertFindByMDD     *)
(* searches and inserts in one critical section).                          *)
NoDuplicateAggregate ==
  \A n, m \in State : m_GONodes[n].m_lddstate = m_GONodes[m].m_lddstate => n = m

(* Builder w is the one that will complete state n, or has still to queue  *)
(* it.                                                                     *)
Holds(w, n) ==
  \/ pc[w] \in Holding /\ e[w].state = n
  \/ pc[w] \in {"flags", "push", "initPush"} /\ pos[w] = n

Queued(n) == \E i \in DOMAIN m_common_stack : m_common_stack[i].state = n

(* A state is never worked on twice: it is in the queue once, or in the    *)
(* hands of one builder, or nowhere any more.  This is what lets a builder *)
(* fire a state's transitions without a lock on the state.                 *)
SingleOwner ==
  /\ \A i, j \in DOMAIN m_common_stack :
       m_common_stack[i].state = m_common_stack[j].state => i = j
  /\ \A n \in State, v, w \in Thread : Holds(v, n) /\ Holds(w, n) => v = w
  /\ \A n \in State, w \in Thread : Holds(w, n) => ~Queued(n)
  /\ \A n \in State : m_GONodes[n].m_completed =>
       ~Queued(n) /\ \A w \in Thread : ~Holds(w, n)

(* No state is forgotten: until the checker says to finish, one that is    *)
(* not complete is queued or in a builder's hands.                         *)
NoWorkLost ==
  ~m_finish => \A n \in State :
    m_GONodes[n].m_completed \/ Queued(n) \/ \E w \in Thread : Holds(w, n)

(* The edges of state n, as edges of the Symbolic Observation Graph.       *)
EdgesOf(n) ==
  {<<m_GONodes[n].m_lddstate, s.t, m_GONodes[s.to].m_lddstate>> :
     s \in {m_GONodes[n].Successors[i] : i \in DOMAIN m_GONodes[n].Successors}}

(* The states whose buildSucc has returned to the checker. *)
Obtained(n) ==
  /\ m_GONodes[n].m_visited
  /\ ~(agregate = n /\ mcPc \in {"check", "sleep", "waiting"})

(* What Spot reads without a lock is final: a state the checker obtained   *)
(* has an edge for each of its observable transitions and has both flags,  *)
(* although the flags are assigned after the state can be found and other  *)
(* builders may have linked it before.                                     *)
ObtainedIsFinal ==
  \A n \in State : Obtained(n) =>
    LET s == m_GONodes[n]
    IN  /\ s.m_completed
        /\ TransitionsOf(s) = FirableObs[s.m_lddstate]
        /\ s.m_blocage = (s.m_lddstate \in Deadlocked)
        /\ s.m_boucle = (s.m_lddstate \in Divergent)

(* A step never changes what a completed state says of itself.             *)
CompletedIsFrozen ==
  [][\A n \in State : m_GONodes[n].m_completed =>
       /\ m_GONodes'[n].m_completed
       /\ m_GONodes'[n].m_lddstate = m_GONodes[n].m_lddstate
       /\ m_GONodes'[n].Successors = m_GONodes[n].Successors
       /\ m_GONodes'[n].m_blocage = m_GONodes[n].m_blocage
       /\ m_GONodes'[n].m_boucle = m_GONodes[n].m_boucle]_vars

(* Each aggregate of the net is built and completed unless the checker     *)
(* finishes before: lost wake-ups slow the builders down, and leave no     *)
(* work behind, because the builder that queued it comes back for it.      *)
EveryAggregateBuilt ==
  \A a \in Aggregate :
    <>(\/ m_finish
       \/ \E n \in State : m_GONodes[n].m_lddstate = a /\ m_GONodes[n].m_completed)

(* A builder asleep when the destructor runs leaves its loop.              *)
SleepingBuilderIsStopped ==
  \A w \in Thread : (mcPc = "destroy" /\ pc[w] = "waiting") ~> pc[w] = "done"

(* The construction does what an on-the-fly construction promises.         *)
Promise == INSTANCE SOGOnTheFly WITH
  known <- {m_GONodes[n].m_lddstate : n \in State},
  edges <- UNION {EdgesOf(n) : n \in State},
  final <- {m_GONodes[n].m_lddstate : n \in {m \in State : m_GONodes[m].m_completed}},
  read <- {m_GONodes[n].m_lddstate : n \in {m \in State : Obtained(m)}},
  stopped <- m_finish
ImplementsSOGOnTheFly == Promise!Spec

(* runOnTheFlyMC (main.cpp:332): "Run the on-the-fly model-checking        *)
(* algorithm ... @return bool": the check ends.                            *)
CheckReturns == <>(mcPc = "print")

=============================================================================
