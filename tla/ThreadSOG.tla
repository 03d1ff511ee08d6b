----------------------------- MODULE ThreadSOG -----------------------------
(***************************************************************************)
(* threadSOG: the whole graph is built before it is used, by computeSeqSOG *)
(* alone or by the m_nb_thread threads of computeDSOG.  Each thread has a  *)
(* stack; it pushes a new state on the stack of any thread, and leaves     *)
(* when every thread has announced that its stack is empty.                *)
(*                                                                         *)
(* The methods of computeDSOG differ in where the edges are inserted:      *)
(* doComputePOR holds m_graph_mutex, doCompute and doComputeCanonized have *)
(* released it.                                                            *)
(* An insertion into a vector that another thread may be inserting into is *)
(* then two steps, a read and a write; losing one of two insertions is the *)
(* mildest outcome of that race.  doComputeCanonized is doCompute on a     *)
(* smaller representative of each aggregate.                               *)
(*                                                                         *)
(* m_charge only serves minCharge to choose a stack.  Its entries are      *)
(* incremented and decremented by several threads without a lock, so what  *)
(* they say is arbitrary: any stack may be chosen.                         *)
(***************************************************************************)
EXTENDS LDDGraph, FiniteSets

CONSTANTS
  m_nb_thread,  \* the number of threads of computeDSOG, the main one included
  Methods       \* "seq" is computeSeqSOG; "compute" and "por" are computeDSOG

ASSUME ThreadSOGAssumption ==
  /\ m_nb_thread \in Nat \ {0}
  /\ Methods \subseteq {"seq", "compute", "por"}

Thread == 0 .. m_nb_thread - 1

VARIABLES
  method,         \* the construction the command line asks for
  m_GONodes,      \* the vector of LDDGraph
  m_nbArcs,       \* the atomic counter of LDDGraph
  m_st,           \* the stack of each thread, its top first
  m_terminaison,  \* the threads that have announced an empty stack
  m_id_thread,    \* the atomic counter that numbers the threads
  m_gc,           \* the atomic counter of the threads inside the section
  m_gc_mutex,     \* "free", "section" or "collector"
  pc,             \* where each thread is
  e,              \* each thread's local e: a state and its transitions to fire
  t,              \* each thread's local t
  pos,            \* each thread's target of t: pos, or the new reached_class
  fresh,          \* whether that target is a new state
  seen,           \* the predecessors of pos a thread has read, to add one
  i               \* the index of each thread in isNotTerminated

shared == <<m_GONodes, m_nbArcs, m_st, m_terminaison>>
gc == <<m_gc, m_gc_mutex>>
local == <<e, t, pos, fresh, seen, i>>
vars == <<shared, gc, m_id_thread, pc, local, method>>

State == DOMAIN m_GONodes

(* What a stack holds: a state and its transitions to fire. *)
Pair(n, fire) == [state |-> n, fire |-> fire]

(* The threads of the construction. *)
Running == IF method = "seq" THEN {0} ELSE Thread

Goto(w, label) == pc' = [pc EXCEPT ![w] = label]

(* doComputePOR keeps m_graph_mutex from the search to the last edge.      *)
GraphMutexFree ==
  method = "por" => \A w \in Thread : pc[w] \notin {"link", "read", "write"}

-----------------------------------------------------------------------------
(* id_thread = m_id_thread++: the threads are named by what they get.      *)
Start(w) ==
  /\ pc[w] = "start"
  /\ m_id_thread = w
  /\ m_id_thread' = m_id_thread + 1
  /\ Goto(w, IF w = 0 THEN "initial" ELSE "loop")
  /\ UNCHANGED <<shared, gc, local>>

(* Thread 0 builds the initial state; the others have empty stacks. *)
Initial ==
  /\ pc[0] = "initial"
  /\ m_st' = [m_st EXCEPT ![0] = <<Pair(1, FirableObs[InitialAggregate])>>]
  /\ m_GONodes' = insert(m_GONodes, NewState(InitialAggregate))
  /\ Goto(0, "loop")
  /\ UNCHANGED <<m_nbArcs, m_terminaison, gc, m_id_thread, local>>

(* !m_st[id_thread].empty(), read without the spin lock.  The sequential   *)
(* construction ends there.                                                *)
Loop(w) ==
  /\ pc[w] = "loop"
  /\ Goto(w, IF m_st[w] # <<>> THEN "busy" ELSE IF method = "seq" THEN "done" ELSE "idle")
  /\ UNCHANGED <<shared, gc, m_id_thread, local>>

Busy(w) ==
  /\ pc[w] = "busy"
  /\ m_terminaison' = m_terminaison \ {w}
  /\ Goto(w, "pop")
  /\ UNCHANGED <<m_GONodes, m_nbArcs, m_st, gc, m_id_thread, local>>

(* Mutant: the top is read and not popped. *)
PopNot(w) ==
  /\ pc[w] = "pop"
  /\ e' = [e EXCEPT ![w] = Head(m_st[w])]
  /\ Goto(w, "fire")
  /\ UNCHANGED <<shared, gc, m_id_thread, t, pos, fresh, seen, i>>

(* top and pop under the spin lock: only its thread pops a stack.          *)
Pop(w) ==
  /\ pc[w] = "pop"
  /\ e' = [e EXCEPT ![w] = Head(m_st[w])]
  /\ m_st' = [m_st EXCEPT ![w] = Tail(@)]
  /\ Goto(w, "fire")
  /\ UNCHANGED <<m_GONodes, m_nbArcs, m_terminaison, gc, m_id_thread, t, pos, fresh,
                 seen, i>>

(* Mutant: the loop ends one transition too early. *)
FireAllButLast(w) ==
  /\ pc[w] = "fire"
  /\ \/ \E u \in e[w].fire :
          /\ Cardinality(e[w].fire) > 1
          /\ \A v \in e[w].fire : u <= v
          /\ t' = [t EXCEPT ![w] = u]
          /\ e' = [e EXCEPT ![w].fire = @ \ {u}]
          /\ Goto(w, IF w # 0 THEN "enter"
                     ELSE IF method = "compute" THEN "collect" ELSE "find")
     \/ Cardinality(e[w].fire) <= 1 /\ Goto(w, "loop") /\ UNCHANGED <<e, t>>
  /\ UNCHANGED <<shared, gc, m_id_thread, pos, fresh, seen, i>>

(* The first transition of the set leaves it. *)
Fire(w) ==
  /\ pc[w] = "fire"
  /\ \/ \E u \in e[w].fire :
          /\ \A v \in e[w].fire : u <= v
          /\ t' = [t EXCEPT ![w] = u]
          /\ e' = [e EXCEPT ![w].fire = @ \ {u}]
          /\ Goto(w, IF w # 0 THEN "enter"
                     ELSE IF method = "compute" THEN "collect" ELSE "find")
     \/ e[w].fire = {} /\ Goto(w, "loop") /\ UNCHANGED <<e, t>>
  /\ UNCHANGED <<shared, gc, m_id_thread, pos, fresh, seen, i>>

(* if (++m_gc == 1) m_gc_mutex.lock() *)
Enter(w) ==
  /\ pc[w] = "enter"
  /\ m_gc' = m_gc + 1
  /\ Goto(w, IF m_gc = 0 THEN "first" ELSE "find")
  /\ UNCHANGED <<shared, m_gc_mutex, m_id_thread, local>>

First(w) ==
  /\ pc[w] = "first"
  /\ m_gc_mutex = "free"
  /\ m_gc_mutex' = "section"
  /\ Goto(w, "find")
  /\ UNCHANGED <<shared, m_gc, m_id_thread, local>>

(* Thread 0 locks and unlocks the mutex: the collection in between is      *)
(* commented out.                                                          *)
Collect ==
  /\ pc[0] = "collect"
  /\ m_gc_mutex = "free"
  /\ m_gc_mutex' = "collector"
  /\ Goto(0, "collected")
  /\ UNCHANGED <<shared, m_gc, m_id_thread, local>>

Collected ==
  /\ pc[0] = "collected"
  /\ m_gc_mutex' = "free"
  /\ Goto(0, "find")
  /\ UNCHANGED <<shared, m_gc, m_id_thread, local>>

(* The aggregate t leads to from the state of e. *)
Reached(w) == Successor[<<m_GONodes[e[w].state].m_lddstate, t[w]>>]

(* reached_class; only computeSeqSOG looks for a divergence. *)
NewReached(a) ==
  [NewState(a) EXCEPT !.m_boucle = method = "seq" /\ a \in Divergent]

(* find, addArc, and insert when nothing is found, under m_graph_mutex.    *)
FindInsert(w) ==
  /\ pc[w] = "find"
  /\ GraphMutexFree
  /\ m_nbArcs' = m_nbArcs + 1
  /\ LET found == StatesOf(m_GONodes, Reached(w))
     IN  \/ /\ found # {}
            /\ \E n \in found : (\A m \in found : n <= m) /\ pos' = [pos EXCEPT ![w] = n]
            /\ fresh' = [fresh EXCEPT ![w] = FALSE]
            /\ UNCHANGED m_GONodes
         \/ /\ found = {}
            /\ m_GONodes' = insert(m_GONodes, NewReached(Reached(w)))
            /\ pos' = [pos EXCEPT ![w] = Len(m_GONodes) + 1]
            /\ fresh' = [fresh EXCEPT ![w] = TRUE]
  /\ Goto(w, "link")
  /\ UNCHANGED <<m_st, m_terminaison, gc, m_id_thread, e, t, seen, i>>

(* Mutant: source and target are swapped. *)
LinkSuccessorSwapped(w) ==
  /\ pc[w] = "link"
  /\ m_GONodes' = AddSuccessor(m_GONodes, pos[w], e[w].state, t[w])
  /\ Goto(w, "read")
  /\ UNCHANGED <<m_nbArcs, m_st, m_terminaison, gc, m_id_thread, local>>

(* The edge at its source: no other thread looks at these Successors.      *)
LinkSuccessor(w) ==
  /\ pc[w] = "link"
  /\ m_GONodes' = AddSuccessor(m_GONodes, e[w].state, pos[w], t[w])
  /\ Goto(w, "read")
  /\ UNCHANGED <<m_nbArcs, m_st, m_terminaison, gc, m_id_thread, local>>

(* The edge at its target: the vector is read, then written. *)
ReadPredecessors(w) ==
  /\ pc[w] = "read"
  /\ seen' = [seen EXCEPT ![w] = m_GONodes[pos[w]].Predecessors]
  /\ Goto(w, "write")
  /\ UNCHANGED <<shared, gc, m_id_thread, e, t, pos, fresh, i>>

WritePredecessors(w) ==
  /\ pc[w] = "write"
  /\ m_GONodes' = [m_GONodes EXCEPT ![pos[w]].Predecessors =
                     seen[w] \cup {[from |-> e[w].state, t |-> t[w]]}]
  /\ seen' = [seen EXCEPT ![w] = {}]
  /\ Goto(w, IF fresh[w] THEN "push" ELSE IF w # 0 THEN "leave" ELSE "fire")
  /\ UNCHANGED <<m_nbArcs, m_st, m_terminaison, gc, m_id_thread, e, t, pos, fresh, i>>

(* The new state goes to the stack of thread min_charge, which may have    *)
(* left.                                                                   *)
Push(w) ==
  /\ pc[w] = "push"
  /\ \E min_charge \in Running :
       m_st' = [m_st EXCEPT ![min_charge] =
                  <<Pair(pos[w], FirableObs[m_GONodes[pos[w]].m_lddstate])>> \o @]
  /\ Goto(w, IF w # 0 THEN "leave" ELSE "fire")
  /\ UNCHANGED <<m_GONodes, m_nbArcs, m_terminaison, gc, m_id_thread, local>>

(* Mutant: m_gc-- == 0. *)
LeavePostDecrement(w) ==
  /\ pc[w] = "leave"
  /\ m_gc' = m_gc - 1
  /\ Goto(w, IF m_gc = 0 THEN "last" ELSE "fire")
  /\ UNCHANGED <<shared, m_gc_mutex, m_id_thread, local>>

(* if (--m_gc == 0) m_gc_mutex.unlock(), maybe for another thread's lock.  *)
Leave(w) ==
  /\ pc[w] = "leave"
  /\ m_gc' = m_gc - 1
  /\ Goto(w, IF m_gc = 1 THEN "last" ELSE "fire")
  /\ UNCHANGED <<shared, m_gc_mutex, m_id_thread, local>>

Last(w) ==
  /\ pc[w] = "last"
  /\ m_gc_mutex' = "free"
  /\ Goto(w, "fire")
  /\ UNCHANGED <<shared, m_gc, m_id_thread, local>>

(* Mutant: the thread does not announce that it is idle. *)
IdleNot(w) ==
  /\ pc[w] = "idle"
  /\ i' = [i EXCEPT ![w] = 0]
  /\ Goto(w, "scan")
  /\ UNCHANGED <<shared, gc, m_id_thread, e, t, pos, fresh, seen>>

Idle(w) ==
  /\ pc[w] = "idle"
  /\ m_terminaison' = m_terminaison \cup {w}
  /\ i' = [i EXCEPT ![w] = 0]
  /\ Goto(w, "scan")
  /\ UNCHANGED <<m_GONodes, m_nbArcs, m_st, gc, m_id_thread, e, t, pos, fresh, seen>>

(* isNotTerminated reads the flags one by one, up to one that is not set.  *)
isNotTerminated(w) ==
  /\ pc[w] = "scan"
  /\ \/ /\ i[w] = m_nb_thread
        /\ Goto(w, "done")
        /\ UNCHANGED i
     \/ /\ i[w] \in m_terminaison
        /\ i' = [i EXCEPT ![w] = @ + 1]
        /\ UNCHANGED pc
     \/ /\ i[w] \in Thread \ m_terminaison
        /\ Goto(w, "loop")
        /\ UNCHANGED i
  /\ UNCHANGED <<shared, gc, m_id_thread, e, t, pos, fresh, seen>>

ThreadStep(w) ==
  \/ Start(w) \/ Loop(w) \/ Busy(w) \/ Pop(w) \/ Fire(w) \/ Enter(w) \/ First(w)
  \/ FindInsert(w) \/ LinkSuccessor(w) \/ ReadPredecessors(w) \/ WritePredecessors(w)
  \/ Push(w) \/ Leave(w) \/ Last(w) \/ Idle(w) \/ isNotTerminated(w)
  \/ w = 0 /\ (Initial \/ Collect \/ Collected)

Init ==
  /\ method \in Methods
  /\ m_GONodes = <<>>
  /\ m_nbArcs = 0
  /\ m_st = [w \in Thread |-> <<>>]
  /\ m_terminaison = {}
  /\ m_id_thread = 0
  /\ m_gc = 0
  /\ m_gc_mutex = "free"
  /\ pc = [w \in Thread |-> IF w \in Running THEN "start" ELSE "done"]
  /\ e = [w \in Thread |-> Pair(NoState, {})]
  /\ t = [w \in Thread |-> NoTransition]
  /\ pos = [w \in Thread |-> NoState]
  /\ fresh = [w \in Thread |-> FALSE]
  /\ seen = [w \in Thread |-> {}]
  /\ i = [w \in Thread |-> 0]

Next == (\E w \in Thread : ThreadStep(w)) /\ UNCHANGED method

Spec == Init /\ [][Next]_vars /\ \A w \in Thread : WF_vars(ThreadStep(w) /\ UNCHANGED method)

-----------------------------------------------------------------------------
(* Properties. *)

AllDone == \A w \in Thread : pc[w] = "done"

Stacked(v, n) == \E k \in DOMAIN m_st[v] : m_st[v][k].state = n

(* Thread w works on state n, or has still to push it. *)
Holds(w, n) ==
  \/ pc[w] \in {"fire", "enter", "first", "collect", "collected", "find", "link", "read",
                "write", "push", "leave", "last"} /\ e[w].state = n
  \/ pc[w] \in {"link", "read", "write", "push"} /\ fresh[w] /\ pos[w] = n

(* Nothing has still to be done for state n. *)
Finished(n) == \A w \in Thread : ~Stacked(w, n) /\ ~Holds(w, n)

(* A state is on one stack once or in one thread's hands: nobody else      *)
(* touches its Successors, which have no lock.                             *)
SingleOwner ==
  /\ \A v, w \in Thread : \A k \in DOMAIN m_st[v], l \in DOMAIN m_st[w] :
       m_st[v][k].state = m_st[w][l].state => v = w /\ k = l
  /\ \A n \in State, v, w \in Thread :
       Holds(w, n) => ~Stacked(v, n) /\ (Holds(v, n) => v = w)

(* A state no stack and no thread holds has all its edges. *)
FinishedIsClosed ==
  \A n \in State : Finished(n) =>
    TransitionsOf(m_GONodes[n]) = FirableObs[m_GONodes[n].m_lddstate]

(* The mutex that the last thread of the section unlocks, maybe another    *)
(* one than the thread that locked it, is locked, and by the section; it   *)
(* is locked exactly from the entry of the first to the unlock of the last.*)
UnlockIsLocked ==
  /\ \A w \in Thread : pc[w] = "last" => m_gc_mutex = "section"
  /\ m_gc_mutex = "section" <=>
       \/ m_gc > 0 /\ \A w \in Thread : pc[w] # "first"
       \/ \E w \in Thread : pc[w] = "last"

(* Every thread leaves. *)
ConstructionEnds == <>AllDone

(* The construction only grows towards the SOG, and finishes a state when  *)
(* it has its edges.                                                       *)
EdgesOf(n) ==
  {<<m_GONodes[n].m_lddstate, s.t, m_GONodes[s.to].m_lddstate>> :
     s \in {m_GONodes[n].Successors[k] : k \in DOMAIN m_GONodes[n].Successors}}
AggregatesOf(S) == {m_GONodes[n].m_lddstate : n \in S}
Promise == INSTANCE SOGOnTheFly WITH
  known <- AggregatesOf(State),
  edges <- UNION {EdgesOf(n) : n \in State},
  final <- AggregatesOf({n \in State : Finished(n)}),
  read <- {},
  stopped <- FALSE
ImplementsSOGOnTheFly == Promise!Spec

(* main.cpp:543, "build the distributed SOG": the graph is the SOG when    *)
(* computeDSOG has joined its threads.                                     *)
BuildIsComplete ==
  AllDone => \A n \in State :
    TransitionsOf(m_GONodes[n]) = FirableObs[m_GONodes[n].m_lddstate]
=============================================================================
