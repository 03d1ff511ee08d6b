-------------------------- MODULE ModelCheckThReq --------------------------
(***************************************************************************)
(* The on-the-fly multi-core model checker on request: the checker queues  *)
(* the transitions of the state it wants, one by one, and the builders     *)
(* fire them; they queue those of the states they reach themselves, up to  *)
(* LEVEL steps ahead.  A state is complete when its counter of transitions *)
(* still to be processed comes to zero.  MCThReqPor has the same threads   *)
(* over saturatePOR, but for the set of transitions its buildSucc queues.  *)
(*                                                                         *)
(* Both the checker and the builders expand a state whose level they find  *)
(* zero: the test, the assignment of the level, which keeps the greater    *)
(* of what it reads and its argument, the assignment of the counter and    *)
(* each push are separate steps.  TestLevel reads two levels in one step:  *)
(* the one of aggregate that counts is read again by LevelArgument.        *)
(***************************************************************************)
EXTENDS LDDGraph, FiniteSets

CONSTANTS
  Thread,   \* the builder threads of m_list_thread
  LEVEL,    \* how far the builders anticipate; the code has 3
  Modulus,  \* the counter of a state is a uint32_t: 2^32 in the code, more
            \* than the transitions of a net, which are numbered by an int
  LevelModulus  \* its level is a uint8_t: 256

ASSUME ModelCheckThReqAssumption ==
  /\ IsFiniteSet(Thread) /\ Thread # {}
  /\ LevelModulus \in Nat \ {0}
  /\ LEVEL \in 1 .. LevelModulus - 1
  /\ Modulus \in Nat \ {0}
  /\ \A a \in Aggregate :
       IsFiniteSet(FirableObs[a]) /\ Cardinality(FirableObs[a]) < Modulus

VARIABLES
  m_GONodes,       \* the vector of LDDGraph
  m_nbArcs,        \* the atomic counter of LDDGraph
  m_currentLevel,  \* of each state: how far to go from it
  m_nbSuccessorsToBeProcessed,  \* of each state
  m_common_stack,  \* the SafeDequeue: pairs of a state and a transition
  m_finish,        \* finish() has been called
  pc,              \* where each builder is
  elt,             \* each builder's local elt
  pos,             \* each builder's local pos: the target of elt
  res,             \* whether insertFindByMDD found it
  level,           \* the level a builder is about to assign
  fire,            \* the transitions a builder has still to push
  mcPc,            \* where the main thread is
  agregate,        \* the argument of its current buildSucc
  mcLevel,         \* the level it is about to assign
  mcFire           \* the transitions it has still to push

counters == <<m_currentLevel, m_nbSuccessorsToBeProcessed>>
shared == <<m_GONodes, m_nbArcs, counters, m_common_stack, m_finish>>
local == <<elt, pos, res, level, fire>>
builder == <<pc, local>>
checker == <<mcPc, agregate, mcLevel, mcFire>>
vars == <<shared, builder, checker>>

State == DOMAIN m_GONodes

couple_th(n, t) == [state |-> n, t |-> t]

Goto(w, label) == pc' = [pc EXCEPT ![w] = label]
FirableFrom(n) == FirableObs[m_GONodes[n].m_lddstate]
Greater(a, b) == IF a < b THEN b ELSE a

(* A notification reaches the main thread only while it is asleep.         *)
NotifyChecker == mcPc' = IF mcPc = "waiting" THEN "check" ELSE mcPc

-----------------------------------------------------------------------------
(* The builder thread: Compute_successors. *)

(* while (!m_finish && ...), and the do ... while (!m_finish) around it.   *)
Loop(w) ==
  /\ pc[w] = "loop"
  /\ Goto(w, IF m_finish THEN "done" ELSE "pop")
  /\ UNCHANGED <<shared, local, checker>>

(* try_pop(elt) *)
Pop(w) ==
  /\ pc[w] = "pop"
  /\ IF m_common_stack = <<>>
     THEN Goto(w, "loop") /\ UNCHANGED <<elt, m_common_stack>>
     ELSE /\ elt' = [elt EXCEPT ![w] = Head(m_common_stack)]
          /\ m_common_stack' = Tail(m_common_stack)
          /\ Goto(w, "find")
  /\ UNCHANGED <<m_GONodes, m_nbArcs, counters, m_finish, pos, res, level, fire, checker>>

Reached(w) == Successor[<<m_GONodes[elt[w].state].m_lddstate, elt[w].t>>]

(* insertFindByMDD: one critical section. *)
InsertFind(w) ==
  /\ pc[w] = "find"
  /\ LET found == StatesOf(m_GONodes, Reached(w))
     IN  \/ /\ \E n \in found : (\A m \in found : n <= m) /\ pos' = [pos EXCEPT ![w] = n]
            /\ res' = [res EXCEPT ![w] = TRUE]
            /\ UNCHANGED <<m_GONodes, counters>>
         \/ /\ found = {}
            /\ m_GONodes' = insert(m_GONodes, NewState(Reached(w)))
            /\ m_currentLevel' = Append(m_currentLevel, 0)
            /\ m_nbSuccessorsToBeProcessed' = Append(m_nbSuccessorsToBeProcessed, 0)
            /\ pos' = [pos EXCEPT ![w] = Len(m_GONodes) + 1]
            /\ res' = [res EXCEPT ![w] = FALSE]
  /\ Goto(w, "link")
  /\ UNCHANGED <<m_nbArcs, m_common_stack, m_finish, elt, level, fire, checker>>

(* The edge at both ends, under m_graph_mutex. *)
Link(w) ==
  /\ pc[w] = "link"
  /\ m_GONodes' = AddPredecessor(AddSuccessor(m_GONodes, elt[w].state, pos[w], elt[w].t),
                                 pos[w], elt[w].state, elt[w].t)
  /\ Goto(w, IF res[w] THEN "dec" ELSE "flags")
  /\ UNCHANGED <<m_nbArcs, counters, m_common_stack, m_finish, local, checker>>

SetFlags(w) ==
  /\ pc[w] = "flags"
  /\ m_GONodes' = [m_GONodes EXCEPT ![pos[w]] = WithFlags(@)]
  /\ Goto(w, "dec")
  /\ UNCHANGED <<m_nbArcs, counters, m_common_stack, m_finish, local, checker>>

(* decNbSuccessors: an atomic decrement, modulo the width of the counter.  *)
Decrement(w) ==
  /\ pc[w] = "dec"
  /\ m_nbSuccessorsToBeProcessed' =
       [m_nbSuccessorsToBeProcessed EXCEPT ![elt[w].state] = (@ + Modulus - 1) % Modulus]
  /\ Goto(w, "test")
  /\ UNCHANGED <<m_GONodes, m_nbArcs, m_currentLevel, m_common_stack, m_finish, local, checker>>

(* Mutant: the last transition is not waited for. *)
TestZeroEarly(w) ==
  /\ pc[w] = "test"
  /\ Goto(w, IF m_nbSuccessorsToBeProcessed[elt[w].state] <= 1 THEN "complete" ELSE "level")
  /\ UNCHANGED <<shared, local, checker>>

(* The counter is read again to be compared with zero. *)
TestZero(w) ==
  /\ pc[w] = "test"
  /\ Goto(w, IF m_nbSuccessorsToBeProcessed[elt[w].state] = 0 THEN "complete" ELSE "level")
  /\ UNCHANGED <<shared, local, checker>>

Complete(w) ==
  /\ pc[w] = "complete"
  /\ m_GONodes' = [m_GONodes EXCEPT ![elt[w].state].m_completed = TRUE]
  /\ Goto(w, "notify")
  /\ UNCHANGED <<m_nbArcs, counters, m_common_stack, m_finish, local, checker>>

Notify(w) ==
  /\ pc[w] = "notify"
  /\ NotifyChecker
  /\ Goto(w, "level")
  /\ UNCHANGED <<shared, local, agregate, mcLevel, mcFire>>

(* aggregate's level > 0 && pos's level == 0 *)
TestLevel(w) ==
  /\ pc[w] = "level"
  /\ Goto(w, IF m_currentLevel[elt[w].state] > 0 /\ m_currentLevel[pos[w]] = 0
             THEN "arg" ELSE "arc")
  /\ UNCHANGED <<shared, local, checker>>

(* pos->setMCurrentLevel(level of aggregate - 1), a uint8_t: the argument,  *)
(* the level of pos it is compared with, and what is stored.               *)
LevelArgument(w) ==
  /\ pc[w] = "arg"
  /\ level' = [level EXCEPT ![w] = (m_currentLevel[elt[w].state] + LevelModulus - 1)
                                     % LevelModulus]
  /\ Goto(w, "max")
  /\ UNCHANGED <<shared, elt, pos, res, fire, checker>>

ReadLevel(w) ==
  /\ pc[w] = "max"
  /\ level' = [level EXCEPT ![w] = Greater(m_currentLevel[pos[w]], @)]
  /\ Goto(w, "setLevel")
  /\ UNCHANGED <<shared, elt, pos, res, fire, checker>>

SetLevel(w) ==
  /\ pc[w] = "setLevel"
  /\ m_currentLevel' = [m_currentLevel EXCEPT ![pos[w]] = level[w]]
  /\ Goto(w, "deeper")
  /\ UNCHANGED <<m_GONodes, m_nbArcs, m_nbSuccessorsToBeProcessed, m_common_stack, m_finish,
                 local, checker>>

(* aggregate's level > 1, read again *)
TestDeeper(w) ==
  /\ pc[w] = "deeper"
  /\ Goto(w, IF m_currentLevel[elt[w].state] > 1 THEN "count" ELSE "arc")
  /\ UNCHANGED <<shared, local, checker>>

(* Mutant: one transition too many is counted. *)
CountOneMore(w) ==
  /\ pc[w] = "count"
  /\ fire' = [fire EXCEPT ![w] = FirableFrom(pos[w])]
  /\ m_nbSuccessorsToBeProcessed' =
       [m_nbSuccessorsToBeProcessed EXCEPT ![pos[w]] = Cardinality(FirableFrom(pos[w])) + 1]
  /\ Goto(w, IF FirableFrom(pos[w]) = {} THEN "completePos" ELSE "push")
  /\ UNCHANGED <<m_GONodes, m_nbArcs, m_currentLevel, m_common_stack, m_finish, elt, pos, res,
                 level, checker>>

(* firable_obs and the counter. *)
Count(w) ==
  /\ pc[w] = "count"
  /\ fire' = [fire EXCEPT ![w] = FirableFrom(pos[w])]
  /\ m_nbSuccessorsToBeProcessed' =
       [m_nbSuccessorsToBeProcessed EXCEPT ![pos[w]] = Cardinality(FirableFrom(pos[w]))]
  /\ Goto(w, IF FirableFrom(pos[w]) = {} THEN "completePos" ELSE "push")
  /\ UNCHANGED <<m_GONodes, m_nbArcs, m_currentLevel, m_common_stack, m_finish, elt, pos, res,
                 level, checker>>

(* Mutant: only the first transition is pushed. *)
PushFirstOnly(w) ==
  /\ pc[w] = "push"
  /\ \E u \in fire[w] :
       /\ \A v \in fire[w] : u <= v
       /\ m_common_stack' = Append(m_common_stack, couple_th(pos[w], u))
       /\ Goto(w, "arc")
  /\ UNCHANGED <<m_GONodes, m_nbArcs, counters, m_finish, local, checker>>

Push(w) ==
  /\ pc[w] = "push"
  /\ \E u \in fire[w] :
       /\ \A v \in fire[w] : u <= v
       /\ m_common_stack' = Append(m_common_stack, couple_th(pos[w], u))
       /\ fire' = [fire EXCEPT ![w] = @ \ {u}]
       /\ Goto(w, IF fire[w] = {u} THEN "arc" ELSE "push")
  /\ UNCHANGED <<m_GONodes, m_nbArcs, counters, m_finish, elt, pos, res, level, checker>>

CompletePos(w) ==
  /\ pc[w] = "completePos"
  /\ m_GONodes' = [m_GONodes EXCEPT ![pos[w]].m_completed = TRUE]
  /\ Goto(w, "notifyPos")
  /\ UNCHANGED <<m_nbArcs, counters, m_common_stack, m_finish, local, checker>>

NotifyPos(w) ==
  /\ pc[w] = "notifyPos"
  /\ NotifyChecker
  /\ Goto(w, "arc")
  /\ UNCHANGED <<shared, local, agregate, mcLevel, mcFire>>

AddArc(w) ==
  /\ pc[w] = "arc"
  /\ m_nbArcs' = m_nbArcs + 1
  /\ Goto(w, "loop")
  /\ UNCHANGED <<m_GONodes, counters, m_common_stack, m_finish, local, checker>>

BuilderStep(w) ==
  \/ Loop(w) \/ Pop(w) \/ InsertFind(w) \/ Link(w) \/ SetFlags(w) \/ Decrement(w)
  \/ TestZero(w) \/ Complete(w) \/ Notify(w) \/ TestLevel(w) \/ LevelArgument(w)
  \/ ReadLevel(w) \/ SetLevel(w) \/ TestDeeper(w) \/ Count(w) \/ Push(w) \/ CompletePos(w) \/ NotifyPos(w) \/ AddArc(w)

-----------------------------------------------------------------------------
(* The main thread. *)

(* getInitialMetaState up to the first push: the builders have nothing to  *)
(* do before.                                                              *)
GetInitial ==
  /\ mcPc = "initial"
  /\ m_GONodes' = <<[WithFlags(NewState(InitialAggregate)) EXCEPT
                       !.m_visited = TRUE,
                       !.m_completed = FirableObs[InitialAggregate] = {}]>>
  /\ m_currentLevel' = <<LEVEL>>
  /\ m_nbSuccessorsToBeProcessed' = <<Cardinality(FirableObs[InitialAggregate])>>
  /\ agregate' = 1
  /\ mcFire' = FirableObs[InitialAggregate]
  /\ mcPc' = IF FirableObs[InitialAggregate] = {} THEN "explore" ELSE "push"
  /\ UNCHANGED <<m_nbArcs, m_common_stack, m_finish, builder, mcLevel>>

(* Spot asks for a successor of a state it has: buildSucc, for one that    *)
(* has not been visited.                                                   *)
Explore ==
  /\ mcPc = "explore"
  /\ \E n \in State :
       /\ m_GONodes[n].m_visited
       /\ \E k \in DOMAIN m_GONodes[n].Successors :
            LET m == m_GONodes[n].Successors[k].to
            IN  /\ ~m_GONodes[m].m_visited
                /\ m_GONodes' = [m_GONodes EXCEPT ![m].m_visited = TRUE]
                /\ agregate' = m
  /\ mcPc' = "test"
  /\ UNCHANGED <<m_nbArcs, counters, m_common_stack, m_finish, builder, mcLevel, mcFire>>

(* agregate->getMCurrentLevel() == 0: nobody anticipated the request.      *)
TestRequest ==
  /\ mcPc = "test"
  /\ mcPc' = IF m_currentLevel[agregate] = 0 THEN "max" ELSE "check"
  /\ UNCHANGED <<shared, builder, agregate, mcLevel, mcFire>>

(* setMCurrentLevel(LEVEL): what the maximum reads, and what it writes.    *)
ReadRequestLevel ==
  /\ mcPc = "max"
  /\ mcLevel' = Greater(m_currentLevel[agregate], LEVEL)
  /\ mcPc' = "setLevel"
  /\ UNCHANGED <<shared, builder, agregate, mcFire>>

SetRequestLevel ==
  /\ mcPc = "setLevel"
  /\ m_currentLevel' = [m_currentLevel EXCEPT ![agregate] = mcLevel]
  /\ mcPc' = "count"
  /\ UNCHANGED <<m_GONodes, m_nbArcs, m_nbSuccessorsToBeProcessed, m_common_stack, m_finish,
                 builder, agregate, mcLevel, mcFire>>

(* The counter is assigned twice when there is something to push.          *)
CountRequest ==
  /\ mcPc \in {"count", "recount"}
  /\ m_nbSuccessorsToBeProcessed' =
       [m_nbSuccessorsToBeProcessed EXCEPT ![agregate] = Cardinality(FirableFrom(agregate))]
  /\ mcFire' = FirableFrom(agregate)
  /\ mcPc' = IF FirableFrom(agregate) = {} THEN "complete"
             ELSE IF mcPc = "count" THEN "recount" ELSE "push"
  /\ UNCHANGED <<m_GONodes, m_nbArcs, m_currentLevel, m_common_stack, m_finish, builder,
                 agregate, mcLevel>>

PushRequest ==
  /\ mcPc = "push"
  /\ \E u \in mcFire :
       /\ \A v \in mcFire : u <= v
       /\ m_common_stack' = Append(m_common_stack, couple_th(agregate, u))
       /\ mcFire' = mcFire \ {u}
       /\ mcPc' = IF mcFire = {u} THEN "check" ELSE "push"
  /\ UNCHANGED <<m_GONodes, m_nbArcs, counters, m_finish, builder, agregate, mcLevel>>

(* A state without transition is complete at once: no wait. *)
CompleteRequest ==
  /\ mcPc = "complete"
  /\ m_GONodes' = [m_GONodes EXCEPT ![agregate].m_completed = TRUE]
  /\ mcPc' = "explore"
  /\ UNCHANGED <<m_nbArcs, counters, m_common_stack, m_finish, builder, agregate, mcLevel,
                 mcFire>>

CheckBuild ==
  /\ mcPc = "check"
  /\ mcPc' = IF m_GONodes[agregate].m_completed THEN "explore" ELSE "sleep"
  /\ UNCHANGED <<shared, builder, agregate, mcLevel, mcFire>>

SleepBuild ==
  /\ mcPc = "sleep"
  /\ mcPc' = "waiting"
  /\ UNCHANGED <<shared, builder, agregate, mcLevel, mcFire>>

SpuriousWakeUpBuild ==
  /\ mcPc = "waiting"
  /\ mcPc' = "check"
  /\ UNCHANGED <<shared, builder, agregate, mcLevel, mcFire>>

(* The verdict, and finish(): the builders read the same m_finish.         *)
Finish ==
  /\ mcPc = "explore"
  /\ m_finish' = TRUE
  /\ mcPc' = "print"
  /\ UNCHANGED <<m_GONodes, m_nbArcs, counters, m_common_stack, builder, agregate, mcLevel,
                 mcFire>>

PrintCompleteInformation ==
  /\ mcPc = "print"
  /\ mcPc' = "join"
  /\ UNCHANGED <<shared, builder, agregate, mcLevel, mcFire>>

(* The destructor only joins. *)
Join ==
  /\ mcPc = "join"
  /\ \A w \in Thread : pc[w] = "done"
  /\ mcPc' = "end"
  /\ UNCHANGED <<shared, builder, agregate, mcLevel, mcFire>>

CheckerStep ==
  \/ GetInitial \/ Explore \/ TestRequest \/ ReadRequestLevel \/ SetRequestLevel
  \/ CountRequest \/ PushRequest \/ CompleteRequest \/ CheckBuild \/ SleepBuild \/ Finish
  \/ PrintCompleteInformation \/ Join

-----------------------------------------------------------------------------
(* ComputeTh_Succ has created the builders, and the graph is empty.        *)
Init ==
  /\ m_GONodes = <<>>
  /\ m_nbArcs = 0
  /\ m_currentLevel = <<>>
  /\ m_nbSuccessorsToBeProcessed = <<>>
  /\ m_common_stack = <<>>
  /\ m_finish = FALSE
  /\ pc = [w \in Thread |-> "loop"]
  /\ elt = [w \in Thread |-> couple_th(NoState, NoTransition)]
  /\ pos = [w \in Thread |-> NoState]
  /\ res = [w \in Thread |-> FALSE]
  /\ level = [w \in Thread |-> 0]
  /\ fire = [w \in Thread |-> {}]
  /\ mcPc = "initial"
  /\ agregate = NoState
  /\ mcLevel = 0
  /\ mcFire = {}

Next ==
  \/ \E w \in Thread : BuilderStep(w)
  \/ CheckerStep
  \/ SpuriousWakeUpBuild

Spec == Init /\ [][Next]_vars
-----------------------------------------------------------------------------
(* Properties. *)

(* A thread is between its test of the level of n and its last count.      *)
Expanding(n) ==
  \/ mcPc \in {"max", "setLevel", "count", "recount"} /\ agregate = n
  \/ \E w \in Thread : pc[w] \in {"arg", "max", "setLevel", "deeper", "count"} /\ pos[w] = n

(* The places transition u of state n can be: linked, queued, held by a    *)
(* builder, about to be pushed by a builder or by the checker.             *)
EdgesBy(n, u) ==
  {k \in DOMAIN m_GONodes[n].Successors : m_GONodes[n].Successors[k].t = u}
Queued(n, u) == {k \in DOMAIN m_common_stack : m_common_stack[k] = couple_th(n, u)}
Held(n, u, labels) == {w \in Thread : pc[w] \in labels /\ elt[w] = couple_th(n, u)}
ToPush(n, u) == {w \in Thread : pc[w] = "push" /\ pos[w] = n /\ u \in fire[w]}
ToRequest(n, u) == IF mcPc = "push" /\ agregate = n /\ u \in mcFire THEN 1 ELSE 0

Occurrences(n, u) ==
  Cardinality(EdgesBy(n, u)) + Cardinality(Queued(n, u)) + Cardinality(ToPush(n, u))
    + Cardinality(Held(n, u, {"find", "link"})) + ToRequest(n, u)

(* However the checker and the builders interleave their expansions of a   *)
(* state, none of its transitions is forgotten once one is under way or    *)
(* the state is complete: each is linked, or will be.                      *)
NoTransitionLost ==
  \A n \in State :
    m_GONodes[n].m_completed \/ (\E u \in FirableFrom(n) : Occurrences(n, u) > 0)
      => \A u \in FirableFrom(n) : Occurrences(n, u) > 0

(* Nobody expands n, and no two threads did. *)
ExpandedOnce(n) ==
  ~Expanding(n) /\ \A u \in FirableFrom(n) : Occurrences(n, u) <= 1

Unprocessed(n) ==
  {u \in FirableFrom(n) : \/ Queued(n, u) \cup ToPush(n, u) # {}
                          \/ Held(n, u, {"find", "link", "flags", "dec"}) # {}
                          \/ ToRequest(n, u) = 1}

(* A state that one thread has expanded: its counter is the number of its  *)
(* transitions still to be processed, whatever builders process them.      *)
CounterCounts ==
  \A n \in State :
    ExpandedOnce(n) => m_nbSuccessorsToBeProcessed[n] = Cardinality(Unprocessed(n))

(* Such a state is complete only when every transition is linked, though   *)
(* two builders may both read that the counter is zero.                    *)
CompletedIsClosed ==
  \A n \in State :
    ExpandedOnce(n) /\ m_GONodes[n].m_completed
      => TransitionsOf(m_GONodes[n]) = FirableFrom(n)
=============================================================================
