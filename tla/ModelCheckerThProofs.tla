------------------------ MODULE ModelCheckerThProofs ------------------------
(***************************************************************************)
(* What holds of the model checker over POSIX threads for every number of  *)
(* builders and every Symbolic Observation Graph.  The argument goes in    *)
(* layers, each an invariant relative to the ones before it:               *)
(*   TypeInv     types, pointers that designate objects of the heap, edges *)
(*               of the SOG, and m_finish set once the main thread joins;  *)
(*   NoWorkLost  (inductive as it stands);                                 *)
(*   WorkInv     what a builder has linked, has in hand and has still to   *)
(*               fire are the observable transitions of its state, and a   *)
(*               completed state has its flags and, until the destructor   *)
(*               runs, all its edges;                                      *)
(*   OwnerInv    a state is on one stack once or in one builder's hands,   *)
(*               and in neither once it is completed;                      *)
(*   ReadInv     the main thread waits for the initial aggregate or for    *)
(*               the target of an edge it has read.                        *)
(* Aggregates may have several states here, so the last two layers and the *)
(* refinement speak of aggregates where ThreadSOGProofs speaks of states.  *)
(***************************************************************************)
EXTENDS ModelCheckerTh, LDDGraphProofs

Agg(n) == heap[n].m_lddstate

(* Where a builder does nothing for any state. *)
Resting == {"start", "initial", "loop", "busy", "pop", "notifyBuild", "idle", "scan", "done"}

(* It has found the target of its transition. *)
Aimed == {"link", "insert", "flags", "push"}

(* The main thread is in buildSucc; where else it may be. *)
Awaiting == {"check", "sleep", "waiting"}
MainLabel == Awaiting \cup {"initial", "explore", "print", "destroy", "join", "end"}

TypeOK ==
  /\ heap \in Seq(LDDState)
  /\ m_GONodes \in Seq(Nat)
  /\ m_nbArcs \in Nat
  /\ m_st \in [Thread -> Seq(StackedPair)]
  /\ m_terminaison \subseteq Thread
  /\ m_id_thread \in Nat
  /\ m_finish \in BOOLEAN
  /\ m_finish_initial \in BOOLEAN
  /\ pc \in [Thread -> Working \cup Resting]
  /\ e \in [Thread -> StackedPair]
  /\ t \in [Thread -> Transition \cup {NoTransition}]
  /\ pos \in [Thread -> Nat]
  /\ i \in [Thread -> Nat]
  /\ mcPc \in MainLabel
  /\ agregate \in Nat

(* A stacked state is in the graph, with all its observable transitions.   *)
StacksOK ==
  \A w \in Thread : \A z \in Elements(m_st[w]) :
    z.state \in InGraph /\ z.fire = FirableObs[Agg(z.state)]

ThreadOK(w) ==
  /\ pc[w] \in Working =>
       e[w].state \in InGraph /\ e[w].fire \subseteq FirableObs[Agg(e[w].state)]
  /\ pc[w] \in {"find", "link"} => t[w] \in FirableObs[Agg(e[w].state)]
  /\ pc[w] \in Aimed => pos[w] \in Object
  /\ pc[w] = "link" => Agg(pos[w]) = Reached(w)
  /\ pc[w] \in {"flags", "push"} => pos[w] \in InGraph
  /\ pc[w] \in {"busy", "pop"} => m_st[w] # <<>>
  /\ pc[w] \in {"start", "initial"} /\ w = 0 =>
       heap = <<>> /\ m_GONodes = <<>> /\ ~m_finish_initial

LinksOK ==
  \A n \in Object : \A u \in Links(heap[n]) :
    /\ u.to \in Object
    /\ u.t \in FirableObs[Agg(n)]
    /\ Agg(u.to) = Successor[<<Agg(n), u.t>>]

MainOK ==
  /\ m_finish <=> mcPc \in {"join", "end"}
  /\ m_finish_initial => m_GONodes # <<>>
  /\ mcPc # "initial" => agregate \in Object

TypeInv ==
  /\ TypeOK
  /\ InGraph \subseteq Object
  /\ StacksOK
  /\ \A w \in Thread : ThreadOK(w)
  /\ LinksOK
  /\ MainOK

InHand(w) == IF pc[w] \in {"find", "link"} THEN {t[w]} ELSE {}

(* The answers of Set_Bloc and Set_Div are in a state. *)
Flagged(s) ==
  /\ s.m_blocage = (s.m_lddstate \in Deadlocked)
  /\ s.m_boucle = (s.m_lddstate \in Divergent)

WorkOK(w) ==
  /\ pc[w] \in Working =>
       /\ FirableObs[Agg(e[w].state)]
            \subseteq TransitionsOf(heap[e[w].state]) \cup InHand(w) \cup e[w].fire
       /\ Flagged(heap[e[w].state])
  /\ pc[w] = "complete" => e[w].fire = {} \/ m_finish
  /\ pc[w] = "push" => Flagged(heap[pos[w]])

CompletedOK(n) ==
  heap[n].m_completed => n \in InGraph /\ Flagged(heap[n]) /\ (AllEdges(n) \/ m_finish)

WorkInv ==
  /\ \A w \in Thread : WorkOK(w)
  /\ \A w \in Thread : \A z \in Elements(m_st[w]) : Flagged(heap[z.state])
  /\ \A n \in Object : CompletedOK(n)
  /\ \A n \in Object : Obtained(n) => heap[n].m_completed /\ AllEdges(n)

(* What builder w holds besides the state of its e. *)
Brings(w) ==
  pc[w] \in {"insert", "flags", "push"} \/ (pc[w] = "link" /\ pos[w] \notin InGraph)

OwnerInv ==
  /\ DistinctStates(m_st)
  /\ \A v, w \in Thread : \A n \in Object :
       Holds(w, n) => ~Stacked(v, n) /\ (Holds(v, n) => v = w)
  /\ \A w \in Thread : Brings(w) => pos[w] # e[w].state
  /\ \A n \in Object : heap[n].m_completed =>
       \A w \in Thread : ~Stacked(w, n) /\ ~Holds(w, n)

(* Spot has read an edge to n. *)
Followed(n) ==
  \E m \in Object : Obtained(m) /\ \E u \in Links(heap[m]) : u.to = n

ReadInv ==
  /\ m_GONodes # <<>> => Agg(m_GONodes[1]) = InitialAggregate
  /\ mcPc \in Awaiting => Agg(agregate) = InitialAggregate \/ Followed(agregate)

-----------------------------------------------------------------------------
(* What each step does.                                                    *)

(* Builder w goes to a label; the others stay where they are. *)
Moves(w, label) ==
  /\ pc' \in [Thread -> Working \cup Resting]
  /\ pc'[w] = label
  /\ \A v \in Thread \ {w} : pc'[v] = pc[v]

LEMMA GotoMoves ==
  ASSUME TypeOK, NEW w \in Thread, NEW label \in Working \cup Resting, Goto(w, label)
  PROVE  Moves(w, label)
BY DEF TypeOK, Goto, Moves

LEMMA GraphElements ==
  /\ InGraph = Elements(m_GONodes)
  /\ InGraph' = Elements(m_GONodes')
BY DEF InGraph, Elements

LEMMA ObjectProperties ==
  ASSUME TypeOK, NEW n \in Object
  PROVE  n \in Nat /\ heap[n] \in LDDState /\ Agg(n) \in Aggregate
<1>1. n \in Nat /\ heap[n] \in LDDState
  BY GraphDomain DEF TypeOK, Object
<1>2. QED
  BY <1>1 DEF LDDState, Agg

(* Before the initial state there is nothing to work on. *)
LEMMA NothingYet ==
  ASSUME TypeInv, Object = {}
  PROVE  /\ \A w \in Thread : pc[w] \notin Working /\ m_st[w] = <<>>
         /\ InGraph = {}
<1>1. InGraph = {}
  BY DEF TypeInv
<1>2. ASSUME NEW w \in Thread
      PROVE  pc[w] \notin Working /\ m_st[w] = <<>>
  <2>1. pc[w] \notin Working
    BY <1>1, <1>2 DEF TypeInv, ThreadOK
  <2>2. m_st[w] \in Seq(StackedPair)
    BY DEF TypeInv, TypeOK
  <2>3. ASSUME m_st[w] # <<>>
        PROVE  FALSE
    <3>1. Head(m_st[w]) \in Elements(m_st[w])
      BY <2>2, <2>3, PopElements
    <3>2. QED
      BY <1>1, <3>1 DEF TypeInv, StacksOK
  <2>4. QED
    BY <2>1, <2>3
<1>3. QED
  BY <1>1, <1>2

(* Builder w moves and touches no state; it may wake the main thread up.   *)
Quiet(w) ==
  /\ Moves(w, pc'[w])
  /\ pc[w] \in Resting /\ pc'[w] \in Resting
  /\ pc'[w] \in {"busy", "pop"} => m_st[w] # <<>>
  /\ pc'[w] \in {"start", "initial"} => pc[w] \in {"start", "initial"}
  /\ mcPc' = mcPc \/ (mcPc = "waiting" /\ mcPc' = "check")
  /\ UNCHANGED <<heap, m_GONodes, m_st, flags, e, t, pos, agregate>>

LEMMA QuietSteps ==
  ASSUME TypeInv, NEW w \in Thread,
         \/ Start(w) \/ Loop(w) \/ Busy(w) \/ NotifyBuild(w) \/ Idle(w) \/ isNotTerminated(w)
  PROVE  Quiet(w)
<1> USE DEF Resting, graph, flags, stacks, checker
<1>1. TypeOK
  BY DEF TypeInv
<1>2. ASSUME NEW label \in Resting, pc[w] \in Resting, Goto(w, label),
             UNCHANGED <<heap, m_GONodes, m_st, flags, e, t, pos, agregate>>,
             mcPc' = mcPc \/ (mcPc = "waiting" /\ mcPc' = "check"),
             label \in {"busy", "pop"} => m_st[w] # <<>>,
             label \in {"start", "initial"} => pc[w] \in {"start", "initial"}
      PROVE  Quiet(w)
  <2>1. Moves(w, label)
    BY <1>1, <1>2, GotoMoves
  <2>2. QED
    BY <1>2, <2>1 DEF Quiet, Moves
<1>3. CASE Start(w)
  <2>1. \E label \in {"initial", "loop"} : Goto(w, label)
    BY <1>3 DEF Start
  <2>2. QED
    BY <1>2, <1>3, <2>1 DEF Start
<1>4. CASE Loop(w)
  <2>1. \E label \in {"busy", "idle"} : Goto(w, label) /\ (label = "busy" => m_st[w] # <<>>)
    BY <1>4 DEF Loop
  <2>2. QED
    BY <1>2, <1>4, <2>1 DEF Loop
<1>5. CASE Busy(w)
  <2>1. m_st[w] # <<>>
    BY <1>5 DEF Busy, TypeInv, ThreadOK
  <2>2. QED
    BY <1>2, <1>5, <2>1 DEF Busy
<1>6. CASE NotifyBuild(w)
  BY <1>2, <1>6 DEF NotifyBuild
<1>7. CASE Idle(w)
  BY <1>2, <1>7 DEF Idle
<1>8. CASE isNotTerminated(w)
  <2>1. CASE UNCHANGED pc
    BY <1>1, <1>8, <2>1 DEF isNotTerminated, Quiet, Moves, TypeOK
  <2>2. CASE \E label \in {"done", "loop"} : Goto(w, label)
    BY <1>2, <1>8, <2>2 DEF isNotTerminated
  <2>3. QED
    BY <1>8, <2>1, <2>2 DEF isNotTerminated
<1>9. QED
  BY <1>3, <1>4, <1>5, <1>6, <1>7, <1>8

(* The main thread moves and visits nothing. *)
Rests ==
  /\ \/ mcPc = "check" /\ heap[agregate].m_completed /\ mcPc' = "explore"
     \/ mcPc \in Awaiting /\ mcPc' \in Awaiting
     \/ /\ mcPc \in {"explore", "print", "destroy", "join", "end"}
        /\ mcPc' \in {"print", "destroy", "join", "end"}
  /\ m_finish' = TRUE <=> mcPc' \in {"join", "end"}
  /\ m_finish => m_finish'
  /\ UNCHANGED <<heap, m_GONodes, m_st, m_finish_initial, pc, e, t, pos, agregate>>

LEMMA RestSteps ==
  ASSUME TypeInv,
         \/ CheckBuild \/ SleepBuild \/ SpuriousWakeUpBuild \/ Finish
         \/ PrintCompleteInformation \/ Destroy \/ Join
  PROVE  Rests
<1> USE DEF Rests, Awaiting, graph, flags, stacks, builder, TypeInv, MainOK
<1>1. m_finish \in BOOLEAN
  BY DEF TypeOK
<1>2. CASE CheckBuild
  BY <1>1, <1>2 DEF CheckBuild
<1>3. CASE SleepBuild
  BY <1>1, <1>3 DEF SleepBuild
<1>4. CASE SpuriousWakeUpBuild
  BY <1>1, <1>4 DEF SpuriousWakeUpBuild
<1>5. CASE Finish
  BY <1>1, <1>5 DEF Finish
<1>6. CASE PrintCompleteInformation
  BY <1>1, <1>6 DEF PrintCompleteInformation
<1>7. CASE Destroy
  BY <1>1, <1>7 DEF Destroy
<1>8. CASE Join
  BY <1>1, <1>8 DEF Join
<1>9. QED
  BY <1>2, <1>3, <1>4, <1>5, <1>6, <1>7, <1>8

(* An object is added to the heap, or one of the heap becomes s. *)
Adds(n, s) ==
  /\ heap' \in Seq(LDDState)
  /\ n \notin Object /\ n \in Nat
  /\ DOMAIN heap' = Object \cup {n}
  /\ heap'[n] = s
  /\ \A k \in Object : heap'[k] = heap[k]

Changes(n, s) ==
  /\ heap' \in Seq(LDDState)
  /\ n \in Object
  /\ DOMAIN heap' = Object
  /\ heap'[n] = s
  /\ \A k \in Object \ {n} : heap'[k] = heap[k]

(* An object is inserted in the graph. *)
Inserts(n) ==
  /\ m_GONodes' \in Seq(Nat)
  /\ Elements(m_GONodes') = InGraph \cup {n}
  /\ m_GONodes' # <<>>
  /\ m_GONodes'[1] = IF m_GONodes = <<>> THEN n ELSE m_GONodes[1]

LEMMA InsertInserts ==
  ASSUME TypeOK, NEW n \in Nat, m_GONodes' = insert(m_GONodes, n)
  PROVE  Inserts(n)
<1> DEFINE g == m_GONodes
<1> DEFINE h == Append(g, n)
<1>1. g \in Seq(Nat) /\ m_GONodes' = h
  BY DEF TypeOK, insert
<1>2. /\ h \in Seq(Nat)
      /\ Len(h) = Len(g) + 1
      /\ \A k \in 1 .. Len(g) : h[k] = g[k]
      /\ h[Len(g) + 1] = n
  BY <1>1, AppendProperties
<1>3. Elements(h) = Elements(g) \cup {n}
  BY <1>1, AppendElements
<1>4. Len(g) \in Nat /\ (g = <<>> <=> Len(g) = 0) /\ (h = <<>> <=> Len(h) = 0)
  BY <1>1, <1>2, LenProperties, EmptySeq
<1> HIDE DEF h
<1>5. h # <<>> /\ h[1] = IF g = <<>> THEN n ELSE g[1]
  BY <1>2, <1>4
<1>6. QED
  BY <1>1, <1>2, <1>3, <1>5, GraphElements DEF Inserts

LEMMA InitialEffect ==
  ASSUME TypeInv, Initial
  PROVE  /\ 0 \in Thread /\ pc[0] = "initial" /\ Moves(0, "loop")
         /\ Object = {} /\ InGraph = {} /\ m_GONodes = <<>>
         /\ Adds(1, WithFlags(NewState(InitialAggregate)))
         /\ Inserts(1)
         /\ PushesOn(Thread, StackedPair, m_st, m_st', 0, Pair(1, FirableObs[InitialAggregate]))
         /\ m_finish_initial' = TRUE
         /\ UNCHANGED <<m_finish, e, t, pos, checker>>
<1> DEFINE s == WithFlags(NewState(InitialAggregate))
<1> DEFINE x == Pair(1, FirableObs[InitialAggregate])
<1>1. 0 \in Thread
  BY ModelCheckerThAssumption DEF Thread
<1>2. TypeOK /\ pc[0] = "initial" /\ Goto(0, "loop")
  BY DEF TypeInv, Initial
<1>3. heap = <<>> /\ m_GONodes = <<>>
  BY <1>1, <1>2 DEF TypeInv, ThreadOK
<1>4. Object = {} /\ InGraph = {}
  BY <1>3 DEF Object, InGraph
<1>5. s \in LDDState /\ FirableObs[InitialAggregate] \in SUBSET Transition
  BY SOGAssumption, NewStateType, WithFlagsType
<1>6. Adds(1, s)
  <2>1. heap' = <<s>>
    BY DEF Initial
  <2> HIDE DEF s
  <2>2. <<s>> \in Seq(LDDState) /\ DOMAIN <<s>> = {1} /\ <<s>>[1] = s
    BY <1>5
  <2>3. QED
    BY <1>4, <2>1, <2>2 DEF Adds
<1>7. Inserts(1)
  BY <1>2, InsertInserts DEF Initial
<1>8. PushesOn(Thread, StackedPair, m_st, m_st', 0, x)
  <2>1. m_st[0] = <<>> /\ m_st \in [Thread -> Seq(StackedPair)]
    BY <1>1, <1>2, <1>4, NothingYet DEF TypeOK
  <2>2. m_st' = [m_st EXCEPT ![0] = <<x>>]
    BY DEF Initial
  <2>3. x \in StackedPair
    BY <1>5 DEF Pair, StackedPair
  <2> HIDE DEF x
  <2>4. <<x>> \in Seq(StackedPair) /\ <<x>> \o <<>> = <<x>>
    BY <2>3
  <2>5. QED
    BY <1>1, <2>1, <2>2, <2>3, <2>4 DEF PushesOn
<1>9. Moves(0, "loop")
  BY <1>1, <1>2, GotoMoves DEF Resting
<1>10. QED
  BY <1>1, <1>2, <1>3, <1>4, <1>6, <1>7, <1>8, <1>9 DEF Initial, checker

LEMMA PopEffect ==
  ASSUME TypeInv, NEW w \in Thread, Pop(w)
  PROVE  /\ pc[w] = "pop" /\ Moves(w, "fire")
         /\ PopsFrom(Thread, StackedPair, m_st, m_st', w, e'[w])
         /\ e'[w].state \in InGraph /\ e'[w].fire = FirableObs[Agg(e'[w].state)]
         /\ e'[w] \in Elements(m_st[w])
         /\ e' \in [Thread -> StackedPair]
         /\ \A v \in Thread \ {w} : e'[v] = e[v]
         /\ UNCHANGED <<heap, m_GONodes, flags, t, pos, checker>>
<1>1. TypeOK /\ pc[w] = "pop" /\ Goto(w, "fire")
  BY DEF TypeInv, Pop
<1>2. Moves(w, "fire")
  BY <1>1, GotoMoves DEF Working
<1>3. m_st[w] # <<>> /\ m_st \in [Thread -> Seq(StackedPair)] /\ e \in [Thread -> StackedPair]
  BY <1>1 DEF TypeInv, ThreadOK, TypeOK
<1>4. PICK x : x = Head(m_st[w])
  OBVIOUS
<1>5. m_st' = [m_st EXCEPT ![w] = Tail(m_st[w])] /\ e' = [e EXCEPT ![w] = x]
  BY <1>4 DEF Pop
<1>6. PopsFrom(Thread, StackedPair, m_st, m_st', w, x)
  BY <1>3, <1>4, <1>5, PopElements DEF PopsFrom
<1>7. x \in StackedPair /\ x \in Elements(m_st[w])
  BY <1>3, <1>4, PopElements
<1>8. x.state \in InGraph /\ x.fire = FirableObs[Agg(x.state)]
  BY <1>7 DEF TypeInv, StacksOK
<1>9. e'[w] = x /\ e' \in [Thread -> StackedPair] /\ \A v \in Thread \ {w} : e'[v] = e[v]
  BY <1>3, <1>5, <1>7
<1>10. QED
  BY <1>1, <1>2, <1>6, <1>7, <1>8, <1>9 DEF Pop, graph

(* The next transition of the state, or none is left, or m_finish is set.  *)
LEMMA FireEffect ==
  ASSUME TypeInv, NEW w \in Thread, Fire(w)
  PROVE  /\ pc[w] = "fire"
         /\ \/ /\ Moves(w, "find")
               /\ t'[w] \in e[w].fire
               /\ e'[w].state = e[w].state /\ e'[w].fire = e[w].fire \ {t'[w]}
            \/ /\ Moves(w, "complete")
               /\ e[w].fire = {} \/ m_finish
               /\ e'[w] = e[w]
         /\ e' \in [Thread -> StackedPair] /\ t' \in [Thread -> Transition \cup {NoTransition}]
         /\ \A v \in Thread \ {w} : e'[v] = e[v] /\ t'[v] = t[v]
         /\ UNCHANGED <<heap, m_GONodes, m_st, flags, pos, checker>>
<1>1. TypeOK /\ pc[w] = "fire" /\ e[w].state \in InGraph /\ e[w].fire \subseteq Transition
  <2>1. TypeOK /\ pc[w] = "fire"
    BY DEF TypeInv, Fire
  <2>2. QED
    BY <2>1 DEF TypeInv, TypeOK, ThreadOK, StackedPair, Working
<1>2. e \in [Thread -> StackedPair] /\ t \in [Thread -> Transition \cup {NoTransition}]
  BY <1>1 DEF TypeOK
<1>3. UNCHANGED <<heap, m_GONodes, m_st, flags, pos, checker>>
  BY DEF Fire, graph, stacks
<1>4. ASSUME NEW u \in e[w].fire, t' = [t EXCEPT ![w] = u],
             e' = [e EXCEPT ![w].fire = @ \ {u}], Goto(w, "find")
      PROVE  /\ Moves(w, "find")
             /\ t'[w] \in e[w].fire
             /\ e'[w].state = e[w].state /\ e'[w].fire = e[w].fire \ {t'[w]}
             /\ e' \in [Thread -> StackedPair] /\ t' \in [Thread -> Transition \cup {NoTransition}]
             /\ \A v \in Thread \ {w} : e'[v] = e[v] /\ t'[v] = t[v]
  <2>1. Moves(w, "find")
    BY <1>1, <1>4, GotoMoves DEF Working
  <2>2. u \in Transition
    BY <1>1, <1>4
  <2>3. t'[w] = u /\ t' \in [Thread -> Transition \cup {NoTransition}]
        /\ \A v \in Thread \ {w} : t'[v] = t[v]
    BY <1>2, <1>4, <2>2
  <2>4. /\ e' \in [Thread -> StackedPair]
        /\ e'[w].state = e[w].state /\ e'[w].fire = e[w].fire \ {u}
        /\ \A v \in Thread \ {w} : e'[v] = e[v]
    BY <1>2, <1>4 DEF StackedPair
  <2>5. QED
    BY <1>4, <2>1, <2>3, <2>4
<1>5. ASSUME e[w].fire = {} \/ m_finish, Goto(w, "complete"), UNCHANGED <<e, t>>
      PROVE  Moves(w, "complete") /\ e'[w] = e[w]
  BY <1>1, <1>5, GotoMoves DEF Working
<1>6. CASE \E u \in e[w].fire : /\ t' = [t EXCEPT ![w] = u]
                               /\ e' = [e EXCEPT ![w].fire = @ \ {u}]
                               /\ Goto(w, "find")
  BY <1>1, <1>3, <1>4, <1>6
<1>7. CASE (e[w].fire = {} \/ m_finish) /\ Goto(w, "complete") /\ UNCHANGED <<e, t>>
  BY <1>1, <1>2, <1>3, <1>5, <1>7
<1>8. QED
  BY <1>6, <1>7 DEF Fire

(* A builder that has taken a transition: where it leads to. *)
LEMMA TakenProperties ==
  ASSUME TypeInv, NEW w \in Thread, pc[w] \in {"find", "link"}
  PROVE  /\ e[w].state \in InGraph /\ e[w].state \in Object /\ Agg(e[w].state) \in Aggregate
         /\ t[w] \in FirableObs[Agg(e[w].state)] /\ t[w] \in Transition
         /\ Reached(w) = Successor[<<Agg(e[w].state), t[w]>>]
         /\ Reached(w) \in Aggregate
<1>1. e[w].state \in InGraph /\ t[w] \in FirableObs[Agg(e[w].state)]
  BY DEF TypeInv, ThreadOK, Working
<1>2. e[w].state \in Object /\ TypeOK
  BY <1>1 DEF TypeInv
<1>3. Agg(e[w].state) \in Aggregate
  BY <1>2, ObjectProperties
<1>4. t[w] \in Transition /\ Successor[<<Agg(e[w].state), t[w]>>] \in Aggregate
  BY <1>1, <1>3, FirableProperties
<1>5. QED
  BY <1>1, <1>2, <1>3, <1>4 DEF Reached, Agg

LEMMA FindEffect ==
  ASSUME TypeInv, NEW w \in Thread, Find(w)
  PROVE  /\ pc[w] = "find" /\ Moves(w, "link")
         /\ pos' \in [Thread -> Nat] /\ \A v \in Thread \ {w} : pos'[v] = pos[v]
         /\ \/ /\ pos'[w] \in InGraph /\ Agg(pos'[w]) = Reached(w)
               /\ UNCHANGED heap
            \/ /\ Adds(pos'[w], NewState(Reached(w)))
               /\ \A n \in InGraph : Agg(n) # Reached(w)
         /\ UNCHANGED <<m_GONodes, m_st, flags, e, t, checker>>
<1>1. TypeOK /\ pc[w] = "find" /\ Goto(w, "link")
  BY DEF TypeInv, Find
<1>2. Moves(w, "link")
  BY <1>1, GotoMoves DEF Working
<1>3. UNCHANGED <<m_GONodes, m_st, flags, e, t, checker>>
  BY DEF Find, stacks
<1>4. Reached(w) \in Aggregate /\ pos \in [Thread -> Nat] /\ heap \in Seq(LDDState)
  BY <1>1, TakenProperties DEF TypeOK
<1> DEFINE found == {k \in DOMAIN m_GONodes : heap[m_GONodes[k]].m_lddstate = Reached(w)}
<1>5. \/ /\ \E k \in found : pos' = [pos EXCEPT ![w] = m_GONodes[k]]
         /\ UNCHANGED heap
      \/ /\ found = {}
         /\ heap' = Append(heap, NewState(Reached(w)))
         /\ pos' = [pos EXCEPT ![w] = Len(heap) + 1]
  BY DEF Find
<1>6. CASE (\E k \in found : pos' = [pos EXCEPT ![w] = m_GONodes[k]]) /\ UNCHANGED heap
  <2>1. PICK k \in found : pos' = [pos EXCEPT ![w] = m_GONodes[k]]
    BY <1>6
  <2>2. m_GONodes[k] \in InGraph /\ Agg(m_GONodes[k]) = Reached(w)
    BY <2>1 DEF InGraph, Agg
  <2>3. m_GONodes[k] \in Nat
    BY <1>1, <2>2, ObjectProperties DEF TypeInv
  <2>4. pos'[w] = m_GONodes[k] /\ pos' \in [Thread -> Nat]
        /\ \A v \in Thread \ {w} : pos'[v] = pos[v]
    BY <1>4, <2>1, <2>3
  <2>5. QED
    BY <1>1, <1>2, <1>3, <1>6, <2>2, <2>4
<1>7. CASE /\ found = {}
           /\ heap' = Append(heap, NewState(Reached(w)))
           /\ pos' = [pos EXCEPT ![w] = Len(heap) + 1]
  <2> DEFINE s == NewState(Reached(w))
  <2>1. s \in LDDState
    BY <1>4, NewStateType
  <2>2. heap' = insert(heap, s)
    BY <1>7 DEF insert
  <2> HIDE DEF s
  <2>3. Adds(Len(heap) + 1, s) /\ Len(heap) + 1 \in Nat
    BY <1>4, <2>1, <2>2, InsertProperties DEF Adds, Object
  <2>4. pos'[w] = Len(heap) + 1 /\ pos' \in [Thread -> Nat]
        /\ \A v \in Thread \ {w} : pos'[v] = pos[v]
    BY <1>4, <1>7, <2>3
  <2>5. \A n \in InGraph : Agg(n) # Reached(w)
    BY <1>7 DEF InGraph, Agg
  <2>6. Adds(pos'[w], s)
    BY <2>3, <2>4
  <2>7. QED
    BY <1>1, <1>2, <1>3, <2>4, <2>5, <2>6 DEF s
<1>8. QED
  BY <1>5, <1>6, <1>7

LEMMA LinkEffect ==
  ASSUME TypeInv, NEW w \in Thread, Link(w)
  PROVE  /\ pc[w] = "link" /\ pos[w] \in Object
         /\ Moves(w, IF pos[w] \in InGraph THEN "fire" ELSE "insert")
         /\ Linked(heap, heap', e[w].state, pos[w], t[w])
         /\ UNCHANGED <<m_GONodes, m_st, flags, e, t, pos, checker>>
<1>1. TypeOK /\ pc[w] = "link" /\ Goto(w, IF pos[w] \in InGraph THEN "fire" ELSE "insert")
  BY DEF TypeInv, Link
<1>2. Moves(w, IF pos[w] \in InGraph THEN "fire" ELSE "insert")
  BY <1>1, GotoMoves DEF Working
<1>3. pos[w] \in Object /\ e[w].state \in Object /\ t[w] \in Transition
  BY <1>1, TakenProperties DEF TypeInv, ThreadOK, Aimed
<1>4. heap' = AddPredecessor(AddSuccessor(heap, e[w].state, pos[w], t[w]),
                             pos[w], e[w].state, t[w])
  BY DEF Link
<1>5. heap \in Seq(LDDState) /\ pos[w] \in DOMAIN heap /\ e[w].state \in DOMAIN heap
  BY <1>1, <1>3 DEF TypeOK, Object
<1>6. Linked(heap, heap', e[w].state, pos[w], t[w])
  BY <1>3, <1>4, <1>5, AddEdgeProperties
<1>7. QED
  BY <1>1, <1>2, <1>3, <1>6 DEF Link, stacks

LEMMA InsertEffect ==
  ASSUME TypeInv, NEW w \in Thread, Insert(w)
  PROVE  /\ pc[w] = "insert" /\ Moves(w, "flags") /\ pos[w] \in Object
         /\ Inserts(pos[w])
         /\ UNCHANGED <<heap, m_st, flags, e, t, pos, checker>>
<1>1. TypeOK /\ pc[w] = "insert" /\ Goto(w, "flags")
  BY DEF TypeInv, Insert
<1>2. Moves(w, "flags")
  BY <1>1, GotoMoves DEF Working
<1>3. pos[w] \in Object
  BY <1>1 DEF TypeInv, ThreadOK, Aimed
<1>4. pos[w] \in Nat
  BY <1>1, <1>3, ObjectProperties
<1>5. Inserts(pos[w])
  BY <1>1, <1>4, InsertInserts DEF Insert
<1>6. QED
  BY <1>1, <1>2, <1>3, <1>5 DEF Insert, stacks

LEMMA SetFlagsEffect ==
  ASSUME TypeInv, NEW w \in Thread, SetFlags(w)
  PROVE  /\ pc[w] = "flags" /\ Moves(w, "push")
         /\ Changes(pos[w], WithFlags(heap[pos[w]]))
         /\ UNCHANGED <<m_GONodes, m_st, flags, e, t, pos, checker>>
<1>1. TypeOK /\ pc[w] = "flags" /\ Goto(w, "push")
  BY DEF TypeInv, SetFlags
<1>2. Moves(w, "push")
  BY <1>1, GotoMoves DEF Working
<1>3. pos[w] \in DOMAIN heap /\ heap \in Seq(LDDState)
  BY <1>1 DEF TypeInv, ThreadOK, Aimed, TypeOK, Object
<1>4. heap' = [heap EXCEPT ![pos[w]] = WithFlags(@)]
  BY DEF SetFlags
<1>5. /\ heap' \in Seq(LDDState)
      /\ DOMAIN heap' = DOMAIN heap
      /\ \A k \in DOMAIN heap : heap'[k] = IF k = pos[w] THEN WithFlags(heap[k]) ELSE heap[k]
  BY <1>3, <1>4, SetFlagsProperties
<1>6. Changes(pos[w], WithFlags(heap[pos[w]]))
  BY <1>3, <1>5 DEF Changes, Object
<1>7. QED
  BY <1>1, <1>2, <1>6 DEF SetFlags, stacks

LEMMA PushEffect ==
  ASSUME TypeInv, NEW w \in Thread, Push(w)
  PROVE  /\ pc[w] = "push" /\ Moves(w, "fire") /\ pos[w] \in InGraph
         /\ \E c \in Thread : PushesOn(Thread, StackedPair, m_st, m_st', c,
                                       Pair(pos[w], FirableObs[Agg(pos[w])]))
         /\ UNCHANGED <<heap, m_GONodes, flags, e, t, pos, checker>>
<1>1. TypeOK /\ pc[w] = "push" /\ Goto(w, "fire")
  BY DEF TypeInv, Push
<1>2. Moves(w, "fire")
  BY <1>1, GotoMoves DEF Working
<1>3. pos[w] \in InGraph /\ pos[w] \in Object
  BY <1>1 DEF TypeInv, ThreadOK
<1> DEFINE x == Pair(pos[w], FirableObs[Agg(pos[w])])
<1>4. x \in StackedPair
  <2>1. pos[w] \in Nat /\ FirableObs[Agg(pos[w])] \subseteq Transition
    BY <1>1, <1>3, ObjectProperties, FirableProperties
  <2>2. QED
    BY <2>1 DEF Pair, StackedPair
<1>5. PICK c \in Thread : m_st' = [m_st EXCEPT ![c] = <<x>> \o m_st[c]]
  BY DEF Push, Agg
<1>6. m_st \in [Thread -> Seq(StackedPair)]
  BY <1>1 DEF TypeOK
<1> HIDE DEF x
<1>7. PushesOn(Thread, StackedPair, m_st, m_st', c, x)
  BY <1>4, <1>5, <1>6, FrontElements DEF PushesOn
<1>8. QED
  BY <1>1, <1>2, <1>3, <1>7 DEF Push, graph, x

LEMMA CompleteEffect ==
  ASSUME TypeInv, NEW w \in Thread, Complete(w)
  PROVE  /\ pc[w] = "complete" /\ Moves(w, "notifyBuild") /\ e[w].state \in InGraph
         /\ Changes(e[w].state, [heap[e[w].state] EXCEPT !.m_completed = TRUE])
         /\ UNCHANGED <<m_GONodes, m_st, flags, e, t, pos, checker>>
<1>1. TypeOK /\ pc[w] = "complete" /\ Goto(w, "notifyBuild")
  BY DEF TypeInv, Complete
<1>2. Moves(w, "notifyBuild")
  BY <1>1, GotoMoves DEF Resting
<1>3. e[w].state \in InGraph /\ e[w].state \in DOMAIN heap /\ heap \in Seq(LDDState)
  BY <1>1 DEF TypeInv, ThreadOK, Working, TypeOK, Object
<1>4. heap' = [heap EXCEPT ![e[w].state].m_completed = TRUE]
  BY DEF Complete
<1>5. /\ heap' \in Seq(LDDState)
      /\ DOMAIN heap' = DOMAIN heap
      /\ \A k \in DOMAIN heap : heap'[k] = IF k = e[w].state
                                           THEN [heap[k] EXCEPT !.m_completed = TRUE]
                                           ELSE heap[k]
  BY <1>3, <1>4, SetCompletedProperties
<1>6. Changes(e[w].state, [heap[e[w].state] EXCEPT !.m_completed = TRUE])
  BY <1>3, <1>5 DEF Changes, Object
<1>7. QED
  BY <1>1, <1>2, <1>3, <1>6 DEF Complete, stacks

(* buildSucc of a state that Spot knows: the first one, or the target of   *)
(* an edge of a state it has visited.                                      *)
Visits(n) ==
  /\ ~heap[n].m_visited
  /\ Changes(n, [heap[n] EXCEPT !.m_visited = TRUE])
  /\ agregate' = n /\ mcPc' = "check" /\ ~m_finish
  /\ \/ mcPc = "initial" /\ m_finish_initial /\ n = m_GONodes[1]
     \/ mcPc = "explore" /\ \E k \in Object : heap[k].m_visited /\ \E u \in Links(heap[k]) : u.to = n
  /\ UNCHANGED <<m_GONodes, m_st, flags, pc, e, t, pos>>

LEMMA VisitEffect ==
  ASSUME TypeInv, GetInitial \/ Explore
  PROVE  \E n \in Object : Visits(n)
<1>1. TypeOK /\ mcPc \in {"initial", "explore"} /\ ~m_finish
      /\ UNCHANGED <<m_GONodes, m_st, flags, pc, e, t, pos>>
  BY DEF TypeInv, MainOK, GetInitial, Explore, stacks, builder
<1>2. ASSUME NEW n \in Object, buildSucc(n),
             \/ mcPc = "initial" /\ m_finish_initial /\ n = m_GONodes[1]
             \/ /\ mcPc = "explore"
                /\ \E k \in Object : heap[k].m_visited /\ \E u \in Links(heap[k]) : u.to = n
      PROVE  Visits(n)
  <2>1. heap' = [heap EXCEPT ![n].m_visited = TRUE] /\ heap \in Seq(LDDState) /\ n \in DOMAIN heap
    BY <1>1, <1>2 DEF buildSucc, TypeOK, Object
  <2>2. /\ heap' \in Seq(LDDState)
        /\ DOMAIN heap' = DOMAIN heap
        /\ \A k \in DOMAIN heap :
             heap'[k] = IF k = n THEN [heap[k] EXCEPT !.m_visited = TRUE] ELSE heap[k]
    BY <2>1, SetVisitedProperties
  <2>3. Changes(n, [heap[n] EXCEPT !.m_visited = TRUE])
    BY <1>2, <2>2 DEF Changes, Object
  <2>4. QED
    BY <1>1, <1>2, <2>3 DEF buildSucc, Visits
<1>3. CASE GetInitial
  <2>1. m_GONodes # <<>> /\ m_GONodes \in Seq(Nat)
    BY <1>1, <1>3 DEF GetInitial, TypeInv, MainOK, TypeOK
  <2>2. 1 \in DOMAIN m_GONodes
    BY <2>1, PopProperties
  <2>3. m_GONodes[1] \in Object
    BY <2>2 DEF TypeInv, InGraph
  <2>4. QED
    BY <1>2, <1>3, <2>3 DEF GetInitial
<1>4. CASE Explore
  <2>1. PICK n \in Object : /\ heap[n].m_visited
                            /\ \E k \in DOMAIN heap[n].Successors : buildSucc(heap[n].Successors[k].to)
    BY <1>4 DEF Explore
  <2>2. PICK k \in DOMAIN heap[n].Successors : buildSucc(heap[n].Successors[k].to)
    BY <2>1
  <2> DEFINE u == heap[n].Successors[k]
  <2>3. u \in Links(heap[n])
    BY <2>2 DEF Links
  <2>4. u.to \in Object
    BY <2>3 DEF TypeInv, LinksOK
  <2> HIDE DEF u
  <2>5. buildSucc(u.to)
    BY <2>2 DEF u
  <2>6. Visits(u.to)
    BY <1>2, <1>4, <2>1, <2>3, <2>4, <2>5 DEF Explore
  <2>7. QED
    BY <2>4, <2>6
<1>5. QED
  BY <1>3, <1>4

(* The builder steps that do something for a state, and all the steps. *)
Busily(w) ==
  \/ Pop(w) \/ Fire(w) \/ Find(w) \/ Link(w) \/ Insert(w) \/ SetFlags(w) \/ Push(w)
  \/ Complete(w)

LEMMA StepKinds ==
  ASSUME TypeInv, [Next]_vars
  PROVE  \/ UNCHANGED vars \/ Initial \/ Rests
         \/ \E n \in Object : Visits(n)
         \/ \E w \in Thread : Quiet(w) \/ Busily(w)
BY QuietSteps, RestSteps, VisitEffect DEF Next, BuilderStep, CheckerStep, Busily

-----------------------------------------------------------------------------
(* The heap and the graph only grow.                                       *)

(* What a step keeps of a state s that becomes r. *)
Kept(s, r) ==
  /\ r.m_lddstate = s.m_lddstate
  /\ Links(s) \subseteq Links(r)
  /\ s.m_visited => r.m_visited
  /\ s.m_completed => r.m_completed
  /\ Flagged(s) => Flagged(r)

Grows ==
  /\ heap' \in Seq(LDDState)
  /\ Object \subseteq Object'
  /\ \A n \in Object : Kept(heap[n], heap'[n])
  /\ InGraph \subseteq InGraph'
  /\ m_GONodes # <<>> => m_GONodes' # <<>> /\ m_GONodes'[1] = m_GONodes[1]

LEMMA KeptSame ==
  ASSUME NEW s
  PROVE  Kept(s, s)
BY DEF Kept

LEMMA KeptFlags ==
  ASSUME NEW s \in LDDState
  PROVE  Kept(s, WithFlags(s)) /\ Flagged(WithFlags(s))
<1>1. PICK r : r = WithFlags(s)
  OBVIOUS
<1>2. /\ r.m_lddstate = s.m_lddstate /\ r.Successors = s.Successors
      /\ r.m_visited = s.m_visited /\ r.m_completed = s.m_completed
      /\ r.m_blocage = (s.m_lddstate \in Deadlocked)
      /\ r.m_boucle = (s.m_lddstate \in Divergent)
  BY <1>1, WithFlagsType
<1>3. Flagged(r)
  BY <1>2, Zenon DEF Flagged
<1>4. Kept(s, r)
  BY <1>2, <1>3, Zenon DEF Kept, Links
<1>5. QED
  BY <1>1, <1>3, <1>4

LEMMA KeptMarks ==
  ASSUME NEW s \in LDDState
  PROVE  /\ Kept(s, [s EXCEPT !.m_completed = TRUE])
         /\ Kept(s, [s EXCEPT !.m_visited = TRUE])
<1>2. ASSUME NEW q \in {[s EXCEPT !.m_completed = TRUE], [s EXCEPT !.m_visited = TRUE]}
      PROVE  Kept(s, q)
  <2>1. /\ q.m_lddstate = s.m_lddstate /\ q.Successors = s.Successors
        /\ s.m_visited => q.m_visited
        /\ s.m_completed => q.m_completed
        /\ q.m_blocage = s.m_blocage /\ q.m_boucle = s.m_boucle
    BY <1>2 DEF LDDState
  <2>2. QED
    BY <2>1, Zenon DEF Kept, Links, Flagged
<1>3. QED
  BY <1>2

NewLink(m, u) == [to |-> m, t |-> u]

LEMMA LinkedState ==
  ASSUME NEW s \in LDDState, NEW r, SameButEdges(s, r), NEW m \in Nat, NEW u \in Transition,
         \/ r.Successors = s.Successors
         \/ r.Successors = <<NewLink(m, u)>> \o s.Successors
  PROVE  /\ Kept(s, r)
         /\ r.m_completed = s.m_completed /\ r.m_visited = s.m_visited
         /\ r.Successors = s.Successors => Links(r) = Links(s)
         /\ r.Successors = <<NewLink(m, u)>> \o s.Successors
              => Links(r) = Links(s) \cup {NewLink(m, u)}
<1>1. r.Successors = s.Successors => Links(r) = Links(s)
  BY DEF Links
<1>2. ASSUME r.Successors = <<NewLink(m, u)>> \o s.Successors
      PROVE  Links(r) = Links(s) \cup {NewLink(m, u)}
  BY <1>2, LinkedEdges DEF NewLink
<1>3. Links(s) \subseteq Links(r)
  BY <1>1, <1>2
<1>4. Flagged(s) => Flagged(r)
  BY Zenon DEF SameButEdges, Flagged
<1>5. Kept(s, r)
  BY <1>3, <1>4, Zenon DEF SameButEdges, Kept
<1>6. QED
  BY <1>1, <1>2, <1>5 DEF SameButEdges

(* Linking gives one state one more edge. *)
LEMMA LinkLinks ==
  ASSUME TypeInv, NEW w \in Thread, Link(w)
  PROVE  /\ heap' \in Seq(LDDState) /\ Object' = Object
         /\ \A n \in Object : /\ Kept(heap[n], heap'[n])
                             /\ heap'[n].m_completed = heap[n].m_completed
                             /\ heap'[n].m_visited = heap[n].m_visited
         /\ Links(heap'[e[w].state]) = Links(heap[e[w].state]) \cup {NewLink(pos[w], t[w])}
         /\ \A n \in Object \ {e[w].state} : Links(heap'[n]) = Links(heap[n])
<1>1. PICK g, h, k, m, u : g = heap /\ h = heap' /\ k = e[w].state /\ m = pos[w] /\ u = t[w]
  OBVIOUS
<1>2. pc[w] = "link" /\ m \in Object /\ Linked(g, h, k, m, u)
  BY <1>1, LinkEffect
<1>3. m \in Nat /\ u \in Transition /\ k \in Object /\ g \in Seq(LDDState)
  BY <1>1, <1>2, ObjectProperties, TakenProperties DEF TypeInv, TypeOK
<1>4. h \in Seq(LDDState) /\ DOMAIN h = DOMAIN g
  BY <1>2 DEF Linked
<1>5. ASSUME NEW n \in Object
      PROVE  /\ Kept(g[n], h[n])
             /\ h[n].m_completed = g[n].m_completed /\ h[n].m_visited = g[n].m_visited
             /\ n = k => Links(h[n]) = Links(g[n]) \cup {NewLink(m, u)}
             /\ n # k => Links(h[n]) = Links(g[n])
  <2>1. PICK s, r : s = g[n] /\ r = h[n]
    OBVIOUS
  <2>2. s \in LDDState
    BY <1>1, <2>1, ObjectProperties DEF TypeInv
  <2>3. /\ SameButEdges(s, r)
        /\ n = k => r.Successors = <<NewLink(m, u)>> \o s.Successors
        /\ n # k => r.Successors = s.Successors
    BY <1>1, <1>2, <2>1 DEF Linked, NewLink, Object
  <2>4. /\ Kept(s, r)
        /\ r.m_completed = s.m_completed /\ r.m_visited = s.m_visited
        /\ r.Successors = s.Successors => Links(r) = Links(s)
        /\ r.Successors = <<NewLink(m, u)>> \o s.Successors
             => Links(r) = Links(s) \cup {NewLink(m, u)}
    BY <1>3, <2>2, <2>3, LinkedState
  <2>5. QED
    BY <2>1, <2>3, <2>4
<1>6. QED
  BY <1>1, <1>3, <1>4, <1>5 DEF Object

LEMMA GrowsStep ==
  ASSUME TypeInv, [Next]_vars
  PROVE  Grows
<1> DEFINE Heap == /\ heap' \in Seq(LDDState) /\ Object \subseteq Object'
                   /\ \A n \in Object : Kept(heap[n], heap'[n])
<1> DEFINE Vector == /\ InGraph \subseteq InGraph'
                     /\ m_GONodes # <<>> => m_GONodes' # <<>> /\ m_GONodes'[1] = m_GONodes[1]
<1>1. ASSUME UNCHANGED heap
      PROVE  Heap
  BY <1>1, KeptSame DEF Object, TypeInv, TypeOK
<1>2. ASSUME NEW k, NEW s, Adds(k, s)
      PROVE  Heap
  BY <1>2, KeptSame DEF Adds, Object
<1>3. ASSUME NEW k, NEW s, Changes(k, s), Kept(heap[k], s)
      PROVE  Heap
  <2>1. /\ heap' \in Seq(LDDState) /\ Object' = Object /\ heap'[k] = s
        /\ \A n \in Object \ {k} : heap'[n] = heap[n]
    BY <1>3 DEF Changes, Object
  <2>2. \A n \in Object \ {k} : Kept(heap[n], heap'[n])
    BY <2>1, KeptSame
  <2>3. Kept(heap[k], heap'[k])
    BY <1>3, <2>1
  <2>4. QED
    BY <2>1, <2>2, <2>3
<1>4. ASSUME UNCHANGED m_GONodes
      PROVE  Vector
  BY <1>4 DEF InGraph
<1>5. ASSUME NEW k, Inserts(k)
      PROVE  Vector
  BY <1>5, GraphElements DEF Inserts
<1>6. ASSUME NEW k \in Object
      PROVE  heap[k] \in LDDState
  BY ObjectProperties DEF TypeInv
<1> SUFFICES Heap /\ Vector
  BY DEF Grows
<1>7. CASE UNCHANGED vars
  BY <1>1, <1>4, <1>7 DEF vars, graph
<1>8. CASE Initial
  BY <1>2, <1>5, <1>8, InitialEffect
<1>9. CASE Rests
  BY <1>1, <1>4, <1>9 DEF Rests
<1>10. ASSUME NEW n \in Object, Visits(n)
       PROVE  Heap /\ Vector
  <2>1. Kept(heap[n], [heap[n] EXCEPT !.m_visited = TRUE])
    BY <1>6, KeptMarks
  <2>2. QED
    BY <1>3, <1>4, <1>10, <2>1 DEF Visits
<1>11. ASSUME NEW w \in Thread, Quiet(w) \/ Pop(w) \/ Fire(w) \/ Push(w)
       PROVE  Heap /\ Vector
  <2>1. UNCHANGED heap /\ UNCHANGED m_GONodes
    BY <1>11, PopEffect, FireEffect, PushEffect DEF Quiet
  <2>2. QED
    BY <1>1, <1>4, <2>1
<1>12. ASSUME NEW w \in Thread, Find(w)
       PROVE  Heap /\ Vector
  BY <1>1, <1>2, <1>4, <1>12, FindEffect
<1>13. ASSUME NEW w \in Thread, Link(w)
       PROVE  Heap /\ Vector
  <2>1. UNCHANGED m_GONodes
    BY <1>13, LinkEffect
  <2>2. Heap
    BY <1>13, LinkLinks
  <2>3. QED
    BY <1>4, <2>1, <2>2
<1>14. ASSUME NEW w \in Thread, Insert(w)
       PROVE  Heap /\ Vector
  BY <1>1, <1>5, <1>14, InsertEffect
<1>15. ASSUME NEW w \in Thread, SetFlags(w)
       PROVE  Heap /\ Vector
  <2>1. Changes(pos[w], WithFlags(heap[pos[w]])) /\ UNCHANGED m_GONodes
    BY <1>15, SetFlagsEffect
  <2>2. Kept(heap[pos[w]], WithFlags(heap[pos[w]]))
    BY <1>6, <2>1, KeptFlags DEF Changes
  <2>3. QED
    BY <1>3, <1>4, <2>1, <2>2
<1>16. ASSUME NEW w \in Thread, Complete(w)
       PROVE  Heap /\ Vector
  <2>1. /\ Changes(e[w].state, [heap[e[w].state] EXCEPT !.m_completed = TRUE])
        /\ UNCHANGED m_GONodes
    BY <1>16, CompleteEffect
  <2>2. Kept(heap[e[w].state], [heap[e[w].state] EXCEPT !.m_completed = TRUE])
    BY <1>6, <2>1, KeptMarks DEF Changes
  <2>3. QED
    BY <1>3, <1>4, <2>1, <2>2
<1>17. QED
  BY <1>7, <1>8, <1>9, <1>10, <1>11, <1>12, <1>13, <1>14, <1>15, <1>16, StepKinds DEF Busily

-----------------------------------------------------------------------------
(* Types. *)

(* Nothing but the initial state is ever added to an empty heap. *)
LEMMA EmptyKept ==
  ASSUME TypeInv, [Next]_vars, ~Initial, Object = {}
  PROVE  UNCHANGED <<heap, m_GONodes, m_finish_initial>>
<1>1. ASSUME NEW w \in Thread, Busily(w)
      PROVE  FALSE
  <2>1. pc[w] \in Working \/ pc[w] = "pop"
    BY <1>1, PopEffect, FireEffect, FindEffect, LinkEffect, InsertEffect, SetFlagsEffect,
       PushEffect, CompleteEffect DEF Busily, Working
  <2>2. pc[w] \notin Working /\ m_st[w] = <<>>
    BY NothingYet
  <2>3. QED
    BY <2>1, <2>2 DEF TypeInv, ThreadOK
<1>2. QED
  BY <1>1, StepKinds DEF vars, graph, flags, Rests, Quiet

LEMMA StacksStep ==
  ASSUME TypeInv, [Next]_vars
  PROVE  m_st' \in [Thread -> Seq(StackedPair)] /\ StacksOK'
<1> DEFINE OK(z) == z.state \in InGraph' /\ z.fire = FirableObs[heap'[z.state].m_lddstate]
<1>1. Grows /\ m_st \in [Thread -> Seq(StackedPair)] /\ InGraph \subseteq Object
  BY GrowsStep DEF TypeInv, TypeOK
<1>2. \A n \in InGraph : n \in InGraph' /\ heap'[n].m_lddstate = Agg(n)
  BY <1>1 DEF Grows, Kept, Agg
<1>3. \A w \in Thread : \A z \in Elements(m_st[w]) : OK(z)
  BY <1>2 DEF TypeInv, StacksOK
<1>4. ASSUME m_st' \in [Thread -> Seq(StackedPair)],
             \A w \in Thread : \A z \in Elements(m_st'[w]) : OK(z)
      PROVE  m_st' \in [Thread -> Seq(StackedPair)] /\ StacksOK'
  BY <1>4 DEF StacksOK, Agg
<1>5. ASSUME UNCHANGED m_st
      PROVE  m_st' \in [Thread -> Seq(StackedPair)] /\ StacksOK'
  <2>1. \A w \in Thread : \A z \in Elements(m_st'[w]) : OK(z)
    BY <1>3, <1>5
  <2>2. QED
    BY <1>1, <1>4, <1>5, <2>1
<1>6. ASSUME NEW c, NEW x, PushesOn(Thread, StackedPair, m_st, m_st', c, x), OK(x)
      PROVE  m_st' \in [Thread -> Seq(StackedPair)] /\ StacksOK'
  <2>1. Elements(m_st'[c]) = {x} \cup Elements(m_st[c])
    BY <1>6, PushedElements
  <2>2. /\ m_st' \in [Thread -> Seq(StackedPair)] /\ c \in Thread
        /\ \A v \in Thread \ {c} : m_st'[v] = m_st[v]
    BY <1>6 DEF PushesOn
  <2>3. \A w \in Thread : \A z \in Elements(m_st'[w]) : OK(z)
    BY <1>3, <1>6, <2>1, <2>2
  <2>4. QED
    BY <1>4, <2>2, <2>3
<1>7. ASSUME NEW w, NEW x, PopsFrom(Thread, StackedPair, m_st, m_st', w, x)
      PROVE  m_st' \in [Thread -> Seq(StackedPair)] /\ StacksOK'
  <2>1. Elements(m_st[w]) = {x} \cup Elements(m_st'[w])
    BY <1>7, PoppedElements
  <2>2. /\ m_st' \in [Thread -> Seq(StackedPair)] /\ w \in Thread
        /\ \A v \in Thread \ {w} : m_st'[v] = m_st[v]
    BY <1>7 DEF PopsFrom
  <2>3. \A v \in Thread : \A z \in Elements(m_st'[v]) : OK(z)
    BY <1>3, <2>1, <2>2
  <2>4. QED
    BY <1>4, <2>2, <2>3
<1>8. CASE Initial
  <2>1. PICK x : x = Pair(1, FirableObs[InitialAggregate])
    OBVIOUS
  <2>2. PushesOn(Thread, StackedPair, m_st, m_st', 0, x)
    BY <1>8, <2>1, InitialEffect
  <2>3. /\ 1 \in InGraph' /\ heap'[1].m_lddstate = InitialAggregate
    <3>1. 1 \in InGraph'
      BY <1>8, InitialEffect, GraphElements DEF Inserts
    <3>2. heap'[1] = WithFlags(NewState(InitialAggregate))
      BY <1>8, InitialEffect DEF Adds
    <3>3. NewState(InitialAggregate) \in LDDState
      BY SOGAssumption, NewStateType
    <3>4. NewState(InitialAggregate).m_lddstate = InitialAggregate
      BY DEF NewState
    <3>5. QED
      BY <3>1, <3>2, <3>3, <3>4, WithFlagsType
  <2>4. OK(x)
    BY <2>1, <2>3 DEF Pair
  <2>5. QED
    BY <1>6, <2>2, <2>4
<1>9. ASSUME NEW w \in Thread, Pop(w)
      PROVE  m_st' \in [Thread -> Seq(StackedPair)] /\ StacksOK'
  BY <1>7, <1>9, PopEffect
<1>10. ASSUME NEW w \in Thread, Push(w)
       PROVE  m_st' \in [Thread -> Seq(StackedPair)] /\ StacksOK'
  <2>1. PICK x : x = Pair(pos[w], FirableObs[Agg(pos[w])])
    OBVIOUS
  <2>2. pos[w] \in InGraph /\ UNCHANGED <<heap, m_GONodes>>
        /\ \E c \in Thread : PushesOn(Thread, StackedPair, m_st, m_st', c, x)
    BY <1>10, <2>1, PushEffect
  <2>3. OK(x)
    BY <1>2, <2>1, <2>2 DEF Pair
  <2>4. QED
    BY <1>6, <2>2, <2>3
<1>11. ASSUME NEW w \in Thread,
              \/ Quiet(w) \/ Fire(w) \/ Find(w) \/ Link(w) \/ Insert(w) \/ SetFlags(w)
              \/ Complete(w)
       PROVE  UNCHANGED m_st
  BY <1>11, FireEffect, FindEffect, LinkEffect, InsertEffect, SetFlagsEffect, CompleteEffect
  DEF Quiet
<1>12. QED
  BY <1>5, <1>8, <1>9, <1>10, <1>11, StepKinds DEF Busily, vars, stacks, Rests, Visits

(* Only its builder takes from a stack. *)
LEMMA StackKept ==
  ASSUME TypeInv, [Next]_vars, NEW v \in Thread, ~Pop(v), m_st[v] # <<>>
  PROVE  m_st'[v] # <<>>
<1>1. ASSUME NEW c, NEW x, PushesOn(Thread, StackedPair, m_st, m_st', c, x)
      PROVE  m_st'[v] # <<>>
  <2>1. CASE v = c
    <3>1. m_st[c] \in Seq(StackedPair) /\ x \in StackedPair /\ m_st'[c] = <<x>> \o m_st[c]
      BY <1>1 DEF PushesOn
    <3>2. 1 \in DOMAIN m_st'[c]
      BY <3>1, FrontProperties
    <3>3. QED
      BY <2>1, <3>2
  <2>2. CASE v # c
    BY <1>1, <2>2 DEF PushesOn
  <2>3. QED
    BY <2>1, <2>2
<1>2. ASSUME NEW w \in Thread, Pop(w)
      PROVE  m_st'[v] # <<>>
  BY <1>2, PopEffect DEF PopsFrom
<1>3. ASSUME NEW w \in Thread, Push(w)
      PROVE  m_st'[v] # <<>>
  BY <1>1, <1>3, PushEffect
<1>4. ASSUME NEW w \in Thread,
             \/ Quiet(w) \/ Fire(w) \/ Find(w) \/ Link(w) \/ Insert(w) \/ SetFlags(w)
             \/ Complete(w)
      PROVE  UNCHANGED m_st
  BY <1>4, FireEffect, FindEffect, LinkEffect, InsertEffect, SetFlagsEffect, CompleteEffect
  DEF Quiet
<1>5. CASE Initial
  BY <1>1, <1>5, InitialEffect
<1>6. QED
  BY <1>2, <1>3, <1>4, <1>5, StepKinds DEF Busily, vars, stacks, Rests, Visits

(* A builder that does not move. *)
LEMMA ThreadKept ==
  ASSUME TypeInv, [Next]_vars, NEW v \in Thread, pc'[v] = pc[v], ~Initial,
         e'[v] = e[v], t'[v] = t[v], pos'[v] = pos[v]
  PROVE  ThreadOK(v)'
<1>1. Grows /\ ThreadOK(v) /\ TypeOK /\ InGraph \subseteq Object
  BY GrowsStep DEF TypeInv
<1>2. pc[v] \in {"busy", "pop"} => m_st'[v] # <<>>
  <2>1. Pop(v) => pc[v] # "pop"
    BY <1>1, PopEffect DEF Moves
  <2>2. QED
    BY <1>1, <2>1, StackKept DEF ThreadOK, Pop
<1>3. pc[v] \in {"start", "initial"} /\ v = 0 =>
        heap' = <<>> /\ m_GONodes' = <<>> /\ ~m_finish_initial'
  <2>1. ASSUME pc[v] \in {"start", "initial"}, v = 0
        PROVE  heap' = <<>> /\ m_GONodes' = <<>> /\ ~m_finish_initial'
    <3>1. heap = <<>> /\ m_GONodes = <<>> /\ ~m_finish_initial
      BY <1>1, <2>1 DEF ThreadOK
    <3>2. Object = {}
      BY <3>1 DEF Object
    <3>3. QED
      BY <3>1, <3>2, EmptyKept
  <2>2. QED
    BY <2>1
<1>4. \A n \in Object : n \in Object' /\ heap'[n].m_lddstate = heap[n].m_lddstate
  BY <1>1 DEF Grows, Kept
<1>5. pc[v] \in Working =>
        e[v].state \in Object /\ e[v].state \in InGraph'
  BY <1>1 DEF ThreadOK, Grows
<1>6. QED
  BY <1>1, <1>2, <1>3, <1>4, <1>5 DEF ThreadOK, Aimed, Working, Agg, Reached, Grows

(* A builder rests, or goes on with the state it works on. *)
LEMMA RestsOK ==
  ASSUME NEW w \in Thread, pc'[w] \in Resting \ {"start", "initial", "busy", "pop"}
  PROVE  ThreadOK(w)'
BY DEF ThreadOK, Working, Aimed, Resting

LEMMA WorksOK ==
  ASSUME TypeInv, [Next]_vars, NEW w \in Thread, pc[w] \in Working, pc'[w] \in Working,
         e'[w].state = e[w].state, e'[w].fire \subseteq e[w].fire,
         pc'[w] \in {"find", "link"} => t'[w] \in FirableObs[Agg(e[w].state)],
         pc'[w] \in Aimed => pos'[w] \in Object',
         pc'[w] = "link" =>
           heap'[pos'[w]].m_lddstate = Successor[<<Agg(e[w].state), t'[w]>>],
         pc'[w] \in {"flags", "push"} => pos'[w] \in InGraph'
  PROVE  ThreadOK(w)'
<1>1. Grows /\ e[w].state \in InGraph /\ e[w].fire \subseteq FirableObs[Agg(e[w].state)]
      /\ InGraph \subseteq Object
  BY GrowsStep DEF TypeInv, ThreadOK
<1>2. e[w].state \in InGraph' /\ heap'[e[w].state].m_lddstate = Agg(e[w].state)
  BY <1>1 DEF Grows, Kept, Agg
<1>3. QED
  BY <1>1, <1>2 DEF ThreadOK, Agg, Reached, Working

LEMMA ThreadStepOK ==
  ASSUME TypeInv, [Next]_vars
  PROVE  \A w \in Thread : ThreadOK(w)'
<1>1. /\ Grows /\ TypeOK /\ InGraph \subseteq Object
      /\ e \in [Thread -> StackedPair] /\ pos \in [Thread -> Nat]
      /\ t \in [Thread -> Transition \cup {NoTransition}]
  BY GrowsStep DEF TypeInv, TypeOK
<1>2. ASSUME NEW w \in Thread, NEW label, Moves(w, label), ~Initial, ThreadOK(w)',
             \A v \in Thread \ {w} : e'[v] = e[v] /\ t'[v] = t[v] /\ pos'[v] = pos[v]
      PROVE  \A v \in Thread : ThreadOK(v)'
  BY <1>2, ThreadKept DEF Moves
<1>3. CASE Initial
  <2>1. ASSUME NEW v \in Thread
        PROVE  ThreadOK(v)'
    <3>1. Object = {} /\ pc[0] = "initial" /\ Moves(0, "loop") /\ 0 \in Thread
      BY <1>3, InitialEffect
    <3>2. pc[v] \notin Working /\ pc[v] \notin {"busy", "pop"}
      BY <3>1, NothingYet DEF TypeInv, ThreadOK
    <3>3. CASE v = 0
      BY <3>1, <3>3, RestsOK DEF Moves, Resting
    <3>4. CASE v # 0
      <4>1. pc'[v] = pc[v]
        BY <3>1, <3>4 DEF Moves
      <4>2. QED
        BY <3>2, <3>4, <4>1 DEF ThreadOK, Working, Aimed
    <3>5. QED
      BY <3>3, <3>4
  <2>2. QED
    BY <2>1
<1>4. ASSUME ~Initial, UNCHANGED <<pc, e, t, pos>>
      PROVE  \A v \in Thread : ThreadOK(v)'
  BY <1>4, ThreadKept
<1>5. ASSUME ~Initial, NEW w \in Thread, Quiet(w)
      PROVE  \A v \in Thread : ThreadOK(v)'
  <2>1. /\ ThreadOK(w) /\ Moves(w, pc'[w])
        /\ UNCHANGED <<heap, m_GONodes, m_st, m_finish_initial, e, t, pos>>
    BY <1>5 DEF Quiet, TypeInv, flags
  <2>2. pc'[w] \in Resting
    BY <1>5 DEF Quiet
  <2>3. /\ pc'[w] \in {"busy", "pop"} => m_st'[w] # <<>>
        /\ pc'[w] \in {"start", "initial"} => pc[w] \in {"start", "initial"}
    BY <1>5 DEF Quiet
  <2>4. ThreadOK(w)'
    BY <2>1, <2>2, <2>3 DEF ThreadOK, Resting, Working, Aimed
  <2>5. QED
    BY <1>2, <1>5, <2>1, <2>4
<1>6. ASSUME ~Initial, NEW w \in Thread, Pop(w)
      PROVE  \A v \in Thread : ThreadOK(v)'
  <2>1. /\ Moves(w, "fire") /\ e'[w].state \in InGraph
        /\ e'[w].fire = FirableObs[Agg(e'[w].state)]
        /\ \A v \in Thread \ {w} : e'[v] = e[v]
        /\ UNCHANGED <<heap, m_GONodes, t, pos>>
    BY <1>6, PopEffect
  <2>2. ThreadOK(w)'
    BY <1>1, <2>1 DEF ThreadOK, Moves, Aimed, Agg, InGraph
  <2>3. QED
    BY <1>2, <1>6, <2>1, <2>2
<1>7. ASSUME ~Initial, NEW w \in Thread, Fire(w)
      PROVE  \A v \in Thread : ThreadOK(v)'
  <2>1. /\ pc[w] = "fire" /\ UNCHANGED pos
        /\ \A v \in Thread \ {w} : e'[v] = e[v] /\ t'[v] = t[v]
    BY <1>7, FireEffect
  <2>2. CASE Moves(w, "complete") /\ e'[w] = e[w]
    <3>1. ThreadOK(w)'
      BY <2>1, <2>2, WorksOK DEF Moves, Working, Aimed
    <3>2. QED
      BY <1>2, <1>7, <2>1, <2>2, <3>1
  <2>3. CASE /\ Moves(w, "find") /\ t'[w] \in e[w].fire
             /\ e'[w].state = e[w].state /\ e'[w].fire = e[w].fire \ {t'[w]}
    <3>1. t'[w] \in FirableObs[Agg(e[w].state)]
      BY <2>1, <2>3 DEF TypeInv, ThreadOK, Working
    <3>2. ThreadOK(w)'
      BY <2>1, <2>3, <3>1, WorksOK DEF Moves, Working, Aimed
    <3>3. QED
      BY <1>2, <1>7, <2>1, <2>3, <3>2
  <2>4. QED
    BY <1>7, <2>2, <2>3, FireEffect
<1>8. ASSUME ~Initial, NEW w \in Thread, Find(w)
      PROVE  \A v \in Thread : ThreadOK(v)'
  <2>1. /\ pc[w] = "find" /\ Moves(w, "link") /\ UNCHANGED <<e, t>>
        /\ \A v \in Thread \ {w} : pos'[v] = pos[v]
    BY <1>8, FindEffect
  <2>2. /\ t[w] \in FirableObs[Agg(e[w].state)]
        /\ Reached(w) = Successor[<<Agg(e[w].state), t[w]>>]
    BY <2>1, TakenProperties
  <2>3. pos'[w] \in Object' /\ heap'[pos'[w]].m_lddstate = Reached(w)
    <3>1. CASE pos'[w] \in InGraph /\ Agg(pos'[w]) = Reached(w) /\ UNCHANGED heap
      BY <1>1, <3>1 DEF Object, Agg
    <3>2. CASE Adds(pos'[w], NewState(Reached(w)))
      <4>1. NewState(Reached(w)).m_lddstate = Reached(w)
        BY DEF NewState
      <4>2. QED
        BY <3>2, <4>1 DEF Adds, Object
    <3>3. QED
      BY <1>8, <3>1, <3>2, FindEffect
  <2>4. ThreadOK(w)'
    BY <2>1, <2>2, <2>3, WorksOK DEF Moves, Working
  <2>5. QED
    BY <1>2, <1>8, <2>1, <2>4
<1>9. ASSUME ~Initial, NEW w \in Thread, Link(w)
      PROVE  \A v \in Thread : ThreadOK(v)'
  <2>1. /\ pc[w] = "link" /\ pos[w] \in Object
        /\ Moves(w, IF pos[w] \in InGraph THEN "fire" ELSE "insert")
        /\ UNCHANGED <<e, t, pos>>
    BY <1>9, LinkEffect
  <2>2. pc'[w] \in {"fire", "insert"} /\ pos'[w] \in Object'
    BY <1>1, <2>1 DEF Moves, Grows
  <2>3. ThreadOK(w)'
    BY <2>1, <2>2, WorksOK DEF Working
  <2>4. QED
    BY <1>2, <1>9, <2>1, <2>3
<1>10. ASSUME ~Initial, NEW w \in Thread, Insert(w) \/ SetFlags(w) \/ Push(w)
       PROVE  \A v \in Thread : ThreadOK(v)'
  <2>1. /\ pc[w] \in {"insert", "flags", "push"} /\ pc'[w] \in {"flags", "push", "fire"}
        /\ Moves(w, pc'[w]) /\ UNCHANGED <<e, t, pos>>
    BY <1>10, InsertEffect, SetFlagsEffect, PushEffect DEF Moves
  <2>2. pos[w] \in Object /\ pos[w] \in InGraph'
    <3>1. CASE Insert(w)
      BY <3>1, InsertEffect, GraphElements DEF Inserts
    <3>2. CASE SetFlags(w) \/ Push(w)
      <4>1. pos[w] \in InGraph
        BY <3>2, SetFlagsEffect, PushEffect DEF TypeInv, ThreadOK
      <4>2. QED
        BY <1>1, <4>1 DEF Grows
    <3>3. QED
      BY <1>10, <3>1, <3>2
  <2>3. pos'[w] \in Object' /\ pos'[w] \in InGraph'
    BY <1>1, <2>1, <2>2 DEF Grows
  <2>4. ThreadOK(w)'
    BY <2>1, <2>3, WorksOK DEF Working
  <2>5. QED
    BY <1>2, <1>10, <2>1, <2>4
<1>11. ASSUME ~Initial, NEW w \in Thread, Complete(w)
       PROVE  \A v \in Thread : ThreadOK(v)'
  <2>1. Moves(w, "notifyBuild") /\ UNCHANGED <<e, t, pos>>
    BY <1>11, CompleteEffect
  <2>2. ThreadOK(w)'
    BY <2>1, RestsOK DEF Moves, Resting
  <2>3. QED
    BY <1>2, <1>11, <2>1, <2>2
<1>12. QED
  BY <1>3, <1>4, <1>5, <1>6, <1>7, <1>8, <1>9, <1>10, <1>11, StepKinds
  DEF Busily, vars, builder, Rests, Visits

(* Every edge is one of the SOG. *)
LEMMA LinksStep ==
  ASSUME TypeInv, [Next]_vars
  PROVE  LinksOK'
<1>1. Grows /\ LinksOK /\ TypeOK
  BY GrowsStep DEF TypeInv
<1>2. \A n \in Object : n \in Object' /\ heap'[n].m_lddstate = Agg(n)
  BY <1>1 DEF Grows, Kept, Agg
<1>3. ASSUME NEW n \in Object, Links(heap'[n]) = Links(heap[n])
      PROVE  \A u \in Links(heap'[n]) :
               /\ u.to \in Object'
               /\ u.t \in FirableObs[heap'[n].m_lddstate]
               /\ heap'[u.to].m_lddstate = Successor[<<heap'[n].m_lddstate, u.t>>]
  BY <1>1, <1>2, <1>3 DEF LinksOK, Agg
<1>4. ASSUME Object' = Object, \A n \in Object : Links(heap'[n]) = Links(heap[n])
      PROVE  LinksOK'
  BY <1>3, <1>4 DEF LinksOK, Agg
<1>5. ASSUME NEW k, NEW s, Adds(k, s), s.Successors = <<>>
      PROVE  LinksOK'
  <2>1. Object' = Object \cup {k} /\ heap'[k] = s /\ \A n \in Object : heap'[n] = heap[n]
    BY <1>5 DEF Adds, Object
  <2>2. Links(heap'[k]) = {}
    BY <1>5, <2>1, EmptySeq DEF Links
  <2>3. QED
    BY <1>3, <2>1, <2>2 DEF LinksOK, Agg
<1>6. ASSUME NEW k, NEW s, Changes(k, s), s.Successors = heap[k].Successors
      PROVE  LinksOK'
  BY <1>4, <1>6 DEF Changes, Object, Links
<1>7. CASE Initial
  <2>1. NewState(InitialAggregate) \in LDDState /\ NewState(InitialAggregate).Successors = <<>>
    BY SOGAssumption, NewStateType DEF NewState
  <2>2. WithFlags(NewState(InitialAggregate)).Successors = <<>>
    BY <2>1, WithFlagsType
  <2>3. QED
    BY <1>5, <1>7, <2>2, InitialEffect
<1>8. ASSUME NEW w \in Thread, Find(w)
      PROVE  LinksOK'
  <2>1. NewState(Reached(w)).Successors = <<>>
    BY DEF NewState
  <2>2. QED
    BY <1>4, <1>5, <1>8, <2>1, FindEffect DEF Object
<1>9. ASSUME NEW w \in Thread, Link(w)
      PROVE  LinksOK'
  <2>1. PICK k, m, u : k = e[w].state /\ m = pos[w] /\ u = t[w]
    OBVIOUS
  <2>2. pc[w] = "link" /\ m \in Object
    BY <1>9, <2>1, LinkEffect
  <2>3. u \in FirableObs[Agg(k)] /\ Agg(m) = Successor[<<Agg(k), u>>]
    <3>1. Agg(pos[w]) = Reached(w)
      BY <2>2 DEF TypeInv, ThreadOK
    <3>2. QED
      BY <2>1, <2>2, <3>1, TakenProperties
  <2>4. /\ Object' = Object
        /\ Links(heap'[k]) = Links(heap[k]) \cup {NewLink(m, u)}
        /\ \A n \in Object \ {k} : Links(heap'[n]) = Links(heap[n])
    BY <1>9, <2>1, LinkLinks
  <2>5. ASSUME NEW n \in Object
        PROVE  \A x \in Links(heap'[n]) :
                 /\ x.to \in Object'
                 /\ x.t \in FirableObs[heap'[n].m_lddstate]
                 /\ heap'[x.to].m_lddstate = Successor[<<heap'[n].m_lddstate, x.t>>]
    <3>1. CASE n # k
      BY <1>3, <2>4, <3>1
    <3>2. CASE n = k
      <4>1. \A x \in Links(heap[n]) :
              /\ x.to \in Object
              /\ x.t \in FirableObs[Agg(n)]
              /\ Agg(x.to) = Successor[<<Agg(n), x.t>>]
        BY <1>1 DEF LinksOK
      <4>2. NewLink(m, u).to = m /\ NewLink(m, u).t = u
        BY DEF NewLink
      <4>3. \A x \in Links(heap'[n]) :
              /\ x.to \in Object
              /\ x.t \in FirableObs[Agg(n)]
              /\ Agg(x.to) = Successor[<<Agg(n), x.t>>]
        BY <2>2, <2>3, <2>4, <3>2, <4>1, <4>2
      <4>4. QED
        BY <1>2, <4>3
    <3>3. QED
      BY <3>1, <3>2
  <2>6. QED
    BY <2>4, <2>5 DEF LinksOK, Agg
<1>10. ASSUME NEW n \in Object, Visits(n)
       PROVE  LinksOK'
  <2>1. heap[n] \in LDDState
    BY <1>1, ObjectProperties
  <2>2. [heap[n] EXCEPT !.m_visited = TRUE].Successors = heap[n].Successors
    BY <2>1 DEF LDDState
  <2>3. QED
    BY <1>6, <1>10, <2>2 DEF Visits
<1>11. ASSUME NEW w \in Thread, SetFlags(w)
       PROVE  LinksOK'
  <2>1. Changes(pos[w], WithFlags(heap[pos[w]]))
    BY <1>11, SetFlagsEffect
  <2>2. heap[pos[w]] \in LDDState
    BY <1>1, <2>1, ObjectProperties DEF Changes
  <2>3. QED
    BY <1>6, <2>1, <2>2, WithFlagsType
<1>12. ASSUME NEW w \in Thread, Complete(w)
       PROVE  LinksOK'
  <2>1. Changes(e[w].state, [heap[e[w].state] EXCEPT !.m_completed = TRUE])
    BY <1>12, CompleteEffect
  <2>2. heap[e[w].state] \in LDDState
    BY <1>1, <2>1, ObjectProperties DEF Changes
  <2>3. [heap[e[w].state] EXCEPT !.m_completed = TRUE].Successors = heap[e[w].state].Successors
    BY <2>2 DEF LDDState
  <2>4. QED
    BY <1>6, <2>1, <2>3
<1>13. ASSUME NEW w \in Thread, Quiet(w) \/ Pop(w) \/ Fire(w) \/ Insert(w) \/ Push(w)
       PROVE  LinksOK'
  BY <1>4, <1>13, PopEffect, FireEffect, InsertEffect, PushEffect DEF Quiet, Object
<1>14. CASE UNCHANGED vars \/ Rests
  BY <1>4, <1>14 DEF vars, graph, Rests, Object
<1>15. QED
  BY <1>7, <1>8, <1>9, <1>10, <1>11, <1>12, <1>13, <1>14, StepKinds DEF Busily

(* What the steps do to the flags and to the main thread. *)
LEMMA MainStep ==
  ASSUME TypeInv, [Next]_vars
  PROVE  /\ MainOK'
         /\ mcPc' \in MainLabel /\ agregate' \in Nat
         /\ m_finish' \in BOOLEAN /\ m_finish_initial' \in BOOLEAN
<1> USE DEF MainLabel, Awaiting
<1>1. /\ Grows /\ TypeOK /\ MainOK
      /\ mcPc \in MainLabel /\ agregate \in Nat
      /\ m_finish \in BOOLEAN /\ m_finish_initial \in BOOLEAN
  BY GrowsStep DEF TypeInv, TypeOK
<1>2. ASSUME m_finish' = m_finish, m_finish_initial' = m_finish_initial, agregate' = agregate,
             \/ mcPc' = mcPc
             \/ mcPc = "waiting" /\ mcPc' = "check"
      PROVE  /\ MainOK'
             /\ mcPc' \in MainLabel /\ agregate' \in Nat
             /\ m_finish' \in BOOLEAN /\ m_finish_initial' \in BOOLEAN
  BY <1>1, <1>2 DEF MainOK, Grows
<1>3. CASE Initial
  <2>1. m_GONodes' # <<>> /\ m_finish_initial' = TRUE /\ Object \subseteq Object'
        /\ UNCHANGED <<m_finish, checker>>
    BY <1>1, <1>3, InitialEffect DEF Inserts, Grows
  <2>2. QED
    BY <1>1, <2>1 DEF MainOK, checker
<1>4. CASE Rests
  <2>1. /\ mcPc # "initial" /\ mcPc' \in MainLabel /\ mcPc' # "initial"
        /\ UNCHANGED <<heap, m_GONodes, m_finish_initial, agregate>>
    BY <1>4 DEF Rests
  <2>2. m_finish' \in BOOLEAN /\ (m_finish' <=> mcPc' \in {"join", "end"})
    <3>1. m_finish' \in BOOLEAN
      <4>1. Next \/ UNCHANGED vars
        OBVIOUS
      <4>2. ASSUME NEW w \in Thread, BuilderStep(w)
            PROVE  m_finish' = m_finish
        BY <4>2 DEF BuilderStep, Start, Loop, Busy, Pop, Fire, Find, Link, Insert, SetFlags,
             Push, Complete, NotifyBuild, Idle, isNotTerminated, Initial, flags
      <4>3. ASSUME CheckerStep \/ SpuriousWakeUpBuild
            PROVE  m_finish' = m_finish \/ m_finish' = TRUE
        BY <4>3 DEF CheckerStep, GetInitial, CheckBuild, SleepBuild, SpuriousWakeUpBuild,
             Explore, Finish, PrintCompleteInformation, Destroy, Join, flags
      <4>4. QED
        BY <1>1, <4>1, <4>2, <4>3 DEF Next, vars, flags
    <3>2. QED
      BY <1>4, <3>1 DEF Rests
  <2>3. QED
    BY <1>1, <2>1, <2>2 DEF MainOK, Object
<1>5. ASSUME NEW n \in Object, Visits(n)
      PROVE  /\ MainOK'
             /\ mcPc' \in MainLabel /\ agregate' \in Nat
             /\ m_finish' \in BOOLEAN /\ m_finish_initial' \in BOOLEAN
  <2>1. n \in Nat
    BY <1>1, ObjectProperties
  <2>2. /\ agregate' = n /\ mcPc' = "check" /\ ~m_finish
        /\ UNCHANGED <<m_GONodes, m_finish, m_finish_initial>>
    BY <1>5 DEF Visits, flags
  <2>3. QED
    BY <1>1, <2>1, <2>2 DEF MainOK, Grows
<1>6. ASSUME NEW w \in Thread, Quiet(w) \/ Busily(w)
      PROVE  /\ m_finish' = m_finish /\ m_finish_initial' = m_finish_initial
             /\ agregate' = agregate
             /\ mcPc' = mcPc \/ (mcPc = "waiting" /\ mcPc' = "check")
  <2>1. CASE Quiet(w)
    BY <2>1 DEF Quiet, flags
  <2>2. CASE Busily(w)
    BY <2>2, PopEffect, FireEffect, FindEffect, LinkEffect, InsertEffect, SetFlagsEffect,
       PushEffect, CompleteEffect DEF Busily, flags, checker
  <2>3. QED
    BY <1>6, <2>1, <2>2
<1>7. CASE UNCHANGED vars
  BY <1>2, <1>7 DEF vars, flags, checker
<1>8. QED
  BY <1>2, <1>3, <1>4, <1>5, <1>6, <1>7, StepKinds

(* Every pointer of the vector designates an object of the heap. *)
LEMMA GraphStep ==
  ASSUME TypeInv, [Next]_vars
  PROVE  m_GONodes' \in Seq(Nat) /\ InGraph' \subseteq Object'
<1>1. Grows /\ TypeOK /\ InGraph \subseteq Object /\ m_GONodes \in Seq(Nat)
  BY GrowsStep DEF TypeInv, TypeOK
<1>2. ASSUME UNCHANGED m_GONodes
      PROVE  m_GONodes' \in Seq(Nat) /\ InGraph' \subseteq Object'
  BY <1>1, <1>2 DEF Grows, InGraph
<1>3. ASSUME NEW n \in Object', Inserts(n)
      PROVE  m_GONodes' \in Seq(Nat) /\ InGraph' \subseteq Object'
  BY <1>1, <1>3, GraphElements DEF Grows, Inserts
<1>4. CASE Initial
  <2>1. Inserts(1) /\ 1 \in Object'
    BY <1>4, InitialEffect DEF Adds, Object
  <2>2. QED
    BY <1>3, <2>1
<1>5. ASSUME NEW w \in Thread, Insert(w)
      PROVE  m_GONodes' \in Seq(Nat) /\ InGraph' \subseteq Object'
  <2>1. Inserts(pos[w]) /\ pos[w] \in Object'
    BY <1>1, <1>5, InsertEffect DEF Grows
  <2>2. QED
    BY <1>3, <2>1
<1>6. ASSUME NEW w \in Thread,
             \/ Quiet(w) \/ Pop(w) \/ Fire(w) \/ Find(w) \/ Link(w) \/ SetFlags(w)
             \/ Push(w) \/ Complete(w)
      PROVE  UNCHANGED m_GONodes
  BY <1>6, PopEffect, FireEffect, FindEffect, LinkEffect, SetFlagsEffect, PushEffect,
     CompleteEffect DEF Quiet
<1>7. QED
  BY <1>2, <1>4, <1>5, <1>6, StepKinds DEF Busily, vars, graph, Rests, Visits

LEMMA TypeStep ==
  ASSUME TypeInv, [Next]_vars
  PROVE  TypeOK'
<1>1. /\ TypeOK
      /\ heap' \in Seq(LDDState) /\ m_GONodes' \in Seq(Nat)
      /\ m_st' \in [Thread -> Seq(StackedPair)]
      /\ mcPc' \in MainLabel /\ agregate' \in Nat
      /\ m_finish' \in BOOLEAN /\ m_finish_initial' \in BOOLEAN
  BY GrowsStep, GraphStep, StacksStep, MainStep DEF TypeInv, Grows
<1>2. /\ e \in [Thread -> StackedPair] /\ t \in [Thread -> Transition \cup {NoTransition}]
      /\ pos \in [Thread -> Nat] /\ pc \in [Thread -> Working \cup Resting]
      /\ i \in [Thread -> Nat] /\ m_terminaison \subseteq Thread
      /\ m_nbArcs \in Nat /\ m_id_thread \in Nat
  BY <1>1 DEF TypeOK
<1>3. /\ e' \in [Thread -> StackedPair] /\ t' \in [Thread -> Transition \cup {NoTransition}]
      /\ pos' \in [Thread -> Nat] /\ pc' \in [Thread -> Working \cup Resting]
  <2>1. CASE UNCHANGED vars \/ Rests \/ \E n \in Object : Visits(n)
    BY <1>2, <2>1 DEF vars, builder, Rests, Visits
  <2>2. CASE Initial
    BY <1>2, <2>2, InitialEffect DEF Moves
  <2>3. ASSUME NEW w \in Thread, Quiet(w)
        PROVE  UNCHANGED <<e, t, pos>> /\ pc' \in [Thread -> Working \cup Resting]
    BY <2>3 DEF Quiet, Moves
  <2>4. ASSUME NEW w \in Thread,
               Link(w) \/ Insert(w) \/ SetFlags(w) \/ Push(w) \/ Complete(w)
        PROVE  UNCHANGED <<e, t, pos>> /\ pc' \in [Thread -> Working \cup Resting]
    BY <2>4, LinkEffect, InsertEffect, SetFlagsEffect, PushEffect, CompleteEffect DEF Moves
  <2>5. ASSUME NEW w \in Thread, Pop(w)
        PROVE  /\ e' \in [Thread -> StackedPair] /\ UNCHANGED <<t, pos>>
               /\ pc' \in [Thread -> Working \cup Resting]
    BY <2>5, PopEffect DEF Moves
  <2>6. ASSUME NEW w \in Thread, Fire(w)
        PROVE  /\ e' \in [Thread -> StackedPair] /\ UNCHANGED pos
               /\ t' \in [Thread -> Transition \cup {NoTransition}]
               /\ pc' \in [Thread -> Working \cup Resting]
    BY <2>6, FireEffect DEF Moves
  <2>7. ASSUME NEW w \in Thread, Find(w)
        PROVE  /\ pos' \in [Thread -> Nat] /\ UNCHANGED <<e, t>>
               /\ pc' \in [Thread -> Working \cup Resting]
    BY <2>7, FindEffect DEF Moves
  <2>8. QED
    BY <1>2, <2>1, <2>2, <2>3, <2>4, <2>5, <2>6, <2>7, StepKinds DEF Busily
<1>4. /\ i' \in [Thread -> Nat] /\ m_terminaison' \subseteq Thread
      /\ m_nbArcs' \in Nat /\ m_id_thread' \in Nat
  <2>1. ASSUME NEW w \in Thread, Busy(w) \/ Idle(w) \/ isNotTerminated(w)
        PROVE  /\ i' \in [Thread -> Nat] /\ m_terminaison' \subseteq Thread
               /\ UNCHANGED <<m_nbArcs, m_id_thread>>
    BY <1>2, <2>1 DEF Busy, Idle, isNotTerminated, graph, stacks
  <2>2. ASSUME NEW w \in Thread, BuilderStep(w), ~Busy(w), ~Idle(w), ~isNotTerminated(w)
        PROVE  UNCHANGED <<i, m_terminaison>> /\ m_nbArcs' \in Nat /\ m_id_thread' \in Nat
    <3>1. CASE Start(w) \/ Loop(w) \/ Pop(w) \/ Fire(w) \/ Find(w) \/ Insert(w)
      BY <1>2, <3>1 DEF Start, Loop, Pop, Fire, Find, Insert, graph, stacks, Thread
    <3>2. CASE SetFlags(w) \/ Push(w) \/ Complete(w) \/ NotifyBuild(w) \/ Initial
      BY <1>2, <3>2 DEF SetFlags, Push, Complete, NotifyBuild, Initial, graph, stacks
    <3>3. CASE Link(w)
      BY <1>2, <3>3 DEF Link, stacks
    <3>4. QED
      BY <2>2, <3>1, <3>2, <3>3 DEF BuilderStep
  <2>3. ASSUME CheckerStep \/ SpuriousWakeUpBuild
        PROVE  UNCHANGED <<i, m_terminaison, m_nbArcs, m_id_thread>>
    BY <2>3 DEF CheckerStep, GetInitial, CheckBuild, SleepBuild, SpuriousWakeUpBuild, Explore,
                Finish, PrintCompleteInformation, Destroy, Join, graph, stacks, builder
  <2>4. QED
    BY <1>2, <2>1, <2>2, <2>3 DEF Next, vars, graph, stacks, builder
<1>5. QED
  BY <1>1, <1>3, <1>4 DEF TypeOK

LEMMA TypeInvInit == Init => TypeInv
<1> SUFFICES ASSUME Init PROVE TypeInv
  OBVIOUS
<1>1. Pair(NoState, {}) \in StackedPair /\ NoState \in Nat
  BY DEF Pair, NoState, StackedPair
<1>2. TypeOK
  <2>1. <<>> \in Seq(StackedPair) /\ <<>> \in Seq(LDDState) /\ <<>> \in Seq(Nat)
    OBVIOUS
  <2>2. QED
    BY <1>1, <2>1 DEF Init, TypeOK, MainLabel, Resting
<1>3. Object = {} /\ InGraph = {} /\ \A w \in Thread : Elements(m_st[w]) = {}
  BY EmptySeq DEF Init, Object, InGraph, Elements
<1>4. \A w \in Thread : ThreadOK(w)
  BY DEF Init, ThreadOK, Working, Aimed
<1>5. MainOK
  BY DEF Init, MainOK
<1>6. QED
  BY <1>2, <1>3, <1>4, <1>5 DEF TypeInv, StacksOK, LinksOK

(* Every variable keeps its type, every pointer designates an object of    *)
(* the heap and one of the graph once it is stacked, every edge is one of  *)
(* the SOG, and no builder pops an empty stack.                            *)
THEOREM TypeCorrect == Spec => []TypeInv
<1>1. TypeInv /\ [Next]_vars => TypeInv'
  BY TypeStep, GraphStep, StacksStep, ThreadStepOK, LinksStep, MainStep DEF TypeInv
<1>2. QED
  BY <1>1, TypeInvInit, PTL DEF Spec

-----------------------------------------------------------------------------
(* No state is forgotten.                                                  *)

LEMMA StackedMeaning ==
  ASSUME NEW v, NEW n
  PROVE  /\ Stacked(v, n) <=> \E z \in Elements(m_st[v]) : z.state = n
         /\ Stacked(v, n)' <=> \E z \in Elements(m_st'[v]) : z.state = n
BY DEF Stacked, Elements

LEMMA StacksKinds ==
  ASSUME TypeInv, [Next]_vars
  PROVE  \/ UNCHANGED m_st
         \/ Initial /\ PushesOn(Thread, StackedPair, m_st, m_st', 0,
                                Pair(1, FirableObs[InitialAggregate]))
         \/ \E w \in Thread : /\ Pop(w)
                              /\ PopsFrom(Thread, StackedPair, m_st, m_st', w, e'[w])
         \/ \E w, c \in Thread : /\ Push(w)
                                 /\ PushesOn(Thread, StackedPair, m_st, m_st', c,
                                             Pair(pos[w], FirableObs[Agg(pos[w])]))
<1>1. ASSUME NEW w \in Thread,
             \/ Quiet(w) \/ Fire(w) \/ Find(w) \/ Link(w) \/ Insert(w) \/ SetFlags(w)
             \/ Complete(w)
      PROVE  UNCHANGED m_st
  BY <1>1, FireEffect, FindEffect, LinkEffect, InsertEffect, SetFlagsEffect, CompleteEffect
  DEF Quiet
<1>2. QED
  BY <1>1, StepKinds, InitialEffect, PopEffect, PushEffect
  DEF Busily, vars, stacks, Rests, Visits

(* A state leaves a stack for the hands of the builder that pops it. *)
LEMMA StackedKept ==
  ASSUME TypeInv, [Next]_vars, NEW v \in Thread, NEW n, Stacked(v, n)
  PROVE  Stacked(v, n)' \/ (Pop(v) /\ e'[v].state = n)
<1>1. PICK z \in Elements(m_st[v]) : z.state = n
  BY StackedMeaning
<1>2. ASSUME z \in Elements(m_st'[v])
      PROVE  Stacked(v, n)'
  BY <1>1, <1>2, StackedMeaning
<1>3. CASE UNCHANGED m_st
  BY <1>1, <1>2, <1>3
<1>4. ASSUME NEW c, NEW x, PushesOn(Thread, StackedPair, m_st, m_st', c, x)
      PROVE  Stacked(v, n)'
  <2>1. Elements(m_st'[c]) = {x} \cup Elements(m_st[c])
    BY <1>4, PushedElements
  <2>2. v # c => m_st'[v] = m_st[v]
    BY <1>4 DEF PushesOn
  <2>3. QED
    BY <1>1, <1>2, <2>1, <2>2
<1>5. ASSUME NEW w \in Thread, Pop(w),
             PopsFrom(Thread, StackedPair, m_st, m_st', w, e'[w])
      PROVE  Stacked(v, n)' \/ (Pop(v) /\ e'[v].state = n)
  <2>1. PICK x : x = e'[w]
    OBVIOUS
  <2>2. PopsFrom(Thread, StackedPair, m_st, m_st', w, x)
    BY <1>5, <2>1
  <2>3. Elements(m_st[w]) = {x} \cup Elements(m_st'[w])
    BY <2>2, PoppedElements
  <2>4. v # w => m_st'[v] = m_st[v]
    BY <2>2 DEF PopsFrom
  <2>5. QED
    BY <1>1, <1>2, <1>5, <2>1, <2>3, <2>4
<1>6. QED
  BY <1>3, <1>4, <1>5, StacksKinds

(* What builder w holds at a label, for its e and its pos. *)
LEMMA HoldsKept ==
  ASSUME NEW w \in Thread, NEW n, Holds(w, n), pc'[w] = pc[w], e'[w] = e[w], pos'[w] = pos[w],
         n \in InGraph' => n \in InGraph
  PROVE  Holds(w, n)'
BY DEF Holds, Working

(* A state leaves the hands of a builder for a stack, or completed. *)
LEMMA HeldKept ==
  ASSUME TypeInv, [Next]_vars, NEW w \in Thread, NEW n \in Object, Holds(w, n)
  PROVE  \/ heap'[n].m_completed
         \/ \E v \in Thread : Stacked(v, n)' \/ Holds(v, n)'
<1> DEFINE Goal == \/ heap'[n].m_completed
                   \/ \E v \in Thread : Stacked(v, n)' \/ Holds(v, n)'
<1>1. ASSUME NEW v \in Thread, Moves(v, pc'[v]), v # w, e'[w] = e[w], pos'[w] = pos[w],
             UNCHANGED m_GONodes
      PROVE  Goal
  BY <1>1, HoldsKept DEF Moves, InGraph
<1>2. ASSUME UNCHANGED <<pc, e, pos, m_GONodes>>
      PROVE  Goal
  BY <1>2, HoldsKept DEF InGraph
<1>3. CASE Initial
  BY <1>3, InitialEffect
<1>4. ASSUME NEW v \in Thread, Quiet(v)
      PROVE  Goal
  <2>1. v # w
    BY <1>4 DEF Quiet, Holds, Working, Resting
  <2>2. QED
    BY <1>1, <1>4, <2>1 DEF Quiet
<1>5. ASSUME NEW v \in Thread, Pop(v)
      PROVE  Goal
  <2>1. v # w
    BY <1>5, PopEffect DEF Holds, Working
  <2>2. QED
    BY <1>1, <1>5, <2>1, PopEffect DEF Moves
<1>6. ASSUME NEW v \in Thread, Fire(v)
      PROVE  Goal
  <2>1. CASE v # w
    BY <1>1, <1>6, <2>1, FireEffect DEF Moves
  <2>2. CASE v = w
    <3>1. pc[w] = "fire" /\ pc'[w] \in {"find", "complete"} /\ e'[w].state = e[w].state
      BY <1>6, <2>2, FireEffect DEF Moves
    <3>2. Holds(w, n)'
      BY <3>1 DEF Holds, Working
    <3>3. QED
      BY <3>2
  <2>3. QED
    BY <2>1, <2>2
<1>7. ASSUME NEW v \in Thread, Find(v)
      PROVE  Goal
  <2>1. CASE v # w
    BY <1>1, <1>7, <2>1, FindEffect DEF Moves
  <2>2. CASE v = w
    <3>1. pc[w] = "find" /\ pc'[w] = "link" /\ e'[w] = e[w]
      BY <1>7, <2>2, FindEffect DEF Moves
    <3>2. Holds(w, n)'
      BY <3>1 DEF Holds, Working
    <3>3. QED
      BY <3>2
  <2>3. QED
    BY <2>1, <2>2
<1>8. ASSUME NEW v \in Thread, Link(v)
      PROVE  Goal
  <2>1. CASE v # w
    BY <1>1, <1>8, <2>1, LinkEffect DEF Moves
  <2>2. CASE v = w
    <3>1. /\ pc[w] = "link" /\ pc'[w] = IF pos[w] \in InGraph THEN "fire" ELSE "insert"
          /\ UNCHANGED <<e, pos, m_GONodes>>
      BY <1>8, <2>2, LinkEffect DEF Moves
    <3>2. Holds(w, n)'
      BY <3>1 DEF Holds, Working
    <3>3. QED
      BY <3>2
  <2>3. QED
    BY <2>1, <2>2
<1>9. ASSUME NEW v \in Thread, Insert(v)
      PROVE  Goal
  <2>1. /\ pc[v] = "insert" /\ pc'[v] = "flags" /\ UNCHANGED <<e, pos>>
        /\ InGraph' = InGraph \cup {pos[v]}
        /\ \A u \in Thread \ {v} : pc'[u] = pc[u]
    BY <1>9, InsertEffect, GraphElements DEF Inserts, Moves
  <2>2. CASE n = pos[v]
    <3>1. Holds(v, n)'
      BY <2>1, <2>2 DEF Holds
    <3>2. QED
      BY <3>1
  <2>3. CASE n # pos[v] /\ v # w
    BY <2>1, <2>3, HoldsKept
  <2>4. CASE n # pos[v] /\ v = w
    <3>1. e[w].state = n
      BY <2>1, <2>4 DEF Holds
    <3>2. Holds(w, n)'
      BY <2>1, <2>4, <3>1 DEF Holds, Working
    <3>3. QED
      BY <3>2
  <2>5. QED
    BY <2>2, <2>3, <2>4
<1>10. ASSUME NEW v \in Thread, SetFlags(v)
       PROVE  Goal
  <2>1. CASE v # w
    BY <1>1, <1>10, <2>1, SetFlagsEffect DEF Moves
  <2>2. CASE v = w
    <3>1. pc[w] = "flags" /\ pc'[w] = "push" /\ UNCHANGED <<e, pos>>
      BY <1>10, <2>2, SetFlagsEffect DEF Moves
    <3>2. Holds(w, n)'
      BY <3>1 DEF Holds, Working
    <3>3. QED
      BY <3>2
  <2>3. QED
    BY <2>1, <2>2
<1>11. ASSUME NEW v \in Thread, Push(v)
       PROVE  Goal
  <2>1. /\ pc[v] = "push" /\ pc'[v] = "fire" /\ UNCHANGED <<e, pos, m_GONodes>>
        /\ Moves(v, pc'[v])
    BY <1>11, PushEffect DEF Moves
  <2>2. CASE v # w
    BY <1>1, <2>1, <2>2
  <2>3. CASE v = w /\ n = e[w].state
    <3>1. Holds(w, n)'
      BY <2>1, <2>3 DEF Holds, Working
    <3>2. QED
      BY <3>1
  <2>4. CASE v = w /\ n # e[w].state
    <3>1. n = pos[v]
      BY <2>1, <2>4 DEF Holds
    <3>2. PICK x : x = Pair(pos[v], FirableObs[Agg(pos[v])])
      OBVIOUS
    <3>3. PICK c \in Thread : PushesOn(Thread, StackedPair, m_st, m_st', c, x)
      BY <1>11, <3>2, PushEffect
    <3>4. x \in Elements(m_st'[c])
      BY <3>3, PushedElements
    <3>5. x.state = n
      BY <3>1, <3>2 DEF Pair
    <3>6. Stacked(c, n)'
      BY <3>4, <3>5, StackedMeaning
    <3>7. QED
      BY <3>6
  <2>5. QED
    BY <2>2, <2>3, <2>4
<1>12. ASSUME NEW v \in Thread, Complete(v)
       PROVE  Goal
  <2>1. CASE v # w
    BY <1>1, <1>12, <2>1, CompleteEffect DEF Moves
  <2>2. CASE v = w
    <3>1. /\ pc[w] = "complete"
          /\ Changes(e[w].state, [heap[e[w].state] EXCEPT !.m_completed = TRUE])
      BY <1>12, <2>2, CompleteEffect
    <3>2. n = e[w].state /\ heap[n] \in LDDState
      BY <3>1, ObjectProperties DEF Holds, TypeInv
    <3>3. [heap[n] EXCEPT !.m_completed = TRUE].m_completed
      BY <3>2 DEF LDDState
    <3>4. QED
      BY <3>1, <3>2, <3>3 DEF Changes
  <2>3. QED
    BY <2>1, <2>2
<1>13. QED
  BY <1>2, <1>3, <1>4, <1>5, <1>6, <1>7, <1>8, <1>9, <1>10, <1>11, <1>12, StepKinds
  DEF Busily, vars, builder, graph, Rests, Visits

(* Where a new state comes from. *)
LEMMA NewObject ==
  ASSUME TypeInv, [Next]_vars, NEW n \in Object', n \notin Object
  PROVE  \/ Initial /\ n = 1
         \/ \E w \in Thread : /\ Find(w) /\ n = pos'[w] /\ Adds(n, NewState(Reached(w)))
                              /\ \A k \in InGraph : Agg(k) # Reached(w)
<1>1. CASE Initial
  BY <1>1, InitialEffect DEF Adds, Object
<1>2. ASSUME NEW w \in Thread, Find(w)
      PROVE  n = pos'[w] /\ Adds(n, NewState(Reached(w)))
             /\ \A k \in InGraph : Agg(k) # Reached(w)
  BY <1>2, FindEffect DEF Adds, Object
<1>3. ASSUME NEW w \in Thread, SetFlags(w) \/ Complete(w)
      PROVE  FALSE
  BY <1>3, SetFlagsEffect, CompleteEffect DEF Changes, Object
<1>4. ASSUME NEW w \in Thread, Link(w)
      PROVE  FALSE
  BY <1>4, LinkLinks
<1>5. ASSUME NEW w \in Thread, Quiet(w) \/ Pop(w) \/ Fire(w) \/ Insert(w) \/ Push(w)
      PROVE  FALSE
  BY <1>5, PopEffect, FireEffect, InsertEffect, PushEffect DEF Quiet, Object
<1>6. ASSUME NEW k \in Object, Visits(k)
      PROVE  FALSE
  BY <1>6 DEF Visits, Changes, Object
<1>7. CASE Rests \/ UNCHANGED vars
  BY <1>7 DEF Rests, vars, graph, Object
<1>8. QED
  BY <1>1, <1>2, <1>3, <1>4, <1>5, <1>6, <1>7, StepKinds DEF Busily

(* Until the destructor runs, a state that is not completed is on a stack  *)
(* or in a builder's hands: none is forgotten.                             *)
THEOREM NothingForgotten == Spec => []NoWorkLost
<1>1. Init => NoWorkLost
  BY EmptySeq DEF Init, NoWorkLost, Object
<1>2. TypeInv /\ NoWorkLost /\ [Next]_vars => NoWorkLost'
  <2> SUFFICES ASSUME TypeInv, NoWorkLost, [Next]_vars, ~m_finish', NEW n \in Object'
               PROVE  \/ heap'[n].m_completed
                      \/ \E w \in Thread : Stacked(w, n)' \/ Holds(w, n)'
    BY DEF NoWorkLost
  <2>1. CASE n \in Object
    <3>1. ~m_finish
      <4>1. ASSUME NEW w \in Thread, Busily(w)
            PROVE  UNCHANGED m_finish
        BY <4>1, PopEffect, FireEffect, FindEffect, LinkEffect, InsertEffect, SetFlagsEffect,
           PushEffect, CompleteEffect DEF Busily, flags
      <4>2. QED
        BY <4>1, StepKinds, InitialEffect DEF Quiet, Rests, Visits, vars, flags
    <3>2. heap[n].m_completed \/ \E w \in Thread : Stacked(w, n) \/ Holds(w, n)
      BY <2>1, <3>1 DEF NoWorkLost
    <3>3. CASE heap[n].m_completed
      BY <2>1, <3>3, GrowsStep DEF Grows, Kept
    <3>4. ASSUME NEW w \in Thread, Stacked(w, n)
          PROVE  \E v \in Thread : Stacked(v, n)' \/ Holds(v, n)'
      <4>1. CASE Pop(w) /\ e'[w].state = n
        <5>1. pc'[w] = "fire"
          BY <4>1, PopEffect DEF Moves
        <5>2. Holds(w, n)'
          BY <4>1, <5>1 DEF Holds, Working
        <5>3. QED
          BY <5>2
      <4>2. QED
        BY <3>4, <4>1, StackedKept
    <3>5. QED
      BY <2>1, <3>2, <3>3, <3>4, HeldKept
  <2>2. CASE n \notin Object
    <3>1. ASSUME Initial, n = 1
          PROVE  \E v \in Thread : Stacked(v, n)'
      <4>1. PICK x : x = Pair(1, FirableObs[InitialAggregate])
        OBVIOUS
      <4>2. PushesOn(Thread, StackedPair, m_st, m_st', 0, x) /\ 0 \in Thread
        BY <3>1, <4>1, InitialEffect
      <4>3. x \in Elements(m_st'[0]) /\ x.state = n
        BY <3>1, <4>1, <4>2, PushedElements DEF Pair
      <4>4. Stacked(0, n)'
        BY <4>3, StackedMeaning
      <4>5. QED
        BY <4>2, <4>4
    <3>2. ASSUME NEW w \in Thread, Find(w), n = pos'[w]
          PROVE  Holds(w, n)'
      <4>1. pc'[w] = "link" /\ UNCHANGED m_GONodes
        BY <3>2, FindEffect DEF Moves
      <4>2. n \notin InGraph'
        BY <2>2, <4>1 DEF InGraph, TypeInv
      <4>3. QED
        BY <3>2, <4>1, <4>2 DEF Holds
    <3>3. QED
      BY <2>2, <3>1, <3>2, NewObject
  <2>3. QED
    BY <2>1, <2>2
<1>3. QED
  BY <1>1, <1>2, TypeCorrect, PTL DEF Spec

-----------------------------------------------------------------------------
(* What a builder has linked, has in hand and has still to fire.           *)

LEMMA TypeInvStep ==
  ASSUME TypeInv, [Next]_vars
  PROVE  TypeInv'
BY TypeStep, GraphStep, StacksStep, ThreadStepOK, LinksStep, MainStep DEF TypeInv

LEMMA FinishKept ==
  ASSUME TypeInv, [Next]_vars, m_finish
  PROVE  m_finish'
<1>1. ASSUME NEW w \in Thread, Busily(w)
      PROVE  UNCHANGED m_finish
  BY <1>1, PopEffect, FireEffect, FindEffect, LinkEffect, InsertEffect, SetFlagsEffect,
     PushEffect, CompleteEffect DEF Busily, flags
<1>2. QED
  BY <1>1, StepKinds, InitialEffect DEF Quiet, Rests, Visits, vars, flags

LEMMA AllEdgesMeaning ==
  ASSUME TypeInv, NEW n \in Object
  PROVE  /\ TransitionsOf(heap[n]) = {x.t : x \in Links(heap[n])}
         /\ AllEdges(n) <=> FirableObs[Agg(n)] \subseteq TransitionsOf(heap[n])
<1>1. TransitionsOf(heap[n]) = {x.t : x \in Links(heap[n])}
  BY DEF TransitionsOf, Links
<1>2. TransitionsOf(heap[n]) \subseteq FirableObs[Agg(n)]
  BY <1>1 DEF TypeInv, LinksOK
<1>3. AllEdges(n) <=> TransitionsOf(heap[n]) = FirableObs[Agg(n)]
  BY Zenon DEF AllEdges, Agg
<1>4. QED
  BY <1>1, <1>2, <1>3

LEMMA EdgesKept ==
  ASSUME TypeInv, [Next]_vars, NEW n \in Object
  PROVE  /\ n \in Object' /\ heap'[n].m_lddstate = Agg(n)
         /\ TransitionsOf(heap[n]) \subseteq TransitionsOf(heap'[n])
         /\ Flagged(heap[n]) => Flagged(heap'[n])
         /\ AllEdges(n) => AllEdges(n)'
<1>1. /\ n \in Object' /\ heap'[n].m_lddstate = Agg(n)
      /\ Links(heap[n]) \subseteq Links(heap'[n])
      /\ Flagged(heap[n]) => Flagged(heap'[n])
  BY GrowsStep DEF Grows, Kept, Agg
<1>2. TransitionsOf(heap[n]) \subseteq TransitionsOf(heap'[n])
  BY <1>1 DEF TransitionsOf, Links
<1>3. TypeInv'
  BY TypeInvStep
<1>4. /\ TransitionsOf(heap'[n]) = {x.t : x \in Links(heap'[n])}
      /\ \A x \in Links(heap'[n]) : x.t \in FirableObs[Agg(n)]
  <2>1. TransitionsOf(heap'[n]) = {x.t : x \in Links(heap'[n])}
    BY DEF TransitionsOf, Links
  <2>2. LinksOK'
    BY <1>3 DEF TypeInv
  <2>3. QED
    BY <1>1, <2>1, <2>2 DEF LinksOK, Agg
<1>5. TransitionsOf(heap'[n]) \subseteq FirableObs[Agg(n)]
  BY <1>4
<1>6. ASSUME AllEdges(n)
      PROVE  TransitionsOf(heap'[n]) = FirableObs[heap'[n].m_lddstate]
  <2>1. TransitionsOf(heap[n]) = FirableObs[Agg(n)]
    BY <1>6, Zenon DEF AllEdges, Agg
  <2>2. TransitionsOf(heap'[n]) = FirableObs[Agg(n)]
    BY <1>2, <1>5, <2>1
  <2>3. QED
    BY <1>1, <2>2
<1>7. QED
  BY <1>1, <1>2, <1>6 DEF AllEdges

LEMMA NewObjectProperties ==
  ASSUME TypeInv, [Next]_vars, NEW n \in Object', n \notin Object
  PROVE  /\ ~heap'[n].m_completed /\ ~heap'[n].m_visited
         /\ Links(heap'[n]) = {}
<1>1. PICK s : s = heap'[n]
  OBVIOUS
<1>2. ~s.m_completed /\ ~s.m_visited /\ s.Successors = <<>>
  <2>1. CASE Initial /\ n = 1
    <3>1. s = WithFlags(NewState(InitialAggregate))
      BY <1>1, <2>1, InitialEffect DEF Adds
    <3>2. NewState(InitialAggregate) \in LDDState
      BY SOGAssumption, NewStateType
    <3>3. /\ ~NewState(InitialAggregate).m_completed /\ ~NewState(InitialAggregate).m_visited
          /\ NewState(InitialAggregate).Successors = <<>>
      BY DEF NewState
    <3>4. QED
      BY <3>1, <3>2, <3>3, WithFlagsType
  <2>2. ASSUME NEW w \in Thread, Adds(n, NewState(Reached(w)))
        PROVE  ~s.m_completed /\ ~s.m_visited /\ s.Successors = <<>>
    BY <1>1, <2>2 DEF Adds, NewState
  <2>3. QED
    BY <2>1, <2>2, NewObject
<1>3. Links(s) = {}
  BY <1>2, EmptySeq DEF Links
<1>4. QED
  BY <1>1, <1>2, <1>3

(* What Spot has obtained it keeps, and it obtains a completed state.      *)
LEMMA ObtainedStep ==
  ASSUME TypeInv, [Next]_vars, NEW n \in Object', Obtained(n)'
  PROVE  /\ n \in Object
         /\ \/ Obtained(n)
            \/ /\ Rests /\ mcPc = "check" /\ mcPc' = "explore" /\ n = agregate
               /\ heap[n].m_visited /\ heap[n].m_completed
<1> USE DEF Awaiting
<1>1. n \in Object
  BY NewObjectProperties DEF Obtained
<1>2. ASSUME heap'[n].m_visited = heap[n].m_visited, agregate' = agregate,
             mcPc \in Awaiting => mcPc' \in Awaiting
      PROVE  Obtained(n)
  BY <1>2 DEF Obtained
<1>3. CASE Initial
  BY <1>1, <1>3, InitialEffect
<1>4. CASE Rests
  BY <1>1, <1>2, <1>4 DEF Rests, Obtained
<1>5. ASSUME NEW k \in Object, Visits(k)
      PROVE  Obtained(n)
  <2>1. n # k
    BY <1>5 DEF Visits, Obtained
  <2>2. heap'[n] = heap[n] /\ mcPc \notin Awaiting
    BY <1>1, <1>5, <2>1 DEF Visits, Changes
  <2>3. QED
    BY <2>2 DEF Obtained
<1>6. ASSUME NEW w \in Thread, Quiet(w)
      PROVE  Obtained(n)
  BY <1>2, <1>6 DEF Quiet
<1>7. ASSUME NEW w \in Thread, Busily(w)
      PROVE  Obtained(n)
  <2>1. UNCHANGED checker
    BY <1>7, PopEffect, FireEffect, FindEffect, LinkEffect, InsertEffect, SetFlagsEffect,
       PushEffect, CompleteEffect DEF Busily
  <2>2. heap'[n].m_visited = heap[n].m_visited
    <3>1. CASE Pop(w) \/ Fire(w) \/ Insert(w) \/ Push(w)
      BY <3>1, PopEffect, FireEffect, InsertEffect, PushEffect
    <3>2. CASE Find(w)
      BY <1>1, <3>2, FindEffect DEF Adds
    <3>3. CASE Link(w)
      BY <1>1, <3>3, LinkLinks
    <3>4. CASE SetFlags(w)
      <4>1. Changes(pos[w], WithFlags(heap[pos[w]]))
        BY <3>4, SetFlagsEffect
      <4>2. heap[n] \in LDDState
        BY <1>1, ObjectProperties DEF TypeInv
      <4>3. CASE n = pos[w]
        BY <4>1, <4>2, <4>3, WithFlagsType DEF Changes
      <4>4. CASE n # pos[w]
        BY <1>1, <4>1, <4>4 DEF Changes
      <4>5. QED
        BY <4>3, <4>4
    <3>5. CASE Complete(w)
      <4>1. Changes(e[w].state, [heap[e[w].state] EXCEPT !.m_completed = TRUE])
        BY <3>5, CompleteEffect
      <4>2. heap[n] \in LDDState
        BY <1>1, ObjectProperties DEF TypeInv
      <4>3. [heap[n] EXCEPT !.m_completed = TRUE].m_visited = heap[n].m_visited
        BY <4>2 DEF LDDState
      <4>4. QED
        BY <1>1, <4>1, <4>3 DEF Changes
    <3>6. QED
      BY <1>7, <3>1, <3>2, <3>3, <3>4, <3>5 DEF Busily
  <2>3. QED
    BY <1>2, <2>1, <2>2 DEF checker
<1>8. CASE UNCHANGED vars
  BY <1>1, <1>2, <1>8 DEF vars, graph, checker
<1>9. QED
  BY <1>1, <1>3, <1>4, <1>5, <1>6, <1>7, <1>8, StepKinds

(* A builder that does not move. *)
LEMMA WorkKept ==
  ASSUME TypeInv, [Next]_vars, NEW v \in Thread, WorkOK(v),
         pc'[v] = pc[v], e'[v] = e[v], t'[v] = t[v], pos'[v] = pos[v]
  PROVE  WorkOK(v)'
<1>1. ThreadOK(v) /\ InGraph \subseteq Object
  BY DEF TypeInv
<1>2. m_finish => m_finish'
  BY FinishKept
<1>3. ASSUME NEW n \in Object
      PROVE  /\ heap'[n].m_lddstate = Agg(n)
             /\ TransitionsOf(heap[n]) \subseteq TransitionsOf(heap'[n])
             /\ Flagged(heap[n]) => Flagged(heap'[n])
  BY EdgesKept
<1>4. pc[v] \in Working => e[v].state \in Object
  BY <1>1 DEF ThreadOK
<1>5. pc[v] = "push" => pos[v] \in Object
  BY <1>1 DEF ThreadOK
<1>6. InHand(v)' = InHand(v)
  BY DEF InHand
<1>7. ASSUME pc[v] \in Working
      PROVE  /\ FirableObs[heap'[e[v].state].m_lddstate]
                  \subseteq TransitionsOf(heap'[e[v].state]) \cup InHand(v)' \cup e[v].fire
             /\ Flagged(heap'[e[v].state])
  <2>1. /\ FirableObs[Agg(e[v].state)]
             \subseteq TransitionsOf(heap[e[v].state]) \cup InHand(v) \cup e[v].fire
        /\ Flagged(heap[e[v].state])
    BY <1>7 DEF WorkOK
  <2>2. e[v].state \in Object
    BY <1>4, <1>7
  <2>3. QED
    BY <1>3, <1>6, <2>1, <2>2
<1>8. pc[v] = "push" => Flagged(heap'[pos[v]])
  BY <1>3, <1>5 DEF WorkOK
<1>9. pc[v] = "complete" => e[v].fire = {} \/ m_finish'
  BY <1>2 DEF WorkOK
<1>10. QED
  BY <1>7, <1>8, <1>9 DEF WorkOK, Agg

(* A builder that goes on with its state, or rests. *)
LEMMA WorkGoesOn ==
  ASSUME TypeInv, [Next]_vars, NEW w \in Thread, WorkOK(w),
         pc[w] \in Working, e'[w].state = e[w].state,
         InHand(w) \cup e[w].fire
           \subseteq TransitionsOf(heap'[e[w].state]) \cup InHand(w)' \cup e'[w].fire,
         pc'[w] = "complete" => e'[w].fire = {} \/ m_finish',
         pc'[w] = "push" => Flagged(heap'[pos'[w]])
  PROVE  WorkOK(w)'
<1>1. ThreadOK(w) /\ InGraph \subseteq Object
  BY DEF TypeInv
<1>2. e[w].state \in Object
  BY <1>1 DEF ThreadOK
<1>3. /\ heap'[e[w].state].m_lddstate = Agg(e[w].state)
      /\ TransitionsOf(heap[e[w].state]) \subseteq TransitionsOf(heap'[e[w].state])
      /\ Flagged(heap[e[w].state]) => Flagged(heap'[e[w].state])
  BY <1>2, EdgesKept
<1>4. QED
  BY <1>3 DEF WorkOK, Agg

LEMMA WorkRests ==
  ASSUME NEW w \in Thread, pc'[w] \in Resting
  PROVE  WorkOK(w)'
BY DEF WorkOK, Working, Resting

LEMMA WorkStep ==
  ASSUME TypeInv, WorkInv, [Next]_vars
  PROVE  \A w \in Thread : WorkOK(w)'
<1>1. \A v \in Thread : WorkOK(v) /\ ThreadOK(v)
  BY DEF WorkInv, TypeInv
<1>2. ASSUME NEW w \in Thread, NEW label, Moves(w, label), WorkOK(w)',
             \A v \in Thread \ {w} : e'[v] = e[v] /\ t'[v] = t[v] /\ pos'[v] = pos[v]
      PROVE  \A v \in Thread : WorkOK(v)'
  BY <1>1, <1>2, WorkKept DEF Moves
<1>3. ASSUME NEW w \in Thread, Moves(w, pc'[w]), pc'[w] \in Resting, UNCHANGED <<e, t, pos>>
      PROVE  \A v \in Thread : WorkOK(v)'
  <2>1. WorkOK(w)'
    BY <1>3, WorkRests
  <2>2. QED
    BY <1>2, <1>3, <2>1
<1>4. ASSUME UNCHANGED <<pc, e, t, pos>>
      PROVE  \A v \in Thread : WorkOK(v)'
  BY <1>1, <1>4, WorkKept
<1>5. CASE Initial
  <2>1. 0 \in Thread /\ Moves(0, pc'[0]) /\ pc'[0] \in Resting /\ UNCHANGED <<e, t, pos>>
    BY <1>5, InitialEffect DEF Moves, Resting
  <2>2. QED
    BY <1>3, <2>1
<1>6. ASSUME NEW w \in Thread, Quiet(w)
      PROVE  \A v \in Thread : WorkOK(v)'
  BY <1>3, <1>6 DEF Quiet
<1>7. ASSUME NEW w \in Thread, Pop(w)
      PROVE  \A v \in Thread : WorkOK(v)'
  <2>1. /\ Moves(w, "fire") /\ e'[w] \in Elements(m_st[w])
        /\ e'[w].fire = FirableObs[Agg(e'[w].state)]
        /\ \A v \in Thread \ {w} : e'[v] = e[v]
        /\ UNCHANGED <<heap, t, pos>>
    BY <1>7, PopEffect
  <2>2. Flagged(heap[e'[w].state])
    BY <2>1 DEF WorkInv
  <2>3. WorkOK(w)'
    BY <2>1, <2>2 DEF WorkOK, Moves, Agg
  <2>4. QED
    BY <1>2, <2>1, <2>3
<1>8. ASSUME NEW w \in Thread, Fire(w)
      PROVE  \A v \in Thread : WorkOK(v)'
  <2>1. /\ pc[w] = "fire" /\ UNCHANGED <<heap, pos, flags>>
        /\ \A v \in Thread \ {w} : e'[v] = e[v] /\ t'[v] = t[v]
    BY <1>8, FireEffect
  <2>2. InHand(w) = {} /\ pc[w] \in Working
    BY <2>1 DEF InHand, Working
  <2>3. CASE Moves(w, "complete") /\ (e[w].fire = {} \/ m_finish) /\ e'[w] = e[w]
    <3>1. pc'[w] = "complete"
      BY <2>3 DEF Moves
    <3>2. e'[w].fire = {} \/ m_finish'
      BY <2>1, <2>3 DEF flags
    <3>3. WorkOK(w)'
      BY <1>1, <2>2, <2>3, <3>1, <3>2, WorkGoesOn
    <3>4. QED
      BY <1>2, <2>1, <2>3, <3>3
  <2>4. CASE /\ Moves(w, "find") /\ t'[w] \in e[w].fire
             /\ e'[w].state = e[w].state /\ e'[w].fire = e[w].fire \ {t'[w]}
    <3>1. pc'[w] = "find" /\ InHand(w)' = {t'[w]}
      BY <2>4 DEF Moves, InHand
    <3>2. WorkOK(w)'
      BY <1>1, <2>2, <2>4, <3>1, WorkGoesOn
    <3>3. QED
      BY <1>2, <2>1, <2>4, <3>2
  <2>5. QED
    BY <1>8, <2>3, <2>4, FireEffect
<1>9. ASSUME NEW w \in Thread, Find(w)
      PROVE  \A v \in Thread : WorkOK(v)'
  <2>1. /\ pc[w] = "find" /\ Moves(w, "link") /\ UNCHANGED <<e, t>>
        /\ \A v \in Thread \ {w} : pos'[v] = pos[v]
    BY <1>9, FindEffect
  <2>2. pc[w] \in Working /\ pc'[w] = "link" /\ InHand(w)' = InHand(w)
    BY <2>1 DEF Moves, InHand, Working
  <2>3. WorkOK(w)'
    BY <1>1, <2>1, <2>2, WorkGoesOn
  <2>4. QED
    BY <1>2, <2>1, <2>3
<1>10. ASSUME NEW w \in Thread, Link(w)
       PROVE  \A v \in Thread : WorkOK(v)'
  <2>1. /\ pc[w] = "link" /\ UNCHANGED <<e, t, pos>>
        /\ Moves(w, IF pos[w] \in InGraph THEN "fire" ELSE "insert")
    BY <1>10, LinkEffect
  <2>2. pc[w] \in Working /\ pc'[w] \in {"fire", "insert"} /\ InHand(w) = {t[w]}
    BY <2>1 DEF Moves, InHand, Working
  <2>3. t[w] \in TransitionsOf(heap'[e[w].state])
    <3>1. NewLink(pos[w], t[w]) \in Links(heap'[e[w].state])
      BY <1>10, LinkLinks
    <3>2. QED
      BY <3>1 DEF NewLink, Links, TransitionsOf
  <2>4. WorkOK(w)'
    BY <1>1, <2>1, <2>2, <2>3, WorkGoesOn
  <2>5. QED
    BY <1>2, <2>1, <2>4
<1>11. ASSUME NEW w \in Thread, Insert(w) \/ SetFlags(w) \/ Push(w)
       PROVE  \A v \in Thread : WorkOK(v)'
  <2>1. /\ pc[w] \in {"insert", "flags", "push"} /\ pc'[w] \in {"flags", "push", "fire"}
        /\ pc'[w] = "push" => SetFlags(w)
        /\ Moves(w, pc'[w]) /\ UNCHANGED <<e, t, pos>>
    BY <1>11, InsertEffect, SetFlagsEffect, PushEffect DEF Moves
  <2>2. pc[w] \in Working /\ InHand(w) = {}
    BY <2>1 DEF InHand, Working
  <2>3. ASSUME SetFlags(w)
        PROVE  Flagged(heap'[pos[w]])
    <3>1. Changes(pos[w], WithFlags(heap[pos[w]]))
      BY <2>3, SetFlagsEffect
    <3>2. heap[pos[w]] \in LDDState /\ heap'[pos[w]] = WithFlags(heap[pos[w]])
      BY <3>1, ObjectProperties DEF Changes, TypeInv
    <3>3. QED
      BY <3>2, KeptFlags
  <2>4. WorkOK(w)'
    BY <1>1, <2>1, <2>2, <2>3, WorkGoesOn
  <2>5. QED
    BY <1>2, <2>1, <2>4
<1>12. ASSUME NEW w \in Thread, Complete(w)
       PROVE  \A v \in Thread : WorkOK(v)'
  <2>1. Moves(w, pc'[w]) /\ pc'[w] \in Resting /\ UNCHANGED <<e, t, pos>>
    BY <1>12, CompleteEffect DEF Moves, Resting
  <2>2. QED
    BY <1>3, <2>1
<1>13. CASE UNCHANGED vars \/ Rests \/ \E n \in Object : Visits(n)
  BY <1>4, <1>13 DEF vars, builder, Rests, Visits
<1>14. QED
  BY <1>5, <1>6, <1>7, <1>8, <1>9, <1>10, <1>11, <1>12, <1>13, StepKinds DEF Busily

(* A stacked state has its flags. *)
LEMMA StackedFlags ==
  ASSUME TypeInv, WorkInv, [Next]_vars
  PROVE  \A w \in Thread : \A z \in Elements(m_st'[w]) : Flagged(heap'[z.state])
<1>1. \A w \in Thread : \A z \in Elements(m_st[w]) : Flagged(heap'[z.state])
  <2>1. \A w \in Thread : \A z \in Elements(m_st[w]) : z.state \in Object /\ Flagged(heap[z.state])
    BY DEF TypeInv, StacksOK, WorkInv
  <2>2. QED
    BY <2>1, EdgesKept
<1>2. ASSUME NEW c, NEW x, PushesOn(Thread, StackedPair, m_st, m_st', c, x),
             Flagged(heap'[x.state])
      PROVE  \A w \in Thread : \A z \in Elements(m_st'[w]) : Flagged(heap'[z.state])
  <2>1. Elements(m_st'[c]) = {x} \cup Elements(m_st[c])
    BY <1>2, PushedElements
  <2>2. \A v \in Thread \ {c} : m_st'[v] = m_st[v]
    BY <1>2 DEF PushesOn
  <2>3. QED
    BY <1>1, <1>2, <2>1, <2>2
<1>3. ASSUME NEW w \in Thread, PopsFrom(Thread, StackedPair, m_st, m_st', w, e'[w])
      PROVE  \A v \in Thread : \A z \in Elements(m_st'[v]) : Flagged(heap'[z.state])
  <2>1. PICK x : x = e'[w]
    OBVIOUS
  <2>2. Elements(m_st[w]) = {x} \cup Elements(m_st'[w])
    BY <1>3, <2>1, PoppedElements
  <2>3. \A v \in Thread \ {w} : m_st'[v] = m_st[v]
    BY <1>3 DEF PopsFrom
  <2>4. QED
    BY <1>1, <2>2, <2>3
<1>4. CASE Initial
  <2>1. PICK x : x = Pair(1, FirableObs[InitialAggregate])
    OBVIOUS
  <2>2. /\ PushesOn(Thread, StackedPair, m_st, m_st', 0, x)
        /\ heap'[1] = WithFlags(NewState(InitialAggregate))
    BY <1>4, <2>1, InitialEffect DEF Adds
  <2>3. NewState(InitialAggregate) \in LDDState
    BY SOGAssumption, NewStateType
  <2>4. Flagged(heap'[1]) /\ x.state = 1
    BY <2>1, <2>2, <2>3, KeptFlags DEF Pair
  <2>5. QED
    BY <1>2, <2>2, <2>4
<1>5. ASSUME NEW w \in Thread, NEW c \in Thread, Push(w),
             PushesOn(Thread, StackedPair, m_st, m_st', c, Pair(pos[w], FirableObs[Agg(pos[w])]))
      PROVE  \A v \in Thread : \A z \in Elements(m_st'[v]) : Flagged(heap'[z.state])
  <2>1. PICK x : x = Pair(pos[w], FirableObs[Agg(pos[w])])
    OBVIOUS
  <2>2. PushesOn(Thread, StackedPair, m_st, m_st', c, x) /\ x.state = pos[w]
    BY <1>5, <2>1 DEF Pair
  <2>3. Flagged(heap[pos[w]]) /\ UNCHANGED heap
    BY <1>5, PushEffect DEF WorkInv, WorkOK
  <2>4. QED
    BY <1>2, <2>2, <2>3
<1>6. CASE UNCHANGED m_st
  BY <1>1, <1>6
<1>7. QED
  BY <1>3, <1>4, <1>5, <1>6, StacksKinds

(* A state is completed by the builder that works on it. *)
LEMMA CompletedBefore ==
  ASSUME TypeInv, [Next]_vars, NEW n \in Object', heap'[n].m_completed
  PROVE  /\ n \in Object
         /\ heap[n].m_completed \/ \E w \in Thread : Complete(w) /\ n = e[w].state
<1>1. n \in Object /\ heap[n] \in LDDState
  BY NewObjectProperties, ObjectProperties DEF TypeInv
<1>2. ASSUME heap'[n].m_completed = heap[n].m_completed
      PROVE  heap[n].m_completed
  BY <1>2
<1>3. ASSUME NEW w \in Thread, Quiet(w) \/ Pop(w) \/ Fire(w) \/ Insert(w) \/ Push(w)
      PROVE  heap[n].m_completed
  BY <1>2, <1>3, PopEffect, FireEffect, InsertEffect, PushEffect DEF Quiet
<1>4. ASSUME NEW w \in Thread, Find(w)
      PROVE  heap[n].m_completed
  BY <1>1, <1>2, <1>4, FindEffect DEF Adds
<1>5. ASSUME NEW w \in Thread, Link(w)
      PROVE  heap[n].m_completed
  BY <1>1, <1>2, <1>5, LinkLinks
<1>6. ASSUME NEW w \in Thread, SetFlags(w)
      PROVE  heap[n].m_completed
  <2>1. Changes(pos[w], WithFlags(heap[pos[w]]))
    BY <1>6, SetFlagsEffect
  <2>2. CASE n = pos[w]
    BY <1>1, <1>2, <2>1, <2>2, WithFlagsType DEF Changes
  <2>3. CASE n # pos[w]
    BY <1>1, <1>2, <2>1, <2>3 DEF Changes
  <2>4. QED
    BY <2>2, <2>3
<1>7. ASSUME NEW w \in Thread, Complete(w), n # e[w].state
      PROVE  heap[n].m_completed
  BY <1>1, <1>2, <1>7, CompleteEffect DEF Changes
<1>8. ASSUME NEW k \in Object, Visits(k)
      PROVE  heap[n].m_completed
  <2>1. [heap[n] EXCEPT !.m_visited = TRUE].m_completed = heap[n].m_completed
    BY <1>1 DEF LDDState
  <2>2. QED
    BY <1>1, <1>2, <1>8, <2>1 DEF Visits, Changes
<1>9. ASSUME Initial
      PROVE  heap[n].m_completed
  BY <1>1, <1>9, InitialEffect
<1>10. ASSUME Rests \/ UNCHANGED vars
       PROVE  heap[n].m_completed
  BY <1>2, <1>10 DEF Rests, vars, graph
<1>11. QED
  BY <1>1, <1>3, <1>4, <1>5, <1>6, <1>7, <1>8, <1>9, <1>10, StepKinds DEF Busily

(* A completed state keeps its flags and edges, and a builder completes    *)
(* its state when nothing is left to fire, or when the destructor runs.    *)
LEMMA CompletedStep ==
  ASSUME TypeInv, WorkInv, [Next]_vars, NEW n \in Object'
  PROVE  CompletedOK(n)'
<1> SUFFICES ASSUME heap'[n].m_completed
             PROVE  n \in InGraph' /\ Flagged(heap'[n]) /\ (AllEdges(n)' \/ m_finish')
  BY DEF CompletedOK
<1>1. n \in Object /\ heap[n] \in LDDState
  BY NewObjectProperties, ObjectProperties DEF TypeInv
<1>2. CASE heap[n].m_completed
  <2>1. n \in InGraph /\ Flagged(heap[n]) /\ (AllEdges(n) \/ m_finish)
    BY <1>1, <1>2 DEF WorkInv, CompletedOK
  <2>2. InGraph \subseteq InGraph'
    BY GrowsStep DEF Grows
  <2>3. QED
    BY <1>1, <2>1, <2>2, EdgesKept, FinishKept
<1>3. ASSUME NEW w \in Thread, Complete(w), n = e[w].state
      PROVE  n \in InGraph' /\ Flagged(heap'[n]) /\ (AllEdges(n)' \/ m_finish')
  <2>1. pc[w] = "complete" /\ n \in InGraph /\ UNCHANGED <<m_GONodes, flags>>
    BY <1>3, CompleteEffect
  <2>2. /\ FirableObs[Agg(n)] \subseteq TransitionsOf(heap[n]) \cup InHand(w) \cup e[w].fire
        /\ Flagged(heap[n])
        /\ e[w].fire = {} \/ m_finish
    BY <1>3, <2>1 DEF WorkInv, WorkOK, Working
  <2>3. InHand(w) = {}
    BY <2>1 DEF InHand
  <2>4. AllEdges(n) \/ m_finish
    BY <1>1, <2>2, <2>3, AllEdgesMeaning
  <2>5. AllEdges(n)' \/ m_finish'
    BY <1>1, <2>4, EdgesKept, FinishKept
  <2>6. Flagged(heap'[n])
    BY <1>1, <2>2, EdgesKept
  <2>7. QED
    BY <2>1, <2>5, <2>6 DEF InGraph
<1>4. heap[n].m_completed \/ \E w \in Thread : Complete(w) /\ n = e[w].state
  BY CompletedBefore
<1>5. QED
  BY <1>2, <1>3, <1>4

LEMMA WorkInvariant == Spec => []WorkInv
<1>1. Init => WorkInv
  <2> SUFFICES ASSUME Init PROVE WorkInv
    OBVIOUS
  <2>1. Object = {} /\ \A w \in Thread : Elements(m_st[w]) = {} /\ pc[w] = "start"
    BY EmptySeq DEF Init, Object, Elements
  <2>2. QED
    BY <2>1 DEF WorkInv, WorkOK, Working
<1>2. TypeInv /\ WorkInv /\ [Next]_vars => WorkInv'
  <2> SUFFICES ASSUME TypeInv, WorkInv, [Next]_vars PROVE WorkInv'
    OBVIOUS
  <2>1. \A n \in Object' : CompletedOK(n)'
    BY CompletedStep
  <2>2. ASSUME NEW n \in Object', Obtained(n)'
        PROVE  heap'[n].m_completed /\ AllEdges(n)'
    <3>1. n \in Object
      BY <2>2, ObtainedStep
    <3>2. CASE Obtained(n)
      <4>1. heap[n].m_completed /\ AllEdges(n)
        BY <3>1, <3>2 DEF WorkInv
      <4>2. QED
        BY <3>1, <4>1, EdgesKept, GrowsStep DEF Grows, Kept
    <3>3. CASE Rests /\ mcPc = "check" /\ heap[n].m_completed
      <4>1. ~m_finish
        BY <3>3 DEF TypeInv, MainOK
      <4>2. AllEdges(n)
        BY <3>1, <3>3, <4>1 DEF WorkInv, CompletedOK
      <4>3. QED
        BY <3>1, <3>3, <4>2, EdgesKept, GrowsStep DEF Grows, Kept
    <3>4. QED
      BY <2>2, <3>2, <3>3, ObtainedStep
  <2>3. QED
    BY <2>1, <2>2, WorkStep, StackedFlags DEF WorkInv
<1>3. QED
  BY <1>1, <1>2, TypeCorrect, PTL DEF Spec

(* What Spot has obtained is final: the state is in the graph, complete    *)
(* with all its edges and both flags, although it was linked before its    *)
(* flags were assigned and before it was in the vector.                    *)
THEOREM ObtainedAreFinal == Spec => []ObtainedIsFinal
<1>1. TypeInv /\ WorkInv => ObtainedIsFinal
  <2> SUFFICES ASSUME TypeInv, WorkInv, NEW n \in Object, Obtained(n)
               PROVE  /\ n \in InGraph
                      /\ heap[n].m_completed
                      /\ AllEdges(n)
                      /\ heap[n].m_blocage = (heap[n].m_lddstate \in Deadlocked)
                      /\ heap[n].m_boucle = (heap[n].m_lddstate \in Divergent)
    BY DEF ObtainedIsFinal
  <2>1. heap[n].m_completed /\ AllEdges(n)
    BY DEF WorkInv
  <2>2. n \in InGraph /\ Flagged(heap[n])
    BY <2>1 DEF WorkInv, CompletedOK
  <2>3. QED
    BY <2>1, <2>2, Zenon DEF Flagged
<1>2. QED
  BY <1>1, TypeCorrect, WorkInvariant, PTL

-----------------------------------------------------------------------------
(* A state has one owner: a stack, or a builder.                           *)

LEMMA HeldObject ==
  ASSUME TypeInv, NEW w \in Thread, NEW n, Holds(w, n)
  PROVE  n \in Object
BY DEF TypeInv, ThreadOK, Holds, Aimed

LEMMA StackedObject ==
  ASSUME TypeInv, NEW w \in Thread, NEW n, Stacked(w, n)
  PROVE  n \in InGraph /\ n \in Object
<1>1. PICK z \in Elements(m_st[w]) : z.state = n
  BY StackedMeaning
<1>2. QED
  BY <1>1 DEF TypeInv, StacksOK

LEMMA HeldAlready ==
  ASSUME NEW w \in Thread, NEW n, Holds(w, n)', pc'[w] = pc[w], e'[w] = e[w], pos'[w] = pos[w],
         n \in InGraph => n \in InGraph'
  PROVE  Holds(w, n)
BY DEF Holds, Working

(* What a builder holds it held before, or it has just popped or created.  *)
LEMMA HeldBefore ==
  ASSUME TypeInv, [Next]_vars, NEW w \in Thread, NEW n, Holds(w, n)'
  PROVE  \/ Holds(w, n) /\ ~Pop(w) /\ ~Complete(w)
         \/ Pop(w) /\ e'[w].state = n
         \/ Find(w) /\ n \notin Object /\ pos'[w] = n
<1> DEFINE Goal == \/ Holds(w, n) /\ ~Pop(w) /\ ~Complete(w)
                   \/ Pop(w) /\ e'[w].state = n
                   \/ Find(w) /\ n \notin Object /\ pos'[w] = n
<1>0. n \in InGraph => n \in InGraph'
  BY GrowsStep DEF Grows
<1>1. ASSUME pc'[w] = pc[w], e'[w] = e[w], pos'[w] = pos[w]
      PROVE  Goal
  <2>1. ~Pop(w) /\ ~Complete(w)
    BY <1>1, PopEffect, CompleteEffect DEF Moves
  <2>2. QED
    BY <1>0, <1>1, <2>1, HeldAlready
<1>2. ASSUME pc'[w] \in Resting
      PROVE  FALSE
  BY <1>2 DEF Holds, Resting, Working
<1>3. ASSUME pc[w] \in Working \ {"complete"}, pc'[w] \in Working, e'[w].state = e[w].state,
             e'[w].state = n
      PROVE  Goal
  <2>1. ~Pop(w) /\ ~Complete(w)
    BY <1>3, PopEffect, CompleteEffect DEF Working
  <2>2. QED
    BY <1>3, <2>1 DEF Holds
<1>4. ASSUME NEW v \in Thread, v # w, Moves(v, pc'[v]), e'[w] = e[w], pos'[w] = pos[w]
      PROVE  Goal
  BY <1>1, <1>4 DEF Moves
<1>5. CASE Initial
  BY <1>1, <1>2, <1>5, InitialEffect DEF Moves, Resting
<1>6. ASSUME NEW v \in Thread, Quiet(v)
      PROVE  Goal
  BY <1>2, <1>4, <1>6 DEF Quiet
<1>7. ASSUME NEW v \in Thread, Pop(v)
      PROVE  Goal
  <2>1. CASE v # w
    BY <1>4, <1>7, <2>1, PopEffect DEF Moves
  <2>2. CASE v = w
    BY <1>7, <2>2, PopEffect DEF Moves, Holds
  <2>3. QED
    BY <2>1, <2>2
<1>8. ASSUME NEW v \in Thread, Fire(v)
      PROVE  Goal
  <2>1. CASE v # w
    BY <1>4, <1>8, <2>1, FireEffect DEF Moves
  <2>2. CASE v = w
    <3>1. pc[w] = "fire" /\ pc'[w] \in {"find", "complete"} /\ e'[w].state = e[w].state
      BY <1>8, <2>2, FireEffect DEF Moves
    <3>2. e'[w].state = n
      BY <3>1 DEF Holds
    <3>3. QED
      BY <1>3, <3>1, <3>2 DEF Working
  <2>3. QED
    BY <2>1, <2>2
<1>9. ASSUME NEW v \in Thread, Find(v)
      PROVE  Goal
  <2>1. CASE v # w
    BY <1>4, <1>9, <2>1, FindEffect DEF Moves
  <2>2. CASE v = w
    <3>1. pc[w] = "find" /\ pc'[w] = "link" /\ e'[w] = e[w]
      BY <1>9, <2>2, FindEffect DEF Moves
    <3>2. CASE e'[w].state = n
      BY <1>3, <3>1, <3>2 DEF Working
    <3>3. CASE pos'[w] = n /\ n \notin InGraph'
      <4>1. n \notin InGraph
        BY <1>0, <3>3
      <4>2. n \notin Object
        BY <1>9, <2>2, <3>3, <4>1, FindEffect DEF Adds
      <4>3. QED
        BY <1>9, <2>2, <3>3, <4>2
    <3>4. QED
      BY <3>1, <3>2, <3>3 DEF Holds
  <2>3. QED
    BY <2>1, <2>2
<1>10. ASSUME NEW v \in Thread, Link(v)
       PROVE  Goal
  <2>1. CASE v # w
    BY <1>4, <1>10, <2>1, LinkEffect DEF Moves
  <2>2. CASE v = w
    <3>1. /\ pc[w] = "link" /\ pc'[w] = IF pos[w] \in InGraph THEN "fire" ELSE "insert"
          /\ UNCHANGED <<e, pos, m_GONodes>>
      BY <1>10, <2>2, LinkEffect DEF Moves
    <3>2. ~Pop(w) /\ ~Complete(w)
      BY <3>1, PopEffect, CompleteEffect
    <3>3. Holds(w, n)
      BY <3>1 DEF Holds, Working
    <3>4. QED
      BY <3>2, <3>3
  <2>3. QED
    BY <2>1, <2>2
<1>11. ASSUME NEW v \in Thread, Insert(v) \/ SetFlags(v)
       PROVE  Goal
  <2>1. /\ pc[v] \in {"insert", "flags"} /\ pc'[v] \in {"flags", "push"}
        /\ UNCHANGED <<e, pos>> /\ Moves(v, pc'[v])
    BY <1>11, InsertEffect, SetFlagsEffect DEF Moves
  <2>2. CASE v # w
    BY <1>4, <2>1, <2>2
  <2>3. CASE v = w
    <3>1. ~Pop(w) /\ ~Complete(w)
      BY <2>1, <2>3, PopEffect, CompleteEffect
    <3>2. Holds(w, n)
      BY <2>1, <2>3 DEF Holds, Working
    <3>3. QED
      BY <3>1, <3>2
  <2>4. QED
    BY <2>2, <2>3
<1>12. ASSUME NEW v \in Thread, Push(v)
       PROVE  Goal
  <2>1. /\ pc[v] = "push" /\ pc'[v] = "fire" /\ UNCHANGED <<e, pos>> /\ Moves(v, pc'[v])
    BY <1>12, PushEffect DEF Moves
  <2>2. CASE v # w
    BY <1>4, <2>1, <2>2
  <2>3. CASE v = w
    <3>1. e'[w].state = n
      BY <2>1, <2>3 DEF Holds
    <3>2. QED
      BY <1>3, <2>1, <2>3, <3>1 DEF Working
  <2>4. QED
    BY <2>2, <2>3
<1>13. ASSUME NEW v \in Thread, Complete(v)
       PROVE  Goal
  <2>1. CASE v # w
    BY <1>4, <1>13, <2>1, CompleteEffect DEF Moves
  <2>2. CASE v = w
    BY <1>2, <1>13, <2>2, CompleteEffect DEF Moves, Resting
  <2>3. QED
    BY <2>1, <2>2
<1>14. CASE UNCHANGED <<pc, e, pos>>
  BY <1>1, <1>14
<1>15. QED
  BY <1>5, <1>6, <1>7, <1>8, <1>9, <1>10, <1>11, <1>12, <1>13, <1>14, StepKinds
  DEF Busily, vars, builder, Rests, Visits

LEMMA InStacks ==
  ASSUME TypeInv, NEW n
  PROVE  n \in StackStates(m_st) <=> \E v \in Thread : Stacked(v, n)
<1>1. DOMAIN m_st = Thread
  BY DEF TypeInv, TypeOK
<1>2. QED
  BY <1>1, StackStatesMeaning, StackedMeaning

LEMMA InStacksNext ==
  ASSUME TypeInv, [Next]_vars, NEW n
  PROVE  n \in StackStates(m_st') <=> \E v \in Thread : Stacked(v, n)'
<1>1. DOMAIN m_st' = Thread
  BY StacksStep
<1>2. QED
  BY <1>1, StackStatesMeaning, StackedMeaning

(* What is on the stacks after a step. *)
LEMMA StackStatesStep ==
  ASSUME TypeInv, OwnerInv, [Next]_vars
  PROVE  /\ DistinctStates(m_st')
         /\ \/ /\ StackStates(m_st') = StackStates(m_st)
               /\ \A w \in Thread : ~Pop(w)
            \/ Initial /\ StackStates(m_st') = {1}
            \/ \E w \in Thread : /\ Pop(w) /\ e'[w].state \in StackStates(m_st)
                                 /\ StackStates(m_st') = StackStates(m_st) \ {e'[w].state}
            \/ \E w \in Thread : /\ Push(w)
                                 /\ StackStates(m_st') = StackStates(m_st) \cup {pos[w]}
<1> DEFINE Goal == /\ DistinctStates(m_st')
                   /\ \/ /\ StackStates(m_st') = StackStates(m_st)
                         /\ \A w \in Thread : ~Pop(w)
                      \/ Initial /\ StackStates(m_st') = {1}
                      \/ \E w \in Thread : /\ Pop(w) /\ e'[w].state \in StackStates(m_st)
                                           /\ StackStates(m_st') = StackStates(m_st) \ {e'[w].state}
                      \/ \E w \in Thread : /\ Push(w)
                                           /\ StackStates(m_st') = StackStates(m_st) \cup {pos[w]}
<1>1. DistinctStates(m_st)
  BY DEF OwnerInv
<1>2. CASE Initial
  <2>1. PICK x : x = Pair(1, FirableObs[InitialAggregate])
    OBVIOUS
  <2>2. PushesOn(Thread, StackedPair, m_st, m_st', 0, x) /\ x.state = 1
    BY <1>2, <2>1, InitialEffect DEF Pair
  <2>3. StackStates(m_st) = {}
    <3>1. Object = {}
      BY <1>2, InitialEffect
    <3>2. QED
      BY <3>1, InStacks, StackedObject
  <2>4. DistinctStates(m_st') /\ StackStates(m_st') = {1}
    BY <1>1, <2>2, <2>3, PushedState
  <2>5. QED
    BY <1>2, <2>4
<1>3. ASSUME NEW w \in Thread, Pop(w)
      PROVE  Goal
  <2>1. PICK x : x = e'[w]
    OBVIOUS
  <2>2. PopsFrom(Thread, StackedPair, m_st, m_st', w, x)
    BY <1>3, <2>1, PopEffect
  <2>3. /\ DistinctStates(m_st') /\ x.state \in StackStates(m_st)
        /\ StackStates(m_st') = StackStates(m_st) \ {x.state}
    BY <1>1, <2>2, PoppedState
  <2>4. QED
    BY <1>3, <2>1, <2>3
<1>4. ASSUME NEW w \in Thread, Push(w)
      PROVE  Goal
  <2>1. PICK x : x = Pair(pos[w], FirableObs[Agg(pos[w])])
    OBVIOUS
  <2>2. PICK c \in Thread : PushesOn(Thread, StackedPair, m_st, m_st', c, x)
    BY <1>4, <2>1, PushEffect
  <2>3. x.state = pos[w]
    BY <2>1 DEF Pair
  <2>4. pos[w] \notin StackStates(m_st)
    <3>1. Holds(w, pos[w])
      BY <1>4, PushEffect DEF Holds
    <3>2. \A v \in Thread : ~Stacked(v, pos[w])
      BY <3>1, HeldObject DEF OwnerInv
    <3>3. QED
      BY <3>2, InStacks
  <2>5. DistinctStates(m_st') /\ StackStates(m_st') = StackStates(m_st) \cup {pos[w]}
    BY <1>1, <2>2, <2>3, <2>4, PushedState
  <2>6. QED
    BY <1>4, <2>5
<1>5. CASE UNCHANGED m_st /\ \A w \in Thread : ~Pop(w)
  BY <1>1, <1>5
<1>6. QED
  BY <1>2, <1>3, <1>4, <1>5, StacksKinds

(* Only one builder moves. *)
LEMMA OneMoves ==
  ASSUME TypeInv, NEW w \in Thread, Pop(w) \/ Find(w) \/ Complete(w), NEW v \in Thread
  PROVE  /\ ~Initial /\ ~Push(v)
         /\ Pop(v) \/ Find(v) \/ Complete(v) => v = w
         /\ Pop(w) => ~Find(v) /\ ~Complete(v)
         /\ Find(w) => ~Pop(v) /\ ~Complete(v)
         /\ Complete(w) => ~Pop(v) /\ ~Find(v)
BY PopEffect, FindEffect, PushEffect, CompleteEffect, InitialEffect DEF Moves

(* Who holds a state holds it alone. *)
LEMMA OwnedAlone ==
  ASSUME TypeInv, OwnerInv, [Next]_vars, NEW w \in Thread, NEW n, Holds(w, n)'
  PROVE  /\ n \notin StackStates(m_st')
         /\ \A v \in Thread : Holds(v, n)' => v = w
<1>1. CASE Holds(w, n) /\ ~Pop(w) /\ ~Complete(w)
  <2>1. n \in Object /\ n \notin StackStates(m_st) /\ \A v \in Thread : Holds(v, n) => v = w
    BY <1>1, HeldObject, InStacks DEF OwnerInv
  <2>2. ASSUME NEW v \in Thread, Holds(v, n)'
        PROVE  v = w
    <3>1. CASE Pop(v) /\ e'[v].state = n
      <4>1. n \in StackStates(m_st)
        BY <3>1, PopEffect, InStacks, StackedMeaning
      <4>2. QED
        BY <2>1, <4>1
    <3>2. QED
      BY <2>1, <2>2, <3>1, HeldBefore
  <2>3. n \notin StackStates(m_st')
    <3>1. ~Initial
      BY <2>1, InitialEffect
    <3>2. ASSUME NEW v \in Thread, Push(v)
          PROVE  n # pos[v]
      <4>1. /\ Holds(v, pos[v]) /\ Brings(v) /\ pc'[v] = "fire" /\ e'[v] = e[v]
        BY <3>2, PushEffect DEF Holds, Brings, Moves
      <4>2. pos[v] # e[v].state
        BY <4>1 DEF OwnerInv
      <4>3. ASSUME n = pos[v]
            PROVE  FALSE
        <5>1. v = w
          BY <2>1, <4>1, <4>3
        <5>2. ~Holds(v, n)'
          BY <4>1, <4>2, <4>3 DEF Holds
        <5>3. QED
          BY <5>1, <5>2
      <4>4. QED
        BY <4>3
    <3>3. QED
      BY <2>1, <3>1, <3>2, StackStatesStep
  <2>4. QED
    BY <2>2, <2>3
<1>2. CASE Pop(w) /\ e'[w].state = n
  <2>1. n \in StackStates(m_st) /\ n \in Object
    BY <1>2, PopEffect, InStacks, StackedMeaning, StackedObject
  <2>2. \A v \in Thread : ~Holds(v, n)
    BY <2>1, InStacks DEF OwnerInv
  <2>3. \A v \in Thread : Holds(v, n)' => v = w
    BY <1>2, <2>1, <2>2, HeldBefore, OneMoves
  <2>4. n \notin StackStates(m_st')
    BY <1>2, StackStatesStep, OneMoves
  <2>5. QED
    BY <2>3, <2>4
<1>3. CASE Find(w) /\ n \notin Object /\ pos'[w] = n
  <2>1. \A v \in Thread : ~Holds(v, n) /\ ~Stacked(v, n)
    BY <1>3, HeldObject, StackedObject
  <2>2. n \notin StackStates(m_st)
    BY <2>1, InStacks
  <2>3. \A v \in Thread : Holds(v, n)' => v = w
    BY <1>3, <2>1, HeldBefore, OneMoves
  <2>4. n \notin StackStates(m_st')
    BY <1>3, <2>2, StackStatesStep, OneMoves
  <2>5. QED
    BY <2>3, <2>4
<1>4. QED
  BY <1>1, <1>2, <1>3, HeldBefore

LEMMA OwnerStep ==
  ASSUME TypeInv, OwnerInv, [Next]_vars
  PROVE  OwnerInv'
<1>1. DistinctStates(m_st')
  BY StackStatesStep
<1>2. ASSUME NEW v \in Thread, NEW w \in Thread, NEW n \in Object', Holds(w, n)'
      PROVE  ~Stacked(v, n)' /\ (Holds(v, n)' => v = w)
  BY <1>2, OwnedAlone, InStacksNext
<1>3. ASSUME NEW w \in Thread, Brings(w)'
      PROVE  pos'[w] # e'[w].state
  <2>1. CASE Brings(w) /\ e'[w] = e[w] /\ pos'[w] = pos[w]
    BY <2>1 DEF OwnerInv
  <2>2. ASSUME pc'[w] = pc[w], e'[w] = e[w], pos'[w] = pos[w]
        PROVE  pos'[w] # e'[w].state
    <3>1. InGraph \subseteq InGraph'
      BY GrowsStep DEF Grows
    <3>2. QED
      BY <1>3, <2>1, <2>2, <3>1 DEF Brings
  <2>3. ASSUME NEW v \in Thread, v # w, Moves(v, pc'[v]), e'[w] = e[w], pos'[w] = pos[w]
        PROVE  pos'[w] # e'[w].state
    BY <2>2, <2>3 DEF Moves
  <2>4. pc'[w] \in Aimed
    BY <1>3 DEF Brings, Aimed
  <2>5. ASSUME NEW v \in Thread, Quiet(v)
        PROVE  pos'[w] # e'[w].state
    BY <2>3, <2>4, <2>5 DEF Quiet, Resting, Aimed
  <2>6. ASSUME NEW v \in Thread, Pop(v) \/ Fire(v) \/ Push(v) \/ Complete(v)
        PROVE  pos'[w] # e'[w].state
    <3>1. /\ pc'[v] \in {"fire", "find", "complete", "notifyBuild"} /\ pos'[w] = pos[w]
          /\ Moves(v, pc'[v]) /\ \A u \in Thread \ {v} : e'[u] = e[u]
      BY <2>6, PopEffect, FireEffect, PushEffect, CompleteEffect DEF Moves
    <3>2. v # w
      BY <2>4, <3>1 DEF Aimed
    <3>3. QED
      BY <2>3, <3>1, <3>2
  <2>7. ASSUME NEW v \in Thread, Find(v)
        PROVE  pos'[w] # e'[w].state
    <3>1. CASE v # w
      BY <2>3, <2>7, <3>1, FindEffect DEF Moves
    <3>2. CASE v = w
      <4>1. pc'[w] = "link" /\ UNCHANGED <<e, m_GONodes>>
        BY <2>7, <3>2, FindEffect DEF Moves
      <4>2. pos'[w] \notin InGraph
        BY <1>3, <4>1 DEF Brings, InGraph
      <4>3. pos'[w] \notin Object
        BY <2>7, <3>2, <4>2, FindEffect DEF Adds
      <4>4. e[w].state \in Object
        BY <2>7, <3>2, TakenProperties, FindEffect
      <4>5. QED
        BY <4>1, <4>3, <4>4
    <3>3. QED
      BY <3>1, <3>2
  <2>8. ASSUME NEW v \in Thread, Link(v) \/ Insert(v) \/ SetFlags(v)
        PROVE  pos'[w] # e'[w].state
    <3>1. /\ Moves(v, pc'[v]) /\ UNCHANGED <<e, pos>>
          /\ Brings(v) \/ pc'[v] = "fire"
      BY <2>8, LinkEffect, InsertEffect, SetFlagsEffect DEF Moves, Brings
    <3>2. CASE v # w
      BY <2>3, <3>1, <3>2
    <3>3. CASE v = w
      BY <2>1, <2>4, <3>1, <3>3 DEF Aimed
    <3>4. QED
      BY <3>2, <3>3
  <2>9. CASE Initial
    <3>1. w # 0
      BY <2>4, <2>9, InitialEffect DEF Moves, Aimed
    <3>2. QED
      BY <2>3, <2>9, <3>1, InitialEffect DEF Moves
  <2>10. CASE UNCHANGED <<pc, e, pos>>
    BY <2>2, <2>10
  <2>11. QED
    BY <2>5, <2>6, <2>7, <2>8, <2>9, <2>10, StepKinds
    DEF Busily, vars, builder, Rests, Visits
<1>4. ASSUME NEW n \in Object', heap'[n].m_completed, NEW w \in Thread
      PROVE  ~Stacked(w, n)' /\ ~Holds(w, n)'
  <2>1. n \in Object /\ ~Initial
    BY <1>4, CompletedBefore, InitialEffect
  <2>2. CASE heap[n].m_completed
    <3>1. \A v \in Thread : ~Stacked(v, n) /\ ~Holds(v, n)
      BY <2>1, <2>2 DEF OwnerInv
    <3>2. n \notin StackStates(m_st)
      BY <3>1, InStacks
    <3>3. ~Holds(w, n)'
      <4>1. ~(Pop(w) /\ e'[w].state = n)
        BY <3>2, PopEffect, InStacks, StackedMeaning
      <4>2. QED
        BY <2>1, <3>1, <4>1, HeldBefore
    <3>4. n \notin StackStates(m_st')
      <4>1. \A v \in Thread : Push(v) => pos[v] # n
        BY <3>1, PushEffect DEF Holds
      <4>2. QED
        BY <2>1, <3>2, <4>1, StackStatesStep
    <3>5. QED
      BY <3>3, <3>4, InStacksNext
  <2>3. ASSUME NEW v \in Thread, Complete(v), n = e[v].state
        PROVE  ~Stacked(w, n)' /\ ~Holds(w, n)'
    <3>1. Holds(v, n)
      BY <2>3, CompleteEffect DEF Holds, Working
    <3>2. /\ \A u \in Thread : ~Stacked(u, n) /\ (Holds(u, n) => u = v)
      BY <2>1, <3>1 DEF OwnerInv
    <3>3. ~Holds(w, n)'
      BY <2>1, <2>3, <3>2, HeldBefore, OneMoves
    <3>4. n \notin StackStates(m_st')
      BY <2>1, <2>3, <3>2, InStacks, StackStatesStep, OneMoves
    <3>5. QED
      BY <3>3, <3>4, InStacksNext
  <2>4. QED
    BY <1>4, <2>2, <2>3, CompletedBefore
<1>5. QED
  BY <1>1, <1>2, <1>3, <1>4 DEF OwnerInv

LEMMA OwnerInvariant == Spec => []OwnerInv
<1>1. Init => OwnerInv
  <2> SUFFICES ASSUME Init PROVE OwnerInv
    OBVIOUS
  <2>1. /\ Object = {} /\ DOMAIN m_st = Thread
        /\ \A w \in Thread : DOMAIN m_st[w] = {} /\ pc[w] = "start"
    BY EmptySeq DEF Init, Object
  <2>2. QED
    BY <2>1 DEF OwnerInv, DistinctStates, Brings
<1>2. TypeInv /\ OwnerInv /\ [Next]_vars => OwnerInv'
  BY OwnerStep
<1>3. QED
  BY <1>1, <1>2, TypeCorrect, PTL DEF Spec

-----------------------------------------------------------------------------
(* The main thread walks along the edges it has read.                      *)

LEMMA AwaitStep ==
  ASSUME TypeInv, [Next]_vars
  PROVE  \/ \E k \in Object : Visits(k)
         \/ agregate' = agregate /\ (mcPc' \in Awaiting => mcPc \in Awaiting)
<1> USE DEF Awaiting
<1>1. ASSUME NEW w \in Thread, Busily(w)
      PROVE  UNCHANGED checker
  BY <1>1, PopEffect, FireEffect, FindEffect, LinkEffect, InsertEffect, SetFlagsEffect,
     PushEffect, CompleteEffect DEF Busily
<1>2. QED
  BY <1>1, StepKinds, InitialEffect DEF Quiet, Rests, checker, vars

LEMMA ObtainedKept ==
  ASSUME TypeInv, [Next]_vars, NEW n \in Object, Obtained(n)
  PROVE  Obtained(n)'
<1>1. heap'[n].m_visited
  BY GrowsStep DEF Grows, Kept, Obtained
<1>2. ASSUME NEW k \in Object, Visits(k)
      PROVE  agregate' # n
  BY <1>2 DEF Visits, Obtained
<1>3. QED
  BY <1>1, <1>2, AwaitStep DEF Obtained, Awaiting

LEMMA FollowedKept ==
  ASSUME TypeInv, [Next]_vars, NEW n, Followed(n)
  PROVE  Followed(n)'
<1>1. PICK m \in Object : Obtained(m) /\ \E u \in Links(heap[m]) : u.to = n
  BY DEF Followed
<1>2. m \in Object' /\ Links(heap[m]) \subseteq Links(heap'[m])
  BY GrowsStep DEF Grows, Kept
<1>3. QED
  BY <1>1, <1>2, ObtainedKept DEF Followed

(* The first state of the vector is that of the initial aggregate. *)
LEMMA FirstStep ==
  ASSUME TypeInv, ReadInv, [Next]_vars, m_GONodes' # <<>>
  PROVE  heap'[m_GONodes'[1]].m_lddstate = InitialAggregate
<1>1. CASE m_GONodes # <<>>
  <2>1. m_GONodes \in Seq(Nat) /\ 1 \in DOMAIN m_GONodes
    BY <1>1, PopProperties DEF TypeInv, TypeOK
  <2>2. PICK n : n = m_GONodes[1]
    OBVIOUS
  <2>3. n \in Object /\ Agg(n) = InitialAggregate /\ m_GONodes'[1] = n
    BY <1>1, <2>1, <2>2, GrowsStep DEF TypeInv, InGraph, ReadInv, Grows
  <2>4. QED
    BY <2>3, GrowsStep DEF Grows, Kept, Agg
<1>2. CASE m_GONodes = <<>>
  <2>1. InGraph = {}
    BY <1>2 DEF InGraph
  <2>2. ASSUME NEW w \in Thread, Busily(w)
        PROVE  UNCHANGED m_GONodes
    <3>1. ~Insert(w)
      BY <2>1, InsertEffect DEF TypeInv, ThreadOK, Working
    <3>2. QED
      BY <2>2, <3>1, PopEffect, FireEffect, FindEffect, LinkEffect, SetFlagsEffect,
         PushEffect, CompleteEffect DEF Busily
  <2>3. Initial
    BY <1>2, <2>2, StepKinds DEF Quiet, Rests, Visits, vars, graph
  <2>4. heap'[1] = WithFlags(NewState(InitialAggregate)) /\ m_GONodes'[1] = 1
    BY <1>2, <2>3, InitialEffect DEF Adds, Inserts
  <2>5. WithFlags(NewState(InitialAggregate)).m_lddstate = InitialAggregate
    BY SOGAssumption, NewStateType, WithFlagsType DEF NewState
  <2>6. QED
    BY <2>4, <2>5
<1>3. QED
  BY <1>1, <1>2

LEMMA ReadStep ==
  ASSUME TypeInv, ReadInv, [Next]_vars
  PROVE  ReadInv'
<1>1. ASSUME mcPc' \in Awaiting
      PROVE  heap'[agregate'].m_lddstate = InitialAggregate \/ Followed(agregate)'
  <2>1. ASSUME NEW k \in Object, Visits(k)
        PROVE  heap'[k].m_lddstate = InitialAggregate \/ Followed(k)'
    <3>1. heap'[k].m_lddstate = Agg(k)
      BY GrowsStep DEF Grows, Kept, Agg
    <3>2. CASE mcPc = "initial" /\ m_finish_initial /\ k = m_GONodes[1]
      BY <3>1, <3>2 DEF TypeInv, MainOK, ReadInv
    <3>3. ASSUME mcPc = "explore", NEW m \in Object, heap[m].m_visited,
                 \E u \in Links(heap[m]) : u.to = k
          PROVE  Followed(k)'
      <4>1. Obtained(m)
        BY <3>3 DEF Obtained
      <4>2. Followed(k)
        BY <3>3, <4>1 DEF Followed
      <4>3. QED
        BY <4>2, FollowedKept
    <3>4. QED
      BY <2>1, <3>2, <3>3 DEF Visits
  <2>2. ASSUME NEW k \in Object, Visits(k)
        PROVE  heap'[agregate'].m_lddstate = InitialAggregate \/ Followed(agregate)'
    <3>1. agregate' = k
      BY <2>2 DEF Visits
    <3>2. Followed(agregate)' <=> Followed(k)'
      BY <3>1 DEF Followed
    <3>3. QED
      BY <2>1, <2>2, <3>1, <3>2
  <2>3. ASSUME agregate' = agregate, mcPc \in Awaiting
        PROVE  heap'[agregate'].m_lddstate = InitialAggregate \/ Followed(agregate)'
    <3>1. PICK k : k = agregate
      OBVIOUS
    <3>2. k \in Object /\ (Agg(k) = InitialAggregate \/ Followed(k))
      BY <2>3, <3>1 DEF TypeInv, MainOK, Awaiting, ReadInv
    <3>3. heap'[k].m_lddstate = InitialAggregate \/ Followed(k)'
      BY <3>2, FollowedKept, GrowsStep DEF Grows, Kept, Agg
    <3>4. Followed(agregate)' <=> Followed(k)'
      BY <2>3, <3>1 DEF Followed
    <3>5. QED
      BY <2>3, <3>1, <3>3, <3>4
  <2>4. QED
    BY <1>1, <2>2, <2>3, AwaitStep
<1>2. QED
  BY <1>1, FirstStep DEF ReadInv, Awaiting, Agg

LEMMA ReadInvariant == Spec => []ReadInv
<1>1. Init => ReadInv
  BY DEF Init, ReadInv, Awaiting
<1>2. TypeInv /\ ReadInv /\ [Next]_vars => ReadInv'
  BY ReadStep
<1>3. QED
  BY <1>1, <1>2, TypeCorrect, PTL DEF Spec

-----------------------------------------------------------------------------
(* The on-the-fly construction of SOGOnTheFly. *)

Final == {n \in Object : heap[n].m_completed /\ AllEdges(n)}
Read == {n \in Object : Obtained(n)}

LEMMA PromiseMapping ==
  /\ AggregatesOf(Object) = GraphAggregates(heap, Object)
  /\ AggregatesOf(Object)' = GraphAggregates(heap', Object')
  /\ (UNION {EdgesOf(n) : n \in Object}) = GraphEdges(heap)
  /\ (UNION {EdgesOf(n) : n \in Object})' = GraphEdges(heap')
  /\ AggregatesOf({n \in Object : heap[n].m_completed /\ AllEdges(n)})
       = GraphAggregates(heap, Final)
  /\ AggregatesOf({n \in Object : heap[n].m_completed /\ AllEdges(n)})'
       = GraphAggregates(heap', Final')
  /\ AggregatesOf({n \in Object : Obtained(n)}) = GraphAggregates(heap, Read)
  /\ AggregatesOf({n \in Object : Obtained(n)})' = GraphAggregates(heap', Read')
BY DEF AggregatesOf, EdgesOf, GraphAggregates, GraphEdges, EdgesFromState, Links, Object, Final, Read

(* No state changes its aggregate. *)
LEMMA SameAggregates ==
  ASSUME TypeInv, [Next]_vars
  PROVE  /\ Object \subseteq Object'
         /\ \A n \in Object : heap'[n].m_lddstate = heap[n].m_lddstate
         /\ \A S \in SUBSET Object : GraphAggregates(heap', S) = GraphAggregates(heap, S)
<1>1. Object \subseteq Object' /\ \A n \in Object : heap'[n].m_lddstate = heap[n].m_lddstate
  BY GrowsStep DEF Grows, Kept
<1>2. QED
  BY <1>1 DEF GraphAggregates

(* Only Link adds an edge. *)
LEMMA SameLinks ==
  ASSUME TypeInv, [Next]_vars, NEW n \in Object, \A w \in Thread : ~(Link(w) /\ e[w].state = n)
  PROVE  Links(heap'[n]) = Links(heap[n])
<1>1. heap[n] \in LDDState
  BY ObjectProperties DEF TypeInv
<1>2. ASSUME heap'[n].Successors = heap[n].Successors
      PROVE  Links(heap'[n]) = Links(heap[n])
  BY <1>2 DEF Links
<1>3. ASSUME NEW w \in Thread, Quiet(w) \/ Pop(w) \/ Fire(w) \/ Insert(w) \/ Push(w)
      PROVE  heap'[n] = heap[n]
  BY <1>3, PopEffect, FireEffect, InsertEffect, PushEffect DEF Quiet
<1>4. ASSUME NEW w \in Thread, Find(w)
      PROVE  heap'[n] = heap[n]
  BY <1>4, FindEffect DEF Adds
<1>5. ASSUME NEW w \in Thread, Link(w)
      PROVE  Links(heap'[n]) = Links(heap[n])
  BY <1>5, LinkLinks
<1>6. ASSUME NEW w \in Thread, SetFlags(w)
      PROVE  heap'[n].Successors = heap[n].Successors
  <2>1. Changes(pos[w], WithFlags(heap[pos[w]]))
    BY <1>6, SetFlagsEffect
  <2>2. CASE n = pos[w]
    BY <1>1, <2>1, <2>2, WithFlagsType DEF Changes
  <2>3. CASE n # pos[w]
    BY <2>1, <2>3 DEF Changes
  <2>4. QED
    BY <2>2, <2>3
<1>7. ASSUME NEW w \in Thread, Complete(w)
      PROVE  heap'[n].Successors = heap[n].Successors
  <2>1. Changes(e[w].state, [heap[e[w].state] EXCEPT !.m_completed = TRUE])
    BY <1>7, CompleteEffect
  <2>2. [heap[n] EXCEPT !.m_completed = TRUE].Successors = heap[n].Successors
    BY <1>1 DEF LDDState
  <2>3. QED
    BY <2>1, <2>2 DEF Changes
<1>8. ASSUME NEW k \in Object, Visits(k)
      PROVE  heap'[n].Successors = heap[n].Successors
  <2>1. [heap[n] EXCEPT !.m_visited = TRUE].Successors = heap[n].Successors
    BY <1>1 DEF LDDState
  <2>2. QED
    BY <1>8, <2>1 DEF Visits, Changes
<1>9. ASSUME Initial
      PROVE  FALSE
  BY <1>9, InitialEffect
<1>10. ASSUME Rests \/ UNCHANGED vars
       PROVE  heap'[n] = heap[n]
  BY <1>10 DEF Rests, vars, graph
<1>11. QED
  BY <1>2, <1>3, <1>4, <1>5, <1>6, <1>7, <1>8, <1>9, <1>10, StepKinds DEF Busily

LEMMA EdgesFromStateKept ==
  ASSUME TypeInv, [Next]_vars, NEW n \in Object
  PROVE  /\ \A x \in Links(heap[n]) : heap'[x.to].m_lddstate = heap[x.to].m_lddstate
         /\ Links(heap'[n]) = Links(heap[n])
              => EdgesFromState(heap', n) = EdgesFromState(heap, n)
<1>1. \A x \in Links(heap[n]) : heap'[x.to].m_lddstate = heap[x.to].m_lddstate
  BY SameAggregates DEF TypeInv, LinksOK
<1>2. ASSUME Links(heap'[n]) = Links(heap[n])
      PROVE  EdgesFromState(heap', n) = EdgesFromState(heap, n)
  <2>1. heap'[n].m_lddstate = heap[n].m_lddstate
    BY SameAggregates
  <2>2. \A x \in Links(heap[n]) : <<heap'[n].m_lddstate, x.t, heap'[x.to].m_lddstate>>
                                    = <<heap[n].m_lddstate, x.t, heap[x.to].m_lddstate>>
    BY <1>1, <2>1
  <2>3. QED
    BY <1>2, <2>2, Zenon DEF EdgesFromState
<1>3. QED
  BY <1>1, <1>2

LEMMA GraphEdgesMeaning ==
  ASSUME NEW g, NEW x
  PROVE  x \in GraphEdges(g) <=> \E n \in DOMAIN g : x \in EdgesFromState(g, n)
BY DEF GraphEdges

LEMMA SameGraphEdges ==
  ASSUME TypeInv, [Next]_vars, \A w \in Thread : ~Link(w)
  PROVE  GraphEdges(heap') = GraphEdges(heap)
<1>1. \A n \in Object : EdgesFromState(heap', n) = EdgesFromState(heap, n)
  BY SameLinks, EdgesFromStateKept
<1>2. ASSUME NEW n \in Object', n \notin Object
      PROVE  EdgesFromState(heap', n) = {}
  BY <1>2, NewObjectProperties DEF EdgesFromState
<1>3. Object = DOMAIN heap /\ Object' = DOMAIN heap'
  BY DEF Object
<1>4. ASSUME NEW x
      PROVE  x \in GraphEdges(heap') <=> x \in GraphEdges(heap)
  BY <1>1, <1>2, <1>3, SameAggregates, GraphEdgesMeaning
<1>5. QED
  BY <1>4

(* Linking adds one edge, which may be there already from a twin. *)
LEMMA LinkGraphEdges ==
  ASSUME TypeInv, [Next]_vars, NEW w \in Thread, Link(w)
  PROVE  LET new == <<Agg(e[w].state), t[w], Reached(w)>>
         IN  GraphEdges(heap') = GraphEdges(heap) \cup {new}
<1> DEFINE new == <<Agg(e[w].state), t[w], Reached(w)>>
<1>1. PICK n, to, u : n = e[w].state /\ to = pos[w] /\ u = t[w]
  OBVIOUS
<1>2. /\ pc[w] = "link" /\ n \in Object /\ to \in Object
      /\ Agg(to) = Reached(w)
  BY <1>1, LinkEffect, TakenProperties DEF TypeInv, ThreadOK
<1>3. /\ Object' = Object
      /\ Links(heap'[n]) = Links(heap[n]) \cup {NewLink(to, u)}
      /\ \A k \in Object \ {n} : Links(heap'[k]) = Links(heap[k])
  BY <1>1, LinkLinks
<1>4. \A k \in Object \ {n} : EdgesFromState(heap', k) = EdgesFromState(heap, k)
  BY <1>3, EdgesFromStateKept
<1>5. EdgesFromState(heap', n) = EdgesFromState(heap, n) \cup {new}
  <2>1. heap'[n].m_lddstate = heap[n].m_lddstate /\ heap'[to].m_lddstate = heap[to].m_lddstate
    BY <1>2, SameAggregates
  <2>2. \A x \in Links(heap[n]) : <<heap'[n].m_lddstate, x.t, heap'[x.to].m_lddstate>>
                                    = <<heap[n].m_lddstate, x.t, heap[x.to].m_lddstate>>
    BY <1>2, <2>1, EdgesFromStateKept
  <2>3. <<heap'[n].m_lddstate, NewLink(to, u).t, heap'[NewLink(to, u).to].m_lddstate>> = new
    BY <1>1, <1>2, <2>1 DEF NewLink, Agg
  <2> HIDE DEF new
  <2>4. PICK x : x = NewLink(to, u)
    OBVIOUS
  <2>5. QED
    BY <1>3, <2>2, <2>3, <2>4, Zenon DEF EdgesFromState
<1> HIDE DEF new
<1>6. DOMAIN heap = Object /\ DOMAIN heap' = Object
  BY <1>3 DEF Object
<1>7. ASSUME NEW x
      PROVE  x \in GraphEdges(heap') <=> x \in GraphEdges(heap) \cup {new}
  BY <1>2, <1>4, <1>5, <1>6, GraphEdgesMeaning
<1>8. GraphEdges(heap') = GraphEdges(heap) \cup {new}
  BY <1>7
<1>9. QED
  BY <1>8 DEF new

(* A state becomes final when its builder completes it with all its edges. *)
LEMMA FinalStep ==
  ASSUME TypeInv, OwnerInv, [Next]_vars
  PROVE  /\ Final \subseteq Final' /\ Final \subseteq Object
         /\ \A n \in Final' \ Final :
              /\ n \in Object /\ AllEdges(n)
              /\ \E w \in Thread : Complete(w) /\ n = e[w].state
<1>1. Final \subseteq Final' /\ Final \subseteq Object
  BY EdgesKept, GrowsStep DEF Final, Grows, Kept
<1>2. ASSUME NEW n \in Final', n \notin Final
      PROVE  /\ n \in Object /\ AllEdges(n)
             /\ \E w \in Thread : Complete(w) /\ n = e[w].state
  <2>1. n \in Object' /\ heap'[n].m_completed /\ AllEdges(n)'
    BY <1>2 DEF Final
  <2>2. n \in Object /\ (heap[n].m_completed \/ \E w \in Thread : Complete(w) /\ n = e[w].state)
    BY <2>1, CompletedBefore
  <2>3. AllEdges(n) \/ \E w \in Thread : Link(w) /\ n = e[w].state
    <3>1. CASE \A w \in Thread : ~(Link(w) /\ e[w].state = n)
      <4>1. Links(heap'[n]) = Links(heap[n]) /\ heap'[n].m_lddstate = heap[n].m_lddstate
        BY <2>2, <3>1, SameLinks, SameAggregates
      <4>2. /\ TransitionsOf(heap[n]) = {x.t : x \in Links(heap[n])}
            /\ TransitionsOf(heap'[n]) = {x.t : x \in Links(heap'[n])}
        BY DEF TransitionsOf, Links
      <4>3. QED
        BY <2>1, <4>1, <4>2 DEF AllEdges
    <3>2. QED
      BY <3>1
  <2>4. ASSUME NEW w \in Thread, Link(w), n = e[w].state
        PROVE  FALSE
    <3>1. Holds(w, n) /\ pc[w] = "link" /\ Moves(w, pc'[w])
      BY <2>4, LinkEffect DEF Holds, Working, Moves
    <3>2. heap[n].m_completed
      <4>1. ASSUME NEW v \in Thread, Complete(v)
            PROVE  FALSE
        BY <2>4, <3>1, <4>1, CompleteEffect, LinkEffect DEF Moves
      <4>2. QED
        BY <2>2, <4>1
    <3>3. QED
      BY <2>2, <3>1, <3>2 DEF OwnerInv
  <2>5. QED
    BY <1>2, <2>2, <2>3, <2>4 DEF Final
<1>3. QED
  BY <1>1, <1>2

(* The main thread obtains a state when buildSucc returns. *)
LEMMA ReadGrows ==
  ASSUME TypeInv, [Next]_vars
  PROVE  /\ Read \subseteq Object
         /\ \/ Read' = Read
            \/ /\ Read' = Read \cup {agregate} /\ agregate \in Object
               /\ Rests /\ mcPc = "check" /\ mcPc' = "explore" /\ heap[agregate].m_completed
<1>1. Read \subseteq Object /\ Read \subseteq Read'
  BY ObtainedKept, SameAggregates DEF Read
<1>2. \A n \in Read' : n \in Read
        \/ /\ n = agregate /\ n \in Object /\ Rests /\ mcPc = "check" /\ mcPc' = "explore"
           /\ heap[n].m_completed
  BY ObtainedStep DEF Read
<1>3. QED
  BY <1>1, <1>2

(* What the checker reads of the other steps. *)
LEMMA VerdictStep ==
  ASSUME TypeInv, [Next]_vars, ~Rests
  PROVE  m_finish' = m_finish /\ Read' = Read
<1>1. m_finish' = m_finish
  <2>1. ASSUME NEW w \in Thread, Busily(w)
        PROVE  UNCHANGED flags
    BY <2>1, PopEffect, FireEffect, FindEffect, LinkEffect, InsertEffect, SetFlagsEffect,
       PushEffect, CompleteEffect DEF Busily
  <2>2. QED
    BY <2>1, StepKinds, InitialEffect DEF Quiet, Visits, flags, vars
<1>2. QED
  BY <1>1, ReadGrows

(* Which aggregate a builder works for: a final twin has all its edges. *)
LEMMA FiredEdge ==
  ASSUME TypeInv, NEW w \in Thread, pc[w] \in {"find", "link"}
  PROVE  /\ <<Agg(e[w].state), t[w], Reached(w)>> \in Edge
         /\ Agg(e[w].state) \in GraphAggregates(heap, Object)
         /\ Agg(e[w].state) \in GraphAggregates(heap, Final)
              => /\ <<Agg(e[w].state), t[w], Reached(w)>> \in GraphEdges(heap)
                 /\ Reached(w) \in GraphAggregates(heap, Object)
<1> DEFINE a == Agg(e[w].state)
<1> DEFINE u == t[w]
<1>1. /\ e[w].state \in Object /\ a \in Aggregate
      /\ u \in FirableObs[a] /\ u \in Transition /\ Reached(w) = Successor[<<a, u>>]
  BY TakenProperties
<1>2. <<a, u, Reached(w)>> \in Edge
  <2>1. <<a, u>> \in Arc
    BY <1>1 DEF Arc
  <2>2. QED
    BY <1>1, <2>1 DEF Edge
<1>3. a \in GraphAggregates(heap, Object)
  BY <1>1 DEF GraphAggregates, Agg
<1>4. ASSUME a \in GraphAggregates(heap, Final)
      PROVE  /\ <<a, u, Reached(w)>> \in GraphEdges(heap)
             /\ Reached(w) \in GraphAggregates(heap, Object)
  <2>1. PICK n \in Final : heap[n].m_lddstate = a
    BY <1>4 DEF GraphAggregates
  <2>2. n \in Object /\ u \in TransitionsOf(heap[n])
    BY <1>1, <2>1 DEF Final, AllEdges
  <2>3. PICK x \in Links(heap[n]) : x.t = u
    BY <2>2 DEF TransitionsOf, Links
  <2>4. x.to \in Object /\ heap[x.to].m_lddstate = Reached(w)
    BY <1>1, <2>1, <2>2, <2>3 DEF TypeInv, LinksOK, Agg
  <2>5. <<heap[n].m_lddstate, x.t, heap[x.to].m_lddstate>> \in EdgesFromState(heap, n)
    BY DEF EdgesFromState
  <2>6. <<a, u, Reached(w)>> \in EdgesFromState(heap, n)
    BY <2>1, <2>3, <2>4, <2>5
  <2>7. QED
    BY <2>2, <2>4, <2>6 DEF GraphEdges, GraphAggregates, Object
<1>5. QED
  BY <1>2, <1>3, <1>4

(* A state with all its transitions has all the edges of its aggregate. *)
LEMMA FinalIsClosed ==
  ASSUME TypeInv, NEW n \in Object, AllEdges(n)
  PROVE  Promise!EdgesFrom(Agg(n)) \subseteq GraphEdges(heap)
<1>1. Promise!EdgesFrom(Agg(n)) = {new \in Edge : new[1] = Agg(n)}
  BY DEF Promise!EdgesFrom, Promise!Edge, Edge, Promise!Arc, Arc
<1>2. ASSUME NEW at \in Arc, at[1] = Agg(n)
      PROVE  <<at[1], at[2], Successor[at]>> \in GraphEdges(heap)
  <2>1. at = <<at[1], at[2]>> /\ at[2] \in FirableObs[Agg(n)]
    BY <1>2 DEF Arc
  <2>2. PICK x \in Links(heap[n]) : x.t = at[2]
    BY <2>1 DEF AllEdges, TransitionsOf, Links, Agg
  <2>3. x.to \in Object /\ heap[x.to].m_lddstate = Successor[at]
    BY <1>2, <2>1, <2>2 DEF TypeInv, LinksOK, Agg
  <2>4. <<heap[n].m_lddstate, x.t, heap[x.to].m_lddstate>> \in EdgesFromState(heap, n)
    BY DEF EdgesFromState
  <2>5. <<at[1], at[2], Successor[at]>> \in EdgesFromState(heap, n)
    BY <1>2, <2>2, <2>3, <2>4 DEF Agg
  <2>6. QED
    BY <2>5 DEF GraphEdges, Object
<1>3. {new \in Edge : new[1] = Agg(n)} \subseteq GraphEdges(heap)
  BY <1>2 DEF Edge
<1>4. QED
  BY <1>1, <1>3

LEMMA StartsConstruction ==
  ASSUME TypeInv, OwnerInv, [Next]_vars, Initial
  PROVE  Promise!Start
<1>1. Object = {} /\ Object' = {1} /\ heap'[1] = WithFlags(NewState(InitialAggregate))
  BY InitialEffect DEF Adds, Object
<1>2. heap'[1].m_lddstate = InitialAggregate
  BY <1>1, SOGAssumption, NewStateType, WithFlagsType DEF NewState
<1>3. /\ ~Rests /\ \A w \in Thread : ~Link(w) /\ ~Complete(w)
  <2>1. pc[0] = "initial" /\ Moves(0, "loop") /\ 0 \in Thread
    BY InitialEffect
  <2>2. QED
    BY <2>1, LinkEffect, CompleteEffect DEF Moves, Rests
<1>4. /\ GraphEdges(heap') = GraphEdges(heap) /\ m_finish' = m_finish
      /\ Read' = Read /\ Read = {} /\ Final' = Final /\ Final = {}
  BY <1>1, <1>3, SameGraphEdges, VerdictStep, FinalStep, ReadGrows
<1>5. /\ GraphAggregates(heap, Object) = {}
      /\ GraphAggregates(heap', Object') = {InitialAggregate}
      /\ GraphAggregates(heap', Final') = GraphAggregates(heap, Final)
      /\ GraphAggregates(heap', Read') = GraphAggregates(heap, Read)
  BY <1>1, <1>2, <1>4 DEF GraphAggregates
<1>6. QED
  BY <1>4, <1>5, PromiseMapping DEF Promise!Start

(* A builder's step: what the checker reads stays. *)
LEMMA BuilderAlone ==
  ASSUME TypeInv, OwnerInv, [Next]_vars, NEW w \in Thread, Find(w) \/ Link(w) \/ Complete(w)
  PROVE  /\ m_finish' = m_finish /\ Read' = Read
         /\ GraphAggregates(heap', Read') = GraphAggregates(heap, Read)
         /\ ~Complete(w) => /\ Final' = Final
                            /\ GraphAggregates(heap', Final') = GraphAggregates(heap, Final)
         /\ ~Link(w) => GraphEdges(heap') = GraphEdges(heap)
<1>1. /\ Moves(w, pc'[w]) /\ pc[w] \in {"find", "link", "complete"} /\ pc'[w] # pc[w]
      /\ Complete(w) => pc[w] = "complete"
      /\ Link(w) => pc[w] = "link"
  BY FindEffect, LinkEffect, CompleteEffect DEF Moves
<1>2. ~Rests
  BY <1>1 DEF Rests
<1>3. \A v \in Thread : (Link(v) \/ Complete(v)) => v = w
  BY <1>1, LinkEffect, CompleteEffect DEF Moves
<1>4. m_finish' = m_finish /\ Read' = Read /\ Read \subseteq Object
  BY <1>2, VerdictStep, ReadGrows
<1>5. ASSUME ~Complete(w)
      PROVE  Final' = Final /\ Final \subseteq Object
  BY <1>3, <1>5, FinalStep
<1>6. ASSUME ~Link(w)
      PROVE  GraphEdges(heap') = GraphEdges(heap)
  BY <1>3, <1>6, SameGraphEdges
<1>7. QED
  BY <1>4, <1>5, <1>6, SameAggregates

(* A new state is a new aggregate, or the twin of one that was linked by   *)
(* another builder and is not in m_GONodes yet.                            *)
LEMMA DiscoversAggregate ==
  ASSUME TypeInv, OwnerInv, [Next]_vars, NEW w \in Thread, Find(w)
  PROVE  (\E new \in Promise!Edge : Promise!Discover(new)) \/ UNCHANGED Promise!vars
<1>1. pc[w] = "find" /\ ~Link(w) /\ ~Complete(w)
  BY FindEffect, LinkEffect, CompleteEffect
<1>2. /\ m_finish' = m_finish
      /\ GraphAggregates(heap', Read') = GraphAggregates(heap, Read)
      /\ GraphAggregates(heap', Final') = GraphAggregates(heap, Final)
      /\ GraphEdges(heap') = GraphEdges(heap)
  BY <1>1, BuilderAlone
<1>3. \/ GraphAggregates(heap', Object') = GraphAggregates(heap, Object)
      \/ GraphAggregates(heap', Object') = GraphAggregates(heap, Object) \cup {Reached(w)}
  <2>1. CASE UNCHANGED heap
    BY <2>1 DEF Object
  <2>2. CASE Adds(pos'[w], NewState(Reached(w)))
    <3>1. /\ Object' = Object \cup {pos'[w]}
          /\ heap'[pos'[w]].m_lddstate = Reached(w)
      BY <2>2 DEF Adds, Object, NewState
    <3>2. \A n \in Object : heap'[n].m_lddstate = heap[n].m_lddstate
      BY SameAggregates
    <3>3. QED
      BY <3>1, <3>2 DEF GraphAggregates
  <2>3. QED
    BY <2>1, <2>2, FindEffect
<1>4. CASE GraphAggregates(heap', Object') = GraphAggregates(heap, Object)
  BY <1>2, <1>4, PromiseMapping DEF Promise!vars
<1>5. CASE /\ GraphAggregates(heap', Object') = GraphAggregates(heap, Object) \cup {Reached(w)}
           /\ Reached(w) \notin GraphAggregates(heap, Object)
  <2>1. PICK new : new = <<Agg(e[w].state), t[w], Reached(w)>>
    OBVIOUS
  <2>2. /\ new \in Edge /\ new[1] = Agg(e[w].state) /\ new[3] = Reached(w)
        /\ new[1] \in GraphAggregates(heap, Object) \ GraphAggregates(heap, Final)
    BY <1>1, <1>5, <2>1, FiredEdge
  <2>3. Promise!Discover(new)
    BY <1>2, <1>5, <2>2, PromiseMapping DEF Promise!Discover
  <2>4. new \in Promise!Edge
    BY <2>2 DEF Promise!Edge, Edge, Promise!Arc, Arc
  <2>5. QED
    BY <2>3, <2>4, Zenon
<1>6. QED
  BY <1>3, <1>4, <1>5

(* A new edge, or one that a builder has linked from a twin. *)
LEMMA LinksAggregates ==
  ASSUME TypeInv, OwnerInv, [Next]_vars, NEW w \in Thread, Link(w)
  PROVE  (\E new \in Promise!Edge : Promise!Link(new)) \/ UNCHANGED Promise!vars
<1>1. pc[w] = "link" /\ ~Complete(w) /\ Object' = Object
  BY LinkEffect, CompleteEffect, LinkLinks
<1>2. /\ m_finish' = m_finish
      /\ GraphAggregates(heap', Object') = GraphAggregates(heap, Object)
      /\ GraphAggregates(heap', Read') = GraphAggregates(heap, Read)
      /\ GraphAggregates(heap', Final') = GraphAggregates(heap, Final)
  BY <1>1, BuilderAlone, SameAggregates
<1>3. PICK new : new = <<Agg(e[w].state), t[w], Reached(w)>>
  OBVIOUS
<1>4. GraphEdges(heap') = GraphEdges(heap) \cup {new}
  BY <1>3, LinkGraphEdges
<1>5. CASE new \in GraphEdges(heap)
  BY <1>2, <1>4, <1>5, PromiseMapping DEF Promise!vars
<1>6. CASE new \notin GraphEdges(heap)
  <2>1. /\ new \in Edge /\ new[1] = Agg(e[w].state) /\ new[3] = Reached(w)
        /\ new[1] \in GraphAggregates(heap, Object) \ GraphAggregates(heap, Final)
    BY <1>1, <1>3, <1>6, FiredEdge
  <2>2. new[3] \in GraphAggregates(heap, Object)
    <3>1. pos[w] \in Object /\ Agg(pos[w]) = Reached(w)
      BY <1>1 DEF TypeInv, ThreadOK, Aimed
    <3>2. QED
      BY <2>1, <3>1 DEF GraphAggregates, Agg
  <2>3. Promise!Link(new)
    BY <1>2, <1>4, <1>6, <2>1, <2>2, PromiseMapping DEF Promise!Link
  <2>4. new \in Promise!Edge
    BY <2>1 DEF Promise!Edge, Edge, Promise!Arc, Arc
  <2>5. QED
    BY <2>3, <2>4, Zenon
<1>7. QED
  BY <1>5, <1>6

(* A builder completes the first state of an aggregate with all its edges, *)
(* or one more, or one that the destructor cut short.                      *)
LEMMA CompletesAggregate ==
  ASSUME TypeInv, OwnerInv, [Next]_vars, NEW w \in Thread, Complete(w)
  PROVE  (\E a \in Aggregate : Promise!Finalize(a)) \/ UNCHANGED Promise!vars
<1>1. /\ ~Link(w) /\ Object' = Object /\ \A v \in Thread : Complete(v) => v = w
      /\ pc[w] = "complete" /\ e[w].state \in Object
  BY CompleteEffect, LinkEffect DEF Changes, Object, Moves, TypeInv
<1>2. /\ m_finish' = m_finish
      /\ GraphAggregates(heap', Object') = GraphAggregates(heap, Object)
      /\ GraphAggregates(heap', Read') = GraphAggregates(heap, Read)
      /\ GraphEdges(heap') = GraphEdges(heap)
  BY <1>1, BuilderAlone, SameAggregates
<1>3. PICK n, a : n = e[w].state /\ a = Agg(n)
  OBVIOUS
<1>4. n \in Object /\ a \in Aggregate /\ a = heap[n].m_lddstate
  BY <1>1, <1>3, ObjectProperties DEF TypeInv, Agg
<1>5. Final' = Final \/ (Final' = Final \cup {n} /\ AllEdges(n))
  <2>1. Final \subseteq Final' /\ \A k \in Final' \ Final : k = n /\ AllEdges(k)
    BY <1>1, <1>3, FinalStep
  <2>2. QED
    BY <2>1
<1>6. \/ GraphAggregates(heap', Final') = GraphAggregates(heap, Final)
      \/ /\ GraphAggregates(heap', Final') = GraphAggregates(heap, Final) \cup {a}
         /\ AllEdges(n)
  <2>1. Final' \subseteq Object
    BY <1>1 DEF Final
  <2>2. GraphAggregates(heap', Final') = GraphAggregates(heap, Final')
    BY <2>1, SameAggregates
  <2>3. GraphAggregates(heap, Final \cup {n}) = GraphAggregates(heap, Final) \cup {a}
    BY <1>4 DEF GraphAggregates
  <2>4. QED
    BY <1>5, <2>2, <2>3
<1>7. CASE GraphAggregates(heap', Final') = GraphAggregates(heap, Final)
  BY <1>2, <1>7, PromiseMapping DEF Promise!vars
<1>8. CASE /\ GraphAggregates(heap', Final') = GraphAggregates(heap, Final) \cup {a}
           /\ AllEdges(n) /\ a \notin GraphAggregates(heap, Final)
  <2>1. Promise!EdgesFrom(a) \subseteq GraphEdges(heap)
    BY <1>3, <1>4, <1>8, FinalIsClosed
  <2>2. a \in GraphAggregates(heap, Object)
    BY <1>4 DEF GraphAggregates
  <2>3. Promise!Finalize(a)
    BY <1>2, <1>8, <2>1, <2>2, PromiseMapping DEF Promise!Finalize
  <2>4. QED
    BY <1>4, <2>3
<1>9. QED
  BY <1>6, <1>7, <1>8

(* buildSucc returns: the first read of an aggregate, or that of its twin. *)
LEMMA ReadsAggregate ==
  ASSUME TypeInv, WorkInv, OwnerInv, ReadInv, [Next]_vars, Rests
  PROVE  \/ \E a \in Aggregate : Promise!Read(a)
         \/ Promise!Stop
         \/ UNCHANGED Promise!vars
<1>1. /\ UNCHANGED <<heap, pc>> /\ Object' = Object
      /\ \A w \in Thread : ~Complete(w)
  BY CompleteEffect DEF Rests, Object, Moves
<1>2. Final' = Final
  BY <1>1, FinalStep
<1>3. /\ GraphAggregates(heap', Object') = GraphAggregates(heap, Object)
      /\ GraphAggregates(heap', Final') = GraphAggregates(heap, Final)
      /\ GraphAggregates(heap', Read') = GraphAggregates(heap, Read')
      /\ GraphEdges(heap') = GraphEdges(heap)
  BY <1>1, <1>2
<1>4. m_finish \in BOOLEAN /\ m_finish' \in BOOLEAN /\ (m_finish => m_finish')
  BY TypeInvStep, FinishKept DEF TypeInv, TypeOK
<1>5. CASE Read' = Read
  <2>1. CASE m_finish' = m_finish
    BY <1>3, <1>5, <2>1, PromiseMapping DEF Promise!vars
  <2>2. CASE ~m_finish /\ m_finish' = TRUE
    BY <1>3, <1>5, <2>2, PromiseMapping DEF Promise!Stop
  <2>3. QED
    BY <1>4, <2>1, <2>2
<1>6. CASE /\ Read' = Read \cup {agregate} /\ agregate \in Object
           /\ mcPc = "check" /\ mcPc' = "explore" /\ heap[agregate].m_completed
  <2>1. PICK n, a : n = agregate /\ a = Agg(n)
    OBVIOUS
  <2>2. n \in Object /\ a \in Aggregate /\ a = heap[n].m_lddstate /\ heap[n].m_completed
    BY <1>6, <2>1, ObjectProperties DEF TypeInv, Agg
  <2>3. ~m_finish /\ m_finish' = m_finish
    BY <1>4, <1>6 DEF Rests, TypeInv, MainOK
  <2>4. AllEdges(n) /\ n \in Final
    BY <2>2, <2>3 DEF WorkInv, CompletedOK, Final
  <2>5. Promise!EdgesFrom(a) \subseteq GraphEdges(heap)
    BY <2>1, <2>2, <2>4, FinalIsClosed
  <2>6. a \in GraphAggregates(heap, Final)
    BY <2>2, <2>4 DEF GraphAggregates
  <2>7. \/ a = InitialAggregate
        \/ \E x \in GraphEdges(heap) : x[1] \in GraphAggregates(heap, Read) /\ x[3] = a
    <3>1. ASSUME NEW m \in Object, Obtained(m), NEW u \in Links(heap[m]), u.to = n
          PROVE  \E x \in GraphEdges(heap) : x[1] \in GraphAggregates(heap, Read) /\ x[3] = a
      <4>1. PICK x : x = <<heap[m].m_lddstate, u.t, heap[u.to].m_lddstate>>
        OBVIOUS
      <4>2. x \in GraphEdges(heap)
        BY <4>1 DEF EdgesFromState, GraphEdges, Object
      <4>3. x[1] \in GraphAggregates(heap, Read) /\ x[3] = a
        BY <2>2, <3>1, <4>1 DEF GraphAggregates, Read
      <4>4. QED
        BY <4>2, <4>3
    <3>2. Agg(n) = InitialAggregate \/ Followed(n)
      BY <1>6, <2>1 DEF ReadInv, Awaiting
    <3>3. QED
      BY <2>1, <3>1, <3>2 DEF Followed
  <2>8. GraphAggregates(heap, Read') = GraphAggregates(heap, Read) \cup {a}
    BY <1>6, <2>1, <2>2 DEF GraphAggregates
  <2>9. CASE a \in GraphAggregates(heap, Read)
    BY <1>3, <2>3, <2>8, <2>9, PromiseMapping DEF Promise!vars
  <2>10. CASE a \notin GraphAggregates(heap, Read)
    <3>1. Promise!Read(a)
      BY <1>3, <2>3, <2>5, <2>6, <2>7, <2>8, <2>10, PromiseMapping DEF Promise!Read
    <3>2. QED
      BY <2>2, <3>1
  <2>11. QED
    BY <2>9, <2>10
<1>7. QED
  BY <1>5, <1>6, ReadGrows

(* Every other step leaves what is promised as it is. *)
LEMMA KeepsPromise ==
  ASSUME TypeInv, OwnerInv, [Next]_vars, ~Rests, ~Initial,
         \A w \in Thread : ~Find(w) /\ ~Link(w) /\ ~Complete(w)
  PROVE  UNCHANGED Promise!vars
<1>1. Object' = Object
  BY NewObject, SameAggregates
<1>2. /\ m_finish' = m_finish /\ Read' = Read /\ Read \subseteq Object
      /\ Final' = Final /\ Final \subseteq Object
      /\ GraphEdges(heap') = GraphEdges(heap)
  BY VerdictStep, ReadGrows, FinalStep, SameGraphEdges
<1>3. /\ GraphAggregates(heap', Object') = GraphAggregates(heap, Object)
      /\ GraphAggregates(heap', Final') = GraphAggregates(heap, Final)
      /\ GraphAggregates(heap', Read') = GraphAggregates(heap, Read)
  BY <1>1, <1>2, SameAggregates
<1>4. QED
  BY <1>2, <1>3, PromiseMapping DEF Promise!vars

LEMMA PromiseStep ==
  ASSUME TypeInv, WorkInv, OwnerInv, ReadInv, [Next]_vars
  PROVE  [Promise!Next]_(Promise!vars)
<1>1. CASE Initial
  BY <1>1, StartsConstruction DEF Promise!Next
<1>2. ASSUME NEW w \in Thread, Find(w)
      PROVE  [Promise!Next]_(Promise!vars)
  BY <1>2, DiscoversAggregate DEF Promise!Next
<1>3. ASSUME NEW w \in Thread, Link(w)
      PROVE  [Promise!Next]_(Promise!vars)
  BY <1>3, LinksAggregates DEF Promise!Next
<1>4. ASSUME NEW w \in Thread, Complete(w)
      PROVE  [Promise!Next]_(Promise!vars)
  BY <1>4, CompletesAggregate DEF Promise!Next
<1>5. CASE Rests
  BY <1>5, ReadsAggregate DEF Promise!Next
<1>6. QED
  BY <1>1, <1>2, <1>3, <1>4, <1>5, KeepsPromise

LEMMA PromiseInit == Init => Promise!Init
<1> SUFFICES ASSUME Init PROVE Promise!Init
  OBVIOUS
<1>1. Object = {} /\ m_finish = FALSE
  BY EmptySeq DEF Init, Object
<1>2. Final = {} /\ Read = {}
  BY <1>1 DEF Final, Read
<1>3. /\ GraphAggregates(heap, Object) = {} /\ GraphAggregates(heap, Final) = {}
      /\ GraphAggregates(heap, Read) = {} /\ GraphEdges(heap) = {}
  BY <1>1, <1>2 DEF GraphAggregates, GraphEdges, Object
<1>4. QED
  BY <1>1, <1>3, PromiseMapping DEF Promise!Init

(* Although an aggregate may have several states, what Spot is given is an *)
(* on-the-fly construction of the SOG: aggregates and edges are only added *)
(* along the edges of the SOG, an aggregate one of whose states is         *)
(* complete with all its edges gets no more, and Spot walks from the       *)
(* initial aggregate along edges and reads only such aggregates.           *)
THEOREM ModelCheckerThRefinesSOG == Spec => ImplementsSOGOnTheFly
<1>1. TypeInv /\ WorkInv /\ OwnerInv /\ ReadInv /\ [Next]_vars => [Promise!Next]_(Promise!vars)
  BY PromiseStep
<1>2. QED
  BY <1>1, PromiseInit, TypeCorrect, WorkInvariant, OwnerInvariant, ReadInvariant,
     PTL DEF Spec, ImplementsSOGOnTheFly, Promise!Spec
=============================================================================
