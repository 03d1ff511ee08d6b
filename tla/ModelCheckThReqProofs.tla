----------------------- MODULE ModelCheckThReqProofs -----------------------
(***************************************************************************)
(* What holds of the model checker on request for every number of          *)
(* builders, every LEVEL and every Symbolic Observation Graph.  A state    *)
(* may be expanded twice, by the checker and by a builder, so the argument *)
(* counts the occurrences of each transition of each state: linked,        *)
(* queued, in a builder's hands, about to be pushed.  The layers, each an  *)
(* invariant relative to the ones before it:                               *)
(*   TypeInv     types, and pointers that designate states of the graph;   *)
(*   HeldInv     who has linked a transition and not yet decremented the   *)
(*               counter has made an edge of its own;                      *)
(*   NoTransitionLost  all the transitions of a state occur, or none does; *)
(*   CounterInv  the counter of a state whose transitions occur once each  *)
(*               is the number of those still to be processed;             *)
(*   ClosedInv   such a state is complete only with all its edges.         *)
(* No step takes an occurrence back, so a state that two threads have      *)
(* expanded never comes under the last two again.                          *)
(***************************************************************************)
EXTENDS ModelCheckThReq, LDDGraphProofs, FiniteSetTheorems, FunctionTheorems

Agg(n) == m_GONodes[n].m_lddstate

(* The labels of a builder after try_pop, and after insertFindByMDD.       *)
Placed == {"link", "flags", "dec", "test", "complete", "notify", "level", "arg", "max",
           "setLevel", "deeper", "count", "push", "completePos", "notifyPos", "arc"}
Working == Placed \cup {"find"}
Resting == {"loop", "pop", "done"}

(* Between the edge and the decrement of the counter is read.              *)
Unsettled == {"flags", "dec", "test", "complete"}

MainLabel == {"initial", "explore", "test", "max", "setLevel", "count", "recount", "push",
              "complete", "check", "sleep", "waiting", "print", "join", "end"}

Couple == [state : Nat, t : Transition]

TypeOK ==
  /\ m_GONodes \in Seq(LDDState)
  /\ m_nbArcs \in Nat
  /\ m_currentLevel \in Seq(Nat)
  /\ m_nbSuccessorsToBeProcessed \in Seq(Nat)
  /\ m_common_stack \in Seq(Couple)
  /\ m_finish \in BOOLEAN
  /\ pc \in [Thread -> Working \cup Resting]
  /\ elt \in [Thread -> [state : Nat, t : Transition \cup {NoTransition}]]
  /\ pos \in [Thread -> Nat]
  /\ res \in [Thread -> BOOLEAN]
  /\ level \in [Thread -> Nat]
  /\ fire \in [Thread -> SUBSET Transition]
  /\ mcPc \in MainLabel
  /\ agregate \in Nat
  /\ mcLevel \in Nat
  /\ mcFire \in SUBSET Transition

(* A couple is a state of the graph and an observable transition of it.    *)
CoupleOK(z) == z.state \in State /\ z.t \in FirableFrom(z.state)

ThreadOK(w) ==
  /\ pc[w] \in Working => CoupleOK(elt[w])
  /\ pc[w] \in Placed => pos[w] \in State
  /\ pc[w] = "link" => Agg(pos[w]) = Reached(w)
  /\ pc[w] \in Unsettled => elt[w].t \in TransitionsOf(m_GONodes[elt[w].state])
  /\ pc[w] = "push" => fire[w] \subseteq FirableFrom(pos[w])
  /\ pc[w] = "completePos" => FirableFrom(pos[w]) = {}

EdgesOK ==
  \A n \in State : \A u \in Links(m_GONodes[n]) :
    /\ u.to \in State
    /\ u.t \in FirableFrom(n)

MainOK ==
  /\ mcPc = "initial" <=> State = {}
  /\ mcPc # "initial" => agregate \in State
  /\ mcPc = "push" => mcFire \subseteq FirableFrom(agregate)
  /\ mcPc = "complete" => FirableFrom(agregate) = {}

TypeInv ==
  /\ TypeOK
  /\ Len(m_currentLevel) = Len(m_GONodes)
  /\ Len(m_nbSuccessorsToBeProcessed) = Len(m_GONodes)
  /\ \A z \in Elements(m_common_stack) : CoupleOK(z)
  /\ \A w \in Thread : ThreadOK(w)
  /\ EdgesOK
  /\ MainOK

-----------------------------------------------------------------------------
(* Counting in sequences.                                                  *)

Positions(q, x) == {k \in DOMAIN q : q[k] = x}

LEMMA FinitePositions ==
  ASSUME NEW S, NEW q \in Seq(S), NEW x
  PROVE  IsFiniteSet(Positions(q, x)) /\ Cardinality(Positions(q, x)) \in Nat
<1>1. DOMAIN q = 1 .. Len(q) /\ Len(q) \in Nat
  BY LenProperties
<1>2. IsFiniteSet(DOMAIN q)
  BY <1>1, FS_Interval
<1>3. QED
  BY <1>2, FS_Subset, FS_CardinalityType DEF Positions

(* A set of positions moved by one. *)
LEMMA ShiftedCardinality ==
  ASSUME NEW A \in SUBSET Nat, NEW B, IsFiniteSet(A),
         \A k \in A : k + 1 \in B,
         \A k \in B : \E j \in A : k = j + 1
  PROVE  IsFiniteSet(B) /\ Cardinality(B) = Cardinality(A)
<1> DEFINE f == [k \in A |-> k + 1]
<1>1. f \in [A -> B] /\ \A a, b \in A : f[a] = f[b] => a = b
  OBVIOUS
<1>2. \A k \in B : \E j \in A : f[j] = k
  OBVIOUS
<1>3. f \in Bijection(A, B)
  <2> HIDE DEF f
  <2>1. QED
    BY <1>1, <1>2, Fun_IsBij
<1>4. ExistsBijection(A, B)
  BY <1>3 DEF ExistsBijection
<1>5. QED
  BY <1>4, FS_Bijection

LEMMA AppendedPositions ==
  ASSUME NEW S, NEW q \in Seq(S), NEW x \in S, NEW y
  PROVE  Cardinality(Positions(Append(q, x), y))
           = Cardinality(Positions(q, y)) + (IF x = y THEN 1 ELSE 0)
<1> DEFINE r == Append(q, x)
<1> DEFINE k == Len(q) + 1
<1>1. /\ Len(r) = Len(q) + 1
      /\ \A i \in 1 .. Len(q) : r[i] = q[i]
      /\ r[k] = x
      /\ r \in Seq(S)
  BY AppendProperties
<1>2. Len(q) \in Nat /\ DOMAIN q = 1 .. Len(q) /\ DOMAIN r = 1 .. Len(r)
  BY <1>1, LenProperties
<1>3. k \notin DOMAIN q /\ DOMAIN r = DOMAIN q \cup {k}
  BY <1>1, <1>2
<1> HIDE DEF r, k
<1>4. Positions(r, y) = IF x = y THEN Positions(q, y) \cup {k} ELSE Positions(q, y)
  BY <1>1, <1>2, <1>3 DEF Positions
<1>5. k \notin Positions(q, y)
  BY <1>3 DEF Positions
<1>6. IsFiniteSet(Positions(q, y)) /\ Cardinality(Positions(q, y)) \in Nat
  BY FinitePositions
<1>7. Cardinality(Positions(q, y) \cup {k}) = Cardinality(Positions(q, y)) + 1
  BY <1>5, <1>6, FS_AddElement
<1>8. QED
  BY <1>4, <1>6, <1>7 DEF r

LEMMA PoppedPositions ==
  ASSUME NEW S, NEW q \in Seq(S), q # <<>>, NEW y
  PROVE  Cardinality(Positions(q, y))
           = Cardinality(Positions(Tail(q), y)) + (IF Head(q) = y THEN 1 ELSE 0)
<1> DEFINE r == Tail(q)
<1>1. /\ r \in Seq(S)
      /\ 1 \in DOMAIN q /\ Head(q) = q[1]
      /\ DOMAIN q \subseteq Nat \ {0}
      /\ \A i \in DOMAIN r : i + 1 \in DOMAIN q /\ r[i] = q[i + 1]
      /\ \A i \in DOMAIN q \ {1} : i - 1 \in DOMAIN r /\ r[i - 1] = q[i]
  BY PopProperties
<1>2. DOMAIN r \subseteq Nat \ {0}
  BY <1>1, LenProperties
<1> HIDE DEF r
<1> DEFINE A == Positions(r, y)
<1> DEFINE B == Positions(q, y) \ {1}
<1>3. A \in SUBSET Nat /\ IsFiniteSet(A) /\ Cardinality(A) \in Nat
  <2>1. A \in SUBSET Nat
    BY <1>2 DEF Positions
  <2>2. IsFiniteSet(A) /\ Cardinality(A) \in Nat
    BY <1>1, FinitePositions
  <2>3. QED
    BY <2>1, <2>2
<1>4. \A k \in A : k + 1 \in B
  BY <1>1, <1>2 DEF Positions
<1>5. \A k \in B : \E j \in A : k = j + 1
  <2>1. ASSUME NEW k \in B
        PROVE  k - 1 \in A /\ k = k - 1 + 1
    BY <1>1 DEF Positions
  <2>2. QED
    BY <2>1
<1> HIDE DEF A, B
<1>6. Cardinality(B) = Cardinality(A)
  BY <1>3, <1>4, <1>5, ShiftedCardinality
<1>7. IsFiniteSet(Positions(q, y)) /\ Cardinality(Positions(q, y)) \in Nat
  BY FinitePositions
<1>8. Cardinality(B) = IF 1 \in Positions(q, y) THEN Cardinality(Positions(q, y)) - 1
                       ELSE Cardinality(Positions(q, y))
  BY <1>7, FS_RemoveElement DEF B
<1>9. 1 \in Positions(q, y) <=> Head(q) = y
  BY <1>1 DEF Positions
<1>10. QED
  BY <1>3, <1>6, <1>7, <1>8, <1>9 DEF A, r

-----------------------------------------------------------------------------
(* What each step does.                                                    *)

(* Builder w goes to a label; the others stay where they are. *)
Moves(w, label) ==
  /\ pc' \in [Thread -> Working \cup Resting]
  /\ pc'[w] = label
  /\ \A v \in Thread \ {w} : pc'[v] = pc[v]

LEMMA GotoMoves ==
  ASSUME TypeOK, NEW w \in Thread, NEW lbl \in Working \cup Resting, Goto(w, lbl)
  PROVE  Moves(w, lbl)
BY DEF TypeOK, Goto, Moves

LEMMA StateProperties ==
  ASSUME TypeOK, NEW n \in State
  PROVE  /\ n \in Nat /\ m_GONodes[n] \in LDDState /\ Agg(n) \in Aggregate
         /\ FirableFrom(n) = FirableObs[Agg(n)] /\ FirableFrom(n) \subseteq Transition
         /\ IsFiniteSet(FirableFrom(n)) /\ Cardinality(FirableFrom(n)) \in Nat
         /\ Cardinality(FirableFrom(n)) < Modulus
<1>1. n \in Nat /\ m_GONodes[n] \in LDDState
  BY GraphDomain DEF TypeOK, State
<1>2. Agg(n) \in Aggregate
  BY <1>1 DEF LDDState, Agg
<1>3. FirableFrom(n) = FirableObs[Agg(n)]
  BY DEF FirableFrom, Agg
<1>4. IsFiniteSet(FirableFrom(n)) /\ Cardinality(FirableFrom(n)) < Modulus
  BY <1>2, <1>3, ModelCheckThReqAssumption
<1>5. QED
  BY <1>1, <1>2, <1>3, <1>4, FirableProperties, FS_CardinalityType

(* No state and no edge is added to the graph. *)
GraphKept ==
  /\ m_GONodes' \in Seq(LDDState)
  /\ State' = State
  /\ \A n \in State : Agg(n)' = Agg(n) /\ m_GONodes'[n].Successors = m_GONodes[n].Successors

LEMMA UnchangedGraph ==
  ASSUME TypeOK, UNCHANGED m_GONodes
  PROVE  GraphKept
BY DEF TypeOK, GraphKept, State, Agg

(* Assigning a flag of a state. *)
LEMMA AssignedGraph ==
  ASSUME TypeOK, NEW n \in State,
         \/ m_GONodes' = [m_GONodes EXCEPT ![n] = WithFlags(@)]
         \/ m_GONodes' = [m_GONodes EXCEPT ![n].m_completed = TRUE]
         \/ m_GONodes' = [m_GONodes EXCEPT ![n].m_visited = TRUE]
  PROVE  /\ GraphKept
         /\ \A m \in State : m_GONodes'[m].m_completed =>
              m_GONodes[m].m_completed
                \/ (m = n /\ m_GONodes' = [m_GONodes EXCEPT ![n].m_completed = TRUE])
<1> DEFINE g == m_GONodes
<1>1. g \in Seq(LDDState) /\ n \in DOMAIN g /\ DOMAIN g = State
  BY DEF TypeOK, State
<1>2. \A m \in DOMAIN g : g[m] \in LDDState
  BY <1>1, GraphDomain
<1>3. CASE m_GONodes' = [m_GONodes EXCEPT ![n] = WithFlags(@)]
  <2>1. /\ m_GONodes' \in Seq(LDDState) /\ DOMAIN m_GONodes' = DOMAIN g
        /\ \A k \in DOMAIN g : m_GONodes'[k] = IF k = n THEN WithFlags(g[k]) ELSE g[k]
    BY <1>1, <1>3, SetFlagsProperties
  <2>2. /\ WithFlags(g[n]).m_lddstate = g[n].m_lddstate
        /\ WithFlags(g[n]).Successors = g[n].Successors
        /\ WithFlags(g[n]).m_completed = g[n].m_completed
    BY <1>1, <1>2, WithFlagsType
  <2>3. QED
    BY <1>1, <2>1, <2>2 DEF GraphKept, State, Agg
<1>4. CASE m_GONodes' = [m_GONodes EXCEPT ![n].m_completed = TRUE]
  <2>1. /\ m_GONodes' \in Seq(LDDState) /\ DOMAIN m_GONodes' = DOMAIN g
        /\ \A k \in DOMAIN g :
             m_GONodes'[k] = IF k = n THEN [g[k] EXCEPT !.m_completed = TRUE] ELSE g[k]
    BY <1>1, <1>4, SetCompletedProperties
  <2>2. \A k \in DOMAIN g : /\ m_GONodes'[k].m_lddstate = g[k].m_lddstate
                            /\ m_GONodes'[k].Successors = g[k].Successors
    BY <1>2, <2>1 DEF LDDState
  <2>3. \A k \in DOMAIN g \ {n} : m_GONodes'[k].m_completed = g[k].m_completed
    BY <2>1
  <2>4. GraphKept
    BY <1>1, <2>1, <2>2 DEF GraphKept, State, Agg
  <2>5. QED
    BY <1>1, <1>4, <2>3, <2>4
<1>5. CASE m_GONodes' = [m_GONodes EXCEPT ![n].m_visited = TRUE]
  <2>1. /\ m_GONodes' \in Seq(LDDState) /\ DOMAIN m_GONodes' = DOMAIN g
        /\ \A k \in DOMAIN g :
             m_GONodes'[k] = IF k = n THEN [g[k] EXCEPT !.m_visited = TRUE] ELSE g[k]
    BY <1>1, <1>5, SetVisitedProperties
  <2>2. \A k \in DOMAIN g : /\ m_GONodes'[k].m_lddstate = g[k].m_lddstate
                            /\ m_GONodes'[k].Successors = g[k].Successors
                            /\ m_GONodes'[k].m_completed = g[k].m_completed
    BY <1>2, <2>1 DEF LDDState
  <2>3. QED
    BY <1>1, <2>1, <2>2 DEF GraphKept, State, Agg
<1>6. QED
  BY <1>3, <1>4, <1>5

(* Assigning the level or the counter of a state. *)
LEMMA AssignedNumber ==
  ASSUME TypeInv, NEW n \in State, NEW k \in Nat, NEW q,
         q = m_currentLevel \/ q = m_nbSuccessorsToBeProcessed
  PROVE  /\ [q EXCEPT ![n] = k] \in Seq(Nat)
         /\ Len([q EXCEPT ![n] = k]) = Len(q)
         /\ q[n] \in Nat
         /\ [q EXCEPT ![n] = k][n] = k
         /\ \A m \in State \ {n} : [q EXCEPT ![n] = k][m] = q[m]
<1>1. q \in Seq(Nat) /\ Len(q) = Len(m_GONodes) /\ State = 1 .. Len(m_GONodes)
  BY GraphDomain DEF TypeInv, TypeOK, State
<1>2. DOMAIN q = State /\ n \in 1 .. Len(q) /\ \A m \in 1 .. Len(q) : q[m] \in Nat
  BY <1>1, LenProperties, ElementOfSeq
<1>3. [q EXCEPT ![n] = k] \in Seq(Nat) /\ Len([q EXCEPT ![n] = k]) = Len(q)
  BY <1>1, <1>2, ExceptSeq
<1>4. QED
  BY <1>1, <1>2, <1>3

LEMMA LevelType ==
  ASSUME TypeInv, NEW n \in State
  PROVE  /\ m_currentLevel[n] \in Nat /\ m_nbSuccessorsToBeProcessed[n] \in Nat
         /\ (m_currentLevel[n] + LevelModulus - 1) % LevelModulus \in Nat
         /\ \A k \in Nat : Greater(m_currentLevel[n], k) \in Nat
<1>1. m_currentLevel[n] \in Nat /\ m_nbSuccessorsToBeProcessed[n] \in Nat
  BY AssignedNumber
<1>2. LevelModulus \in Nat \ {0}
  BY ModelCheckThReqAssumption
<1>3. (m_currentLevel[n] + LevelModulus - 1) % LevelModulus \in Nat
  BY <1>1, <1>2
<1>4. QED
  BY <1>1, <1>3 DEF Greater

(* The levels keep their types. *)
LevelsKept ==
  /\ m_currentLevel' \in Seq(Nat) /\ Len(m_currentLevel') = Len(m_currentLevel)
  /\ level' \in [Thread -> Nat]

(* Builder w moves between two accesses to the queue or to the edges.      *)
Walks(w) ==
  /\ Moves(w, pc'[w])
  /\ \/ pc[w] \in Resting /\ pc'[w] \in Resting
     \/ pc[w] = "flags" /\ pc'[w] = "dec"
     \/ /\ pc[w] \in Placed \ {"link", "flags", "dec", "count", "push"}
        /\ pc'[w] \in (Placed \ {"link", "flags", "dec", "push"}) \cup {"loop"}
  /\ pc'[w] \in Unsettled => pc[w] \in Unsettled
  /\ pc'[w] = "complete" => pc[w] = "test" /\ m_nbSuccessorsToBeProcessed[elt[w].state] = 0
  /\ pc'[w] # "completePos"
  /\ GraphKept /\ LevelsKept
  /\ \A n \in State : m_GONodes'[n].m_completed =>
       \/ m_GONodes[n].m_completed
       \/ pc[w] = "complete" /\ elt[w].state = n
       \/ FirableFrom(n) = {}
  /\ m_nbArcs' \in Nat
  /\ mcPc' = mcPc \/ (mcPc = "waiting" /\ mcPc' = "check")
  /\ UNCHANGED <<m_nbSuccessorsToBeProcessed, m_common_stack, m_finish, elt, pos, res, fire,
                 agregate, mcLevel, mcFire>>

LEMMA PlacedProperties ==
  ASSUME TypeInv, NEW w \in Thread, pc[w] \in Placed
  PROVE  elt[w].state \in State /\ pos[w] \in State /\ elt[w].t \in FirableFrom(elt[w].state)
BY DEF TypeInv, ThreadOK, CoupleOK, Placed, Working

(* The steps that change a flag of a state. *)
LEMMA FlagSteps ==
  ASSUME TypeInv, NEW w \in Thread, SetFlags(w) \/ Complete(w) \/ CompletePos(w)
  PROVE  Walks(w)
<1> USE DEF Placed, Working, Resting, Unsettled, counters, LevelsKept
<1>1. TypeOK /\ pc[w] \in Placed
  BY DEF TypeInv, SetFlags, Complete, CompletePos
<1>2. pos[w] \in State /\ elt[w].state \in State
  BY <1>1, PlacedProperties
<1>3. m_currentLevel \in Seq(Nat) /\ level \in [Thread -> Nat] /\ m_nbArcs \in Nat
  BY <1>1 DEF TypeOK
<1>4. CASE SetFlags(w)
  <2>1. GraphKept /\ \A m \in State : m_GONodes'[m].m_completed => m_GONodes[m].m_completed
    <3>1. m_GONodes' = [m_GONodes EXCEPT ![pos[w]] = WithFlags(@)]
      BY <1>4 DEF SetFlags
    <3>2. \A n \in State : m_GONodes[n] \in LDDState
      BY <1>1, StateProperties
    <3>3. /\ DOMAIN m_GONodes' = State
          /\ \A k \in State :
               m_GONodes'[k] = IF k = pos[w] THEN WithFlags(m_GONodes[k]) ELSE m_GONodes[k]
      BY <1>1, <1>2, <3>1, SetFlagsProperties DEF TypeOK, State
    <3>4. \A m \in State : m_GONodes'[m].m_completed = m_GONodes[m].m_completed
      BY <3>2, <3>3, WithFlagsType
    <3>5. QED
      BY <1>1, <1>2, <3>1, <3>4, AssignedGraph
  <2>2. Moves(w, "dec") /\ pc[w] = "flags"
    BY <1>1, <1>4, GotoMoves DEF SetFlags
  <2>3. QED
    BY <1>3, <1>4, <2>1, <2>2 DEF SetFlags, Walks, Moves, local, checker
<1>5. CASE Complete(w)
  <2>1. /\ GraphKept
        /\ \A m \in State : m_GONodes'[m].m_completed =>
             m_GONodes[m].m_completed \/ m = elt[w].state
    BY <1>1, <1>2, <1>5, AssignedGraph DEF Complete
  <2>2. Moves(w, "notify") /\ pc[w] = "complete"
    BY <1>1, <1>5, GotoMoves DEF Complete
  <2>3. QED
    BY <1>3, <1>5, <2>1, <2>2 DEF Complete, Walks, Moves, local, checker
<1>6. CASE CompletePos(w)
  <2>1. /\ GraphKept
        /\ \A m \in State : m_GONodes'[m].m_completed =>
             m_GONodes[m].m_completed \/ m = pos[w]
    BY <1>1, <1>2, <1>6, AssignedGraph DEF CompletePos
  <2>2. Moves(w, "notifyPos") /\ pc[w] = "completePos"
    BY <1>1, <1>6, GotoMoves DEF CompletePos
  <2>3. FirableFrom(pos[w]) = {}
    BY <2>2 DEF TypeInv, ThreadOK
  <2>4. QED
    BY <1>3, <1>6, <2>1, <2>2, <2>3 DEF CompletePos, Walks, Moves, local, checker
<1>7. QED
  BY <1>4, <1>5, <1>6

LEMMA WalkSteps ==
  ASSUME TypeInv, NEW w \in Thread,
         \/ Loop(w) \/ (Pop(w) /\ m_common_stack = <<>>) \/ TestZero(w) \/ Notify(w)
         \/ TestLevel(w) \/ LevelArgument(w) \/ ReadLevel(w) \/ SetLevel(w) \/ TestDeeper(w)
         \/ NotifyPos(w) \/ AddArc(w)
  PROVE  Walks(w)
<1> USE DEF Placed, Working, Resting, Unsettled
<1>1. TypeOK
  BY DEF TypeInv
<1>2. /\ m_currentLevel \in Seq(Nat) /\ level \in [Thread -> Nat] /\ m_nbArcs \in Nat
      /\ m_nbArcs + 1 \in Nat
  BY <1>1 DEF TypeOK
<1>3. ASSUME NEW lbl, Goto(w, lbl), UNCHANGED m_GONodes, LevelsKept, m_nbArcs' \in Nat,
             \/ pc[w] \in Resting /\ lbl \in Resting
             \/ /\ pc[w] \in Placed \ {"link", "flags", "dec", "count", "push"}
                /\ lbl \in (Placed \ {"link", "flags", "dec", "push"}) \cup {"loop"},
             lbl \in Unsettled => pc[w] \in Unsettled,
             lbl = "complete" => pc[w] = "test" /\ m_nbSuccessorsToBeProcessed[elt[w].state] = 0,
             lbl # "completePos",
             mcPc' = mcPc \/ (mcPc = "waiting" /\ mcPc' = "check"),
             UNCHANGED <<m_nbSuccessorsToBeProcessed, m_common_stack, m_finish, elt, pos, res,
                         fire, agregate, mcLevel, mcFire>>
      PROVE  Walks(w)
  <2>1. Moves(w, lbl)
    BY <1>1, <1>3, GotoMoves
  <2>2. GraphKept
    BY <1>1, <1>3, UnchangedGraph
  <2>3. QED
    BY <1>3, <2>1, <2>2 DEF Walks, Moves
<1>4. ASSUME UNCHANGED <<m_currentLevel, level>>
      PROVE  LevelsKept
  BY <1>2, <1>4 DEF LevelsKept
<1> USE DEF shared, counters, local, checker
<1>5. CASE Loop(w)
  <2>1. \E lbl \in {"done", "pop"} : Goto(w, lbl)
    BY <1>5 DEF Loop
  <2>2. QED
    BY <1>2, <1>3, <1>4, <1>5, <2>1 DEF Loop
<1>6. CASE Pop(w) /\ m_common_stack = <<>>
  BY <1>2, <1>3, <1>4, <1>6 DEF Pop
<1>7. CASE TestZero(w)
  <2>1. \E lbl \in {"complete", "level"} :
          /\ Goto(w, lbl)
          /\ lbl = "complete" => m_nbSuccessorsToBeProcessed[elt[w].state] = 0
    BY <1>7 DEF TestZero
  <2>2. QED
    BY <1>2, <1>3, <1>4, <1>7, <2>1 DEF TestZero
<1>8. CASE Notify(w)
  <2>1. mcPc' = mcPc \/ (mcPc = "waiting" /\ mcPc' = "check")
    BY <1>8 DEF Notify, NotifyChecker
  <2>2. QED
    BY <1>2, <1>3, <1>4, <1>8, <2>1 DEF Notify
<1>9. CASE TestLevel(w)
  <2>1. \E lbl \in {"arg", "arc"} : Goto(w, lbl)
    BY <1>9 DEF TestLevel
  <2>2. QED
    BY <1>2, <1>3, <1>4, <1>9, <2>1 DEF TestLevel
<1>10. CASE LevelArgument(w)
  <2>1. elt[w].state \in State
    BY <1>10, PlacedProperties DEF LevelArgument
  <2>2. LevelsKept
    BY <1>2, <1>10, <2>1, LevelType DEF LevelArgument, LevelsKept
  <2>3. QED
    BY <1>2, <1>3, <1>10, <2>2 DEF LevelArgument
<1>11. CASE ReadLevel(w)
  <2>1. pos[w] \in State
    BY <1>11, PlacedProperties DEF ReadLevel
  <2>2. Greater(m_currentLevel[pos[w]], level[w]) \in Nat
    BY <1>2, <2>1, LevelType
  <2>3. LevelsKept
    BY <1>2, <1>11, <2>2 DEF ReadLevel, LevelsKept
  <2>4. QED
    BY <1>2, <1>3, <1>11, <2>3 DEF ReadLevel
<1>12. CASE SetLevel(w)
  <2>1. pos[w] \in State
    BY <1>12, PlacedProperties DEF SetLevel
  <2>2. LevelsKept
    BY <1>2, <1>12, <2>1, AssignedNumber DEF SetLevel, LevelsKept
  <2>3. QED
    BY <1>2, <1>3, <1>12, <2>2 DEF SetLevel
<1>13. CASE TestDeeper(w)
  <2>1. \E lbl \in {"count", "arc"} : Goto(w, lbl)
    BY <1>13 DEF TestDeeper
  <2>2. QED
    BY <1>2, <1>3, <1>4, <1>13, <2>1 DEF TestDeeper
<1>14. CASE NotifyPos(w)
  <2>1. mcPc' = mcPc \/ (mcPc = "waiting" /\ mcPc' = "check")
    BY <1>14 DEF NotifyPos, NotifyChecker
  <2>2. QED
    BY <1>2, <1>3, <1>4, <1>14, <2>1 DEF NotifyPos
<1>15. CASE AddArc(w)
  BY <1>2, <1>3, <1>4, <1>15 DEF AddArc
<1>16. QED
  BY <1>5, <1>6, <1>7, <1>8, <1>9, <1>10, <1>11, <1>12, <1>13, <1>14, <1>15

(* The checker moves between two pushes.                                   *)
Waits ==
  /\ mcPc \notin {"initial", "push", "recount"}
  /\ mcPc' \in MainLabel \ {"initial", "push", "recount", "complete"}
  /\ GraphKept /\ LevelsKept
  /\ \A n \in State : m_GONodes'[n].m_completed =>
       m_GONodes[n].m_completed \/ FirableFrom(n) = {}
  /\ agregate' \in State /\ mcLevel' \in Nat /\ m_finish' \in BOOLEAN
  /\ UNCHANGED <<m_nbArcs, m_nbSuccessorsToBeProcessed, m_common_stack, pc, elt, pos, res, fire,
                 mcFire>>

LEMMA WaitSteps ==
  ASSUME TypeInv,
         \/ Explore \/ TestRequest \/ ReadRequestLevel \/ SetRequestLevel \/ CompleteRequest
         \/ CheckBuild \/ SleepBuild \/ SpuriousWakeUpBuild \/ Finish
         \/ PrintCompleteInformation \/ Join
  PROVE  Waits
<1> USE DEF MainLabel, shared, counters, builder, local
<1>1. TypeOK
  BY DEF TypeInv
<1>2. m_currentLevel \in Seq(Nat) /\ level \in [Thread -> Nat] /\ mcLevel \in Nat
      /\ m_finish \in BOOLEAN
  BY <1>1 DEF TypeOK
<1>3. mcPc # "initial" /\ agregate \in State
  BY DEF TypeInv, MainOK, Explore, TestRequest, ReadRequestLevel, SetRequestLevel,
         CompleteRequest, CheckBuild, SleepBuild, SpuriousWakeUpBuild, Finish,
         PrintCompleteInformation, Join
<1>4. ASSUME UNCHANGED m_GONodes
      PROVE  /\ GraphKept
             /\ \A n \in State : m_GONodes'[n].m_completed => m_GONodes[n].m_completed
  BY <1>1, <1>4, UnchangedGraph
<1>5. ASSUME UNCHANGED <<m_currentLevel, level>>
      PROVE  LevelsKept
  BY <1>2, <1>5 DEF LevelsKept
<1>6. CASE Explore
  <2>1. PICK n \in State : \E k \in DOMAIN m_GONodes[n].Successors :
          LET m == m_GONodes[n].Successors[k].to
          IN  m_GONodes' = [m_GONodes EXCEPT ![m].m_visited = TRUE] /\ agregate' = m
    BY <1>6 DEF Explore
  <2>2. PICK k \in DOMAIN m_GONodes[n].Successors :
          LET m == m_GONodes[n].Successors[k].to
          IN  m_GONodes' = [m_GONodes EXCEPT ![m].m_visited = TRUE] /\ agregate' = m
    BY <2>1
  <2>3. PICK m : m = m_GONodes[n].Successors[k].to
    OBVIOUS
  <2>4. m \in State
    BY <2>3 DEF TypeInv, EdgesOK, Links
  <2>5. m_GONodes' = [m_GONodes EXCEPT ![m].m_visited = TRUE] /\ agregate' = m
    BY <2>2, <2>3
  <2>6. GraphKept /\ \A i \in State : m_GONodes'[i].m_completed => m_GONodes[i].m_completed
    <3>1. /\ DOMAIN m_GONodes' = State
          /\ \A i \in State : m_GONodes'[i] =
               IF i = m THEN [m_GONodes[i] EXCEPT !.m_visited = TRUE] ELSE m_GONodes[i]
      BY <1>1, <2>4, <2>5, SetVisitedProperties DEF TypeOK, State
    <3>2. \A i \in State : m_GONodes[i] \in LDDState
      BY <1>1, StateProperties
    <3>3. \A i \in State : m_GONodes'[i].m_completed = m_GONodes[i].m_completed
      BY <3>1, <3>2 DEF LDDState
    <3>4. QED
      BY <1>1, <2>4, <2>5, <3>3, AssignedGraph
  <2>7. QED
    BY <1>2, <1>5, <1>6, <2>4, <2>5, <2>6 DEF Explore, Waits
<1>7. CASE TestRequest
  BY <1>2, <1>3, <1>4, <1>5, <1>7 DEF TestRequest, Waits
<1>8. CASE ReadRequestLevel
  <2>1. Greater(m_currentLevel[agregate], LEVEL) \in Nat
    BY <1>3, LevelType, ModelCheckThReqAssumption
  <2>2. QED
    BY <1>2, <1>3, <1>4, <1>5, <1>8, <2>1 DEF ReadRequestLevel, Waits
<1>9. CASE SetRequestLevel
  <2>1. LevelsKept
    BY <1>2, <1>3, <1>9, AssignedNumber DEF SetRequestLevel, LevelsKept
  <2>2. QED
    BY <1>2, <1>3, <1>4, <1>9, <2>1 DEF SetRequestLevel, Waits
<1>10. CASE CompleteRequest
  <2>1. FirableFrom(agregate) = {}
    BY <1>10 DEF CompleteRequest, TypeInv, MainOK
  <2>2. /\ GraphKept
        /\ \A m \in State : m_GONodes'[m].m_completed =>
             m_GONodes[m].m_completed \/ m = agregate
    BY <1>1, <1>3, <1>10, AssignedGraph DEF CompleteRequest
  <2>3. QED
    BY <1>2, <1>3, <1>5, <1>10, <2>1, <2>2 DEF CompleteRequest, Waits
<1>11. CASE CheckBuild
  BY <1>2, <1>3, <1>4, <1>5, <1>11 DEF CheckBuild, Waits
<1>12. CASE SleepBuild
  BY <1>2, <1>3, <1>4, <1>5, <1>12 DEF SleepBuild, Waits
<1>13. CASE SpuriousWakeUpBuild
  BY <1>2, <1>3, <1>4, <1>5, <1>13 DEF SpuriousWakeUpBuild, Waits
<1>14. CASE Finish
  BY <1>2, <1>3, <1>4, <1>5, <1>14 DEF Finish, Waits
<1>15. CASE PrintCompleteInformation
  BY <1>2, <1>3, <1>4, <1>5, <1>15 DEF PrintCompleteInformation, Waits
<1>16. CASE Join
  BY <1>2, <1>3, <1>4, <1>5, <1>16 DEF Join, Waits
<1>17. QED
  BY <1>6, <1>7, <1>8, <1>9, <1>10, <1>11, <1>12, <1>13, <1>14, <1>15, <1>16

(* A builder takes the first couple of the queue. *)
Takes(w) ==
  /\ pc[w] = "pop" /\ Moves(w, "find")
  /\ m_common_stack # <<>> /\ m_common_stack' = Tail(m_common_stack)
  /\ elt' = [elt EXCEPT ![w] = Head(m_common_stack)]
  /\ Head(m_common_stack) \in Couple /\ CoupleOK(Head(m_common_stack))
  /\ UNCHANGED <<m_GONodes, m_nbArcs, counters, m_finish, pos, res, level, fire, checker>>

LEMMA PopTakes ==
  ASSUME TypeInv, NEW w \in Thread, Pop(w), m_common_stack # <<>>
  PROVE  Takes(w)
<1>1. TypeOK /\ m_common_stack \in Seq(Couple)
  BY DEF TypeInv, TypeOK
<1>2. Moves(w, "find")
  BY <1>1, GotoMoves DEF Pop, Working
<1>3. Head(m_common_stack) \in Couple /\ Head(m_common_stack) \in Elements(m_common_stack)
  BY <1>1, PopElements
<1>4. CoupleOK(Head(m_common_stack))
  BY <1>3 DEF TypeInv
<1>5. QED
  BY <1>2, <1>3, <1>4 DEF Pop, Takes

(* A builder that has a couple in its hands: where its transition leads.   *)
LEMMA TakenProperties ==
  ASSUME TypeInv, NEW w \in Thread, pc[w] \in Working
  PROVE  /\ elt[w].state \in State /\ elt[w].t \in FirableFrom(elt[w].state)
         /\ elt[w].t \in Transition
         /\ elt[w] = couple_th(elt[w].state, elt[w].t)
         /\ Reached(w) \in Aggregate
<1>1. TypeOK /\ elt[w].state \in State /\ elt[w].t \in FirableFrom(elt[w].state)
  BY DEF TypeInv, ThreadOK, CoupleOK
<1>2. /\ Agg(elt[w].state) \in Aggregate
      /\ FirableFrom(elt[w].state) = FirableObs[Agg(elt[w].state)]
  BY <1>1, StateProperties
<1>3. elt[w].t \in Transition /\ Reached(w) \in Aggregate
  BY <1>1, <1>2, FirableProperties DEF Reached, Agg
<1>4. elt[w] \in [state : Nat, t : Transition \cup {NoTransition}]
  BY <1>1 DEF TypeOK
<1>5. elt[w] = couple_th(elt[w].state, elt[w].t)
  BY <1>4 DEF couple_th
<1>6. QED
  BY <1>1, <1>3, <1>5

(* A state is added, with no edge, level zero and counter zero.            *)
Grows(a) ==
  LET n == Len(m_GONodes) + 1
  IN  /\ n \in Nat /\ n \notin State /\ a \in Aggregate
      /\ m_GONodes' \in Seq(LDDState)
      /\ State' = State \cup {n}
      /\ \A m \in State : m_GONodes'[m] = m_GONodes[m]
      /\ m_GONodes'[n] = NewState(a)
      /\ Len(m_GONodes') = n
      /\ m_currentLevel' \in Seq(Nat) /\ Len(m_currentLevel') = n
      /\ m_nbSuccessorsToBeProcessed' \in Seq(Nat) /\ Len(m_nbSuccessorsToBeProcessed') = n
      /\ \A m \in State : m_nbSuccessorsToBeProcessed'[m] = m_nbSuccessorsToBeProcessed[m]
      /\ m_nbSuccessorsToBeProcessed'[n] = 0

LEMMA InsertFindEffect ==
  ASSUME TypeInv, NEW w \in Thread, InsertFind(w)
  PROVE  /\ pc[w] = "find" /\ Moves(w, "link")
         /\ pos' \in [Thread -> Nat] /\ \A v \in Thread \ {w} : pos'[v] = pos[v]
         /\ res' \in [Thread -> BOOLEAN]
         /\ \/ /\ pos'[w] \in State /\ Agg(pos'[w]) = Reached(w)
               /\ UNCHANGED <<m_GONodes, counters>>
            \/ Grows(Reached(w)) /\ pos'[w] = Len(m_GONodes) + 1
         /\ UNCHANGED <<m_nbArcs, m_common_stack, m_finish, elt, level, fire, checker>>
<1>1. TypeOK /\ pc[w] = "find" /\ Goto(w, "link")
  BY DEF TypeInv, InsertFind
<1>2. Moves(w, "link")
  BY <1>1, GotoMoves DEF Placed, Working
<1>3. pos \in [Thread -> Nat] /\ res \in [Thread -> BOOLEAN]
  BY <1>1 DEF TypeOK
<1>4. Reached(w) \in Aggregate
  BY <1>1, TakenProperties DEF Working
<1>5. CASE \E n \in StatesOf(m_GONodes, Reached(w)) :
             /\ pos' = [pos EXCEPT ![w] = n]
             /\ res' = [res EXCEPT ![w] = TRUE]
             /\ UNCHANGED <<m_GONodes, counters>>
  <2>1. PICK n \in StatesOf(m_GONodes, Reached(w)) :
          /\ pos' = [pos EXCEPT ![w] = n]
          /\ res' = [res EXCEPT ![w] = TRUE]
          /\ UNCHANGED <<m_GONodes, counters>>
    BY <1>5
  <2>2. n \in State /\ Agg(n) = Reached(w)
    BY DEF StatesOf, State, Agg
  <2>3. n \in Nat
    BY <1>1, <2>2, StateProperties
  <2>4. QED
    BY <1>1, <1>2, <1>3, <2>1, <2>2, <2>3 DEF InsertFind
<1>6. CASE /\ m_GONodes' = insert(m_GONodes, NewState(Reached(w)))
           /\ m_currentLevel' = Append(m_currentLevel, 0)
           /\ m_nbSuccessorsToBeProcessed' = Append(m_nbSuccessorsToBeProcessed, 0)
           /\ pos' = [pos EXCEPT ![w] = Len(m_GONodes) + 1]
           /\ res' = [res EXCEPT ![w] = FALSE]
  <2>1. NewState(Reached(w)) \in LDDState /\ m_GONodes \in Seq(LDDState)
    BY <1>1, <1>4, NewStateType DEF TypeOK
  <2>2. /\ m_GONodes' \in Seq(LDDState)
        /\ Len(m_GONodes) + 1 \in Nat /\ Len(m_GONodes) + 1 \notin State
        /\ State' = State \cup {Len(m_GONodes) + 1}
        /\ \A m \in State : m_GONodes'[m] = m_GONodes[m]
        /\ m_GONodes'[Len(m_GONodes) + 1] = NewState(Reached(w))
    BY <1>6, <2>1, InsertProperties DEF State
  <2>3. Len(m_GONodes') = Len(m_GONodes) + 1
    BY <1>6, <2>1, AppendProperties DEF insert
  <2>4. /\ m_currentLevel \in Seq(Nat) /\ m_nbSuccessorsToBeProcessed \in Seq(Nat)
        /\ Len(m_currentLevel) = Len(m_GONodes)
        /\ Len(m_nbSuccessorsToBeProcessed) = Len(m_GONodes)
        /\ State = 1 .. Len(m_GONodes)
    BY <1>1, <2>1, GraphDomain DEF TypeInv, TypeOK, State
  <2>5. m_currentLevel' \in Seq(Nat) /\ Len(m_currentLevel') = Len(m_GONodes) + 1
    BY <1>6, <2>4, AppendProperties
  <2>6. /\ m_nbSuccessorsToBeProcessed' \in Seq(Nat)
        /\ Len(m_nbSuccessorsToBeProcessed') = Len(m_GONodes) + 1
        /\ \A m \in State : m_nbSuccessorsToBeProcessed'[m] = m_nbSuccessorsToBeProcessed[m]
        /\ m_nbSuccessorsToBeProcessed'[Len(m_GONodes) + 1] = 0
    BY <1>6, <2>4, AppendProperties
  <2>7. Grows(Reached(w))
    BY <1>4, <2>2, <2>3, <2>5, <2>6 DEF Grows
  <2>8. pos' \in [Thread -> Nat] /\ pos'[w] = Len(m_GONodes) + 1
        /\ \A v \in Thread \ {w} : pos'[v] = pos[v]
    BY <1>3, <1>6, <2>2
  <2>9. QED
    BY <1>1, <1>2, <1>3, <1>6, <2>7, <2>8 DEF InsertFind
<1>7. QED
  BY <1>5, <1>6 DEF InsertFind

LEMMA LinkEffect ==
  ASSUME TypeInv, NEW w \in Thread, Link(w)
  PROVE  /\ pc[w] = "link"
         /\ \E lbl \in {"flags", "dec"} : Moves(w, lbl)
         /\ elt[w].state \in State /\ pos[w] \in State /\ elt[w].t \in Transition
         /\ Linked(m_GONodes, m_GONodes', elt[w].state, pos[w], elt[w].t)
         /\ UNCHANGED <<m_nbArcs, counters, m_common_stack, m_finish, local, checker>>
<1>1. TypeOK /\ pc[w] = "link" /\ \E lbl \in {"flags", "dec"} : Goto(w, lbl)
  BY DEF TypeInv, Link
<1>2. \E lbl \in {"flags", "dec"} : Moves(w, lbl)
  BY <1>1, GotoMoves DEF Placed, Working
<1>3. elt[w].state \in State /\ pos[w] \in State /\ elt[w].t \in Transition
  BY <1>1, PlacedProperties, TakenProperties DEF Placed, Working
<1>4. Linked(m_GONodes, m_GONodes', elt[w].state, pos[w], elt[w].t)
  <2>1. m_GONodes' = AddPredecessor(AddSuccessor(m_GONodes, elt[w].state, pos[w], elt[w].t),
                                    pos[w], elt[w].state, elt[w].t)
    BY DEF Link
  <2>2. QED
    BY <1>1, <1>3, <2>1, AddEdgeProperties DEF TypeOK, State
<1>5. QED
  BY <1>1, <1>2, <1>3, <1>4 DEF Link

LEMMA DecrementEffect ==
  ASSUME TypeInv, NEW w \in Thread, Decrement(w)
  PROVE  LET n == elt[w].state
             c == m_nbSuccessorsToBeProcessed
         IN  /\ pc[w] = "dec" /\ Moves(w, "test") /\ n \in State
             /\ c[n] \in Nat
             /\ c' \in Seq(Nat) /\ Len(c') = Len(c)
             /\ c'[n] = (c[n] + Modulus - 1) % Modulus
             /\ \A m \in State \ {n} : c'[m] = c[m]
             /\ UNCHANGED <<m_GONodes, m_nbArcs, m_currentLevel, m_common_stack, m_finish, local,
                            checker>>
<1>1. TypeOK /\ pc[w] = "dec" /\ Goto(w, "test")
  BY DEF TypeInv, Decrement
<1>2. Moves(w, "test")
  BY <1>1, GotoMoves DEF Placed, Working
<1>3. elt[w].state \in State
  BY <1>1, PlacedProperties DEF Placed
<1>4. PICK n : n = elt[w].state
  OBVIOUS
<1>5. PICK k : k = (m_nbSuccessorsToBeProcessed[n] + Modulus - 1) % Modulus
  OBVIOUS
<1>6. m_nbSuccessorsToBeProcessed[n] \in Nat
  BY <1>3, <1>4, LevelType
<1>7. Modulus \in Nat \ {0}
  BY ModelCheckThReqAssumption
<1>8. k \in Nat
  BY <1>5, <1>6, <1>7
<1>9. m_nbSuccessorsToBeProcessed' = [m_nbSuccessorsToBeProcessed EXCEPT ![n] = k]
  BY <1>4, <1>5 DEF Decrement
<1>10. QED
  BY <1>1, <1>2, <1>3, <1>4, <1>5, <1>6, <1>8, <1>9, AssignedNumber DEF Decrement

LEMMA CountEffect ==
  ASSUME TypeInv, NEW w \in Thread, Count(w)
  PROVE  LET n == pos[w]
             c == m_nbSuccessorsToBeProcessed
         IN  /\ pc[w] = "count" /\ n \in State
             /\ Moves(w, IF FirableFrom(n) = {} THEN "completePos" ELSE "push")
             /\ fire' \in [Thread -> SUBSET Transition] /\ fire'[w] = FirableFrom(n)
             /\ \A v \in Thread \ {w} : fire'[v] = fire[v]
             /\ c' \in Seq(Nat) /\ Len(c') = Len(c)
             /\ c'[n] = Cardinality(FirableFrom(n))
             /\ \A m \in State \ {n} : c'[m] = c[m]
             /\ UNCHANGED <<m_GONodes, m_nbArcs, m_currentLevel, m_common_stack, m_finish, elt,
                            pos, res, level, checker>>
<1>1. TypeOK /\ pc[w] = "count" /\ Goto(w, IF FirableFrom(pos[w]) = {} THEN "completePos" ELSE "push")
  BY DEF TypeInv, Count
<1>2. Moves(w, IF FirableFrom(pos[w]) = {} THEN "completePos" ELSE "push")
  BY <1>1, GotoMoves DEF Placed, Working
<1>3. pos[w] \in State
  BY <1>1, PlacedProperties DEF Placed
<1>4. FirableFrom(pos[w]) \subseteq Transition /\ Cardinality(FirableFrom(pos[w])) \in Nat
  BY <1>1, <1>3, StateProperties
<1>5. PICK n, k, f : n = pos[w] /\ k = Cardinality(FirableFrom(pos[w])) /\ f = FirableFrom(pos[w])
  OBVIOUS
<1>6. m_nbSuccessorsToBeProcessed' = [m_nbSuccessorsToBeProcessed EXCEPT ![n] = k]
      /\ fire' = [fire EXCEPT ![w] = f]
  BY <1>5 DEF Count
<1>7. /\ m_nbSuccessorsToBeProcessed' \in Seq(Nat)
      /\ Len(m_nbSuccessorsToBeProcessed') = Len(m_nbSuccessorsToBeProcessed)
      /\ m_nbSuccessorsToBeProcessed'[n] = k
      /\ \A m \in State \ {n} : m_nbSuccessorsToBeProcessed'[m] = m_nbSuccessorsToBeProcessed[m]
  BY <1>3, <1>4, <1>5, <1>6, AssignedNumber
<1>8. /\ fire' \in [Thread -> SUBSET Transition] /\ fire'[w] = f
      /\ \A v \in Thread \ {w} : fire'[v] = fire[v]
  BY <1>1, <1>4, <1>5, <1>6 DEF TypeOK
<1>9. QED
  BY <1>1, <1>2, <1>3, <1>5, <1>7, <1>8 DEF Count

LEMMA PushEffect ==
  ASSUME TypeInv, NEW w \in Thread, Push(w)
  PROVE  /\ pc[w] = "push" /\ pos[w] \in State
         /\ \E u \in fire[w] :
              /\ Moves(w, IF fire[w] = {u} THEN "arc" ELSE "push")
              /\ couple_th(pos[w], u) \in Couple /\ u \in FirableFrom(pos[w])
              /\ m_common_stack' = Append(m_common_stack, couple_th(pos[w], u))
              /\ fire' \in [Thread -> SUBSET Transition] /\ fire'[w] = fire[w] \ {u}
              /\ \A v \in Thread \ {w} : fire'[v] = fire[v]
         /\ UNCHANGED <<m_GONodes, m_nbArcs, counters, m_finish, elt, pos, res, level, checker>>
<1>1. TypeOK /\ pc[w] = "push"
  BY DEF TypeInv, Push
<1>2. pos[w] \in State /\ fire[w] \subseteq FirableFrom(pos[w])
  BY <1>1, PlacedProperties DEF Placed, TypeInv, ThreadOK
<1>3. PICK u \in fire[w] :
        /\ m_common_stack' = Append(m_common_stack, couple_th(pos[w], u))
        /\ fire' = [fire EXCEPT ![w] = @ \ {u}]
        /\ Goto(w, IF fire[w] = {u} THEN "arc" ELSE "push")
  BY DEF Push
<1>4. Moves(w, IF fire[w] = {u} THEN "arc" ELSE "push")
  BY <1>1, <1>3, GotoMoves DEF Placed, Working
<1>5. u \in FirableFrom(pos[w]) /\ u \in Transition /\ pos[w] \in Nat
  BY <1>1, <1>2, StateProperties
<1>6. couple_th(pos[w], u) \in Couple
  BY <1>5 DEF couple_th, Couple
<1>7. /\ fire' \in [Thread -> SUBSET Transition] /\ fire'[w] = fire[w] \ {u}
      /\ \A v \in Thread \ {w} : fire'[v] = fire[v]
  BY <1>1, <1>3 DEF TypeOK
<1>8. QED
  BY <1>1, <1>2, <1>3, <1>4, <1>5, <1>6, <1>7 DEF Push

LEMMA GetInitialEffect ==
  ASSUME TypeInv, GetInitial
  PROVE  LET f == FirableObs[InitialAggregate]
         IN  /\ mcPc = "initial" /\ State = {} /\ State' = {1}
             /\ m_GONodes' \in Seq(LDDState) /\ Len(m_GONodes') = 1
             /\ Agg(1)' = InitialAggregate /\ FirableFrom(1)' = f
             /\ m_GONodes'[1].Successors = <<>>
             /\ m_GONodes'[1].m_completed = (f = {})
             /\ m_currentLevel' \in Seq(Nat) /\ Len(m_currentLevel') = 1
             /\ m_nbSuccessorsToBeProcessed' \in Seq(Nat) /\ Len(m_nbSuccessorsToBeProcessed') = 1
             /\ m_nbSuccessorsToBeProcessed'[1] = Cardinality(f)
             /\ agregate' = 1 /\ mcFire' = f /\ f \subseteq Transition
             /\ mcPc' = IF f = {} THEN "explore" ELSE "push"
             /\ UNCHANGED <<m_nbArcs, m_common_stack, m_finish, builder, mcLevel>>
<1> DEFINE s == WithFlags(NewState(InitialAggregate))
<1> DEFINE f == FirableObs[InitialAggregate]
<1>1. mcPc = "initial" /\ State = {}
  BY DEF GetInitial, TypeInv, MainOK
<1>2. /\ InitialAggregate \in Aggregate /\ f \subseteq Transition /\ IsFiniteSet(f)
      /\ Cardinality(f) \in Nat
  BY SOGAssumption, ModelCheckThReqAssumption, FS_CardinalityType
<1>3. NewState(InitialAggregate) \in LDDState
  BY <1>2, NewStateType
<1>4. s \in LDDState /\ s.m_lddstate = InitialAggregate /\ s.Successors = <<>>
  BY <1>3, WithFlagsType DEF NewState
<1> HIDE DEF s
<1>5. PICK b \in BOOLEAN : b = (f = {})
  OBVIOUS
<1> DEFINE r == [s EXCEPT !.m_visited = TRUE, !.m_completed = b]
<1>6. m_GONodes' = <<r>>
  BY <1>5, Zenon DEF GetInitial, s
<1>7. r \in LDDState /\ r.m_lddstate = InitialAggregate /\ r.Successors = <<>> /\ r.m_completed = b
  BY <1>4 DEF LDDState
<1> HIDE DEF r
<1>8. /\ m_GONodes' \in Seq(LDDState) /\ Len(m_GONodes') = 1 /\ DOMAIN m_GONodes' = {1}
      /\ m_GONodes'[1] = r
  BY <1>6, <1>7
<1>9. /\ State' = {1} /\ Agg(1)' = InitialAggregate /\ FirableFrom(1)' = f
      /\ m_GONodes'[1].Successors = <<>> /\ m_GONodes'[1].m_completed = b
  BY <1>7, <1>8 DEF State, Agg, FirableFrom
<1>10. LEVEL \in Nat
  BY ModelCheckThReqAssumption
<1>11. /\ m_currentLevel' \in Seq(Nat) /\ Len(m_currentLevel') = 1
       /\ m_nbSuccessorsToBeProcessed' \in Seq(Nat) /\ Len(m_nbSuccessorsToBeProcessed') = 1
       /\ m_nbSuccessorsToBeProcessed'[1] = Cardinality(f)
  BY <1>2, <1>10 DEF GetInitial
<1>12. QED
  BY <1>1, <1>2, <1>5, <1>8, <1>9, <1>11, Zenon DEF GetInitial

LEMMA CountRequestEffect ==
  ASSUME TypeInv, CountRequest
  PROVE  LET n == agregate
             c == m_nbSuccessorsToBeProcessed
         IN  /\ mcPc \in {"count", "recount"} /\ n \in State
             /\ mcPc' = IF FirableFrom(n) = {} THEN "complete"
                        ELSE IF mcPc = "count" THEN "recount" ELSE "push"
             /\ mcFire' = FirableFrom(n) /\ FirableFrom(n) \subseteq Transition
             /\ c' \in Seq(Nat) /\ Len(c') = Len(c)
             /\ c'[n] = Cardinality(FirableFrom(n))
             /\ \A m \in State \ {n} : c'[m] = c[m]
             /\ UNCHANGED <<m_GONodes, m_nbArcs, m_currentLevel, m_common_stack, m_finish,
                            builder, agregate, mcLevel>>
<1>1. TypeOK /\ mcPc \in {"count", "recount"} /\ agregate \in State
  BY DEF TypeInv, MainOK, CountRequest
<1>2. FirableFrom(agregate) \subseteq Transition /\ Cardinality(FirableFrom(agregate)) \in Nat
  BY <1>1, StateProperties
<1>3. PICK n, k : n = agregate /\ k = Cardinality(FirableFrom(agregate))
  OBVIOUS
<1>4. m_nbSuccessorsToBeProcessed' = [m_nbSuccessorsToBeProcessed EXCEPT ![n] = k]
  BY <1>3 DEF CountRequest
<1>5. QED
  BY <1>1, <1>2, <1>3, <1>4, AssignedNumber DEF CountRequest

LEMMA PushRequestEffect ==
  ASSUME TypeInv, PushRequest
  PROVE  /\ mcPc = "push" /\ agregate \in State
         /\ \E u \in mcFire :
              /\ mcPc' = IF mcFire = {u} THEN "check" ELSE "push"
              /\ couple_th(agregate, u) \in Couple /\ u \in FirableFrom(agregate)
              /\ m_common_stack' = Append(m_common_stack, couple_th(agregate, u))
              /\ mcFire' = mcFire \ {u} /\ mcFire \subseteq Transition
         /\ UNCHANGED <<m_GONodes, m_nbArcs, counters, m_finish, builder, agregate, mcLevel>>
<1>1. TypeOK /\ mcPc = "push" /\ agregate \in State /\ mcFire \subseteq FirableFrom(agregate)
  BY DEF TypeInv, MainOK, PushRequest
<1>2. FirableFrom(agregate) \subseteq Transition /\ agregate \in Nat
  BY <1>1, StateProperties
<1>3. \A u \in mcFire : couple_th(agregate, u) \in Couple
  BY <1>1, <1>2 DEF couple_th, Couple
<1>4. QED
  BY <1>1, <1>2, <1>3 DEF PushRequest

(* The cases of a step, as the lemmas above describe them. *)
StepCase ==
  \/ \E w \in Thread : \/ Walks(w) \/ Takes(w) \/ InsertFind(w) \/ Link(w) \/ Decrement(w)
                       \/ Count(w) \/ Push(w)
  \/ Waits \/ GetInitial \/ CountRequest \/ PushRequest
  \/ UNCHANGED vars

LEMMA StepCases ==
  ASSUME TypeInv, [Next]_vars
  PROVE  StepCase
<1>1. ASSUME NEW w \in Thread, BuilderStep(w)
      PROVE  StepCase
  <2>1. CASE Pop(w)
    BY <2>1, WalkSteps, PopTakes DEF StepCase
  <2>2. CASE SetFlags(w) \/ Complete(w) \/ CompletePos(w)
    BY <2>2, FlagSteps DEF StepCase
  <2>3. CASE \/ Loop(w) \/ TestZero(w) \/ Notify(w)
             \/ TestLevel(w) \/ LevelArgument(w) \/ ReadLevel(w) \/ SetLevel(w) \/ TestDeeper(w)
             \/ NotifyPos(w) \/ AddArc(w)
    BY <2>3, WalkSteps DEF StepCase
  <2>4. CASE InsertFind(w) \/ Link(w) \/ Decrement(w) \/ Count(w) \/ Push(w)
    BY <2>4 DEF StepCase
  <2>5. QED
    BY <1>1, <2>1, <2>2, <2>3, <2>4 DEF BuilderStep
<1>2. ASSUME CheckerStep \/ SpuriousWakeUpBuild
      PROVE  StepCase
  <2>1. CASE \/ Explore \/ TestRequest \/ ReadRequestLevel \/ SetRequestLevel \/ CompleteRequest
             \/ CheckBuild \/ SleepBuild \/ SpuriousWakeUpBuild \/ Finish
             \/ PrintCompleteInformation \/ Join
    BY <2>1, WaitSteps DEF StepCase
  <2>2. CASE GetInitial \/ CountRequest \/ PushRequest
    BY <2>2 DEF StepCase
  <2>3. QED
    BY <1>2, <2>1, <2>2 DEF CheckerStep
<1>3. QED
  BY <1>1, <1>2 DEF Next, StepCase

-----------------------------------------------------------------------------
(* The types. *)

(* States, their aggregates and their edges only come, and stay.           *)
Preserved ==
  /\ State \subseteq State'
  /\ \A n \in State :
       /\ Agg(n)' = Agg(n) /\ FirableFrom(n)' = FirableFrom(n)
       /\ TransitionsOf(m_GONodes[n]) \subseteq TransitionsOf(m_GONodes[n])'

LEMMA KeptPreserved ==
  ASSUME GraphKept
  PROVE  /\ Preserved
         /\ TypeInv => EdgesOK'
<1>1. Preserved
  BY DEF GraphKept, Preserved, FirableFrom, Agg, TransitionsOf
<1>2. \A n \in State : Links(m_GONodes[n])' = Links(m_GONodes[n])
  BY DEF GraphKept, Links
<1>3. QED
  BY <1>1, <1>2 DEF TypeInv, EdgesOK, Preserved, GraphKept

(* A thread that stays where it is, and a couple, stay right. *)
LEMMA ThreadPreserved ==
  ASSUME TypeInv, Preserved, NEW w \in Thread, UNCHANGED <<pc[w], elt[w], pos[w], fire[w]>>
  PROVE  ThreadOK(w)'
<1>1. ThreadOK(w)
  BY DEF TypeInv
<1>2. pc[w] \in Working => CoupleOK(elt[w]) /\ CoupleOK(elt[w])' /\ Reached(w)' = Reached(w)
  BY <1>1 DEF ThreadOK, CoupleOK, Preserved, Reached, Agg
<1>3. pc[w] \in Placed =>
        pos[w] \in State /\ pos[w] \in State' /\ Agg(pos[w])' = Agg(pos[w])
          /\ FirableFrom(pos[w])' = FirableFrom(pos[w])
  BY <1>1 DEF ThreadOK, Preserved
<1>4. QED
  BY <1>1, <1>2, <1>3 DEF ThreadOK, CoupleOK, Preserved, Agg, Unsettled, Placed, Working

LEMMA CouplePreserved ==
  ASSUME Preserved, NEW z, CoupleOK(z)
  PROVE  CoupleOK(z)'
BY DEF CoupleOK, Preserved

(* What the types of the queue become. *)
LEMMA QueuePreserved ==
  ASSUME TypeInv, Preserved,
         \/ UNCHANGED m_common_stack
         \/ m_common_stack # <<>> /\ m_common_stack' = Tail(m_common_stack)
         \/ \E z \in Couple : CoupleOK(z)' /\ m_common_stack' = Append(m_common_stack, z)
  PROVE  /\ m_common_stack' \in Seq(Couple)
         /\ \A z \in Elements(m_common_stack)' : CoupleOK(z)'
<1>1. /\ m_common_stack \in Seq(Couple)
      /\ \A z \in Elements(m_common_stack) : CoupleOK(z)'
  BY CouplePreserved DEF TypeInv, TypeOK
<1>2. CASE UNCHANGED m_common_stack
  BY <1>1, <1>2 DEF Elements
<1>3. CASE m_common_stack # <<>> /\ m_common_stack' = Tail(m_common_stack)
  <2>1. m_common_stack' \in Seq(Couple) /\ Elements(m_common_stack)' \subseteq Elements(m_common_stack)
    BY <1>1, <1>3, PopElements DEF Elements
  <2>2. QED
    BY <1>1, <2>1
<1>4. CASE \E z \in Couple : CoupleOK(z)' /\ m_common_stack' = Append(m_common_stack, z)
  <2>1. PICK z \in Couple : CoupleOK(z)' /\ m_common_stack' = Append(m_common_stack, z)
    BY <1>4
  <2>2. m_common_stack' \in Seq(Couple) /\ Elements(m_common_stack') = Elements(m_common_stack) \cup {z}
    BY <1>1, <2>1, AppendElements
  <2>3. Elements(m_common_stack)' = Elements(m_common_stack')
    BY DEF Elements
  <2>4. QED
    BY <1>1, <2>1, <2>2, <2>3
<1>5. QED
  BY <1>2, <1>3, <1>4

LEMMA LengthKept ==
  ASSUME TypeOK, GraphKept
  PROVE  Len(m_GONodes') = Len(m_GONodes)
<1>1. DOMAIN m_GONodes' = DOMAIN m_GONodes /\ m_GONodes' \in Seq(LDDState)
  BY DEF GraphKept, State
<1>2. QED
  BY <1>1, GraphDomain DEF TypeOK

LEMMA WalksType ==
  ASSUME TypeInv, NEW w \in Thread, Walks(w)
  PROVE  TypeInv'
<1> USE DEF Placed, Working, Resting, Unsettled
<1>1. TypeOK /\ ThreadOK(w) /\ MainOK
  BY DEF TypeInv
<1>2. Preserved /\ EdgesOK'
  BY KeptPreserved DEF Walks
<1>3. TypeOK'
  BY <1>1 DEF TypeOK, Walks, Moves, GraphKept, LevelsKept, MainLabel
<1>4. Len(m_currentLevel)' = Len(m_GONodes)' /\ Len(m_nbSuccessorsToBeProcessed)' = Len(m_GONodes)'
  BY <1>1, LengthKept DEF Walks, LevelsKept, TypeInv
<1>5. m_common_stack' \in Seq(Couple) /\ \A z \in Elements(m_common_stack)' : CoupleOK(z)'
  BY <1>2, QueuePreserved DEF Walks
<1>6. ASSUME NEW v \in Thread
      PROVE  ThreadOK(v)'
  <2>1. CASE v # w
    BY <1>2, <2>1, ThreadPreserved DEF Walks, Moves
  <2>2. CASE v = w
    <3>1. pc'[w] \in Working => CoupleOK(elt[w]) /\ pc[w] \in Placed
      BY <1>1 DEF Walks, ThreadOK
    <3>2. pc'[w] \in Placed => pos[w] \in State
      BY <1>1 DEF Walks, ThreadOK
    <3>3. pc'[w] \in Unsettled => elt[w].t \in TransitionsOf(m_GONodes[elt[w].state])
      BY <1>1 DEF Walks, ThreadOK
    <3>4. pc'[w] \notin {"link", "push", "completePos"}
      BY DEF Walks
    <3>5. CoupleOK(elt[w]) => CoupleOK(elt[w])'
      BY <1>2, CouplePreserved DEF CoupleOK, Walks, Preserved
    <3>6. QED
      BY <1>2, <2>2, <3>1, <3>2, <3>3, <3>4, <3>5 DEF Walks, ThreadOK, CoupleOK, Preserved
  <2>3. QED
    BY <2>1, <2>2
<1>7. MainOK'
  BY <1>1, <1>2 DEF MainOK, Walks, GraphKept, Preserved
<1>8. QED
  BY <1>2, <1>3, <1>4, <1>5, <1>6, <1>7 DEF TypeInv

LEMMA WaitsType ==
  ASSUME TypeInv, Waits
  PROVE  TypeInv'
<1>1. TypeOK /\ MainOK
  BY DEF TypeInv
<1>2. Preserved /\ EdgesOK'
  BY KeptPreserved DEF Waits
<1>3. agregate' \in Nat
  BY <1>1, StateProperties DEF Waits
<1>4. TypeOK'
  BY <1>1, <1>3 DEF TypeOK, Waits, GraphKept, LevelsKept
<1>5. Len(m_currentLevel)' = Len(m_GONodes)' /\ Len(m_nbSuccessorsToBeProcessed)' = Len(m_GONodes)'
  BY <1>1, LengthKept DEF Waits, LevelsKept, TypeInv
<1>6. \A z \in Elements(m_common_stack)' : CoupleOK(z)'
  BY <1>2, QueuePreserved DEF Waits
<1>7. \A v \in Thread : ThreadOK(v)'
  BY <1>2, ThreadPreserved DEF Waits
<1>8. MainOK'
  BY <1>1 DEF MainOK, Waits, GraphKept
<1>9. QED
  BY <1>2, <1>4, <1>5, <1>6, <1>7, <1>8 DEF TypeInv

LEMMA TakesType ==
  ASSUME TypeInv, NEW w \in Thread, Takes(w)
  PROVE  TypeInv'
<1> USE DEF Placed, Working, Resting, Unsettled, counters, checker
<1>1. TypeOK /\ ThreadOK(w) /\ MainOK
  BY DEF TypeInv
<1>2. GraphKept
  BY <1>1, UnchangedGraph DEF Takes
<1>3. Preserved /\ EdgesOK'
  BY <1>2, KeptPreserved
<1>4. m_common_stack' \in Seq(Couple) /\ \A z \in Elements(m_common_stack)' : CoupleOK(z)'
  BY <1>3, QueuePreserved DEF Takes
<1>5. elt' \in [Thread -> [state : Nat, t : Transition \cup {NoTransition}]]
  BY <1>1 DEF TypeOK, Takes, Couple
<1>6. TypeOK'
  BY <1>1, <1>4, <1>5 DEF TypeOK, Takes, Moves
<1>7. Len(m_currentLevel)' = Len(m_GONodes)' /\ Len(m_nbSuccessorsToBeProcessed)' = Len(m_GONodes)'
  BY DEF Takes, TypeInv
<1>8. ASSUME NEW v \in Thread
      PROVE  ThreadOK(v)'
  <2>1. CASE v # w
    <3>1. elt'[v] = elt[v]
      BY <1>1, <2>1 DEF Takes, TypeOK
    <3>2. QED
      BY <1>3, <2>1, <3>1, ThreadPreserved DEF Takes, Moves
  <2>2. CASE v = w
    <3>1. elt'[w] = Head(m_common_stack) /\ pc'[w] = "find"
      BY <1>1 DEF TypeOK, Takes, Moves
    <3>2. CoupleOK(elt[w])'
      BY <1>3, <3>1 DEF Takes, CoupleOK, Preserved
    <3>3. QED
      BY <2>2, <3>1, <3>2 DEF ThreadOK
  <2>3. QED
    BY <2>1, <2>2
<1>9. MainOK'
  BY <1>1, <1>2, <1>3 DEF MainOK, Takes, GraphKept, Preserved
<1>10. QED
  BY <1>3, <1>4, <1>6, <1>7, <1>8, <1>9 DEF TypeInv

(* A state is added. *)
LEMMA GrowsPreserved ==
  ASSUME TypeInv, NEW a, Grows(a)
  PROVE  /\ Preserved /\ EdgesOK'
         /\ m_GONodes'[Len(m_GONodes) + 1].m_lddstate = a
<1>1. PICK n : n = Len(m_GONodes) + 1
  OBVIOUS
<1>2. m_GONodes'[n].m_lddstate = a /\ m_GONodes'[n].Successors = <<>>
  BY <1>1 DEF Grows, NewState
<1>3. State' = State \cup {n} /\ \A m \in State : m_GONodes'[m] = m_GONodes[m]
  BY <1>1 DEF Grows
<1>4. Preserved
  BY <1>3 DEF Preserved, FirableFrom, Agg
<1>5. Links(m_GONodes[n])' = {}
  BY <1>2 DEF Links
<1>6. \A m \in State : /\ Links(m_GONodes[m])' = Links(m_GONodes[m]) /\ m \in State'
                       /\ FirableFrom(m)' = FirableFrom(m)
  BY <1>3, <1>4 DEF Links, Preserved
<1>7. \A m \in State : \A u \in Links(m_GONodes[m]) : u.to \in State' /\ u.t \in FirableFrom(m)
  BY <1>3 DEF TypeInv, EdgesOK
<1>8. EdgesOK'
  BY <1>3, <1>5, <1>6, <1>7 DEF EdgesOK
<1>9. QED
  BY <1>1, <1>2, <1>4, <1>8

LEMMA InsertFindType ==
  ASSUME TypeInv, NEW w \in Thread, InsertFind(w)
  PROVE  TypeInv'
<1> USE DEF Placed, Working, Resting, Unsettled, counters, checker
<1>1. TypeOK /\ ThreadOK(w) /\ MainOK
  BY DEF TypeInv
<1>2. /\ Preserved /\ EdgesOK'
      /\ m_GONodes' \in Seq(LDDState)
      /\ m_currentLevel' \in Seq(Nat) /\ m_nbSuccessorsToBeProcessed' \in Seq(Nat)
      /\ Len(m_currentLevel)' = Len(m_GONodes)' /\ Len(m_nbSuccessorsToBeProcessed)' = Len(m_GONodes)'
      /\ pos'[w] \in State' /\ Agg(pos[w])' = Reached(w)
  <2>1. CASE /\ pos'[w] \in State /\ Agg(pos'[w]) = Reached(w)
             /\ UNCHANGED <<m_GONodes, counters>>
    <3>1. GraphKept
      BY <1>1, <2>1, UnchangedGraph
    <3>2. QED
      BY <1>1, <2>1, <3>1, KeptPreserved DEF TypeInv, TypeOK, State, Agg
  <2>2. CASE Grows(Reached(w)) /\ pos'[w] = Len(m_GONodes) + 1
    BY <2>2, GrowsPreserved DEF Grows, Agg
  <2>3. QED
    BY <2>1, <2>2, InsertFindEffect
<1>3. /\ pc[w] = "find" /\ Moves(w, "link")
      /\ pos' \in [Thread -> Nat] /\ res' \in [Thread -> BOOLEAN]
      /\ \A v \in Thread \ {w} : pos'[v] = pos[v]
      /\ UNCHANGED <<m_nbArcs, m_common_stack, m_finish, elt, level, fire, checker>>
  BY InsertFindEffect
<1>4. \A z \in Elements(m_common_stack)' : CoupleOK(z)'
  BY <1>2, <1>3, QueuePreserved
<1>5. TypeOK'
  BY <1>1, <1>2, <1>3 DEF TypeOK, Moves
<1>6. ASSUME NEW v \in Thread
      PROVE  ThreadOK(v)'
  <2>1. CASE v # w
    BY <1>2, <1>3, <2>1, ThreadPreserved DEF Moves
  <2>2. CASE v = w
    <3>1. pc'[w] = "link" /\ CoupleOK(elt[w]) /\ elt' = elt
      BY <1>1, <1>3 DEF ThreadOK, Moves
    <3>2. CoupleOK(elt[w])' /\ Reached(w)' = Reached(w)
      BY <1>2, <3>1 DEF CoupleOK, Preserved, Reached, Agg
    <3>3. QED
      BY <1>2, <2>2, <3>1, <3>2 DEF ThreadOK
  <2>3. QED
    BY <2>1, <2>2
<1>7. MainOK'
  <2>1. mcPc # "initial" /\ State' # {}
    BY <1>1, <1>2, <1>3 DEF MainOK, ThreadOK, CoupleOK
  <2>2. QED
    BY <1>1, <1>2, <1>3, <2>1 DEF MainOK, Preserved
<1>8. QED
  BY <1>2, <1>4, <1>5, <1>6, <1>7 DEF TypeInv

(* An edge is added. *)
LEMMA LinkPreserved ==
  ASSUME TypeInv, NEW w \in Thread, Link(w)
  PROVE  /\ Preserved /\ EdgesOK' /\ State' = State
         /\ elt[w].t \in TransitionsOf(m_GONodes'[elt[w].state])
         /\ m_GONodes' \in Seq(LDDState) /\ Len(m_GONodes') = Len(m_GONodes)
<1>1. TypeOK /\ elt[w].state \in State /\ pos[w] \in State /\ elt[w].t \in Transition
      /\ Linked(m_GONodes, m_GONodes', elt[w].state, pos[w], elt[w].t)
      /\ elt[w].t \in FirableFrom(elt[w].state)
  BY LinkEffect, PlacedProperties DEF TypeInv, Placed
<1>2. PICK n, m, u : n = elt[w].state /\ m = pos[w] /\ u = elt[w].t
  OBVIOUS
<1>3. /\ State' = State /\ m_GONodes' \in Seq(LDDState) /\ n \in State /\ m \in Nat
      /\ \A k \in State : /\ m_GONodes[k] \in LDDState
                          /\ Agg(k)' = Agg(k) /\ FirableFrom(k)' = FirableFrom(k)
      /\ m_GONodes'[n].Successors = <<[to |-> m, t |-> u]>> \o m_GONodes[n].Successors
      /\ \A k \in State \ {n} : m_GONodes'[k].Successors = m_GONodes[k].Successors
  BY <1>1, <1>2, StateProperties DEF Linked, SameButEdges, State, Agg, FirableFrom
<1>4. TransitionsOf(m_GONodes'[n]) = TransitionsOf(m_GONodes[n]) \cup {u}
      /\ Links(m_GONodes'[n]) = Links(m_GONodes[n]) \cup {[to |-> m, t |-> u]}
  <2>1. PICK s, r : s = m_GONodes[n] /\ r = m_GONodes'[n]
    OBVIOUS
  <2>2. s \in LDDState /\ u \in Transition /\ m \in Nat
        /\ r.Successors = <<[to |-> m, t |-> u]>> \o s.Successors
    BY <1>1, <1>2, <1>3, <2>1
  <2>3. Links(r) = Links(s) \cup {[to |-> m, t |-> u]} /\ TransitionsOf(r) = TransitionsOf(s) \cup {u}
    BY <2>2, LinkedEdges, LinkedTransitions
  <2>4. QED
    BY <2>1, <2>3
<1>5. \A k \in State \ {n} : /\ TransitionsOf(m_GONodes'[k]) = TransitionsOf(m_GONodes[k])
                             /\ Links(m_GONodes'[k]) = Links(m_GONodes[k])
  BY <1>3 DEF TransitionsOf, Links
<1>6. Preserved
  <2>1. \A k \in State : TransitionsOf(m_GONodes[k])' = TransitionsOf(m_GONodes'[k])
    BY DEF TransitionsOf
  <2>2. QED
    BY <1>3, <1>4, <1>5, <2>1 DEF Preserved
<1>7. EdgesOK'
  <2>1. \A k \in State : \A x \in Links(m_GONodes[k]) : x.to \in State' /\ x.t \in FirableFrom(k)'
    BY <1>3 DEF TypeInv, EdgesOK
  <2>2. m \in State' /\ u \in FirableFrom(n)'
    BY <1>1, <1>2, <1>3
  <2>3. \A k \in State : Links(m_GONodes[k])' = Links(m_GONodes'[k])
    BY DEF Links
  <2>4. QED
    BY <1>3, <1>4, <1>5, <2>1, <2>2, <2>3 DEF EdgesOK
<1>8. Len(m_GONodes') = Len(m_GONodes)
  BY <1>1, <1>3, GraphDomain DEF TypeOK, State
<1>9. QED
  BY <1>2, <1>3, <1>4, <1>6, <1>7, <1>8

LEMMA LinkType ==
  ASSUME TypeInv, NEW w \in Thread, Link(w)
  PROVE  TypeInv'
<1> USE DEF Placed, Working, Resting, Unsettled, counters, checker, local
<1>1. TypeOK /\ ThreadOK(w) /\ MainOK
  BY DEF TypeInv
<1>2. /\ Preserved /\ EdgesOK' /\ State' = State
      /\ elt[w].t \in TransitionsOf(m_GONodes'[elt[w].state])
      /\ m_GONodes' \in Seq(LDDState) /\ Len(m_GONodes') = Len(m_GONodes)
  BY LinkPreserved
<1>3. /\ pc[w] = "link" /\ \E lbl \in {"flags", "dec"} : Moves(w, lbl)
      /\ UNCHANGED <<m_nbArcs, counters, m_common_stack, m_finish, local, checker>>
  BY LinkEffect
<1>4. \A z \in Elements(m_common_stack)' : CoupleOK(z)'
  BY <1>2, <1>3, QueuePreserved
<1>5. TypeOK'
  BY <1>1, <1>2, <1>3 DEF TypeOK, Moves
<1>6. ASSUME NEW v \in Thread
      PROVE  ThreadOK(v)'
  <2>1. CASE v # w
    BY <1>2, <1>3, <2>1, ThreadPreserved DEF Moves
  <2>2. CASE v = w
    <3>1. pc'[w] \in {"flags", "dec"} /\ CoupleOK(elt[w]) /\ pos[w] \in State
      BY <1>1, <1>3 DEF ThreadOK, Moves
    <3>2. CoupleOK(elt[w])' /\ pos'[w] \in State'
      BY <1>2, <1>3, <3>1 DEF CoupleOK, Preserved
    <3>3. (elt[w].t \in TransitionsOf(m_GONodes[elt[w].state]))'
      BY <1>2, <1>3 DEF TransitionsOf
    <3>4. QED
      BY <2>2, <3>1, <3>2, <3>3 DEF ThreadOK
  <2>3. QED
    BY <2>1, <2>2
<1>7. MainOK'
  BY <1>1, <1>2, <1>3 DEF MainOK, Preserved
<1>8. Len(m_currentLevel)' = Len(m_GONodes)' /\ Len(m_nbSuccessorsToBeProcessed)' = Len(m_GONodes)'
  BY <1>2, <1>3 DEF TypeInv
<1>9. QED
  BY <1>2, <1>4, <1>5, <1>6, <1>7, <1>8 DEF TypeInv

(* The steps that change a counter, or what a builder has still to push.   *)
LEMMA CounterStepsType ==
  ASSUME TypeInv, NEW w \in Thread, Decrement(w) \/ Count(w) \/ Push(w)
  PROVE  TypeInv'
<1> USE DEF Placed, Working, Resting, Unsettled, counters, checker, local
<1>1. TypeOK /\ ThreadOK(w) /\ MainOK
  BY DEF TypeInv
<1>2. \E lbl \in {"test", "completePos", "push", "arc"} :
        /\ pc[w] \in {"dec", "count", "push"} /\ Moves(w, lbl)
        /\ lbl = "test" => pc[w] = "dec"
        /\ lbl = "push" => fire'[w] \subseteq FirableFrom(pos[w])
        /\ lbl = "completePos" => FirableFrom(pos[w]) = {}
  <2>1. CASE Decrement(w)
    BY <2>1, DecrementEffect
  <2>2. CASE Count(w)
    BY <2>2, CountEffect
  <2>3. CASE Push(w)
    <3>1. fire[w] \subseteq FirableFrom(pos[w])
      BY <1>1, <2>3 DEF Push, ThreadOK
    <3>2. QED
      BY <2>3, <3>1, PushEffect
  <2>4. QED
    BY <2>1, <2>2, <2>3
<1>3. /\ m_nbSuccessorsToBeProcessed' \in Seq(Nat)
      /\ Len(m_nbSuccessorsToBeProcessed') = Len(m_nbSuccessorsToBeProcessed)
      /\ fire' \in [Thread -> SUBSET Transition] /\ \A v \in Thread \ {w} : fire'[v] = fire[v]
      /\ UNCHANGED <<m_GONodes, m_nbArcs, m_currentLevel, m_finish, elt, pos, res, level, checker>>
  <2>1. CASE Decrement(w)
    BY <1>1, <2>1, DecrementEffect DEF TypeOK
  <2>2. CASE Count(w)
    BY <1>1, <2>2, CountEffect DEF TypeOK
  <2>3. CASE Push(w)
    BY <1>1, <2>3, PushEffect DEF TypeOK
  <2>4. QED
    BY <2>1, <2>2, <2>3
<1>4. GraphKept
  BY <1>1, <1>3, UnchangedGraph
<1>5. Preserved /\ EdgesOK'
  BY <1>4, KeptPreserved
<1>6. m_common_stack' \in Seq(Couple) /\ \A z \in Elements(m_common_stack)' : CoupleOK(z)'
  <2>1. CASE Push(w)
    <3>1. PICK u \in fire[w] :
            /\ couple_th(pos[w], u) \in Couple /\ u \in FirableFrom(pos[w])
            /\ m_common_stack' = Append(m_common_stack, couple_th(pos[w], u))
      BY <2>1, PushEffect
    <3>2. PICK z : z = couple_th(pos[w], u)
      OBVIOUS
    <3>3. CoupleOK(z)
      BY <2>1, <3>1, <3>2, PushEffect DEF CoupleOK, couple_th
    <3>4. QED
      BY <1>5, <3>1, <3>2, <3>3, CouplePreserved, QueuePreserved
  <2>2. CASE Decrement(w) \/ Count(w)
    BY <1>5, <2>2, DecrementEffect, CountEffect, QueuePreserved
  <2>3. QED
    BY <2>1, <2>2
<1>7. TypeOK'
  BY <1>1, <1>2, <1>3, <1>6 DEF TypeOK, Moves
<1>8. ASSUME NEW v \in Thread
      PROVE  ThreadOK(v)'
  <2>1. CASE v # w
    BY <1>2, <1>3, <1>5, <2>1, ThreadPreserved DEF Moves
  <2>2. CASE v = w
    BY <1>1, <1>2, <1>3, <1>5, <2>2 DEF ThreadOK, CoupleOK, Preserved, Moves
  <2>3. QED
    BY <2>1, <2>2
<1>9. MainOK'
  BY <1>1, <1>3, <1>4, <1>5 DEF MainOK, GraphKept, Preserved
<1>10. Len(m_currentLevel)' = Len(m_GONodes)' /\ Len(m_nbSuccessorsToBeProcessed)' = Len(m_GONodes)'
  BY <1>3 DEF TypeInv
<1>11. QED
  BY <1>5, <1>6, <1>7, <1>8, <1>9, <1>10 DEF TypeInv

(* The steps of the checker that queue transitions. *)
LEMMA GetInitialType ==
  ASSUME TypeInv, GetInitial
  PROVE  TypeInv'
<1> USE DEF Placed, Working, Resting, Unsettled, MainLabel, builder, local
<1>1. TypeOK /\ State = {} /\ State' = {1} /\ m_GONodes' \in Seq(LDDState) /\ 1 \in Nat
      /\ mcPc' \in {"explore", "push"} /\ agregate' = 1 /\ mcFire' \subseteq Transition
      /\ m_GONodes'[1].Successors = <<>>
  BY GetInitialEffect DEF TypeInv
<1>2. \A w \in Thread : pc[w] \in Resting
  BY <1>1 DEF TypeInv, TypeOK, ThreadOK, CoupleOK
<1>3. Preserved
  BY <1>1 DEF Preserved
<1>4. m_common_stack' \in Seq(Couple) /\ \A z \in Elements(m_common_stack)' : CoupleOK(z)'
  BY <1>3, QueuePreserved, GetInitialEffect
<1>5. TypeOK'
  BY <1>1, <1>4, GetInitialEffect DEF TypeOK
<1>6. EdgesOK'
  BY <1>1 DEF EdgesOK, Links
<1>7. \A w \in Thread : ThreadOK(w)'
  BY <1>2, GetInitialEffect DEF ThreadOK
<1>8. MainOK'
  BY <1>1, GetInitialEffect DEF MainOK
<1>9. Len(m_currentLevel)' = Len(m_GONodes)' /\ Len(m_nbSuccessorsToBeProcessed)' = Len(m_GONodes)'
  BY GetInitialEffect
<1>10. QED
  BY <1>4, <1>5, <1>6, <1>7, <1>8, <1>9 DEF TypeInv

LEMMA RequestStepsType ==
  ASSUME TypeInv, CountRequest \/ PushRequest
  PROVE  TypeInv'
<1> USE DEF MainLabel, counters, builder, local
<1>1. TypeOK /\ MainOK
  BY DEF TypeInv
<1>2. /\ agregate \in State /\ mcPc # "initial"
      /\ mcPc' \in MainLabel \ {"initial"}
      /\ mcFire' \subseteq FirableFrom(agregate)
      /\ mcPc' = "complete" => FirableFrom(agregate) = {}
      /\ m_nbSuccessorsToBeProcessed' \in Seq(Nat)
      /\ Len(m_nbSuccessorsToBeProcessed') = Len(m_nbSuccessorsToBeProcessed)
      /\ UNCHANGED <<m_GONodes, m_nbArcs, m_currentLevel, m_finish, builder, agregate, mcLevel>>
  <2>1. CASE CountRequest
    BY <2>1, CountRequestEffect
  <2>2. CASE PushRequest
    BY <1>1, <2>2, PushRequestEffect DEF MainOK, TypeOK
  <2>3. QED
    BY <2>1, <2>2
<1>3. GraphKept
  BY <1>1, <1>2, UnchangedGraph
<1>4. Preserved /\ EdgesOK'
  BY <1>3, KeptPreserved
<1>5. m_common_stack' \in Seq(Couple) /\ \A z \in Elements(m_common_stack)' : CoupleOK(z)'
  <2>1. CASE CountRequest
    BY <1>4, <2>1, CountRequestEffect, QueuePreserved
  <2>2. CASE PushRequest
    <3>1. PICK u \in mcFire :
            /\ couple_th(agregate, u) \in Couple /\ u \in FirableFrom(agregate)
            /\ m_common_stack' = Append(m_common_stack, couple_th(agregate, u))
      BY <2>2, PushRequestEffect
    <3>2. PICK z : z = couple_th(agregate, u)
      OBVIOUS
    <3>3. CoupleOK(z)
      BY <1>2, <3>1, <3>2 DEF CoupleOK, couple_th
    <3>4. QED
      BY <1>4, <3>1, <3>2, <3>3, CouplePreserved, QueuePreserved
  <2>3. QED
    BY <2>1, <2>2
<1>6. FirableFrom(agregate) \subseteq Transition
  BY <1>1, <1>2, StateProperties
<1>7. TypeOK'
  BY <1>1, <1>2, <1>5, <1>6 DEF TypeOK
<1>8. \A w \in Thread : ThreadOK(w)'
  BY <1>2, <1>4, ThreadPreserved
<1>9. MainOK'
  BY <1>1, <1>2, <1>4 DEF MainOK, Preserved
<1>10. Len(m_currentLevel)' = Len(m_GONodes)' /\ Len(m_nbSuccessorsToBeProcessed)' = Len(m_GONodes)'
  BY <1>2 DEF TypeInv
<1>11. QED
  BY <1>4, <1>5, <1>7, <1>8, <1>9, <1>10 DEF TypeInv

LEMMA InitType ==
  ASSUME Init
  PROVE  TypeInv
<1> USE DEF Init, Working, Placed, Resting, Unsettled, MainLabel
<1>1. State = {}
  BY DEF State
<1>2. TypeOK
  <2>1. NoState \in Nat
    BY DEF NoState
  <2>2. /\ m_GONodes \in Seq(LDDState) /\ m_currentLevel \in Seq(Nat)
        /\ m_nbSuccessorsToBeProcessed \in Seq(Nat) /\ m_common_stack \in Seq(Couple)
    OBVIOUS
  <2>3. fire \in [Thread -> SUBSET Transition] /\ mcFire \in SUBSET Transition
    OBVIOUS
  <2>4. elt \in [Thread -> [state : Nat, t : Transition \cup {NoTransition}]]
    BY <2>1 DEF couple_th
  <2>5. pos \in [Thread -> Nat] /\ res \in [Thread -> BOOLEAN] /\ level \in [Thread -> Nat]
        /\ pc \in [Thread -> Working \cup Resting]
    BY <2>1
  <2>6. QED
    BY <2>1, <2>2, <2>3, <2>4, <2>5 DEF TypeOK
<1>3. \A w \in Thread : ThreadOK(w)
  BY DEF ThreadOK
<1>4. EdgesOK /\ MainOK
  BY <1>1 DEF EdgesOK, MainOK
<1>5. \A z \in Elements(m_common_stack) : CoupleOK(z)
  BY DEF Elements
<1>6. QED
  BY <1>2, <1>3, <1>4, <1>5 DEF TypeInv

LEMMA TypeStep ==
  ASSUME TypeInv, [Next]_vars
  PROVE  TypeInv'
<1>1. CASE UNCHANGED vars
  <2>1. UNCHANGED <<shared, builder, checker>>
    BY <1>1 DEF vars
  <2>2. TypeOK' /\ Preserved /\ EdgesOK'
    BY <2>1, UnchangedGraph, KeptPreserved DEF shared, counters, builder, local, checker, TypeInv, TypeOK
  <2>3. \A w \in Thread : ThreadOK(w)'
    BY <2>1, <2>2, ThreadPreserved DEF shared, counters, builder, local
  <2>4. \A z \in Elements(m_common_stack)' : CoupleOK(z)'
    BY <2>1, <2>2, QueuePreserved DEF shared
  <2>5. MainOK'
    BY <2>1 DEF shared, checker, TypeInv, MainOK, State, FirableFrom
  <2>6. QED
    BY <2>1, <2>2, <2>3, <2>4, <2>5 DEF TypeInv, shared, counters
<1>2. QED
  BY <1>1, StepCases, WalksType, WaitsType, TakesType, InsertFindType, LinkType, CounterStepsType,
     GetInitialType, RequestStepsType DEF StepCase

(* Every couple the threads exchange is a state of the graph and one of    *)
(* its transitions; a state has a level and a counter.                     *)
THEOREM TypeCorrect == Spec => []TypeInv
<1>1. Init => TypeInv
  BY InitType
<1>2. TypeInv /\ [Next]_vars => TypeInv'
  BY TypeStep
<1>3. QED
  BY <1>1, <1>2, PTL DEF Spec

-----------------------------------------------------------------------------
(* Counting the occurrences of a transition: the edges made by it, the     *)
(* occurrences that will make one, and the decrements of the counter that  *)
(* are due for edges already made.                                         *)
Made(n, u) == Cardinality(EdgesBy(n, u))
Coming(n, u) == Cardinality(Queued(n, u)) + Cardinality(ToPush(n, u))
                  + Cardinality(Held(n, u, {"find", "link"})) + ToRequest(n, u)
Due(n, u) == Cardinality(Held(n, u, {"flags", "dec"}))

Bit(b) == IF b THEN 1 ELSE 0

(* Two sets of threads that differ by one thread at most. *)
LEMMA ChangedMember ==
  ASSUME NEW w \in Thread, NEW A \in SUBSET Thread, NEW B \in SUBSET Thread,
         \A v \in Thread \ {w} : v \in A <=> v \in B
  PROVE  /\ Cardinality(A) \in Nat /\ Cardinality(B) \in Nat
         /\ Cardinality(B) + Bit(w \in A) = Cardinality(A) + Bit(w \in B)
<1> DEFINE C == A \ {w}
<1>1. IsFiniteSet(A) /\ IsFiniteSet(B) /\ IsFiniteSet(C)
  BY ModelCheckThReqAssumption, FS_Subset
<1>2. Cardinality(A) \in Nat /\ Cardinality(B) \in Nat /\ Cardinality(C) \in Nat
  BY <1>1, FS_CardinalityType
<1>3. Cardinality(C \cup {w}) = Cardinality(C) + 1
  BY <1>1, FS_AddElement
<1>4. A = (IF w \in A THEN C \cup {w} ELSE C) /\ B = (IF w \in B THEN C \cup {w} ELSE C)
  OBVIOUS
<1> HIDE DEF C
<1>5. ASSUME NEW X, X = IF w \in X THEN C \cup {w} ELSE C
      PROVE  Cardinality(X) = Cardinality(C) + Bit(w \in X)
  <2>1. CASE w \in X
    <3>1. Cardinality(X) = Cardinality(C \cup {w})
      BY <1>5, <2>1
    <3>2. QED
      BY <1>3, <2>1, <3>1 DEF Bit
  <2>2. CASE w \notin X
    <3>1. Cardinality(X) = Cardinality(C)
      BY <1>5, <2>2
    <3>2. QED
      BY <1>2, <2>2, <3>1 DEF Bit
  <2>3. QED
    BY <2>1, <2>2
<1>6. /\ Cardinality(A) = Cardinality(C) + Bit(w \in A)
      /\ Cardinality(B) = Cardinality(C) + Bit(w \in B)
  BY <1>4, <1>5
<1>7. QED
  BY <1>2, <1>6 DEF Bit

(* The positions of the elements of transition u in a sequence with one    *)
(* more element in front.                                                  *)
Of(q, u) == {k \in DOMAIN q : q[k].t = u}

LEMMA FrontOf ==
  ASSUME NEW S, NEW q \in Seq(S), NEW x \in S, NEW u
  PROVE  /\ IsFiniteSet(Of(q, u)) /\ Cardinality(Of(q, u)) \in Nat
         /\ Cardinality(Of(<<x>> \o q, u)) = Cardinality(Of(q, u)) + (IF x.t = u THEN 1 ELSE 0)
<1> DEFINE r == <<x>> \o q
<1>1. /\ DOMAIN q \subseteq Nat \ {0}
      /\ DOMAIN r \subseteq Nat \ {0}
      /\ 1 \in DOMAIN r /\ r[1] = x
      /\ \A i \in DOMAIN q : i + 1 \in DOMAIN r /\ r[i + 1] = q[i]
      /\ \A i \in DOMAIN r \ {1} : i - 1 \in DOMAIN q /\ q[i - 1] = r[i]
  BY FrontProperties
<1>2. IsFiniteSet(DOMAIN q)
  BY LenProperties, FS_Interval
<1> HIDE DEF r
<1> DEFINE A == Of(q, u)
<1> DEFINE B == Of(r, u) \ {1}
<1>3. A \in SUBSET Nat /\ IsFiniteSet(A) /\ Cardinality(A) \in Nat
  BY <1>1, <1>2, FS_Subset, FS_CardinalityType DEF Of
<1>4. \A k \in A : k + 1 \in B
  BY <1>1 DEF Of
<1>5. \A k \in B : \E j \in A : k = j + 1
  <2>1. ASSUME NEW k \in B
        PROVE  k - 1 \in A /\ k = k - 1 + 1
    BY <1>1 DEF Of
  <2>2. QED
    BY <2>1
<1> HIDE DEF A, B
<1>6. Cardinality(B) = Cardinality(A) /\ IsFiniteSet(B)
  BY <1>3, <1>4, <1>5, ShiftedCardinality
<1>7. Of(r, u) = IF x.t = u THEN B \cup {1} ELSE B
  BY <1>1 DEF Of, B
<1>8. Cardinality(B \cup {1}) = Cardinality(B) + 1
  BY <1>6, FS_AddElement DEF B
<1>9. QED
  BY <1>3, <1>6, <1>7, <1>8 DEF A, r

LEMMA Numbers ==
  ASSUME TypeInv, NEW n \in State, NEW u
  PROVE  /\ Made(n, u) \in Nat /\ Due(n, u) \in Nat
         /\ Cardinality(Queued(n, u)) \in Nat /\ Cardinality(ToPush(n, u)) \in Nat
         /\ \A labels : Cardinality(Held(n, u, labels)) \in Nat
         /\ ToRequest(n, u) \in {0, 1} /\ Coming(n, u) \in Nat
         /\ Occurrences(n, u) = Made(n, u) + Coming(n, u)
         /\ Made(n, u) = 0 <=> EdgesBy(n, u) = {}
         /\ Due(n, u) = 0 <=> Held(n, u, {"flags", "dec"}) = {}
         /\ Coming(n, u) = 0 <=> Queued(n, u) = {} /\ ToPush(n, u) = {}
                                   /\ Held(n, u, {"find", "link"}) = {} /\ ToRequest(n, u) = 0
<1>1. TypeOK /\ m_GONodes[n] \in LDDState
  BY StateProperties DEF TypeInv
<1>2. IsFiniteSet(EdgesBy(n, u))
  <2>1. m_GONodes[n].Successors \in Seq([to : Nat, t : Transition])
    BY <1>1 DEF LDDState
  <2>2. IsFiniteSet(DOMAIN m_GONodes[n].Successors)
    BY <2>1, LenProperties, FS_Interval
  <2>3. QED
    BY <2>2, FS_Subset DEF EdgesBy
<1>3. IsFiniteSet(Queued(n, u))
  BY <1>1, FinitePositions DEF Queued, Positions, TypeOK
<1>4. IsFiniteSet(ToPush(n, u)) /\ \A labels : IsFiniteSet(Held(n, u, labels))
  BY ModelCheckThReqAssumption, FS_Subset DEF ToPush, Held
<1>5. ToRequest(n, u) \in {0, 1}
  BY DEF ToRequest
<1>6. /\ Cardinality(EdgesBy(n, u)) \in Nat /\ Cardinality(Queued(n, u)) \in Nat
      /\ Cardinality(ToPush(n, u)) \in Nat
      /\ \A labels : Cardinality(Held(n, u, labels)) \in Nat
  BY <1>2, <1>3, <1>4, FS_CardinalityType
<1>7. /\ Cardinality(EdgesBy(n, u)) = 0 <=> EdgesBy(n, u) = {}
      /\ Cardinality(Queued(n, u)) = 0 <=> Queued(n, u) = {}
      /\ Cardinality(ToPush(n, u)) = 0 <=> ToPush(n, u) = {}
      /\ \A labels : Cardinality(Held(n, u, labels)) = 0 <=> Held(n, u, labels) = {}
  BY <1>2, <1>3, <1>4, FS_EmptySet
<1>8. PICK q, p, h, r : /\ q = Cardinality(Queued(n, u)) /\ p = Cardinality(ToPush(n, u))
                        /\ h = Cardinality(Held(n, u, {"find", "link"})) /\ r = ToRequest(n, u)
  OBVIOUS
<1>9. q \in Nat /\ p \in Nat /\ h \in Nat /\ r \in Nat /\ Coming(n, u) = q + p + h + r
  BY <1>5, <1>6, <1>8 DEF Coming
<1>10. Coming(n, u) \in Nat /\ (Coming(n, u) = 0 <=> q = 0 /\ p = 0 /\ h = 0 /\ r = 0)
  BY <1>9
<1>11. Occurrences(n, u) = Made(n, u) + Coming(n, u)
  BY <1>6, <1>8, <1>9 DEF Occurrences, Made
<1>12. QED
  BY <1>5, <1>6, <1>7, <1>8, <1>10, <1>11 DEF Made, Due

(* Builder w alone moves. *)
LEMMA HeldChange ==
  ASSUME NEW w \in Thread, \A v \in Thread \ {w} : pc'[v] = pc[v] /\ elt'[v] = elt[v],
         NEW n, NEW u, NEW labels
  PROVE  /\ Cardinality(Held(n, u, labels)) \in Nat /\ Cardinality(Held(n, u, labels)') \in Nat
         /\ Cardinality(Held(n, u, labels)') + Bit(w \in Held(n, u, labels))
              = Cardinality(Held(n, u, labels)) + Bit(w \in Held(n, u, labels)')
<1> DEFINE A == Held(n, u, labels)
<1>1. A \in SUBSET Thread /\ A' \in SUBSET Thread
  BY DEF Held
<1>2. \A v \in Thread \ {w} : v \in A <=> v \in A'
  BY DEF Held
<1> HIDE DEF A
<1>3. PICK B : B = A'
  OBVIOUS
<1>4. B \in SUBSET Thread /\ \A v \in Thread \ {w} : v \in A <=> v \in B
  BY <1>1, <1>2, <1>3
<1>5. /\ Cardinality(A) \in Nat /\ Cardinality(B) \in Nat
      /\ Cardinality(B) + Bit(w \in A) = Cardinality(A) + Bit(w \in B)
  BY <1>1, <1>4, ChangedMember
<1>6. QED
  BY <1>3, <1>5 DEF A

LEMMA ToPushChange ==
  ASSUME NEW w \in Thread,
         \A v \in Thread \ {w} : pc'[v] = pc[v] /\ pos'[v] = pos[v] /\ fire'[v] = fire[v],
         NEW n, NEW u
  PROVE  /\ Cardinality(ToPush(n, u)) \in Nat /\ Cardinality(ToPush(n, u)') \in Nat
         /\ Cardinality(ToPush(n, u)') + Bit(w \in ToPush(n, u))
              = Cardinality(ToPush(n, u)) + Bit(w \in ToPush(n, u)')
<1> DEFINE A == ToPush(n, u)
<1>1. A \in SUBSET Thread /\ A' \in SUBSET Thread
  BY DEF ToPush
<1>2. \A v \in Thread \ {w} : v \in A <=> v \in A'
  BY DEF ToPush
<1> HIDE DEF A
<1>3. PICK B : B = A'
  OBVIOUS
<1>4. B \in SUBSET Thread /\ \A v \in Thread \ {w} : v \in A <=> v \in B
  BY <1>1, <1>2, <1>3
<1>5. /\ Cardinality(A) \in Nat /\ Cardinality(B) \in Nat
      /\ Cardinality(B) + Bit(w \in A) = Cardinality(A) + Bit(w \in B)
  BY <1>1, <1>4, ChangedMember
<1>6. QED
  BY <1>3, <1>5 DEF A

(* The step leaves the occurrences of the transition where they are, or    *)
(* moves one that has still to make its edge.                              *)
Steady(n, u) == UNCHANGED <<Made(n, u), Coming(n, u), Due(n, u)>>

LEMMA SamePlaces ==
  ASSUME NEW n, NEW u,
         UNCHANGED <<EdgesBy(n, u), Queued(n, u), ToPush(n, u), Held(n, u, {"find", "link"}),
                     Held(n, u, {"flags", "dec"}), ToRequest(n, u)>>
  PROVE  Steady(n, u)
BY DEF Steady, Made, Coming, Due

LEMMA WalkSteady ==
  ASSUME TypeInv, NEW w \in Thread, Walks(w), NEW n \in State, NEW u
  PROVE  Steady(n, u)
<1>1. EdgesBy(n, u)' = EdgesBy(n, u)
  BY DEF Walks, GraphKept, EdgesBy
<1>2. Queued(n, u)' = Queued(n, u)
  BY DEF Walks, Queued
<1>3. ToPush(n, u)' = ToPush(n, u)
  BY DEF Walks, Moves, ToPush, Placed, Resting
<1>4. /\ Held(n, u, {"find", "link"})' = Held(n, u, {"find", "link"})
      /\ Held(n, u, {"flags", "dec"})' = Held(n, u, {"flags", "dec"})
  BY DEF Walks, Moves, Held, Placed, Resting
<1>5. ToRequest(n, u)' = ToRequest(n, u)
  BY DEF Walks, ToRequest
<1>6. QED
  BY <1>1, <1>2, <1>3, <1>4, <1>5, SamePlaces

LEMMA WaitSteady ==
  ASSUME TypeInv, Waits, NEW n \in State, NEW u
  PROVE  Steady(n, u)
<1>1. EdgesBy(n, u)' = EdgesBy(n, u)
  BY DEF Waits, GraphKept, EdgesBy
<1>2. /\ Queued(n, u)' = Queued(n, u) /\ ToPush(n, u)' = ToPush(n, u)
      /\ Held(n, u, {"find", "link"})' = Held(n, u, {"find", "link"})
      /\ Held(n, u, {"flags", "dec"})' = Held(n, u, {"flags", "dec"})
  BY DEF Waits, Queued, ToPush, Held
<1>3. ToRequest(n, u)' = ToRequest(n, u)
  BY DEF Waits, ToRequest
<1>4. QED
  BY <1>1, <1>2, <1>3, SamePlaces

LEMMA TakeSteady ==
  ASSUME TypeInv, NEW w \in Thread, Takes(w), NEW n \in State, NEW u
  PROVE  Steady(n, u)
<1> USE DEF counters, checker
<1>1. /\ m_common_stack \in Seq(Couple) /\ m_common_stack # <<>>
      /\ m_common_stack' = Tail(m_common_stack) /\ elt'[w] = Head(m_common_stack)
      /\ pc[w] = "pop" /\ pc'[w] = "find"
      /\ \A v \in Thread \ {w} : pc'[v] = pc[v] /\ elt'[v] = elt[v]
  BY DEF TypeInv, TypeOK, Takes, Moves
<1>2. EdgesBy(n, u)' = EdgesBy(n, u) /\ ToRequest(n, u)' = ToRequest(n, u)
  BY DEF Takes, EdgesBy, ToRequest
<1>3. ToPush(n, u)' = ToPush(n, u)
  BY DEF Takes, Moves, ToPush
<1>4. Held(n, u, {"flags", "dec"})' = Held(n, u, {"flags", "dec"})
  BY <1>1 DEF Held
<1>5. PICK b \in BOOLEAN : b = (Head(m_common_stack) = couple_th(n, u))
  OBVIOUS
<1>6. Cardinality(Queued(n, u)) = Cardinality(Queued(n, u)') + Bit(b)
  <2>1. PICK y : y = couple_th(n, u)
    OBVIOUS
  <2>2. Queued(n, u) = Positions(m_common_stack, y)
        /\ Queued(n, u)' = Positions(Tail(m_common_stack), y)
    BY <1>1, <2>1 DEF Queued, Positions
  <2>3. Cardinality(Positions(m_common_stack, y))
          = Cardinality(Positions(Tail(m_common_stack), y))
              + (IF Head(m_common_stack) = y THEN 1 ELSE 0)
    BY <1>1, PoppedPositions
  <2>4. QED
    BY <1>5, <2>1, <2>2, <2>3 DEF Bit
<1>7. Cardinality(Held(n, u, {"find", "link"})') = Cardinality(Held(n, u, {"find", "link"})) + Bit(b)
  <2>1. w \notin Held(n, u, {"find", "link"}) /\ (w \in Held(n, u, {"find", "link"})' <=> b)
    BY <1>1, <1>5 DEF Held, couple_th
  <2>2. QED
    BY <1>1, <2>1, HeldChange DEF Bit
<1>8. Cardinality(Queued(n, u)) \in Nat /\ Cardinality(ToPush(n, u)) \in Nat
      /\ Cardinality(Held(n, u, {"find", "link"})) \in Nat /\ ToRequest(n, u) \in {0, 1}
      /\ Cardinality(Queued(n, u)') \in Nat
  <2>1. m_common_stack' \in Seq(Couple)
    BY <1>1, PopProperties
  <2>2. Cardinality(Queued(n, u)') \in Nat
    BY <2>1, FinitePositions DEF Queued, Positions
  <2>3. QED
    BY <2>2, Numbers
<1>9. Coming(n, u)' = Coming(n, u)
  BY <1>2, <1>3, <1>5, <1>6, <1>7, <1>8 DEF Coming, Bit
<1>10. QED
  BY <1>2, <1>4, <1>9 DEF Steady, Made, Due

LEMMA InsertFindSteady ==
  ASSUME TypeInv, NEW w \in Thread, InsertFind(w), NEW n \in State, NEW u
  PROVE  Steady(n, u)
<1> USE DEF counters, checker
<1>1. /\ pc[w] = "find" /\ Moves(w, "link")
      /\ \A v \in Thread \ {w} : pos'[v] = pos[v]
      /\ UNCHANGED <<m_common_stack, elt, fire, checker>>
      /\ \/ UNCHANGED m_GONodes
         \/ Grows(Reached(w))
  BY InsertFindEffect
<1>2. EdgesBy(n, u)' = EdgesBy(n, u)
  BY <1>1 DEF EdgesBy, Grows
<1>3. /\ Held(n, u, {"find", "link"})' = Held(n, u, {"find", "link"})
      /\ Held(n, u, {"flags", "dec"})' = Held(n, u, {"flags", "dec"})
      /\ Queued(n, u)' = Queued(n, u) /\ ToRequest(n, u)' = ToRequest(n, u)
  BY <1>1 DEF Held, Moves, Queued, ToRequest
<1>4. ToPush(n, u)' = ToPush(n, u)
  BY <1>1 DEF ToPush, Moves
<1>5. QED
  BY <1>2, <1>3, <1>4, SamePlaces

(* No transition of a new state occurs. *)
LEMMA NewStateCounts ==
  ASSUME TypeInv, TypeInv', NEW w \in Thread, InsertFind(w), NEW n \in State' \ State, NEW u
  PROVE  /\ Made(n, u)' = 0 /\ Coming(n, u)' = 0 /\ Due(n, u)' = 0
         /\ m_nbSuccessorsToBeProcessed'[n] = 0 /\ ~m_GONodes'[n].m_completed
<1> USE DEF Placed, Working, checker
<1>1. TypeOK /\ pc[w] = "find" /\ Moves(w, "link")
      /\ (\A v \in Thread \ {w} : pos'[v] = pos[v])
      /\ UNCHANGED <<m_common_stack, elt, fire, checker>>
  BY InsertFindEffect DEF TypeInv
<1>2. /\ m_GONodes'[n] = NewState(Reached(w)) /\ m_nbSuccessorsToBeProcessed'[n] = 0
  BY InsertFindEffect DEF Grows, State
<1>3. m_GONodes'[n].Successors = <<>> /\ ~m_GONodes'[n].m_completed
  BY <1>2 DEF NewState
<1>4. EdgesBy(n, u)' = {}
  BY <1>3 DEF EdgesBy
<1>5. Queued(n, u)' = {}
  <2>1. \A k \in DOMAIN m_common_stack : m_common_stack[k].state \in State
    BY DEF TypeInv, Elements, CoupleOK
  <2>2. QED
    BY <1>1, <2>1 DEF Queued, couple_th
<1>6. Held(n, u, {"find", "link"})' = {} /\ Held(n, u, {"flags", "dec"})' = {}
  <2>1. \A v \in Thread : pc'[v] \in Working => elt[v].state \in State
    BY <1>1 DEF Moves, TypeInv, ThreadOK, CoupleOK
  <2>2. QED
    BY <1>1, <2>1 DEF Held, couple_th
<1>7. ToPush(n, u)' = {}
  <2>1. \A v \in Thread : pc'[v] = "push" => pos'[v] \in State
    BY <1>1 DEF Moves, TypeInv, ThreadOK
  <2>2. QED
    BY <2>1 DEF ToPush
<1>8. ToRequest(n, u)' = 0
  BY <1>1 DEF ToRequest, TypeInv, MainOK
<1>9. Made(n, u)' = 0 /\ Due(n, u)' = 0
  BY <1>4, <1>6, FS_EmptySet DEF Made, Due
<1>10. Coming(n, u)' = 0
  <2>1. /\ Cardinality(Queued(n, u))' = 0 /\ Cardinality(ToPush(n, u))' = 0
        /\ Cardinality(Held(n, u, {"find", "link"}))' = 0
    BY <1>5, <1>6, <1>7, FS_EmptySet
  <2>2. QED
    BY <1>8, <2>1 DEF Coming
<1>11. QED
  BY <1>2, <1>3, <1>9, <1>10

(* Linking turns an occurrence to come into an edge, and makes a decrement *)
(* due.                                                                    *)
LEMMA LinkCounts ==
  ASSUME TypeInv, NEW w \in Thread, Link(w), NEW n \in State, NEW u
  PROVE  LET b == Bit(elt[w] = couple_th(n, u))
         IN  /\ Made(n, u)' = Made(n, u) + b /\ Due(n, u)' = Due(n, u) + b
             /\ Coming(n, u) = Coming(n, u)' + b /\ Coming(n, u)' \in Nat
<1> USE DEF counters, checker, local
<1>1. /\ pc[w] = "link" /\ \E lbl \in {"flags", "dec"} : Moves(w, lbl)
      /\ elt[w] = couple_th(elt[w].state, elt[w].t)
      /\ elt[w].state \in State /\ pos[w] \in State /\ elt[w].t \in Transition
      /\ Linked(m_GONodes, m_GONodes', elt[w].state, pos[w], elt[w].t)
      /\ UNCHANGED <<m_common_stack, pos, elt, fire, checker>>
  BY LinkEffect, TakenProperties DEF Working, Placed
<1>2. PICK b \in BOOLEAN : b = (elt[w] = couple_th(n, u))
  OBVIOUS
<1>3. /\ Queued(n, u)' = Queued(n, u) /\ ToRequest(n, u)' = ToRequest(n, u)
      /\ ToPush(n, u)' = ToPush(n, u)
  BY <1>1 DEF Queued, ToRequest, ToPush, Moves
<1>4. /\ Cardinality(Held(n, u, {"find", "link"})) = Cardinality(Held(n, u, {"find", "link"})') + Bit(b)
      /\ Cardinality(Held(n, u, {"find", "link"})') \in Nat
  <2>1. (w \in Held(n, u, {"find", "link"}) <=> b) /\ w \notin Held(n, u, {"find", "link"})'
    BY <1>1, <1>2 DEF Held, Moves
  <2>2. \A v \in Thread \ {w} : pc'[v] = pc[v] /\ elt'[v] = elt[v]
    BY <1>1 DEF Moves
  <2>3. QED
    BY <2>1, <2>2, HeldChange DEF Bit
<1>5. /\ Cardinality(Held(n, u, {"flags", "dec"})') = Cardinality(Held(n, u, {"flags", "dec"})) + Bit(b)
  <2>1. w \notin Held(n, u, {"flags", "dec"}) /\ (w \in Held(n, u, {"flags", "dec"})' <=> b)
    BY <1>1, <1>2 DEF Held, Moves
  <2>2. \A v \in Thread \ {w} : pc'[v] = pc[v] /\ elt'[v] = elt[v]
    BY <1>1 DEF Moves
  <2>3. QED
    BY <2>1, <2>2, HeldChange DEF Bit
<1>6. Made(n, u)' = Made(n, u) + Bit(b)
  <2>1. PICK s : s = m_GONodes[n].Successors
    OBVIOUS
  <2>2. s \in Seq([to : Nat, t : Transition])
    BY <2>1, StateProperties DEF TypeInv, LDDState
  <2>3. Made(n, u) = Cardinality(Of(s, u)) /\ Made(n, u)' = Cardinality(Of(m_GONodes'[n].Successors, u))
    BY <2>1 DEF Made, EdgesBy, Of
  <2>4. Cardinality(Of(s, u)) \in Nat
    <3>1. Made(n, u) \in Nat
      BY Numbers
    <3>2. QED
      BY <2>3, <3>1
  <2>5. CASE n = elt[w].state
    <3>1. PICK x : x = [to |-> pos[w], t |-> elt[w].t]
      OBVIOUS
    <3>2. x \in [to : Nat, t : Transition] /\ x.t = elt[w].t
      BY <1>1, <3>1, StateProperties DEF TypeInv
    <3>3. m_GONodes'[n].Successors = <<x>> \o s
      BY <1>1, <2>1, <2>5, <3>1 DEF Linked, State
    <3>4. Cardinality(Of(<<x>> \o s, u)) = Cardinality(Of(s, u)) + (IF x.t = u THEN 1 ELSE 0)
      BY <2>2, <3>2, FrontOf
    <3>5. (x.t = u) <=> elt[w] = couple_th(n, u)
      BY <1>1, <2>5, <3>2 DEF couple_th
    <3>6. QED
      BY <1>2, <2>3, <3>3, <3>4, <3>5 DEF Bit
  <2>6. CASE n # elt[w].state
    <3>1. m_GONodes'[n].Successors = s
      BY <1>1, <2>1, <2>6 DEF Linked, State
    <3>2. elt[w] # couple_th(n, u)
      BY <1>1, <2>6 DEF couple_th
    <3>3. ~b
      BY <1>2, <3>2
    <3>4. Made(n, u)' = Made(n, u) /\ Made(n, u) \in Nat
      BY <2>3, <2>4, <3>1
    <3>5. QED
      BY <3>3, <3>4 DEF Bit
  <2>7. QED
    BY <2>5, <2>6
<1>7. Coming(n, u) = Coming(n, u)' + Bit(b) /\ Coming(n, u)' \in Nat
  <2>1. /\ Cardinality(Queued(n, u)) \in Nat /\ Cardinality(ToPush(n, u)) \in Nat
        /\ ToRequest(n, u) \in {0, 1}
    BY Numbers
  <2>2. QED
    BY <1>2, <1>3, <1>4, <2>1 DEF Coming, Bit
<1>8. QED
  BY <1>2, <1>5, <1>6, <1>7 DEF Due

(* Decrementing the counter discharges one decrement. *)
LEMMA DecrementCounts ==
  ASSUME TypeInv, NEW w \in Thread, Decrement(w), NEW n \in State, NEW u
  PROVE  LET b == Bit(elt[w] = couple_th(n, u))
         IN  /\ Made(n, u)' = Made(n, u) /\ Coming(n, u)' = Coming(n, u)
             /\ Due(n, u) = Due(n, u)' + b /\ Due(n, u)' \in Nat
<1> USE DEF counters, checker, local
<1>1. /\ pc[w] = "dec" /\ Moves(w, "test")
      /\ UNCHANGED <<m_GONodes, m_common_stack, pos, elt, fire, checker>>
  BY DecrementEffect
<1>2. PICK b \in BOOLEAN : b = (elt[w] = couple_th(n, u))
  OBVIOUS
<1>3. /\ Queued(n, u)' = Queued(n, u) /\ ToRequest(n, u)' = ToRequest(n, u)
      /\ ToPush(n, u)' = ToPush(n, u) /\ EdgesBy(n, u)' = EdgesBy(n, u)
      /\ Held(n, u, {"find", "link"})' = Held(n, u, {"find", "link"})
  BY <1>1 DEF Queued, ToRequest, ToPush, Moves, EdgesBy, Held
<1>4. /\ Cardinality(Held(n, u, {"flags", "dec"})) = Cardinality(Held(n, u, {"flags", "dec"})') + Bit(b)
      /\ Cardinality(Held(n, u, {"flags", "dec"})') \in Nat
  <2>1. (w \in Held(n, u, {"flags", "dec"}) <=> b) /\ w \notin Held(n, u, {"flags", "dec"})'
    BY <1>1, <1>2 DEF Held, Moves
  <2>2. \A v \in Thread \ {w} : pc'[v] = pc[v] /\ elt'[v] = elt[v]
    BY <1>1 DEF Moves
  <2>3. QED
    BY <2>1, <2>2, HeldChange DEF Bit
<1>5. QED
  BY <1>2, <1>3, <1>4 DEF Made, Coming, Due

(* A builder that counts the transitions of a state is about to push each. *)
LEMMA CountCounts ==
  ASSUME TypeInv, NEW w \in Thread, Count(w), NEW n \in State, NEW u \in FirableFrom(n)
  PROVE  /\ Made(n, u)' = Made(n, u) /\ Due(n, u)' = Due(n, u)
         /\ Coming(n, u)' = Coming(n, u) + Bit(n = pos[w])
<1> USE DEF counters, checker, local
<1>1. /\ pc[w] = "count" /\ Moves(w, IF FirableFrom(pos[w]) = {} THEN "completePos" ELSE "push")
      /\ fire'[w] = FirableFrom(pos[w]) /\ \A v \in Thread \ {w} : fire'[v] = fire[v]
  BY CountEffect
<1>2. UNCHANGED <<m_GONodes, m_common_stack, pos, elt, checker>>
  BY CountEffect
<1>3. PICK b \in BOOLEAN : b = (n = pos[w])
  OBVIOUS
<1>4. /\ Queued(n, u)' = Queued(n, u) /\ ToRequest(n, u)' = ToRequest(n, u)
      /\ EdgesBy(n, u)' = EdgesBy(n, u)
  BY <1>2 DEF Queued, ToRequest, EdgesBy
<1>5. /\ Held(n, u, {"find", "link"})' = Held(n, u, {"find", "link"})
      /\ Held(n, u, {"flags", "dec"})' = Held(n, u, {"flags", "dec"})
  BY <1>1, <1>2 DEF Held, Moves
<1>6. Cardinality(ToPush(n, u)') = Cardinality(ToPush(n, u)) + Bit(b)
  <2>1. w \notin ToPush(n, u) /\ (w \in ToPush(n, u)' <=> b)
    BY <1>1, <1>2, <1>3 DEF ToPush, Moves
  <2>2. \A v \in Thread \ {w} : pc'[v] = pc[v] /\ pos'[v] = pos[v] /\ fire'[v] = fire[v]
    BY <1>1, <1>2 DEF Moves
  <2>3. QED
    BY <2>1, <2>2, ToPushChange DEF Bit
<1>7. Coming(n, u)' = Coming(n, u) + Bit(b)
  <2>1. /\ Cardinality(Queued(n, u)) \in Nat /\ Cardinality(ToPush(n, u)) \in Nat
        /\ Cardinality(Held(n, u, {"find", "link"})) \in Nat /\ ToRequest(n, u) \in {0, 1}
    BY Numbers
  <2>2. QED
    BY <1>3, <1>4, <1>5, <1>6, <2>1 DEF Coming, Bit
<1>8. QED
  BY <1>3, <1>4, <1>5, <1>7 DEF Made, Due

LEMMA PushSteady ==
  ASSUME TypeInv, NEW w \in Thread, Push(w), NEW n \in State, NEW u
  PROVE  Steady(n, u)
<1> USE DEF counters, checker, local
<1>1. PICK v \in fire[w] :
        /\ Moves(w, IF fire[w] = {v} THEN "arc" ELSE "push")
        /\ couple_th(pos[w], v) \in Couple
        /\ m_common_stack' = Append(m_common_stack, couple_th(pos[w], v))
        /\ fire'[w] = fire[w] \ {v}
        /\ \A x \in Thread \ {w} : fire'[x] = fire[x]
  BY PushEffect
<1>2. pc[w] = "push" /\ UNCHANGED <<m_GONodes, pos, elt, checker>>
  BY PushEffect
<1>3. PICK b \in BOOLEAN : b = (n = pos[w] /\ u = v)
  OBVIOUS
<1>4. EdgesBy(n, u)' = EdgesBy(n, u) /\ ToRequest(n, u)' = ToRequest(n, u)
  BY <1>2 DEF EdgesBy, ToRequest
<1>5. /\ Held(n, u, {"find", "link"})' = Held(n, u, {"find", "link"})
      /\ Held(n, u, {"flags", "dec"})' = Held(n, u, {"flags", "dec"})
  BY <1>1, <1>2 DEF Held, Moves
<1>6. Cardinality(ToPush(n, u)) = Cardinality(ToPush(n, u)') + Bit(b)
      /\ Cardinality(ToPush(n, u)') \in Nat
  <2>1. (w \in ToPush(n, u) <=> pos[w] = n /\ u \in fire[w])
    BY <1>2 DEF ToPush
  <2>2. (w \in ToPush(n, u)' <=> pos[w] = n /\ u \in fire[w] /\ u # v)
    BY <1>1, <1>2 DEF ToPush, Moves
  <2>3. \A x \in Thread \ {w} : pc'[x] = pc[x] /\ pos'[x] = pos[x] /\ fire'[x] = fire[x]
    BY <1>1, <1>2 DEF Moves
  <2>4. /\ Cardinality(ToPush(n, u)) \in Nat /\ Cardinality(ToPush(n, u)') \in Nat
        /\ Cardinality(ToPush(n, u)') + Bit(w \in ToPush(n, u))
             = Cardinality(ToPush(n, u)) + Bit(w \in ToPush(n, u)')
    BY <2>3, ToPushChange
  <2>5. v \in fire[w]
    OBVIOUS
  <2>6. CASE b
    <3>1. w \in ToPush(n, u) /\ w \notin ToPush(n, u)'
      BY <1>3, <2>1, <2>2, <2>5, <2>6
    <3>2. QED
      BY <2>4, <2>6, <3>1 DEF Bit
  <2>7. CASE ~b
    <3>1. w \in ToPush(n, u) <=> w \in ToPush(n, u)'
      BY <1>3, <2>1, <2>2, <2>7
    <3>2. QED
      BY <2>4, <2>7, <3>1 DEF Bit
  <2>8. QED
    BY <2>6, <2>7
<1>7. Cardinality(Queued(n, u)') = Cardinality(Queued(n, u)) + Bit(b)
  <2>1. PICK x, y : x = couple_th(pos[w], v) /\ y = couple_th(n, u)
    OBVIOUS
  <2>2. Queued(n, u) = Positions(m_common_stack, y)
        /\ Queued(n, u)' = Positions(Append(m_common_stack, x), y)
    BY <1>1, <2>1 DEF Queued, Positions
  <2>3. Cardinality(Positions(Append(m_common_stack, x), y))
          = Cardinality(Positions(m_common_stack, y)) + (IF x = y THEN 1 ELSE 0)
    BY <1>1, <2>1, AppendedPositions DEF TypeInv, TypeOK
  <2>4. x = y <=> (n = pos[w] /\ u = v)
    BY <2>1 DEF couple_th
  <2>5. QED
    BY <1>3, <2>2, <2>3, <2>4 DEF Bit
<1>8. Coming(n, u)' = Coming(n, u)
  <2>1. /\ Cardinality(Queued(n, u)) \in Nat /\ Cardinality(ToPush(n, u)) \in Nat
        /\ Cardinality(Held(n, u, {"find", "link"})) \in Nat /\ ToRequest(n, u) \in {0, 1}
    BY Numbers
  <2>2. QED
    BY <1>3, <1>4, <1>5, <1>6, <1>7, <2>1 DEF Coming, Bit
<1>9. QED
  BY <1>4, <1>5, <1>8 DEF Steady, Made, Due

(* The checker has counted the transitions of a state: it is about to push *)
(* each, when there is one and it does not count them again.               *)
LEMMA CountRequestCounts ==
  ASSUME TypeInv, CountRequest, NEW n \in State, NEW u \in FirableFrom(n)
  PROVE  /\ Made(n, u)' = Made(n, u) /\ Due(n, u)' = Due(n, u)
         /\ Coming(n, u)' = Coming(n, u) + Bit(n = agregate /\ mcPc = "recount")
<1> USE DEF counters, builder, local
<1>1. /\ mcPc \in {"count", "recount"}
      /\ mcPc' = IF FirableFrom(agregate) = {} THEN "complete"
                 ELSE IF mcPc = "count" THEN "recount" ELSE "push"
      /\ mcFire' = FirableFrom(agregate)
      /\ UNCHANGED <<m_GONodes, m_common_stack, builder, agregate>>
  BY CountRequestEffect
<1>2. PICK b \in BOOLEAN : b = (n = agregate /\ mcPc = "recount")
  OBVIOUS
<1>3. /\ Queued(n, u)' = Queued(n, u) /\ ToPush(n, u)' = ToPush(n, u)
      /\ EdgesBy(n, u)' = EdgesBy(n, u)
      /\ Held(n, u, {"find", "link"})' = Held(n, u, {"find", "link"})
      /\ Held(n, u, {"flags", "dec"})' = Held(n, u, {"flags", "dec"})
  BY <1>1 DEF Queued, ToPush, EdgesBy, Held
<1>4. ToRequest(n, u) = 0
  BY <1>1 DEF ToRequest
<1>5. ToRequest(n, u)' = Bit(b)
  <2>1. mcPc' = "push" /\ agregate' = n /\ u \in mcFire' <=> b
    BY <1>1, <1>2
  <2>2. QED
    BY <2>1 DEF ToRequest, Bit
<1>6. Coming(n, u)' = Coming(n, u) + Bit(b)
  <2>1. /\ Cardinality(Queued(n, u)) \in Nat /\ Cardinality(ToPush(n, u)) \in Nat
        /\ Cardinality(Held(n, u, {"find", "link"})) \in Nat
    BY Numbers
  <2>2. QED
    BY <1>3, <1>4, <1>5, <2>1 DEF Coming, Bit
<1>7. QED
  BY <1>2, <1>3, <1>6 DEF Made, Due

LEMMA PushRequestSteady ==
  ASSUME TypeInv, PushRequest, NEW n \in State, NEW u
  PROVE  Steady(n, u)
<1> USE DEF counters, builder, local
<1>1. PICK v \in mcFire :
        /\ mcPc' = IF mcFire = {v} THEN "check" ELSE "push"
        /\ couple_th(agregate, v) \in Couple
        /\ m_common_stack' = Append(m_common_stack, couple_th(agregate, v))
        /\ mcFire' = mcFire \ {v}
  BY PushRequestEffect
<1>2. mcPc = "push" /\ UNCHANGED <<m_GONodes, builder, agregate>>
  BY PushRequestEffect
<1>3. PICK b \in BOOLEAN : b = (n = agregate /\ u = v)
  OBVIOUS
<1>4. /\ ToPush(n, u)' = ToPush(n, u) /\ EdgesBy(n, u)' = EdgesBy(n, u)
      /\ Held(n, u, {"find", "link"})' = Held(n, u, {"find", "link"})
      /\ Held(n, u, {"flags", "dec"})' = Held(n, u, {"flags", "dec"})
  BY <1>2 DEF ToPush, EdgesBy, Held
<1>5. ToRequest(n, u) = ToRequest(n, u)' + Bit(b) /\ ToRequest(n, u)' \in {0, 1}
  <2>1. v \in mcFire
    OBVIOUS
  <2>2. mcPc' = "push" /\ agregate' = n /\ u \in mcFire' <=> agregate = n /\ u \in mcFire /\ u # v
    BY <1>1, <1>2
  <2>3. ToRequest(n, u) = Bit(agregate = n /\ u \in mcFire)
        /\ ToRequest(n, u)' = Bit(agregate = n /\ u \in mcFire /\ u # v)
    BY <1>2, <2>2 DEF ToRequest, Bit
  <2>4. CASE b
    <3>1. (agregate = n /\ u \in mcFire) /\ ~(agregate = n /\ u \in mcFire /\ u # v)
      BY <1>3, <2>1, <2>4
    <3>2. QED
      BY <2>3, <2>4, <3>1 DEF Bit
  <2>5. CASE ~b
    <3>1. agregate = n /\ u \in mcFire <=> agregate = n /\ u \in mcFire /\ u # v
      BY <1>3, <2>5
    <3>2. QED
      BY <2>3, <2>5, <3>1 DEF Bit
  <2>6. QED
    BY <2>4, <2>5
<1>6. Cardinality(Queued(n, u)') = Cardinality(Queued(n, u)) + Bit(b)
  <2>1. PICK x, y : x = couple_th(agregate, v) /\ y = couple_th(n, u)
    OBVIOUS
  <2>2. Queued(n, u) = Positions(m_common_stack, y)
        /\ Queued(n, u)' = Positions(Append(m_common_stack, x), y)
    BY <1>1, <2>1 DEF Queued, Positions
  <2>3. Cardinality(Positions(Append(m_common_stack, x), y))
          = Cardinality(Positions(m_common_stack, y)) + (IF x = y THEN 1 ELSE 0)
    BY <1>1, <2>1, AppendedPositions DEF TypeInv, TypeOK
  <2>4. x = y <=> (n = agregate /\ u = v)
    BY <2>1 DEF couple_th
  <2>5. QED
    BY <1>3, <2>2, <2>3, <2>4 DEF Bit
<1>7. Coming(n, u)' = Coming(n, u)
  <2>1. /\ Cardinality(Queued(n, u)) \in Nat /\ Cardinality(ToPush(n, u)) \in Nat
        /\ Cardinality(Held(n, u, {"find", "link"})) \in Nat
    BY Numbers
  <2>2. QED
    BY <1>3, <1>4, <1>5, <1>6, <2>1 DEF Coming, Bit
<1>8. QED
  BY <1>4, <1>7 DEF Steady, Made, Due

(* The checker is about to push each transition of the initial state.      *)
LEMMA GetInitialCounts ==
  ASSUME TypeInv, TypeInv', GetInitial, NEW n \in State', NEW u \in FirableFrom(n)'
  PROVE  /\ Made(n, u)' = 0 /\ Coming(n, u)' = 1 /\ Due(n, u)' = 0
         /\ m_nbSuccessorsToBeProcessed'[n] = Cardinality(FirableFrom(n)')
         /\ m_GONodes'[n].m_completed => FirableFrom(n)' = {}
<1> USE DEF Working, Placed, builder, local
<1>1. /\ n = 1 /\ State = {} /\ u \in FirableObs[InitialAggregate]
      /\ FirableFrom(n)' = FirableObs[InitialAggregate]
      /\ m_GONodes'[n].Successors = <<>>
  BY GetInitialEffect
<1>2. /\ agregate' = n /\ mcFire' = FirableFrom(n)' /\ mcPc' = "push"
      /\ m_nbSuccessorsToBeProcessed'[n] = Cardinality(FirableFrom(n)')
      /\ UNCHANGED <<m_common_stack, pc, elt, pos, fire>>
      /\ m_GONodes'[n].m_completed => FirableFrom(n)' = {}
  BY <1>1, GetInitialEffect
<1>3. EdgesBy(n, u)' = {}
  BY <1>1 DEF EdgesBy
<1>4. Queued(n, u)' = {}
  <2>1. DOMAIN m_common_stack = {}
    BY <1>1 DEF TypeInv, Elements, CoupleOK
  <2>2. QED
    BY <1>2, <2>1 DEF Queued
<1>5. Held(n, u, {"find", "link"})' = {} /\ Held(n, u, {"flags", "dec"})' = {} /\ ToPush(n, u)' = {}
  <2>1. \A v \in Thread : pc[v] \notin Working
    BY <1>1 DEF TypeInv, ThreadOK, CoupleOK
  <2>2. QED
    BY <1>2, <2>1 DEF Held, ToPush
<1>6. ToRequest(n, u)' = 1
  BY <1>2 DEF ToRequest
<1>7. Made(n, u)' = 0 /\ Due(n, u)' = 0
  BY <1>3, <1>5, FS_EmptySet DEF Made, Due
<1>8. Coming(n, u)' = 1
  <2>1. /\ Cardinality(Queued(n, u))' = 0 /\ Cardinality(ToPush(n, u))' = 0
        /\ Cardinality(Held(n, u, {"find", "link"}))' = 0
    BY <1>4, <1>5, FS_EmptySet
  <2>2. QED
    BY <1>6, <2>1 DEF Coming
<1>9. QED
  BY <1>2, <1>7, <1>8

(* The same facts after a step. *)
Counted ==
  \A n \in State : \A u :
    /\ Made(n, u) \in Nat /\ Coming(n, u) \in Nat /\ Due(n, u) \in Nat
    /\ Occurrences(n, u) = Made(n, u) + Coming(n, u)
    /\ Made(n, u) = 0 <=> EdgesBy(n, u) = {}
    /\ Due(n, u) = 0 <=> Held(n, u, {"flags", "dec"}) = {}
    /\ Coming(n, u) = 0 <=> Queued(n, u) = {} /\ ToPush(n, u) = {}
                              /\ Held(n, u, {"find", "link"}) = {} /\ ToRequest(n, u) = 0

LEMMA TypedCounted == TypeInv => Counted
BY Numbers DEF Counted

LEMMA CountedNext ==
  ASSUME TypeInv'
  PROVE  Counted'
BY TypedCounted, PTL

-----------------------------------------------------------------------------
(* All the transitions of a state occur, or none. *)

(* Somebody has counted the transitions of n and is about to push them.    *)
Expands(n) ==
  \/ \E w \in Thread : Count(w) /\ pos[w] = n
  \/ CountRequest /\ mcPc = "recount" /\ agregate = n

(* No step takes an occurrence away: it adds one of each transition of the *)
(* state, or none.                                                         *)
LEMMA OccurrencesStep ==
  ASSUME TypeInv, TypeInv', [Next]_vars, NEW n \in State
  PROVE  /\ FirableFrom(n)' = FirableFrom(n) /\ n \in State'
         /\ \/ \A u \in FirableFrom(n) : Occurrences(n, u)' = Occurrences(n, u)
            \/ /\ Expands(n)
               /\ \A u \in FirableFrom(n) : Occurrences(n, u)' = Occurrences(n, u) + 1
<1>1. /\ n \in State'
      /\ FirableFrom(n)' = FirableFrom(n)
  <2>1. CASE \E w \in Thread : Walks(w)
    BY <2>1, KeptPreserved DEF Walks, Preserved
  <2>2. CASE Waits
    BY <2>2, KeptPreserved DEF Waits, Preserved
  <2>3. CASE \E w \in Thread : InsertFind(w)
    <3>1. UNCHANGED m_GONodes \/ Preserved
      BY <2>3, InsertFindEffect, GrowsPreserved
    <3>2. QED
      BY <3>1 DEF Preserved, State, FirableFrom
  <2>4. CASE \E w \in Thread : Link(w)
    BY <2>4, LinkPreserved DEF Preserved
  <2>5. CASE \/ \E w \in Thread : Takes(w) \/ Decrement(w) \/ Count(w) \/ Push(w)
             \/ CountRequest \/ PushRequest \/ UNCHANGED vars
    <3>1. UNCHANGED m_GONodes
      BY <2>5 DEF Takes, Decrement, Count, Push, CountRequest, PushRequest, vars, shared
    <3>2. QED
      BY <3>1 DEF State, FirableFrom
  <2>6. ~GetInitial
    BY GetInitialEffect
  <2>7. QED
    BY <2>1, <2>2, <2>3, <2>4, <2>5, <2>6, StepCases DEF StepCase
<1>2. /\ \A u : Occurrences(n, u) = Made(n, u) + Coming(n, u)
      /\ \A u : Made(n, u) \in Nat /\ Coming(n, u) \in Nat
      /\ \A u : Occurrences(n, u)' = Made(n, u)' + Coming(n, u)'
  BY <1>1, TypedCounted, CountedNext DEF Counted
<1>3. CASE \A u \in FirableFrom(n) : Steady(n, u)
  BY <1>1, <1>2, <1>3 DEF Steady
<1>4. CASE \E w \in Thread : Link(w)
  <2>1. ASSUME NEW u \in FirableFrom(n)
        PROVE  Occurrences(n, u)' = Occurrences(n, u)
    <3>1. PICK k \in {0, 1} : Made(n, u)' = Made(n, u) + k /\ Coming(n, u) = Coming(n, u)' + k
                              /\ Coming(n, u)' \in Nat
      BY <1>4, LinkCounts DEF Bit
    <3>2. QED
      BY <1>2, <3>1
  <2>2. QED
    BY <1>1, <2>1
<1>5. CASE \E w \in Thread : Decrement(w)
  <2>1. ASSUME NEW u \in FirableFrom(n)
        PROVE  Occurrences(n, u)' = Occurrences(n, u)
    <3>1. Made(n, u)' = Made(n, u) /\ Coming(n, u)' = Coming(n, u)
      BY <1>5, DecrementCounts
    <3>2. QED
      BY <1>2, <3>1
  <2>2. QED
    BY <1>1, <2>1
<1>6. CASE \E w \in Thread : Count(w)
  <2>1. PICK w \in Thread : Count(w)
    BY <1>6
  <2>2. PICK k \in {0, 1} : k = Bit(n = pos[w]) /\ (k = 1 <=> n = pos[w])
    BY DEF Bit
  <2>3. ASSUME NEW u \in FirableFrom(n)
        PROVE  Occurrences(n, u)' = Occurrences(n, u) + k
    <3>1. Made(n, u)' = Made(n, u) /\ Coming(n, u)' = Coming(n, u) + k
      BY <2>1, <2>2, CountCounts
    <3>2. QED
      BY <1>2, <3>1
  <2>4. \A u : Occurrences(n, u) \in Nat
    BY <1>2
  <2>5. CASE k = 0
    BY <1>1, <2>3, <2>4, <2>5
  <2>6. CASE k = 1
    BY <1>1, <2>1, <2>2, <2>3, <2>6 DEF Expands
  <2>7. QED
    BY <2>5, <2>6
<1>7. CASE CountRequest
  <2>1. PICK k \in {0, 1} : /\ k = Bit(n = agregate /\ mcPc = "recount")
                            /\ k = 1 <=> n = agregate /\ mcPc = "recount"
    BY DEF Bit
  <2>2. ASSUME NEW u \in FirableFrom(n)
        PROVE  Occurrences(n, u)' = Occurrences(n, u) + k
    <3>1. Made(n, u)' = Made(n, u) /\ Coming(n, u)' = Coming(n, u) + k
      BY <1>7, <2>1, CountRequestCounts
    <3>2. QED
      BY <1>2, <3>1
  <2>3. \A u : Occurrences(n, u) \in Nat
    BY <1>2
  <2>4. CASE k = 0
    BY <1>1, <2>2, <2>3, <2>4
  <2>5. CASE k = 1
    BY <1>1, <1>7, <2>1, <2>2, <2>5 DEF Expands
  <2>6. QED
    BY <2>4, <2>5
<1>8. CASE \/ \E w \in Thread : Walks(w) \/ Takes(w) \/ InsertFind(w) \/ Push(w)
           \/ Waits \/ PushRequest
  BY <1>3, <1>8, WalkSteady, TakeSteady, InsertFindSteady, PushSteady, WaitSteady, PushRequestSteady
<1>9. CASE UNCHANGED vars
  <2>1. \A u : Steady(n, u)
    BY <1>9, SamePlaces DEF vars, shared, builder, checker, local, counters, EdgesBy, Queued,
                            ToPush, Held, ToRequest
  <2>2. QED
    BY <1>3, <2>1
<1>10. ~GetInitial
  BY GetInitialEffect
<1>11. QED
  BY <1>4, <1>5, <1>6, <1>7, <1>8, <1>9, <1>10, StepCases DEF StepCase

(* Who sets the flag of a state that has transitions. *)
LEMMA CompletedCases ==
  ASSUME TypeInv, [Next]_vars, NEW n \in State, m_GONodes'[n].m_completed, FirableFrom(n) # {}
  PROVE  \/ m_GONodes[n].m_completed
         \/ \E w \in Thread : pc[w] = "complete" /\ elt[w].state = n
<1>1. CASE \E w \in Thread : Walks(w)
  BY <1>1 DEF Walks
<1>2. CASE Waits
  BY <1>2 DEF Waits
<1>3. CASE \E w \in Thread : InsertFind(w)
  <2>1. m_GONodes'[n] = m_GONodes[n]
    BY <1>3, InsertFindEffect DEF Grows
  <2>2. QED
    BY <2>1
<1>4. CASE \E w \in Thread : Link(w)
  <2>1. m_GONodes'[n].m_completed = m_GONodes[n].m_completed
    BY <1>4, LinkEffect DEF Linked, SameButEdges, State
  <2>2. QED
    BY <2>1
<1>5. CASE \/ \E w \in Thread : Takes(w) \/ Decrement(w) \/ Count(w) \/ Push(w)
           \/ CountRequest \/ PushRequest \/ UNCHANGED vars
  <2>1. UNCHANGED m_GONodes
    BY <1>5 DEF Takes, Decrement, Count, Push, CountRequest, PushRequest, vars, shared
  <2>2. QED
    BY <2>1
<1>6. ~GetInitial
  BY GetInitialEffect
<1>7. QED
  BY <1>1, <1>2, <1>3, <1>4, <1>5, <1>6, StepCases DEF StepCase

(* A builder about to set the flag has linked the transition it holds.     *)
LEMMA CompletingLinked ==
  ASSUME TypeInv, NEW w \in Thread, pc[w] \in Unsettled
  PROVE  /\ elt[w].state \in State /\ elt[w].t \in FirableFrom(elt[w].state)
         /\ Made(elt[w].state, elt[w].t) > 0 /\ Occurrences(elt[w].state, elt[w].t) > 0
<1>1. PICK n, u : n = elt[w].state /\ u = elt[w].t
  OBVIOUS
<1>2. n \in State /\ u \in FirableFrom(n) /\ u \in TransitionsOf(m_GONodes[n])
  BY <1>1, PlacedProperties DEF TypeInv, ThreadOK, Unsettled, Placed
<1>3. EdgesBy(n, u) # {}
  BY <1>2 DEF EdgesBy, TransitionsOf
<1>4. QED
  BY <1>1, <1>2, <1>3, TypedCounted DEF Counted

(* A state that comes has all its transitions about to be pushed, or none. *)
LEMMA NewStateSteps ==
  ASSUME TypeInv, TypeInv', [Next]_vars, NEW n \in State' \ State
  PROVE  \/ GetInitial
         \/ \E w \in Thread : InsertFind(w)
<1>1. CASE \E w \in Thread : Walks(w)
  BY <1>1 DEF Walks, GraphKept
<1>2. CASE Waits
  BY <1>2 DEF Waits, GraphKept
<1>3. CASE \E w \in Thread : Link(w)
  BY <1>3, LinkPreserved
<1>4. CASE \/ \E w \in Thread : Takes(w) \/ Decrement(w) \/ Count(w) \/ Push(w)
           \/ CountRequest \/ PushRequest \/ UNCHANGED vars
  <2>1. UNCHANGED m_GONodes
    BY <1>4 DEF Takes, Decrement, Count, Push, CountRequest, PushRequest, vars, shared
  <2>2. QED
    BY <2>1 DEF State
<1>5. QED
  BY <1>1, <1>2, <1>3, <1>4, StepCases DEF StepCase

LEMMA SpreadStep ==
  ASSUME TypeInv, TypeInv', NoTransitionLost, [Next]_vars
  PROVE  NoTransitionLost'
<1> SUFFICES ASSUME NEW n \in State',
                    m_GONodes'[n].m_completed \/ \E u \in FirableFrom(n)' : Occurrences(n, u)' > 0,
                    NEW u \in FirableFrom(n)'
             PROVE  Occurrences(n, u)' > 0
  BY DEF NoTransitionLost
<1>1. CASE n \in State
  <2>1. /\ FirableFrom(n)' = FirableFrom(n)
        /\ \/ \A x \in FirableFrom(n) : Occurrences(n, x)' = Occurrences(n, x)
           \/ \A x \in FirableFrom(n) : Occurrences(n, x)' = Occurrences(n, x) + 1
    BY <1>1, OccurrencesStep
  <2>2. \A x : Occurrences(n, x) \in Nat
    BY <1>1, TypedCounted DEF Counted
  <2>3. CASE \A x \in FirableFrom(n) : Occurrences(n, x)' = Occurrences(n, x) + 1
    BY <2>1, <2>2, <2>3
  <2>4. CASE \A x \in FirableFrom(n) : Occurrences(n, x)' = Occurrences(n, x)
    <3>1. m_GONodes[n].m_completed \/ \E x \in FirableFrom(n) : Occurrences(n, x) > 0
      <4>1. CASE m_GONodes'[n].m_completed
        <5>1. \/ m_GONodes[n].m_completed
              \/ \E w \in Thread : pc[w] = "complete" /\ elt[w].state = n
          BY <1>1, <2>1, <4>1, CompletedCases
        <5>2. QED
          BY <5>1, CompletingLinked DEF Unsettled
      <4>2. QED
        BY <2>1, <2>4, <4>1
    <3>2. QED
      BY <1>1, <2>1, <2>4, <3>1 DEF NoTransitionLost
  <2>5. QED
    BY <2>1, <2>3, <2>4
<1>2. CASE n \notin State
  <2>1. \A x : /\ Occurrences(n, x)' = Made(n, x)' + Coming(n, x)'
    BY CountedNext DEF Counted
  <2>2. CASE GetInitial
    <3>1. Made(n, u)' = 0 /\ Coming(n, u)' = 1
      BY <2>2, GetInitialCounts
    <3>2. QED
      BY <2>1, <3>1
  <2>3. CASE \E w \in Thread : InsertFind(w)
    <3>1. \A x : Made(n, x)' = 0 /\ Coming(n, x)' = 0 /\ ~m_GONodes'[n].m_completed
      BY <1>2, <2>3, NewStateCounts
    <3>2. \A x : Occurrences(n, x)' = 0
      BY <2>1, <3>1
    <3>3. QED
      BY <3>1, <3>2
  <2>4. QED
    BY <1>2, <2>2, <2>3, NewStateSteps
<1>3. QED
  BY <1>1, <1>2

(* However the checker and the builders interleave their expansions of a   *)
(* state, none of its transitions is forgotten: as soon as one occurs, or  *)
(* the state is complete, each is linked or will be.                       *)
THEOREM NothingForgotten == Spec => []NoTransitionLost
<1>1. Init => NoTransitionLost
  BY DEF Init, NoTransitionLost, State
<1>2. TypeInv /\ TypeInv' /\ NoTransitionLost /\ [Next]_vars => NoTransitionLost'
  BY SpreadStep
<1>3. QED
  BY <1>1, <1>2, TypeCorrect, PTL DEF Spec

-----------------------------------------------------------------------------
(* The counter of a state that one thread has expanded.                    *)

(* The checker is about to count the transitions of n again. *)
Recounting(n) == mcPc = "recount" /\ agregate = n

Once(n) == \A u \in FirableFrom(n) : Occurrences(n, u) <= 1

Settled(n) == Once(n) /\ ~Recounting(n)

(* Who has still to decrement the counter has made an edge. *)
HeldInv == \A n \in State : \A u \in FirableFrom(n) : Due(n, u) <= Made(n, u)

CounterInv ==
  \A n \in State : Settled(n) => m_nbSuccessorsToBeProcessed[n] = Cardinality(Unprocessed(n))

ClosedInv ==
  \A n \in State :
    /\ Settled(n)
    /\ \/ m_GONodes[n].m_completed
       \/ \E w \in Thread : pc[w] = "complete" /\ elt[w].state = n
    => \A u \in FirableFrom(n) : EdgesBy(n, u) # {}

(* What the step does to the transitions of a state of the graph. *)
NumbersStep(n) ==
  \/ \A u \in FirableFrom(n) : Steady(n, u)
  \/ \E w \in Thread : Link(w) \/ Decrement(w)
  \/ Expands(n) /\ \A u \in FirableFrom(n) :
                     /\ Made(n, u)' = Made(n, u) /\ Due(n, u)' = Due(n, u)
                     /\ Coming(n, u)' = Coming(n, u) + 1

LEMMA NumbersSteps ==
  ASSUME TypeInv, [Next]_vars, NEW n \in State
  PROVE  NumbersStep(n)
<1>1. \A u : Coming(n, u) \in Nat
  BY TypedCounted DEF Counted
<1>2. CASE \E w \in Thread : Count(w)
  <2>1. PICK w \in Thread : Count(w)
    BY <1>2
  <2>2. PICK k \in {0, 1} : k = Bit(n = pos[w]) /\ (k = 1 <=> n = pos[w])
    BY DEF Bit
  <2>3. \A u \in FirableFrom(n) : /\ Made(n, u)' = Made(n, u) /\ Due(n, u)' = Due(n, u)
                                  /\ Coming(n, u)' = Coming(n, u) + k
    BY <2>1, <2>2, CountCounts
  <2>4. CASE k = 0
    BY <1>1, <2>3, <2>4 DEF NumbersStep, Steady
  <2>5. CASE k = 1
    BY <2>1, <2>2, <2>3, <2>5 DEF NumbersStep, Expands
  <2>6. QED
    BY <2>4, <2>5
<1>3. CASE CountRequest
  <2>1. PICK k \in {0, 1} : /\ k = Bit(n = agregate /\ mcPc = "recount")
                            /\ k = 1 <=> n = agregate /\ mcPc = "recount"
    BY DEF Bit
  <2>2. \A u \in FirableFrom(n) : /\ Made(n, u)' = Made(n, u) /\ Due(n, u)' = Due(n, u)
                                  /\ Coming(n, u)' = Coming(n, u) + k
    BY <1>3, <2>1, CountRequestCounts
  <2>3. CASE k = 0
    BY <1>1, <2>2, <2>3 DEF NumbersStep, Steady
  <2>4. CASE k = 1
    BY <1>3, <2>1, <2>2, <2>4 DEF NumbersStep, Expands
  <2>5. QED
    BY <2>3, <2>4
<1>4. CASE \E w \in Thread : Link(w) \/ Decrement(w)
  BY <1>4 DEF NumbersStep
<1>5. CASE \/ \E w \in Thread : Walks(w) \/ Takes(w) \/ InsertFind(w) \/ Push(w)
           \/ Waits \/ PushRequest
  BY <1>5, WalkSteady, TakeSteady, InsertFindSteady, PushSteady, WaitSteady, PushRequestSteady
     DEF NumbersStep
<1>6. CASE UNCHANGED vars
  <2>1. \A u : Steady(n, u)
    BY <1>6, SamePlaces DEF vars, shared, builder, checker, local, counters, EdgesBy, Queued,
                            ToPush, Held, ToRequest
  <2>2. QED
    BY <2>1 DEF NumbersStep
<1>7. ~GetInitial
  BY GetInitialEffect
<1>8. QED
  BY <1>2, <1>3, <1>4, <1>5, <1>6, <1>7, StepCases DEF StepCase

LEMMA HeldStep ==
  ASSUME TypeInv, TypeInv', HeldInv, [Next]_vars
  PROVE  HeldInv'
<1> SUFFICES ASSUME NEW n \in State', NEW u \in FirableFrom(n)'
             PROVE  Due(n, u)' <= Made(n, u)'
  BY DEF HeldInv
<1>1. CASE n \in State
  <2>1. u \in FirableFrom(n)
    BY <1>1, OccurrencesStep
  <2>2. /\ Made(n, u) \in Nat /\ Due(n, u) \in Nat /\ Due(n, u) <= Made(n, u)
        /\ Made(n, u)' \in Nat /\ Due(n, u)' \in Nat
    BY <1>1, <2>1, TypedCounted, CountedNext DEF Counted, HeldInv
  <2>3. CASE \E w \in Thread : Link(w)
    <3>1. PICK k \in {0, 1} : Made(n, u)' = Made(n, u) + k /\ Due(n, u)' = Due(n, u) + k
      BY <1>1, <2>3, LinkCounts DEF Bit
    <3>2. QED
      BY <2>2, <3>1
  <2>4. CASE \E w \in Thread : Decrement(w)
    <3>1. PICK k \in {0, 1} : Made(n, u)' = Made(n, u) /\ Due(n, u) = Due(n, u)' + k
      BY <1>1, <2>4, DecrementCounts DEF Bit
    <3>2. QED
      BY <2>2, <3>1
  <2>5. QED
    BY <1>1, <2>1, <2>2, <2>3, <2>4, NumbersSteps DEF NumbersStep, Steady
<1>2. CASE n \notin State
  <2>1. Made(n, u)' = 0 /\ Due(n, u)' = 0
    BY <1>2, NewStateSteps, NewStateCounts, GetInitialCounts
  <2>2. QED
    BY <2>1
<1>3. QED
  BY <1>1, <1>2

(* A state that comes under Settled was already, or its transitions have   *)
(* just been counted for the first time.                                   *)
LEMMA SettledStep ==
  ASSUME TypeInv, TypeInv', [Next]_vars, NEW n \in State, Settled(n)'
  PROVE  /\ Expands(n) => \A u \in FirableFrom(n) : Made(n, u) = 0 /\ Coming(n, u) = 0
         /\ Settled(n) \/ Expands(n)
<1>1. /\ FirableFrom(n)' = FirableFrom(n)
      /\ \/ \A u \in FirableFrom(n) : Occurrences(n, u)' = Occurrences(n, u)
         \/ \A u \in FirableFrom(n) : Occurrences(n, u)' = Occurrences(n, u) + 1
  BY OccurrencesStep
<1>2. \A u : /\ Occurrences(n, u) = Made(n, u) + Coming(n, u)
             /\ Made(n, u) \in Nat /\ Coming(n, u) \in Nat
  BY TypedCounted DEF Counted
<1>3. \A u \in FirableFrom(n) : Occurrences(n, u)' <= 1
  BY <1>1 DEF Settled, Once
<1>4. Once(n)
  BY <1>1, <1>2, <1>3 DEF Once
<1>5. ASSUME Expands(n), NEW u \in FirableFrom(n)
      PROVE  Made(n, u) = 0 /\ Coming(n, u) = 0
  <2>1. Made(n, u)' = Made(n, u) /\ Coming(n, u)' = Coming(n, u) + 1
    <3>1. CASE \E w \in Thread : Count(w) /\ pos[w] = n
      BY <3>1, CountCounts DEF Bit
    <3>2. CASE CountRequest /\ mcPc = "recount" /\ agregate = n
      BY <3>2, CountRequestCounts DEF Bit
    <3>3. QED
      BY <1>5, <3>1, <3>2 DEF Expands
  <2>2. Occurrences(n, u)' = Made(n, u)' + Coming(n, u)'
    <3>1. n \in State'
      BY OccurrencesStep
    <3>2. QED
      BY <3>1, CountedNext DEF Counted
  <2>3. QED
    BY <1>2, <1>3, <2>1, <2>2
<1>6. Recounting(n) => Expands(n)
  <2>1. ASSUME Recounting(n)
        PROVE  CountRequest
    <3>1. mcPc = "recount" /\ agregate = n /\ ~(mcPc' = "recount" /\ agregate' = n)
      BY <2>1 DEF Recounting, Settled
    <3>2. ~Waits /\ ~GetInitial /\ ~PushRequest
      BY <3>1 DEF Waits, GetInitial, PushRequest
    <3>3. ASSUME NEW w \in Thread,
                 Walks(w) \/ Takes(w) \/ InsertFind(w) \/ Link(w) \/ Decrement(w) \/ Count(w) \/ Push(w)
          PROVE  FALSE
      BY <3>1, <3>3 DEF Walks, Takes, InsertFind, Link, Decrement, Count, Push, checker
    <3>4. ~UNCHANGED vars
      BY <3>1 DEF vars, checker
    <3>5. QED
      BY <3>2, <3>3, <3>4, StepCases DEF StepCase
  <2>2. QED
    BY <2>1 DEF Recounting, Expands
<1>7. QED
  BY <1>4, <1>5, <1>6 DEF Settled

(* The transitions still to be processed, by their numbers. *)
Remaining == \A n \in State :
  /\ Unprocessed(n) = {u \in FirableFrom(n) : Coming(n, u) # 0 \/ Due(n, u) # 0}
  /\ IsFiniteSet(Unprocessed(n)) /\ Cardinality(Unprocessed(n)) \in Nat
  /\ Cardinality(Unprocessed(n)) <= Cardinality(FirableFrom(n))

LEMMA TypedRemaining == TypeInv => Remaining
<1> SUFFICES ASSUME TypeInv, NEW n \in State
             PROVE  /\ Unprocessed(n) = {u \in FirableFrom(n) : Coming(n, u) # 0 \/ Due(n, u) # 0}
                    /\ IsFiniteSet(Unprocessed(n)) /\ Cardinality(Unprocessed(n)) \in Nat
                    /\ Cardinality(Unprocessed(n)) <= Cardinality(FirableFrom(n))
  BY DEF Remaining
<1>1. ASSUME NEW u
      PROVE  u \in Unprocessed(n) <=> u \in FirableFrom(n) /\ (Coming(n, u) # 0 \/ Due(n, u) # 0)
  <2>1. /\ Due(n, u) = 0 <=> Held(n, u, {"flags", "dec"}) = {}
        /\ Coming(n, u) = 0 <=> Queued(n, u) = {} /\ ToPush(n, u) = {}
                                  /\ Held(n, u, {"find", "link"}) = {} /\ ToRequest(n, u) = 0
    BY TypedCounted DEF Counted
  <2>2. Held(n, u, {"find", "link", "flags", "dec"})
          = Held(n, u, {"find", "link"}) \cup Held(n, u, {"flags", "dec"})
    BY DEF Held
  <2>3. ToRequest(n, u) = 1 <=> ToRequest(n, u) # 0
    BY DEF ToRequest
  <2>4. QED
    BY <2>1, <2>2, <2>3 DEF Unprocessed
<1>2. IsFiniteSet(FirableFrom(n)) /\ Unprocessed(n) \subseteq FirableFrom(n)
  BY StateProperties DEF TypeInv, Unprocessed
<1>3. QED
  BY <1>1, <1>2, FS_Subset, FS_CardinalityType DEF Unprocessed

LEMMA RemainingNext ==
  ASSUME TypeInv'
  PROVE  Remaining'
BY TypedRemaining, PTL

(* The transition a builder is about to take off the counter: the last     *)
(* occurrence of it, in a state whose transitions occur once.              *)
LEMMA DecrementSettled ==
  ASSUME TypeInv, TypeInv', HeldInv, CounterInv, NEW w \in Thread, Decrement(w),
         NEW n \in State, n = elt[w].state, Settled(n)
  PROVE  m_nbSuccessorsToBeProcessed'[n] = Cardinality(Unprocessed(n)')
<1>1. PICK u : u = elt[w].t
  OBVIOUS
<1>2. u \in FirableFrom(n) /\ Made(n, u) > 0 /\ elt[w] = couple_th(n, u) /\ pc[w] = "dec"
  BY <1>1, CompletingLinked, TakenProperties DEF Decrement, Unsettled, Working, Placed
<1>3. /\ Made(n, u) \in Nat /\ Coming(n, u) \in Nat /\ Due(n, u) \in Nat
      /\ Made(n, u) + Coming(n, u) <= 1 /\ Due(n, u) <= Made(n, u)
  BY <1>2, TypedCounted DEF Counted, Settled, Once, HeldInv
<1>4. Coming(n, u)' = Coming(n, u) /\ Due(n, u) = Due(n, u)' + 1 /\ Due(n, u)' \in Nat
  BY <1>2, DecrementCounts DEF Bit
<1>5. Coming(n, u) = 0 /\ Due(n, u) = 1 /\ Coming(n, u)' = 0 /\ Due(n, u)' = 0
  BY <1>2, <1>3, <1>4
<1>6. ASSUME NEW v \in FirableFrom(n), v # u
      PROVE  Coming(n, v)' = Coming(n, v) /\ Due(n, v)' = Due(n, v)
  <2>1. elt[w] # couple_th(n, v)
    BY <1>2, <1>6 DEF couple_th
  <2>2. Due(n, v) = Due(n, v)' + 0 /\ Due(n, v)' \in Nat /\ Coming(n, v)' = Coming(n, v)
    BY <2>1, DecrementCounts DEF Bit
  <2>3. QED
    BY <2>2
<1>7. /\ n \in State' /\ FirableFrom(n)' = FirableFrom(n)
  BY DecrementEffect DEF State, FirableFrom
<1>8. Unprocessed(n)' = Unprocessed(n) \ {u} /\ u \in Unprocessed(n)
  <2>1. Unprocessed(n) = {v \in FirableFrom(n) : Coming(n, v) # 0 \/ Due(n, v) # 0}
    BY TypedRemaining DEF Remaining
  <2>2. Unprocessed(n)' = {v \in FirableFrom(n) : Coming(n, v)' # 0 \/ Due(n, v)' # 0}
    BY <1>7, RemainingNext DEF Remaining
  <2>3. QED
    BY <1>2, <1>5, <1>6, <2>1, <2>2
<1>9. PICK A, k : A = Unprocessed(n) /\ k = Cardinality(A)
  OBVIOUS
<1>10. /\ IsFiniteSet(A) /\ k \in Nat /\ k < Modulus /\ Modulus \in Nat \ {0}
       /\ m_nbSuccessorsToBeProcessed[n] = k
  <2>1. IsFiniteSet(A) /\ k \in Nat /\ k <= Cardinality(FirableFrom(n))
    BY <1>9, TypedRemaining DEF Remaining
  <2>2. Cardinality(FirableFrom(n)) < Modulus /\ Cardinality(FirableFrom(n)) \in Nat
        /\ Modulus \in Nat \ {0}
    BY StateProperties, ModelCheckThReqAssumption DEF TypeInv
  <2>3. m_nbSuccessorsToBeProcessed[n] = k
    BY <1>9 DEF CounterInv
  <2>4. QED
    BY <2>1, <2>2, <2>3
<1>11. Cardinality(A \ {u}) = k - 1 /\ k > 0
  <2>1. Cardinality(A \ {u}) = k - 1
    BY <1>8, <1>9, <1>10, FS_RemoveElement
  <2>2. k # 0
    BY <1>8, <1>9, <1>10, FS_EmptySet
  <2>3. QED
    BY <1>10, <2>1, <2>2
<1>12. m_nbSuccessorsToBeProcessed'[n] = (k + Modulus - 1) % Modulus
  BY <1>10, DecrementEffect
<1>13. (k + Modulus - 1) % Modulus = k - 1
  <2>1. PICK m : m \in Nat /\ m = k - 1 /\ m < Modulus
    BY <1>10, <1>11
  <2>2. (m + Modulus) % Modulus = m
    BY <1>10, <2>1
  <2>3. k + Modulus - 1 = m + Modulus
    BY <1>10, <2>1
  <2>4. QED
    BY <2>1, <2>2, <2>3
<1>14. QED
  BY <1>8, <1>9, <1>11, <1>12, <1>13

(* The steps that assign the counter of n. *)
LEMMA CounterKept ==
  ASSUME TypeInv, [Next]_vars, NEW n \in State, ~Expands(n), Settled(n)',
         \A w \in Thread : Decrement(w) => elt[w].state # n
  PROVE  \/ m_nbSuccessorsToBeProcessed'[n] = m_nbSuccessorsToBeProcessed[n]
         \/ FirableFrom(n) = {} /\ m_nbSuccessorsToBeProcessed'[n] = 0
<1>1. CASE \E w \in Thread : Decrement(w)
  BY <1>1, DecrementEffect
<1>2. CASE \E w \in Thread : Count(w)
  BY <1>2, CountEffect DEF Expands
<1>3. CASE CountRequest
  <2>1. CASE agregate # n
    BY <1>3, <2>1, CountRequestEffect
  <2>2. CASE agregate = n
    <3>1. mcPc = "count" /\ ~Recounting(n)'
      BY <1>3, <2>2, CountRequestEffect DEF Expands, Settled
    <3>2. FirableFrom(n) = {}
      BY <2>2, <3>1, <1>3, CountRequestEffect DEF Recounting
    <3>3. m_nbSuccessorsToBeProcessed'[n] = Cardinality(FirableFrom(n))
      BY <1>3, <2>2, CountRequestEffect
    <3>4. QED
      BY <3>2, <3>3, FS_EmptySet
  <2>3. QED
    BY <2>1, <2>2
<1>4. CASE \E w \in Thread : InsertFind(w)
  BY <1>4, InsertFindEffect DEF Grows, counters
<1>5. CASE \/ \E w \in Thread : Walks(w) \/ Takes(w) \/ Link(w) \/ Push(w)
           \/ Waits \/ PushRequest \/ UNCHANGED vars
  BY <1>5 DEF Walks, Takes, Link, Push, Waits, PushRequest, vars, shared, counters
<1>6. ~GetInitial
  BY GetInitialEffect
<1>7. QED
  BY <1>1, <1>2, <1>3, <1>4, <1>5, <1>6, StepCases DEF StepCase

LEMMA CounterStep ==
  ASSUME TypeInv, TypeInv', HeldInv, CounterInv, [Next]_vars
  PROVE  CounterInv'
<1> SUFFICES ASSUME NEW n \in State', Settled(n)'
             PROVE  m_nbSuccessorsToBeProcessed'[n] = Cardinality(Unprocessed(n)')
  BY DEF CounterInv
<1>1. Unprocessed(n)' = {u \in FirableFrom(n)' : Coming(n, u)' # 0 \/ Due(n, u)' # 0}
  BY RemainingNext DEF Remaining
<1>2. CASE n \in State /\ Expands(n)
  <2>1. FirableFrom(n)' = FirableFrom(n)
    BY <1>2, OccurrencesStep
  <2>2. \A u \in FirableFrom(n) : Coming(n, u) = 0 /\ Coming(n, u)' = Coming(n, u) + 1
    <3>1. \A u \in FirableFrom(n) : Coming(n, u) = 0
      BY <1>2, SettledStep
    <3>2. CASE \E w \in Thread : Count(w) /\ pos[w] = n
      BY <1>2, <3>1, <3>2, CountCounts DEF Bit
    <3>3. CASE CountRequest /\ mcPc = "recount" /\ agregate = n
      BY <1>2, <3>1, <3>3, CountRequestCounts DEF Bit
    <3>4. QED
      BY <1>2, <3>2, <3>3 DEF Expands
  <2>3. Unprocessed(n)' = FirableFrom(n)
    BY <1>1, <2>1, <2>2
  <2>4. m_nbSuccessorsToBeProcessed'[n] = Cardinality(FirableFrom(n))
    BY <1>2, CountEffect, CountRequestEffect DEF Expands
  <2>5. QED
    BY <2>3, <2>4
<1>3. CASE n \in State /\ ~Expands(n)
  <2>1. Settled(n) /\ FirableFrom(n)' = FirableFrom(n)
    BY <1>3, SettledStep, OccurrencesStep
  <2>2. CASE \E w \in Thread : Decrement(w) /\ elt[w].state = n
    BY <1>3, <2>1, <2>2, DecrementSettled
  <2>3. CASE \A w \in Thread : Decrement(w) => elt[w].state # n
    <3>1. Unprocessed(n) = {u \in FirableFrom(n) : Coming(n, u) # 0 \/ Due(n, u) # 0}
      BY <1>3, TypedRemaining DEF Remaining
    <3>2. ASSUME NEW u \in FirableFrom(n)
          PROVE  Coming(n, u)' # 0 \/ Due(n, u)' # 0 <=> Coming(n, u) # 0 \/ Due(n, u) # 0
      <4>1. Coming(n, u) \in Nat /\ Due(n, u) \in Nat
        BY <1>3, TypedCounted DEF Counted
      <4>2. CASE \E w \in Thread : Link(w)
        <5>1. PICK k \in {0, 1} : /\ Due(n, u)' = Due(n, u) + k /\ Coming(n, u) = Coming(n, u)' + k
                                  /\ Coming(n, u)' \in Nat
          BY <1>3, <4>2, LinkCounts DEF Bit
        <5>2. QED
          BY <4>1, <5>1
      <4>3. CASE \E w \in Thread : Decrement(w)
        <5>1. PICK w \in Thread : Decrement(w) /\ elt[w].state # n
          BY <2>3, <4>3
        <5>2. elt[w] # couple_th(n, u)
          BY <5>1 DEF couple_th
        <5>3. Coming(n, u)' = Coming(n, u) /\ Due(n, u) = Due(n, u)' + 0 /\ Due(n, u)' \in Nat
          BY <1>3, <5>1, <5>2, DecrementCounts DEF Bit
        <5>4. QED
          BY <5>3
      <4>4. QED
        BY <1>3, <4>2, <4>3, NumbersSteps DEF NumbersStep, Steady
    <3>3. Unprocessed(n)' = Unprocessed(n)
      BY <1>1, <2>1, <3>1, <3>2
    <3>4. m_nbSuccessorsToBeProcessed[n] = Cardinality(Unprocessed(n))
      BY <1>3, <2>1 DEF CounterInv
    <3>5. CASE FirableFrom(n) = {} /\ m_nbSuccessorsToBeProcessed'[n] = 0
      BY <1>1, <2>1, <3>5, FS_EmptySet
    <3>6. QED
      BY <1>3, <2>3, <3>3, <3>4, <3>5, CounterKept
  <2>4. QED
    BY <2>2, <2>3
<1>4. CASE n \notin State
  <2>1. CASE GetInitial
    <3>1. FirableFrom(n)' = FirableObs[InitialAggregate]
          /\ m_nbSuccessorsToBeProcessed'[n] = Cardinality(FirableObs[InitialAggregate])
      BY <2>1, GetInitialEffect
    <3>2. \A u \in FirableFrom(n)' : Coming(n, u)' = 1
      BY <2>1, GetInitialCounts
    <3>3. Unprocessed(n)' = FirableFrom(n)'
      BY <1>1, <3>2
    <3>4. QED
      BY <3>1, <3>3
  <2>2. CASE \E w \in Thread : InsertFind(w)
    <3>1. /\ \A u : Coming(n, u)' = 0 /\ Due(n, u)' = 0
          /\ m_nbSuccessorsToBeProcessed'[n] = 0
      BY <1>4, <2>2, NewStateCounts
    <3>2. Unprocessed(n)' = {}
      BY <1>1, <3>1
    <3>3. QED
      BY <3>1, <3>2, FS_EmptySet
  <2>3. QED
    BY <1>4, <2>1, <2>2, NewStateSteps
<1>5. QED
  BY <1>2, <1>3, <1>4

(* Who is about to set the flag has read that the counter is zero. *)
LEMMA CompletingCases ==
  ASSUME TypeInv, [Next]_vars, NEW w \in Thread, pc'[w] = "complete"
  PROVE  /\ elt'[w] = elt[w]
         /\ \/ pc[w] = "complete"
            \/ pc[w] = "test" /\ m_nbSuccessorsToBeProcessed[elt[w].state] = 0
<1>1. CASE \E v \in Thread : Walks(v)
  BY <1>1 DEF Walks, Moves
<1>2. CASE \E v \in Thread : Takes(v)
  BY <1>2 DEF Takes, Moves, TypeInv, TypeOK
<1>3. CASE \E v \in Thread : InsertFind(v)
  BY <1>3, InsertFindEffect DEF Moves
<1>4. CASE \E v \in Thread : Link(v)
  BY <1>4, LinkEffect DEF Moves, local
<1>5. CASE \E v \in Thread : Decrement(v)
  BY <1>5, DecrementEffect DEF Moves, local
<1>6. CASE \E v \in Thread : Count(v)
  BY <1>6, CountEffect DEF Moves
<1>7. CASE \E v \in Thread : Push(v)
  <2>1. PICK v \in Thread : Push(v)
    BY <1>7
  <2>2. \E lbl \in {"arc", "push"} : Moves(v, lbl)
    BY <2>1, PushEffect
  <2>3. elt' = elt
    BY <2>1, PushEffect
  <2>4. QED
    BY <2>2, <2>3 DEF Moves
<1>8. CASE Waits \/ GetInitial \/ CountRequest \/ PushRequest \/ UNCHANGED vars
  BY <1>8 DEF Waits, GetInitial, CountRequest, PushRequest, vars, builder, local
<1>9. QED
  BY <1>1, <1>2, <1>3, <1>4, <1>5, <1>6, <1>7, <1>8, StepCases DEF StepCase

LEMMA ClosedStep ==
  ASSUME TypeInv, TypeInv', NoTransitionLost, HeldInv, CounterInv, ClosedInv, [Next]_vars
  PROVE  ClosedInv'
<1> SUFFICES ASSUME NEW n \in State', Settled(n)',
                    \/ m_GONodes'[n].m_completed
                    \/ \E w \in Thread : pc'[w] = "complete" /\ elt'[w].state = n,
                    NEW u \in FirableFrom(n)'
             PROVE  EdgesBy(n, u)' # {}
  BY DEF ClosedInv
<1>1. \A w \in Thread : pc'[w] = "complete" =>
        elt'[w] = elt[w] /\ elt[w].state \in State /\ pc[w] \in Unsettled
  BY CompletingCases, CompletingLinked DEF Unsettled
<1>2. CASE n \in State
  <2>1. FirableFrom(n)' = FirableFrom(n) /\ u \in FirableFrom(n)
    BY <1>2, OccurrencesStep
  <2>2. /\ Made(n, u) \in Nat /\ Coming(n, u) \in Nat
        /\ \A x : Occurrences(n, x) = Made(n, x) + Coming(n, x)
        /\ Made(n, u) = 0 <=> EdgesBy(n, u) = {}
        /\ Made(n, u)' \in Nat /\ (Made(n, u)' = 0 <=> EdgesBy(n, u)' = {})
    BY <1>2, TypedCounted, CountedNext DEF Counted
  <2>3. \/ m_GONodes[n].m_completed
        \/ \E w \in Thread : pc[w] \in Unsettled /\ elt[w].state = n
    BY <1>1, <1>2, <2>1, CompletedCases DEF Unsettled
  <2>4. Occurrences(n, u) > 0
    <3>1. m_GONodes[n].m_completed \/ \E x \in FirableFrom(n) : Occurrences(n, x) > 0
      BY <2>3, CompletingLinked
    <3>2. QED
      BY <1>2, <2>1, <3>1 DEF NoTransitionLost
  <2>5. ~Expands(n)
    <3>1. ASSUME Expands(n)
          PROVE  FALSE
      <4>1. Made(n, u) = 0 /\ Coming(n, u) = 0
        BY <1>2, <2>1, <3>1, SettledStep
      <4>2. QED
        BY <2>2, <2>4, <4>1
    <3>2. QED
      BY <3>1
  <2>6. Settled(n)
    BY <1>2, <2>5, SettledStep
  <2>7. EdgesBy(n, u) # {}
    <3>1. CASE m_GONodes[n].m_completed \/ \E w \in Thread : pc[w] = "complete" /\ elt[w].state = n
      BY <1>2, <2>1, <2>6, <3>1 DEF ClosedInv
    <3>2. CASE ~(m_GONodes[n].m_completed \/ \E w \in Thread : pc[w] = "complete" /\ elt[w].state = n)
      <4>1. ~m_GONodes'[n].m_completed
        BY <1>2, <2>1, <3>2, CompletedCases
      <4>2. m_nbSuccessorsToBeProcessed[n] = 0
        BY <4>1, <3>2, CompletingCases
      <4>3. Cardinality(Unprocessed(n)) = 0 /\ IsFiniteSet(Unprocessed(n))
            /\ Unprocessed(n) = {v \in FirableFrom(n) : Coming(n, v) # 0 \/ Due(n, v) # 0}
        BY <1>2, <2>6, <4>2, TypedRemaining DEF Remaining, CounterInv
      <4>4. Unprocessed(n) = {}
        BY <4>3, FS_EmptySet
      <4>5. Coming(n, u) = 0
        BY <2>1, <4>3, <4>4
      <4>6. QED
        BY <2>2, <2>4, <4>5
    <3>3. QED
      BY <3>1, <3>2
  <2>8. Made(n, u)' >= Made(n, u)
    <3>1. CASE \E w \in Thread : Link(w)
      <4>1. PICK k \in {0, 1} : Made(n, u)' = Made(n, u) + k
        BY <1>2, <3>1, LinkCounts DEF Bit
      <4>2. QED
        BY <2>2, <4>1
    <3>2. CASE \E w \in Thread : Decrement(w)
      BY <1>2, <2>2, <3>2, DecrementCounts
    <3>3. QED
      BY <1>2, <2>1, <2>2, <2>5, <3>1, <3>2, NumbersSteps DEF NumbersStep, Steady
  <2>9. QED
    BY <2>2, <2>7, <2>8
<1>3. CASE n \notin State
  <2>1. m_GONodes'[n].m_completed
    BY <1>1, <1>3
  <2>2. QED
    BY <1>3, <2>1, NewStateSteps, NewStateCounts, GetInitialCounts
<1>4. QED
  BY <1>2, <1>3

LEMMA CountingInvariant == Spec => [](HeldInv /\ CounterInv /\ ClosedInv)
<1>1. Init => HeldInv /\ CounterInv /\ ClosedInv
  BY DEF Init, HeldInv, CounterInv, ClosedInv, State
<1>2. /\ TypeInv /\ TypeInv' /\ NoTransitionLost /\ HeldInv /\ CounterInv /\ ClosedInv
      /\ [Next]_vars
      => HeldInv' /\ CounterInv' /\ ClosedInv'
  BY HeldStep, CounterStep, ClosedStep
<1>3. QED
  BY <1>1, <1>2, TypeCorrect, NothingForgotten, PTL DEF Spec

LEMMA ExpandedOnceSettled ==
  ASSUME NEW n, ExpandedOnce(n)
  PROVE  Settled(n)
BY DEF ExpandedOnce, Expanding, Settled, Once, Recounting

(* The counter of a state that one thread has expanded is the number of    *)
(* its transitions still to be processed, whoever processes them.          *)
THEOREM CounterIsExact == Spec => []CounterCounts
<1>1. CounterInv => CounterCounts
  BY ExpandedOnceSettled DEF CounterInv, CounterCounts
<1>2. QED
  BY <1>1, CountingInvariant, PTL

(* Such a state is complete only with an edge for each of its transitions. *)
THEOREM CompletedAreClosed == Spec => []CompletedIsClosed
<1>1. TypeInv /\ ClosedInv => CompletedIsClosed
  <2> SUFFICES ASSUME TypeInv, ClosedInv, NEW n \in State, ExpandedOnce(n),
                      m_GONodes[n].m_completed
               PROVE  TransitionsOf(m_GONodes[n]) = FirableFrom(n)
    BY DEF CompletedIsClosed
  <2>1. \A u \in FirableFrom(n) : EdgesBy(n, u) # {}
    BY ExpandedOnceSettled DEF ClosedInv
  <2>2. FirableFrom(n) \subseteq TransitionsOf(m_GONodes[n])
    BY <2>1 DEF EdgesBy, TransitionsOf
  <2>3. TransitionsOf(m_GONodes[n]) \subseteq FirableFrom(n)
    BY DEF TypeInv, EdgesOK, Links, TransitionsOf
  <2>4. QED
    BY <2>2, <2>3
<1>2. QED
  BY <1>1, CountingInvariant, TypeCorrect, PTL
=============================================================================
