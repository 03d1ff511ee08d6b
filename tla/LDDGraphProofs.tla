--------------------------- MODULE LDDGraphProofs ---------------------------
(***************************************************************************)
(* What the operators of LDDGraph do to the vector and to each of its      *)
(* states, for the proofs about the constructions that use them.           *)
(***************************************************************************)
EXTENDS LDDGraph, SequenceTheorems, TLAPS

(* A new state, with or without its flags, is well-formed. *)
LEMMA NewStateType ==
  ASSUME NEW a \in Aggregate
  PROVE  NewState(a) \in LDDState
BY DEF NewState, LDDState

LEMMA WithFlagsType ==
  ASSUME NEW s \in LDDState
  PROVE  /\ WithFlags(s) \in LDDState
         /\ WithFlags(s).m_lddstate = s.m_lddstate
         /\ WithFlags(s).Successors = s.Successors
         /\ WithFlags(s).Predecessors = s.Predecessors
         /\ WithFlags(s).m_visited = s.m_visited
         /\ WithFlags(s).m_completed = s.m_completed
         /\ WithFlags(s).m_blocage = (s.m_lddstate \in Deadlocked)
         /\ WithFlags(s).m_boucle = (s.m_lddstate \in Divergent)
<1>1. PICK b \in BOOLEAN, d \in BOOLEAN :
        b = (s.m_lddstate \in Deadlocked) /\ d = (s.m_lddstate \in Divergent)
  <2>1. (s.m_lddstate \in Deadlocked) \in BOOLEAN /\ (s.m_lddstate \in Divergent) \in BOOLEAN
    OBVIOUS
  <2>2. WITNESS (s.m_lddstate \in Deadlocked) \in BOOLEAN,
                (s.m_lddstate \in Divergent) \in BOOLEAN
  <2>3. QED
    OBVIOUS
<1>2. WithFlags(s) = [s EXCEPT !.m_blocage = b, !.m_boucle = d]
  BY <1>1, Zenon DEF WithFlags
<1>3. LET f == [s EXCEPT !.m_blocage = b, !.m_boucle = d]
      IN  /\ f \in LDDState
          /\ f.m_lddstate = s.m_lddstate
          /\ f.Successors = s.Successors
          /\ f.Predecessors = s.Predecessors
          /\ f.m_visited = s.m_visited
          /\ f.m_completed = s.m_completed
          /\ f.m_blocage = b
          /\ f.m_boucle = d
  BY DEF LDDState
<1>4. QED
  BY <1>1, <1>2, <1>3, Zenon

(* The domain of the vector, and the type of what it holds. *)
LEMMA GraphDomain ==
  ASSUME NEW g \in Seq(LDDState)
  PROVE  /\ Len(g) \in Nat
         /\ DOMAIN g = 1 .. Len(g)
         /\ \A n \in DOMAIN g : n \in Nat /\ g[n] \in LDDState
BY LenProperties, ElementOfSeq

(* insert adds one state at the end. *)
LEMMA InsertProperties ==
  ASSUME NEW g \in Seq(LDDState), NEW s \in LDDState
  PROVE  /\ insert(g, s) \in Seq(LDDState)
         /\ Len(g) + 1 \in Nat
         /\ Len(g) + 1 \notin DOMAIN g
         /\ DOMAIN insert(g, s) = DOMAIN g \cup {Len(g) + 1}
         /\ \A n \in DOMAIN g : insert(g, s)[n] = g[n]
         /\ insert(g, s)[Len(g) + 1] = s
<1>1. /\ insert(g, s) \in Seq(LDDState)
      /\ Len(insert(g, s)) = Len(g) + 1
      /\ \A i \in 1 .. Len(g) : insert(g, s)[i] = g[i]
      /\ insert(g, s)[Len(g) + 1] = s
  BY AppendProperties DEF insert
<1>2. Len(g) \in Nat /\ DOMAIN g = 1 .. Len(g)
  BY GraphDomain
<1>3. DOMAIN insert(g, s) = 1 .. Len(g) + 1
  BY <1>1, GraphDomain
<1>4. QED
  BY <1>1, <1>2, <1>3

(* Assigning one state of the vector. *)
LEMMA UpdateProperties ==
  ASSUME NEW g \in Seq(LDDState), NEW n \in DOMAIN g, NEW s \in LDDState
  PROVE  /\ [g EXCEPT ![n] = s] \in Seq(LDDState)
         /\ DOMAIN [g EXCEPT ![n] = s] = DOMAIN g
         /\ \A m \in DOMAIN g : [g EXCEPT ![n] = s][m] = IF m = n THEN s ELSE g[m]
<1>1. n \in 1 .. Len(g)
  BY GraphDomain
<1>2. QED
  BY <1>1, ExceptSeq, GraphDomain

(* An edge inserted in front of the list of a state. *)
LEMMA EdgeInFront ==
  ASSUME NEW s \in LDDState, NEW to \in Nat, NEW u \in Transition
  PROVE  LET l == <<[to |-> to, t |-> u]>> \o s.Successors
         IN  /\ l \in Seq([to : Nat, t : Transition])
             /\ DOMAIN l = 1 .. Len(s.Successors) + 1
             /\ Len(s.Successors) \in Nat
             /\ DOMAIN s.Successors = 1 .. Len(s.Successors)
             /\ l[1] = [to |-> to, t |-> u]
             /\ \A i \in 1 .. Len(s.Successors) : l[i + 1] = s.Successors[i]
<1> DEFINE S == [to : Nat, t : Transition]
<1> DEFINE x == [to |-> to, t |-> u]
<1>1. s.Successors \in Seq(S) /\ <<x>> \in Seq(S)
  BY DEF LDDState
<1>2. Len(<<x>>) = 1 /\ <<x>>[1] = x
  OBVIOUS
<1>3. Len(s.Successors) \in Nat /\ DOMAIN s.Successors = 1 .. Len(s.Successors)
  BY <1>1, LenProperties
<1> HIDE DEF S, x
<1>4. /\ <<x>> \o s.Successors \in Seq(S)
      /\ Len(<<x>> \o s.Successors) = 1 + Len(s.Successors)
      /\ \A i \in 1 .. 1 + Len(s.Successors) :
           (<<x>> \o s.Successors)[i] = IF i <= 1 THEN <<x>>[i] ELSE s.Successors[i - 1]
  BY <1>1, <1>2, ConcatProperties
<1>5. DOMAIN (<<x>> \o s.Successors) = 1 .. Len(s.Successors) + 1
  BY <1>4, <1>3, LenProperties
<1>6. (<<x>> \o s.Successors)[1] = x
  BY <1>4, <1>3, <1>2
<1>7. ASSUME NEW i \in 1 .. Len(s.Successors)
      PROVE  (<<x>> \o s.Successors)[i + 1] = s.Successors[i]
  <2>1. i + 1 \in 1 .. 1 + Len(s.Successors) /\ ~(i + 1 <= 1) /\ i + 1 - 1 = i
    BY <1>3
  <2>2. QED
    BY <2>1, <1>4
<1>8. QED
  BY <1>1, <1>3, <1>4, <1>5, <1>6, <1>7 DEF S, x

(* What a state is apart from its edges. *)
SameButEdges(s, r) ==
  /\ r.m_lddstate = s.m_lddstate
  /\ r.m_boucle = s.m_boucle
  /\ r.m_blocage = s.m_blocage
  /\ r.m_visited = s.m_visited
  /\ r.m_completed = s.m_completed

LEMMA AddSuccessorProperties ==
  ASSUME NEW g \in Seq(LDDState), NEW n \in DOMAIN g, NEW m \in DOMAIN g,
         NEW u \in Transition
  PROVE  LET h == AddSuccessor(g, n, m, u)
         IN  /\ h \in Seq(LDDState)
             /\ DOMAIN h = DOMAIN g
             /\ \A k \in DOMAIN g :
                  /\ SameButEdges(g[k], h[k])
                  /\ h[k].Predecessors = g[k].Predecessors
                  /\ h[k].Successors = IF k = n
                                       THEN <<[to |-> m, t |-> u]>> \o g[k].Successors
                                       ELSE g[k].Successors
<1>1. g[n] \in LDDState /\ m \in Nat
  BY GraphDomain
<1> DEFINE l == <<[to |-> m, t |-> u]>> \o g[n].Successors
<1> DEFINE r == [g[n] EXCEPT !.Successors = l]
<1>2. l \in Seq([to : Nat, t : Transition])
  BY <1>1, EdgeInFront
<1>3. AddSuccessor(g, n, m, u) = [g EXCEPT ![n] = r]
  BY DEF AddSuccessor
<1> HIDE DEF l
<1>4. /\ r \in LDDState
      /\ SameButEdges(g[n], r)
      /\ r.Predecessors = g[n].Predecessors
      /\ r.Successors = l
  BY <1>1, <1>2 DEF LDDState, SameButEdges
<1> HIDE DEF r
<1>5. /\ [g EXCEPT ![n] = r] \in Seq(LDDState)
      /\ DOMAIN [g EXCEPT ![n] = r] = DOMAIN g
      /\ \A k \in DOMAIN g : [g EXCEPT ![n] = r][k] = IF k = n THEN r ELSE g[k]
  BY <1>4, UpdateProperties
<1>6. \A k \in DOMAIN g : SameButEdges(g[k], g[k])
  BY DEF SameButEdges
<1>7. QED
  BY <1>3, <1>4, <1>5, <1>6 DEF l

LEMMA AddPredecessorProperties ==
  ASSUME NEW g \in Seq(LDDState), NEW n \in DOMAIN g, NEW m \in DOMAIN g,
         NEW u \in Transition
  PROVE  LET h == AddPredecessor(g, m, n, u)
         IN  /\ h \in Seq(LDDState)
             /\ DOMAIN h = DOMAIN g
             /\ \A k \in DOMAIN g :
                  /\ SameButEdges(g[k], h[k])
                  /\ h[k].Successors = g[k].Successors
                  /\ h[k].Predecessors = IF k = m
                                         THEN g[k].Predecessors \cup {[from |-> n, t |-> u]}
                                         ELSE g[k].Predecessors
<1>1. g[m] \in LDDState /\ n \in Nat
  BY GraphDomain
<1> DEFINE p == g[m].Predecessors \cup {[from |-> n, t |-> u]}
<1> DEFINE r == [g[m] EXCEPT !.Predecessors = p]
<1>2. p \in SUBSET [from : Nat, t : Transition]
  BY <1>1 DEF LDDState
<1>3. AddPredecessor(g, m, n, u) = [g EXCEPT ![m] = r]
  BY DEF AddPredecessor
<1> HIDE DEF p
<1>4. /\ r \in LDDState
      /\ SameButEdges(g[m], r)
      /\ r.Successors = g[m].Successors
      /\ r.Predecessors = p
  BY <1>1, <1>2 DEF LDDState, SameButEdges
<1> HIDE DEF r
<1>5. /\ [g EXCEPT ![m] = r] \in Seq(LDDState)
      /\ DOMAIN [g EXCEPT ![m] = r] = DOMAIN g
      /\ \A k \in DOMAIN g : [g EXCEPT ![m] = r][k] = IF k = m THEN r ELSE g[k]
  BY <1>4, UpdateProperties
<1>6. \A k \in DOMAIN g : SameButEdges(g[k], g[k])
  BY DEF SameButEdges
<1>7. QED
  BY <1>3, <1>4, <1>5, <1>6 DEF p

(* Graph h is graph g with an edge by u from state n to state m. *)
Linked(g, h, n, m, u) ==
  /\ h \in Seq(LDDState)
  /\ DOMAIN h = DOMAIN g
  /\ \A k \in DOMAIN g :
       /\ SameButEdges(g[k], h[k])
       /\ h[k].Successors = IF k = n
                            THEN <<[to |-> m, t |-> u]>> \o g[k].Successors
                            ELSE g[k].Successors
       /\ h[k].Predecessors = IF k = m
                              THEN g[k].Predecessors \cup {[from |-> n, t |-> u]}
                              ELSE g[k].Predecessors

(* The critical section that links two states. *)
LEMMA AddEdgeProperties ==
  ASSUME NEW g \in Seq(LDDState), NEW n \in DOMAIN g, NEW m \in DOMAIN g,
         NEW u \in Transition
  PROVE  Linked(g, AddPredecessor(AddSuccessor(g, n, m, u), m, n, u), n, m, u)
<1> DEFINE f == AddSuccessor(g, n, m, u)
<1>1. /\ f \in Seq(LDDState)
      /\ DOMAIN f = DOMAIN g
      /\ \A k \in DOMAIN g :
           /\ SameButEdges(g[k], f[k])
           /\ f[k].Predecessors = g[k].Predecessors
           /\ f[k].Successors = IF k = n
                                THEN <<[to |-> m, t |-> u]>> \o g[k].Successors
                                ELSE g[k].Successors
  BY AddSuccessorProperties
<1> HIDE DEF f
<1>a. n \in DOMAIN f /\ m \in DOMAIN f
  BY <1>1
<1>b. \A n1, m1 \in DOMAIN f : \A u1 \in Transition :
        LET h == AddPredecessor(f, m1, n1, u1)
        IN  /\ h \in Seq(LDDState)
            /\ DOMAIN h = DOMAIN f
            /\ \A k \in DOMAIN f :
                 /\ SameButEdges(f[k], h[k])
                 /\ h[k].Successors = f[k].Successors
                 /\ h[k].Predecessors = IF k = m1
                                        THEN f[k].Predecessors \cup {[from |-> n1, t |-> u1]}
                                        ELSE f[k].Predecessors
  BY <1>1, AddPredecessorProperties, Zenon
<1> DEFINE h == AddPredecessor(f, m, n, u)
<1>2. /\ h \in Seq(LDDState)
      /\ DOMAIN h = DOMAIN f
      /\ \A k \in DOMAIN f :
           /\ SameButEdges(f[k], h[k])
           /\ h[k].Successors = f[k].Successors
           /\ h[k].Predecessors = IF k = m
                                  THEN f[k].Predecessors \cup {[from |-> n, t |-> u]}
                                  ELSE f[k].Predecessors
  BY <1>b, <1>a, Zenon
<1> HIDE DEF h
<1>3. ASSUME NEW k \in DOMAIN g
      PROVE  SameButEdges(g[k], h[k])
  BY <1>1, <1>2 DEF SameButEdges
<1>4. QED
  BY <1>1, <1>2, <1>3 DEF f, h, Linked

(* setVisited, setCompletedSucc and the flags each assign one state. *)
LEMMA SetVisitedProperties ==
  ASSUME NEW g \in Seq(LDDState), NEW n \in DOMAIN g
  PROVE  LET h == [g EXCEPT ![n].m_visited = TRUE]
         IN  /\ h \in Seq(LDDState)
             /\ DOMAIN h = DOMAIN g
             /\ \A k \in DOMAIN g :
                  h[k] = IF k = n THEN [g[k] EXCEPT !.m_visited = TRUE] ELSE g[k]
<1> DEFINE r == [g[n] EXCEPT !.m_visited = TRUE]
<1>1. g[n] \in LDDState
  BY GraphDomain
<1>2. r \in LDDState
  BY <1>1 DEF LDDState
<1>3. [g EXCEPT ![n].m_visited = TRUE] = [g EXCEPT ![n] = r]
  OBVIOUS
<1> HIDE DEF r
<1>4. /\ [g EXCEPT ![n] = r] \in Seq(LDDState)
      /\ DOMAIN [g EXCEPT ![n] = r] = DOMAIN g
      /\ \A k \in DOMAIN g : [g EXCEPT ![n] = r][k] = IF k = n THEN r ELSE g[k]
  BY <1>2, UpdateProperties
<1>5. QED
  BY <1>3, <1>4 DEF r

LEMMA SetCompletedProperties ==
  ASSUME NEW g \in Seq(LDDState), NEW n \in DOMAIN g
  PROVE  LET h == [g EXCEPT ![n].m_completed = TRUE]
         IN  /\ h \in Seq(LDDState)
             /\ DOMAIN h = DOMAIN g
             /\ \A k \in DOMAIN g :
                  h[k] = IF k = n THEN [g[k] EXCEPT !.m_completed = TRUE] ELSE g[k]
<1> DEFINE r == [g[n] EXCEPT !.m_completed = TRUE]
<1>1. g[n] \in LDDState
  BY GraphDomain
<1>2. r \in LDDState
  BY <1>1 DEF LDDState
<1>3. [g EXCEPT ![n].m_completed = TRUE] = [g EXCEPT ![n] = r]
  OBVIOUS
<1> HIDE DEF r
<1>4. /\ [g EXCEPT ![n] = r] \in Seq(LDDState)
      /\ DOMAIN [g EXCEPT ![n] = r] = DOMAIN g
      /\ \A k \in DOMAIN g : [g EXCEPT ![n] = r][k] = IF k = n THEN r ELSE g[k]
  BY <1>2, UpdateProperties
<1>5. QED
  BY <1>3, <1>4 DEF r

LEMMA SetFlagsProperties ==
  ASSUME NEW g \in Seq(LDDState), NEW n \in DOMAIN g
  PROVE  LET h == [g EXCEPT ![n] = WithFlags(@)]
         IN  /\ h \in Seq(LDDState)
             /\ DOMAIN h = DOMAIN g
             /\ \A k \in DOMAIN g : h[k] = IF k = n THEN WithFlags(g[k]) ELSE g[k]
<1>1. g[n] \in LDDState
  BY GraphDomain
<1>2. WithFlags(g[n]) \in LDDState
  BY <1>1, WithFlagsType
<1>3. QED
  BY <1>2, UpdateProperties

(* An enabled transition is a transition and leads to an aggregate. *)
LEMMA FirableProperties ==
  ASSUME NEW a \in Aggregate
  PROVE  /\ FirableObs[a] \subseteq Transition
         /\ \A u \in FirableObs[a] : Successor[<<a, u>>] \in Aggregate
<1>1. FirableObs[a] \subseteq Transition
  BY SOGAssumption
<1>2. ASSUME NEW u \in FirableObs[a]
      PROVE  Successor[<<a, u>>] \in Aggregate
  <2>1. <<a, u>> \in Arc
    BY <1>1 DEF Arc
  <2>2. QED
    BY <2>1, SOGAssumption
<1>3. QED
  BY <1>1, <1>2

(* Putting an element in front of a list or on a stack. *)
LEMMA FrontProperties ==
  ASSUME NEW S, NEW q \in Seq(S), NEW x \in S
  PROVE  /\ <<x>> \o q \in Seq(S)
         /\ DOMAIN q \subseteq Nat \ {0}
         /\ DOMAIN (<<x>> \o q) \subseteq Nat \ {0}
         /\ 1 \in DOMAIN (<<x>> \o q) /\ (<<x>> \o q)[1] = x
         /\ \A i \in DOMAIN q : i + 1 \in DOMAIN (<<x>> \o q) /\ (<<x>> \o q)[i + 1] = q[i]
         /\ \A i \in DOMAIN (<<x>> \o q) \ {1} :
              i - 1 \in DOMAIN q /\ (<<x>> \o q)[i] = q[i - 1]
<1>1. <<x>> \in Seq(S) /\ Len(<<x>>) = 1 /\ <<x>>[1] = x
  OBVIOUS
<1>2. Len(q) \in Nat /\ DOMAIN q = 1 .. Len(q)
  BY LenProperties
<1> DEFINE f == <<x>>
<1> HIDE DEF f
<1>3. /\ f \o q \in Seq(S)
      /\ Len(f \o q) = 1 + Len(q)
      /\ \A i \in 1 .. 1 + Len(q) : (f \o q)[i] = IF i <= 1 THEN f[i] ELSE q[i - 1]
  BY <1>1, ConcatProperties DEF f
<1>4. DOMAIN (f \o q) = 1 .. 1 + Len(q)
  BY <1>3, LenProperties
<1>5. /\ DOMAIN q \subseteq Nat \ {0} /\ DOMAIN (f \o q) \subseteq Nat \ {0}
      /\ 1 \in DOMAIN (f \o q) /\ (f \o q)[1] = f[1]
  BY <1>2, <1>3, <1>4
<1>6. ASSUME NEW i \in DOMAIN q
      PROVE  i + 1 \in DOMAIN (f \o q) /\ (f \o q)[i + 1] = q[i]
  <2>1. i + 1 \in 1 .. 1 + Len(q) /\ ~(i + 1 <= 1) /\ i + 1 - 1 = i
    BY <1>2
  <2>2. QED
    BY <2>1, <1>3, <1>4
<1>7. ASSUME NEW i \in DOMAIN (f \o q) \ {1}
      PROVE  i - 1 \in DOMAIN q /\ (f \o q)[i] = q[i - 1]
  <2>1. i \in 1 .. 1 + Len(q) /\ ~(i <= 1) /\ i - 1 \in 1 .. Len(q)
    BY <1>2, <1>4
  <2>2. QED
    BY <2>1, <1>2, <1>3
<1>8. QED
  BY <1>1, <1>3, <1>5, <1>6, <1>7 DEF f

(* Taking the head of a queue or the top of a stack. *)
LEMMA PopProperties ==
  ASSUME NEW S, NEW q \in Seq(S), q # <<>>
  PROVE  /\ Tail(q) \in Seq(S)
         /\ 1 \in DOMAIN q /\ Head(q) = q[1] /\ Head(q) \in S
         /\ DOMAIN q \subseteq Nat \ {0}
         /\ \A i \in DOMAIN Tail(q) : i + 1 \in DOMAIN q /\ Tail(q)[i] = q[i + 1]
         /\ \A i \in DOMAIN q \ {1} : i - 1 \in DOMAIN Tail(q) /\ Tail(q)[i - 1] = q[i]
<1>1. /\ Tail(q) \in Seq(S)
      /\ Len(Tail(q)) = Len(q) - 1
      /\ \A i \in 1 .. Len(Tail(q)) : Tail(q)[i] = q[i + 1]
      /\ Head(q) \in S
  BY HeadTailProperties
<1>2. /\ Len(q) \in Nat \ {0} /\ DOMAIN q = 1 .. Len(q)
      /\ DOMAIN Tail(q) = 1 .. Len(q) - 1
      /\ Head(q) = q[1]
  BY <1>1, LenProperties, EmptySeq
<1>3. ASSUME NEW i \in DOMAIN q \ {1}
      PROVE  i - 1 \in DOMAIN Tail(q) /\ Tail(q)[i - 1] = q[i]
  <2>1. i - 1 \in 1 .. Len(q) - 1 /\ i - 1 + 1 = i
    BY <1>2
  <2>2. QED
    BY <2>1, <1>1, <1>2
<1>4. QED
  BY <1>1, <1>2, <1>3

(* The edges of a state. *)
Links(s) == {s.Successors[i] : i \in DOMAIN s.Successors}

(* Linking adds an edge to those of the state, and so its transition. *)
LEMMA LinkedEdges ==
  ASSUME NEW s \in LDDState, NEW r, NEW to \in Nat, NEW u \in Transition,
         r.Successors = <<[to |-> to, t |-> u]>> \o s.Successors
  PROVE  Links(r) = Links(s) \cup {[to |-> to, t |-> u]}
<1> DEFINE l == <<[to |-> to, t |-> u]>> \o s.Successors
<1>1. /\ DOMAIN l = 1 .. Len(s.Successors) + 1
      /\ Len(s.Successors) \in Nat
      /\ DOMAIN s.Successors = 1 .. Len(s.Successors)
      /\ l[1] = [to |-> to, t |-> u]
      /\ \A i \in 1 .. Len(s.Successors) : l[i + 1] = s.Successors[i]
  BY EdgeInFront
<1> HIDE DEF l
<1>2. ASSUME NEW i \in DOMAIN l
      PROVE  l[i] \in Links(s) \cup {[to |-> to, t |-> u]}
  <2>1. CASE i = 1
    BY <1>1, <2>1
  <2>2. CASE i # 1
    <3>1. i - 1 \in 1 .. Len(s.Successors) /\ i - 1 + 1 = i
      BY <1>1, <2>2
    <3>2. l[i] = s.Successors[i - 1] /\ i - 1 \in DOMAIN s.Successors
      BY <1>1, <3>1
    <3>3. QED
      BY <3>2 DEF Links
  <2>3. QED
    BY <2>1, <2>2
<1>3. ASSUME NEW i \in DOMAIN s.Successors
      PROVE  \E j \in DOMAIN l : l[j] = s.Successors[i]
  <2>1. i + 1 \in DOMAIN l /\ l[i + 1] = s.Successors[i]
    BY <1>1
  <2>2. QED
    BY <2>1
<1>4. 1 \in DOMAIN l /\ l[1] = [to |-> to, t |-> u]
  BY <1>1
<1>5. Links(r) = {l[i] : i \in DOMAIN l}
  BY DEF l, Links
<1>6. Links(r) \subseteq Links(s) \cup {[to |-> to, t |-> u]}
  BY <1>2, <1>5
<1>7. [to |-> to, t |-> u] \in Links(r) /\ Links(s) \subseteq Links(r)
  BY <1>3, <1>4, <1>5 DEF Links
<1>8. QED
  BY <1>6, <1>7

LEMMA LinkedTransitions ==
  ASSUME NEW s \in LDDState, NEW r, NEW to \in Nat, NEW u \in Transition,
         r.Successors = <<[to |-> to, t |-> u]>> \o s.Successors
  PROVE  TransitionsOf(r) = TransitionsOf(s) \cup {u}
<1>1. Links(r) = Links(s) \cup {[to |-> to, t |-> u]}
  BY LinkedEdges
<1>2. TransitionsOf(s) = {x.t : x \in Links(s)} /\ TransitionsOf(r) = {x.t : x \in Links(r)}
  BY DEF TransitionsOf, Links
<1>3. QED
  BY <1>1, <1>2

(***************************************************************************)
(* The graph as a part of the SOG: what the constructions promise of it.   *)
(***************************************************************************)
GraphAggregates(g, S) == {g[n].m_lddstate : n \in S}
EdgesFromState(g, n) == {<<g[n].m_lddstate, x.t, g[x.to].m_lddstate>> : x \in Links(g[n])}
GraphEdges(g) == UNION {EdgesFromState(g, n) : n \in DOMAIN g}

(* No aggregate twice, and every edge is one of the SOG. *)
PartOfSOG(g) ==
  /\ \A n, m \in DOMAIN g : g[n].m_lddstate = g[m].m_lddstate => n = m
  /\ \A n \in DOMAIN g : \A x \in Links(g[n]) :
       /\ x.to \in DOMAIN g
       /\ x.t \in FirableObs[g[n].m_lddstate]
       /\ g[x.to].m_lddstate = Successor[<<g[n].m_lddstate, x.t>>]

(* An aggregate is among those of some states when its state is. *)
LEMMA AggregateOnce ==
  ASSUME NEW g, PartOfSOG(g), NEW n \in DOMAIN g, NEW S, S \subseteq DOMAIN g
  PROVE  g[n].m_lddstate \in GraphAggregates(g, S) <=> n \in S
BY DEF PartOfSOG, GraphAggregates

(* The edges of a state, read in a graph with the same aggregates. *)
LEMMA SameEdges ==
  ASSUME NEW g, NEW h, PartOfSOG(g), NEW k \in DOMAIN g, Links(h[k]) = Links(g[k]),
         \A m \in DOMAIN g : h[m].m_lddstate = g[m].m_lddstate
  PROVE  EdgesFromState(h, k) = EdgesFromState(g, k)
<1>1. \A x \in Links(g[k]) :
        <<h[k].m_lddstate, x.t, h[x.to].m_lddstate>> = <<g[k].m_lddstate, x.t, g[x.to].m_lddstate>>
  BY DEF PartOfSOG
<1>2. QED
  BY <1>1, Zenon DEF EdgesFromState

(* Neither states nor edges change. *)
LEMMA SameGraph ==
  ASSUME NEW g, NEW h, PartOfSOG(g), DOMAIN h = DOMAIN g,
         \A k \in DOMAIN g : /\ h[k].m_lddstate = g[k].m_lddstate
                             /\ Links(h[k]) = Links(g[k])
  PROVE  /\ PartOfSOG(h)
         /\ GraphEdges(h) = GraphEdges(g)
         /\ \A S \in SUBSET DOMAIN g : GraphAggregates(h, S) = GraphAggregates(g, S)
<1>1. PartOfSOG(h)
  BY DEF PartOfSOG
<1>2. ASSUME NEW k \in DOMAIN g
      PROVE  EdgesFromState(h, k) = EdgesFromState(g, k)
  BY SameEdges
<1>3. GraphEdges(h) = GraphEdges(g)
  BY <1>2 DEF GraphEdges
<1>4. ASSUME NEW S \in SUBSET DOMAIN g
      PROVE  GraphAggregates(h, S) = GraphAggregates(g, S)
  BY DEF GraphAggregates
<1>5. QED
  BY <1>1, <1>3, <1>4

(* A state without edges is added, for a new aggregate. *)
LEMMA GrownGraph ==
  ASSUME NEW g, NEW h, PartOfSOG(g), NEW n, n \notin DOMAIN g, DOMAIN h = DOMAIN g \cup {n},
         \A k \in DOMAIN g : /\ h[k].m_lddstate = g[k].m_lddstate
                             /\ Links(h[k]) = Links(g[k]),
         Links(h[n]) = {},
         \A k \in DOMAIN g : g[k].m_lddstate # h[n].m_lddstate
  PROVE  /\ PartOfSOG(h)
         /\ GraphEdges(h) = GraphEdges(g)
         /\ h[n].m_lddstate \notin GraphAggregates(g, DOMAIN g)
         /\ GraphAggregates(h, DOMAIN h) = GraphAggregates(g, DOMAIN g) \cup {h[n].m_lddstate}
         /\ \A S \in SUBSET DOMAIN g : GraphAggregates(h, S) = GraphAggregates(g, S)
<1>1. PartOfSOG(h)
  <2>1. ASSUME NEW k \in DOMAIN h, NEW m \in DOMAIN h, h[k].m_lddstate = h[m].m_lddstate
        PROVE  k = m
    BY <2>1 DEF PartOfSOG
  <2>2. ASSUME NEW k \in DOMAIN h, NEW x \in Links(h[k])
        PROVE  /\ x.to \in DOMAIN h
               /\ x.t \in FirableObs[h[k].m_lddstate]
               /\ h[x.to].m_lddstate = Successor[<<h[k].m_lddstate, x.t>>]
    <3>1. k \in DOMAIN g /\ x \in Links(g[k])
      OBVIOUS
    <3>2. QED
      BY <3>1 DEF PartOfSOG
  <2>3. QED
    BY <2>1, <2>2 DEF PartOfSOG
<1>2. ASSUME NEW k \in DOMAIN g
      PROVE  EdgesFromState(h, k) = EdgesFromState(g, k)
  BY SameEdges
<1>3. EdgesFromState(h, n) = {}
  BY DEF EdgesFromState
<1>4. GraphEdges(h) = GraphEdges(g)
  BY <1>2, <1>3 DEF GraphEdges
<1>5. ASSUME NEW S \in SUBSET DOMAIN g
      PROVE  GraphAggregates(h, S) = GraphAggregates(g, S)
  BY DEF GraphAggregates
<1>6. /\ GraphAggregates(h, DOMAIN h) = GraphAggregates(g, DOMAIN g) \cup {h[n].m_lddstate}
      /\ h[n].m_lddstate \notin GraphAggregates(g, DOMAIN g)
  BY DEF GraphAggregates
<1>7. QED
  BY <1>1, <1>4, <1>5, <1>6

(* An edge of the SOG is added. *)
LEMMA LinkedGraph ==
  ASSUME NEW g, NEW h, PartOfSOG(g), DOMAIN h = DOMAIN g,
         NEW n \in DOMAIN g, NEW m \in DOMAIN g, NEW u,
         g[n].m_lddstate \in Aggregate, u \in FirableObs[g[n].m_lddstate],
         g[m].m_lddstate = Successor[<<g[n].m_lddstate, u>>],
         u \notin {x.t : x \in Links(g[n])},
         \A k \in DOMAIN g : h[k].m_lddstate = g[k].m_lddstate,
         \A k \in DOMAIN g \ {n} : Links(h[k]) = Links(g[k]),
         Links(h[n]) = Links(g[n]) \cup {[to |-> m, t |-> u]}
  PROVE  LET new == <<g[n].m_lddstate, u, g[m].m_lddstate>>
         IN  /\ PartOfSOG(h)
             /\ new \in Edge /\ new \notin GraphEdges(g)
             /\ GraphEdges(h) = GraphEdges(g) \cup {new}
             /\ \A S \in SUBSET DOMAIN g : GraphAggregates(h, S) = GraphAggregates(g, S)
<1> DEFINE new == <<g[n].m_lddstate, u, g[m].m_lddstate>>
<1> DEFINE l == [to |-> m, t |-> u]
<1>1. PartOfSOG(h)
  <2>1. ASSUME NEW k \in DOMAIN h, NEW x \in Links(h[k])
        PROVE  /\ x.to \in DOMAIN h
               /\ x.t \in FirableObs[h[k].m_lddstate]
               /\ h[x.to].m_lddstate = Successor[<<h[k].m_lddstate, x.t>>]
    <3>1. x \in Links(g[k]) \/ (k = n /\ x = l)
      OBVIOUS
    <3>2. CASE k = n /\ x = l
      BY <3>2
    <3>3. CASE x \in Links(g[k])
      BY <3>3 DEF PartOfSOG
    <3>4. QED
      BY <3>1, <3>2, <3>3
  <2>2. QED
    BY <2>1 DEF PartOfSOG
<1>2. new \in Edge
  <2>1. u \in Transition
    BY FirableProperties
  <2>2. <<g[n].m_lddstate, u>> \in Arc
    BY <2>1 DEF Arc
  <2>3. QED
    BY <2>2 DEF Edge
<1>3. new \notin GraphEdges(g)
  <2>1. ASSUME NEW k \in DOMAIN g, NEW x \in Links(g[k]),
               new = <<g[k].m_lddstate, x.t, g[x.to].m_lddstate>>
        PROVE  FALSE
    <3>1. g[k].m_lddstate = g[n].m_lddstate /\ x.t = u
      BY <2>1
    <3>2. k = n
      BY <3>1 DEF PartOfSOG
    <3>3. QED
      BY <3>1, <3>2
  <2>2. QED
    BY <2>1 DEF GraphEdges, EdgesFromState
<1>4. ASSUME NEW k \in DOMAIN g \ {n}
      PROVE  EdgesFromState(h, k) = EdgesFromState(g, k)
  BY SameEdges
<1>5. EdgesFromState(h, n) = EdgesFromState(g, n) \cup {new}
  <2> DEFINE f(x) == <<g[n].m_lddstate, x.t, g[x.to].m_lddstate>>
  <2>1. \A x \in Links(g[n]) :
          <<h[n].m_lddstate, x.t, h[x.to].m_lddstate>> = f(x)
    BY DEF PartOfSOG
  <2>2. <<h[n].m_lddstate, l.t, h[l.to].m_lddstate>> = f(l) /\ f(l) = new
    OBVIOUS
  <2>3. Links(h[n]) = Links(g[n]) \cup {l}
    OBVIOUS
  <2>4. EdgesFromState(g, n) = {f(x) : x \in Links(g[n])}
    BY Zenon DEF EdgesFromState
  <2> HIDE DEF l, f, new
  <2>5. EdgesFromState(h, n) = {f(x) : x \in Links(g[n]) \cup {l}}
    <3>1. \A x \in Links(h[n]) : <<h[n].m_lddstate, x.t, h[x.to].m_lddstate>> = f(x)
      BY <2>1, <2>2, <2>3
    <3>2. EdgesFromState(h, n) = {f(x) : x \in Links(h[n])}
      BY <3>1, Zenon DEF EdgesFromState
    <3>3. QED
      BY <3>2, <2>3
  <2>6. QED
    BY <2>2, <2>4, <2>5
<1>6. GraphEdges(h) = GraphEdges(g) \cup {new}
  <2> HIDE DEF new
  <2>1. QED
    BY <1>4, <1>5 DEF GraphEdges
<1>7. ASSUME NEW S \in SUBSET DOMAIN g
      PROVE  GraphAggregates(h, S) = GraphAggregates(g, S)
  BY DEF GraphAggregates
<1>8. QED
  BY <1>1, <1>2, <1>3, <1>6, <1>7

(* A state with all its transitions has all its edges. *)
LEMMA ClosedGraph ==
  ASSUME NEW g, PartOfSOG(g), NEW n \in DOMAIN g,
         {x.t : x \in Links(g[n])} = FirableObs[g[n].m_lddstate]
  PROVE  {new \in Edge : new[1] = g[n].m_lddstate} \subseteq GraphEdges(g)
<1> SUFFICES ASSUME NEW at \in Arc, at[1] = g[n].m_lddstate
             PROVE  <<at[1], at[2], Successor[at]>> \in GraphEdges(g)
  BY DEF Edge
<1>1. at = <<at[1], at[2]>> /\ at[2] \in FirableObs[g[n].m_lddstate]
  BY DEF Arc
<1>2. PICK x \in Links(g[n]) : x.t = at[2]
  BY <1>1
<1>3. g[x.to].m_lddstate = Successor[at]
  BY <1>1, <1>2 DEF PartOfSOG
<1>4. <<at[1], at[2], Successor[at]>> \in EdgesFromState(g, n)
  BY <1>2, <1>3 DEF EdgesFromState
<1>5. QED
  BY <1>4 DEF GraphEdges

-----------------------------------------------------------------------------
(* Sequences as the sets of their elements.                                *)

Elements(q) == {q[k] : k \in DOMAIN q}

LEMMA ElementsType ==
  ASSUME NEW S, NEW q \in Seq(S)
  PROVE  Elements(q) \subseteq S
<1>1. DOMAIN q = 1 .. Len(q) /\ \A k \in 1 .. Len(q) : q[k] \in S
  BY LenProperties, ElementOfSeq
<1>2. QED
  BY <1>1 DEF Elements

LEMMA FrontElements ==
  ASSUME NEW S, NEW q \in Seq(S), NEW x \in S
  PROVE  /\ <<x>> \o q \in Seq(S)
         /\ Elements(<<x>> \o q) = {x} \cup Elements(q)
<1> DEFINE f == <<x>> \o q
<1>1. /\ f \in Seq(S)
      /\ 1 \in DOMAIN f /\ f[1] = x
      /\ \A k \in DOMAIN q : k + 1 \in DOMAIN f /\ f[k + 1] = q[k]
      /\ \A k \in DOMAIN f \ {1} : k - 1 \in DOMAIN q /\ f[k] = q[k - 1]
  BY FrontProperties
<1> HIDE DEF f
<1>2. Elements(f) = {x} \cup Elements(q)
  BY <1>1 DEF Elements
<1>3. QED
  BY <1>1, <1>2 DEF f

LEMMA PopElements ==
  ASSUME NEW S, NEW q \in Seq(S), q # <<>>
  PROVE  /\ Tail(q) \in Seq(S)
         /\ Head(q) \in S
         /\ Elements(q) = {Head(q)} \cup Elements(Tail(q))
<1>1. /\ Tail(q) \in Seq(S)
      /\ 1 \in DOMAIN q /\ Head(q) = q[1] /\ Head(q) \in S
      /\ \A k \in DOMAIN Tail(q) : k + 1 \in DOMAIN q /\ Tail(q)[k] = q[k + 1]
      /\ \A k \in DOMAIN q \ {1} : k - 1 \in DOMAIN Tail(q) /\ Tail(q)[k - 1] = q[k]
  BY PopProperties
<1> DEFINE r == Tail(q)
<1>2. /\ \A k \in DOMAIN r : \E j \in DOMAIN q : r[k] = q[j]
      /\ \A k \in DOMAIN q \ {1} : \E j \in DOMAIN r : r[j] = q[k]
  BY <1>1
<1> HIDE DEF r
<1>3. Elements(q) = {q[1]} \cup Elements(r)
  BY <1>1, <1>2 DEF Elements
<1>4. QED
  BY <1>1, <1>3 DEF r

LEMMA AppendElements ==
  ASSUME NEW S, NEW q \in Seq(S), NEW x \in S
  PROVE  /\ Append(q, x) \in Seq(S)
         /\ Elements(Append(q, x)) = Elements(q) \cup {x}
<1> DEFINE f == Append(q, x)
<1>1. /\ f \in Seq(S)
      /\ Len(f) = Len(q) + 1
      /\ \A k \in 1 .. Len(q) : f[k] = q[k]
      /\ f[Len(q) + 1] = x
  BY AppendProperties
<1>2. Len(q) \in Nat /\ DOMAIN q = 1 .. Len(q)
  BY LenProperties
<1> HIDE DEF f
<1>3. DOMAIN f = 1 .. Len(q) + 1
  BY <1>1, LenProperties
<1>4. DOMAIN f = DOMAIN q \cup {Len(q) + 1}
  BY <1>2, <1>3
<1>5. Elements(f) = Elements(q) \cup {x}
  BY <1>1, <1>2, <1>4 DEF Elements
<1>6. QED
  BY <1>1, <1>5 DEF f

-----------------------------------------------------------------------------
(* The stacks of the threads together: no state is in two places of them.  *)

StackedPair == [state : Nat, fire : SUBSET Transition]

DistinctStates(st) ==
  \A v, w \in DOMAIN st : \A k \in DOMAIN st[v], l \in DOMAIN st[w] :
    st[v][k].state = st[w][l].state => v = w /\ k = l

StackStates(st) == {z.state : z \in UNION {Elements(st[v]) : v \in DOMAIN st}}

LEMMA StackStatesMeaning ==
  ASSUME NEW st, NEW n
  PROVE  n \in StackStates(st) <=> \E v \in DOMAIN st : \E z \in Elements(st[v]) : z.state = n
BY DEF StackStates

(* The stacks st of the threads T become new: x is pushed on that of c, x  *)
(* is popped from that of w.                                               *)
PushesOn(T, S, st, new, c, x) ==
  /\ st \in [T -> Seq(S)] /\ new \in [T -> Seq(S)] /\ c \in T /\ x \in S
  /\ new[c] = <<x>> \o st[c]
  /\ \A v \in T \ {c} : new[v] = st[v]

PopsFrom(T, S, st, new, w, x) ==
  /\ st \in [T -> Seq(S)] /\ new \in [T -> Seq(S)] /\ w \in T
  /\ st[w] # <<>> /\ x = Head(st[w]) /\ new[w] = Tail(st[w])
  /\ \A v \in T \ {w} : new[v] = st[v]

LEMMA PushedElements ==
  ASSUME NEW T, NEW S, NEW st, NEW new, NEW c, NEW x, PushesOn(T, S, st, new, c, x)
  PROVE  Elements(new[c]) = {x} \cup Elements(st[c])
<1>1. st[c] \in Seq(S) /\ x \in S /\ new[c] = <<x>> \o st[c]
  BY DEF PushesOn
<1>2. QED
  BY <1>1, FrontElements

LEMMA PoppedElements ==
  ASSUME NEW T, NEW S, NEW st, NEW new, NEW w, NEW x, PopsFrom(T, S, st, new, w, x)
  PROVE  x \in S /\ Elements(st[w]) = {x} \cup Elements(new[w])
<1>1. st[w] \in Seq(S) /\ st[w] # <<>> /\ x = Head(st[w]) /\ new[w] = Tail(st[w])
  BY DEF PopsFrom
<1>2. QED
  BY <1>1, PopElements

(* A state that is on no stack is pushed. *)
LEMMA PushedState ==
  ASSUME NEW T, NEW S, NEW st, NEW new, NEW c, NEW x, PushesOn(T, S, st, new, c, x),
         DistinctStates(st), x.state \notin StackStates(st)
  PROVE  /\ DistinctStates(new)
         /\ StackStates(new) = StackStates(st) \cup {x.state}
<1>1. /\ DOMAIN st[c] \subseteq Nat \ {0} /\ DOMAIN new[c] \subseteq Nat \ {0}
      /\ 1 \in DOMAIN new[c] /\ new[c][1] = x
      /\ \A k \in DOMAIN new[c] \ {1} : k - 1 \in DOMAIN st[c] /\ new[c][k] = st[c][k - 1]
      /\ \A v \in T \ {c} : new[v] = st[v]
      /\ DOMAIN new = T /\ DOMAIN st = T /\ c \in T
  BY FrontProperties DEF PushesOn
<1>2. \A v \in T : \A l \in DOMAIN st[v] : st[v][l].state \in StackStates(st)
  BY <1>1 DEF StackStates, Elements
<1>3. ASSUME NEW v \in T, NEW k \in DOMAIN new[v]
      PROVE  \/ v = c /\ k = 1 /\ new[v][k].state = x.state
             \/ /\ new[v][k].state # x.state
                /\ \E l \in DOMAIN st[v] : /\ new[v][k] = st[v][l]
                                           /\ k = IF v = c THEN l + 1 ELSE l
  <2>1. CASE v = c /\ k # 1
    <3>1. k - 1 \in DOMAIN st[c] /\ new[c][k] = st[c][k - 1] /\ k = (k - 1) + 1
      BY <1>1, <1>3, <2>1
    <3>2. QED
      BY <1>2, <2>1, <3>1
  <2>2. CASE v = c /\ k = 1
    BY <1>1, <2>2
  <2>3. CASE v # c
    BY <1>1, <1>2, <1>3, <2>3
  <2>4. QED
    BY <2>1, <2>2, <2>3
<1>4. ASSUME NEW v \in T, NEW u \in T, NEW k \in DOMAIN new[v], NEW l \in DOMAIN new[u],
             new[v][k].state = new[u][l].state
      PROVE  v = u /\ k = l
  <2>1. CASE new[v][k].state = x.state
    BY <1>3, <1>4, <2>1
  <2>2. CASE new[v][k].state # x.state
    <3>1. PICK a \in DOMAIN st[v] : new[v][k] = st[v][a] /\ k = IF v = c THEN a + 1 ELSE a
      BY <1>3, <2>2
    <3>2. PICK b \in DOMAIN st[u] : new[u][l] = st[u][b] /\ l = IF u = c THEN b + 1 ELSE b
      BY <1>3, <1>4, <2>2
    <3>3. v = u /\ a = b
      BY <1>1, <1>4, <3>1, <3>2 DEF DistinctStates
    <3>4. QED
      BY <3>1, <3>2, <3>3
  <2>3. QED
    BY <2>1, <2>2
<1>5. DistinctStates(new)
  BY <1>1, <1>4 DEF DistinctStates
<1>6. \A v \in T : /\ v # c => Elements(new[v]) = Elements(st[v])
                   /\ v = c => Elements(new[v]) = Elements(st[v]) \cup {x}
  BY <1>1, PushedElements
<1>7. ASSUME NEW n
      PROVE  n \in StackStates(new) <=> n \in StackStates(st) \/ n = x.state
  <2>1. n \in StackStates(new) <=> \E v \in T : \E z \in Elements(new[v]) : z.state = n
    BY <1>1, StackStatesMeaning
  <2>2. n \in StackStates(st) <=> \E v \in T : \E z \in Elements(st[v]) : z.state = n
    BY <1>1, StackStatesMeaning
  <2>3. x \in Elements(new[c]) /\ c \in T
    BY <1>1, <1>6
  <2>4. \A v \in T : \A z : z \in Elements(new[v]) <=> z \in Elements(st[v]) \/ (v = c /\ z = x)
    BY <1>6
  <2>5. QED
    BY <2>1, <2>2, <2>3, <2>4
<1>8. QED
  BY <1>5, <1>7

(* A stack is popped: its state is on no stack any more. *)
LEMMA PoppedState ==
  ASSUME NEW T, NEW S, NEW st, NEW new, NEW w, NEW x, PopsFrom(T, S, st, new, w, x),
         DistinctStates(st)
  PROVE  /\ DistinctStates(new)
         /\ x.state \in StackStates(st)
         /\ StackStates(new) = StackStates(st) \ {x.state}
<1> DEFINE n == st[w][1].state
<1>1. /\ 1 \in DOMAIN st[w] /\ x = st[w][1] /\ w \in T
      /\ new[w] = Tail(st[w]) /\ Tail(st[w]) \in Seq(S)
      /\ \A k \in DOMAIN new[w] : k + 1 \in DOMAIN st[w] /\ new[w][k] = st[w][k + 1]
      /\ \A v \in T \ {w} : new[v] = st[v]
      /\ DOMAIN new = T /\ DOMAIN st = T
  BY PopProperties DEF PopsFrom
<1>2. DOMAIN new[w] \subseteq Nat \ {0}
  BY <1>1, LenProperties
<1>3. ASSUME NEW v \in T, NEW k \in DOMAIN new[v]
      PROVE  /\ new[v][k].state # n
             /\ \E l \in DOMAIN st[v] : /\ new[v][k] = st[v][l]
                                        /\ l = IF v = w THEN k + 1 ELSE k
  <2>1. CASE v = w
    <3>1. k + 1 \in DOMAIN st[w] /\ new[w][k] = st[w][k + 1] /\ k + 1 # 1
      BY <1>1, <1>2, <1>3, <2>1
    <3>2. st[w][k + 1].state # st[w][1].state
      BY <1>1, <3>1 DEF DistinctStates
    <3>3. QED
      BY <2>1, <3>1, <3>2
  <2>2. CASE v # w
    <3>1. new[v] = st[v] /\ k \in DOMAIN st[v]
      BY <1>1, <1>3, <2>2
    <3>2. st[v][k].state # st[w][1].state
      BY <1>1, <2>2, <3>1 DEF DistinctStates
    <3>3. QED
      BY <2>2, <3>1, <3>2
  <2>3. QED
    BY <2>1, <2>2
<1>4. ASSUME NEW v \in T, NEW u \in T, NEW k \in DOMAIN new[v], NEW l \in DOMAIN new[u],
             new[v][k].state = new[u][l].state
      PROVE  v = u /\ k = l
  <2>1. PICK a \in DOMAIN st[v] : new[v][k] = st[v][a] /\ a = IF v = w THEN k + 1 ELSE k
    BY <1>3
  <2>2. PICK b \in DOMAIN st[u] : new[u][l] = st[u][b] /\ b = IF u = w THEN l + 1 ELSE l
    BY <1>3
  <2>3. v = u /\ a = b
    BY <1>1, <1>4, <2>1, <2>2 DEF DistinctStates
  <2>4. k \in Nat \/ v # w
    BY <1>2
  <2>5. l \in Nat \/ u # w
    BY <1>2
  <2>6. QED
    BY <2>1, <2>2, <2>3, <2>4, <2>5
<1>5. DistinctStates(new)
  BY <1>1, <1>4 DEF DistinctStates
<1>6. \A v \in T : /\ v # w => Elements(new[v]) = Elements(st[v])
                   /\ v = w => Elements(st[v]) = Elements(new[v]) \cup {st[w][1]}
  BY <1>1, PoppedElements
<1>7. \A v \in T : \A z \in Elements(new[v]) : z.state # n
  BY <1>3 DEF Elements
<1>8. st[w][1] \in Elements(st[w])
  BY <1>1 DEF Elements
<1> HIDE DEF n
<1>9. StackStates(new) = StackStates(st) \ {n} /\ n \in StackStates(st)
  <2>1. \A m : m \in StackStates(new) <=> \E v \in T : \E z \in Elements(new[v]) : z.state = m
    BY <1>1, StackStatesMeaning
  <2>2. \A m : m \in StackStates(st) <=> \E v \in T : \E z \in Elements(st[v]) : z.state = m
    BY <1>1, StackStatesMeaning
  <2>3. n \in StackStates(st) /\ n \notin StackStates(new)
    <3>1. w \in T /\ \E z \in Elements(st[w]) : z.state = n
      BY <1>1, <1>8 DEF n
    <3>2. QED
      BY <1>7, <2>1, <2>2, <3>1
  <2>4. \A m : m \in StackStates(new) => m \in StackStates(st)
    BY <1>6, <2>1, <2>2
  <2>5. ASSUME NEW m, m \in StackStates(st), m # n
        PROVE  m \in StackStates(new)
    <3>1. PICK v \in T : \E z \in Elements(st[v]) : z.state = m
      BY <2>2, <2>5
    <3>2. PICK z \in Elements(st[v]) : z.state = m
      BY <3>1
    <3>3. z # st[w][1]
      BY <2>5, <3>2 DEF n
    <3>4. z \in Elements(new[v])
      BY <1>6, <3>3
    <3>5. QED
      BY <2>1, <3>2, <3>4
  <2>6. QED
    BY <2>3, <2>4, <2>5
<1>10. QED
  BY <1>1, <1>5, <1>9 DEF n
=============================================================================
