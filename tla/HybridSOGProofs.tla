-------------------------- MODULE HybridSOGProofs --------------------------
(***************************************************************************)
(* What holds of the MPI construction for every number of processes and    *)
(* threads, every owner of every aggregate and every Symbolic Observation  *)
(* Graph.  The argument goes in layers, each an invariant relative to the  *)
(* ones before it:                                                         *)
(*   TypeInv      types, and pointers that designate nodes of the graph of *)
(*                the process;                                             *)
(*   OnceInv      no aggregate has two nodes in a process, the deleted one *)
(*                aside;                                                   *)
(*   DeliveryInv  a state message waits where it has to go next, and every *)
(*                virtual node has one or a node at its owner;             *)
(*   GraphInv     every edge is one of the SOG, every message about an     *)
(*                aggregate already met;                                   *)
(*   WorkInv      what is linked, in hand and still to fire of a node      *)
(*                makes its observable transitions.                        *)
(* The last two carry the refinement of SOGOnTheFly.                       *)
(***************************************************************************)
EXTENDS HybridSOG, LDDGraphProofs, FiniteSetTheorems

GraphNode ==
  [m_lddstate : Aggregate, Successors : Seq([to : Nat, t : Transition]), m_virtual : BOOLEAN]

MessageType ==
  [tag : {"STATE"}, v : Aggregate] \cup [tag : {"REC", "SEND", "TERM", "ABORT"}, v : Nat]

ChannelType == [Process \X Process -> Seq(MessageType)]

(* What is in the stack of received aggregates of thread x, and in the     *)
(* state messages from p to q, of the channels c and of those there are.   *)
Msgs(x) == Elements(m_msg[x])
StatesIn(c, p, q) == {m.v : m \in {m \in Elements(c[<<p, q>>]) : m.tag = "STATE"}}
Travel(p, q) == StatesIn(chan, p, q)

NodesOf(p) == DOMAIN m_graph[p]
Agg(p, n) == m_graph[p][n].m_lddstate
Virtual(p, n) == m_graph[p][n].m_virtual

(* The labels of thread 0 and those of a builder; where a builder has a    *)
(* state in its e.                                                         *)
CommLabel == {"start", "send", "held", "read", "scan", "quiet", "term", "done"}
BuilderLabel == {"start", "loop", "busy", "enter", "pop", "fire", "collect", "link",
                 "receive", "store", "leave", "idle", "done"}
Expanding == {"fire", "collect", "link"}

TypeOK ==
  /\ n_tasks \in 2 .. MaxTask
  /\ m_nb_thread \in [Process -> 2 .. MaxThread]
  /\ destination \in [Aggregate -> 0 .. n_tasks - 1]
  /\ m_graph \in [Process -> Seq(GraphNode)]
  /\ m_st \in [Thread -> Seq(StackedPair)]
  /\ m_msg \in [Thread -> Seq(Aggregate)]
  /\ m_working \in [Process -> Int]
  /\ m_gc \in [Process -> Int]
  /\ m_nbsend \in [Process -> Nat]
  /\ m_nbrecv \in [Process -> Nat]
  /\ m_total_nb_recv \in Nat
  /\ m_Terminated \subseteq Process
  /\ m_Terminating \subseteq Process
  /\ chan \in ChannelType
  /\ probed \in [Process -> SUBSET Process]
  /\ pc \in [Thread -> CommLabel \cup BuilderLabel]
  /\ e \in [Thread -> StackedPair]
  /\ t \in [Thread -> Transition \cup {NoTransition}]
  /\ pos \in [Thread -> Nat]
  /\ fresh \in [Thread -> BOOLEAN]
  /\ s \in [Process -> SUBSET Aggregate]
  /\ i \in [Process -> Nat]

(* Which threads exist, and what they do. *)
LabelsOK ==
  \A x \in Thread :
    /\ pc[x] \in IF x[2] = 0 THEN CommLabel ELSE BuilderLabel
    /\ pc[x] # "done" => x[1] < n_tasks /\ x[2] < m_nb_thread[x[1]]

(* A node is virtual where its aggregate does not belong. *)
NodesOK ==
  \A p \in Process : \A n \in NodesOf(p) : Virtual(p, n) <=> destination[Agg(p, n)] # p

(* A node of process p to expand, with all its observable transitions.     *)
PairOK(p, z) ==
  /\ z.state \in NodesOf(p) /\ ~Virtual(p, z.state)
  /\ z.fire = FirableObs[Agg(p, z.state)]

StacksOK == \A x \in Thread : \A z \in Elements(m_st[x]) : PairOK(x[1], z)

ThreadOK(x) ==
  /\ pc[x] \in Expanding =>
       /\ e[x].state \in NodesOf(x[1]) /\ ~Virtual(x[1], e[x].state)
       /\ e[x].fire \subseteq FirableObs[Agg(x[1], e[x].state)]
  /\ pc[x] = "link" =>
       /\ t[x] \in FirableObs[Agg(x[1], e[x].state)]
       /\ pos[x] \in NodesOf(x[1])
       /\ Agg(x[1], pos[x]) = Successor[<<Agg(x[1], e[x].state), t[x]>>]
  /\ pc[x] = "store" => fresh[x] /\ pos[x] \in NodesOf(x[1]) /\ ~Virtual(x[1], pos[x])

(* Process 0 has nothing before its thread 0 starts. *)
StartOK ==
  pc[Comm(0)] = "start" =>
    /\ m_graph[0] = <<>>
    /\ \A x \in Thread : x[1] = 0 =>
         /\ m_st[x] = <<>> /\ m_msg[x] = <<>>
         /\ x[2] # 0 => pc[x] \in {"start", "loop", "done"}

(* A state message is in the stack or the channel that leads to its owner. *)
MessagesOK ==
  /\ \A p, q \in Process : \A a \in Travel(p, q) : destination[a] = q
  /\ \A x \in Thread : x[2] # 0 => \A a \in Msgs(x) : destination[a] = x[1]
  /\ \A p \in Process :
       /\ \A a, b \in s[p] : a = b
       /\ pc[Comm(p)] # "held" => s[p] = {}

TypeInv ==
  /\ TypeOK
  /\ LabelsOK
  /\ NodesOK
  /\ MessagesOK
  /\ StacksOK
  /\ \A x \in Thread : ThreadOK(x)
  /\ StartOK

(* Two nodes of a process have two aggregates, unless one is the node that *)
(* process 0 has deleted.                                                  *)
OnceInv ==
  \A p \in Process : \A n, m \in NodesOf(p) :
    Agg(p, n) = Agg(p, m) => n = m \/ Dangling(p, n) \/ Dangling(p, m)

InHand(x) == IF pc[x] = "link" THEN {t[x]} ELSE {}
Fired(p, n) == {u.t : u \in Links(m_graph[p][n])}

(* The transitions of the node a builder expands are linked, in its hands  *)
(* or still to fire; nobody has begun a node that is stacked or fresh, and *)
(* a node nobody has is complete.                                          *)
WorkInv ==
  /\ \A x \in Thread : pc[x] \in Expanding =>
       Fired(x[1], e[x].state) \cup InHand(x) \cup e[x].fire = FirableObs[Agg(x[1], e[x].state)]
  /\ \A p \in Process : \A n \in NodesOf(p) :
       ~Virtual(p, n) /\ Finished(p, n) => Fired(p, n) = FirableObs[Agg(p, n)]

Known == AggregatesOf(Nodes)

GraphInv ==
  /\ \A p \in Process : \A n \in NodesOf(p) : \A u \in Links(m_graph[p][n]) :
       /\ u.to \in NodesOf(p)
       /\ u.t \in FirableObs[Agg(p, n)]
       /\ Agg(p, u.to) = Successor[<<Agg(p, n), u.t>>]
  /\ \A x \in Thread : Msgs(x) \subseteq Known
  /\ \A p \in Process : s[p] \subseteq Known
  /\ \A p, q \in Process : Travel(p, q) \subseteq Known
  /\ pc[Comm(0)] = "start" => \A p \in Process : NodesOf(p) = {}

-----------------------------------------------------------------------------
(* Has and Stacked only depend on the elements.                            *)
LEMMA HasElement ==
  ASSUME NEW q, NEW v
  PROVE  Has(q, v) <=> v \in Elements(q)
BY DEF Has, Elements

LEMMA StackedElement ==
  ASSUME NEW x, NEW n
  PROVE  /\ Stacked(x, n) <=> \E z \in Elements(m_st[x]) : z.state = n
         /\ Stacked(x, n)' <=> \E z \in Elements(m_st'[x]) : z.state = n
BY DEF Stacked, Elements

-----------------------------------------------------------------------------
(* Threads and processes.                                                  *)

LEMMA CommProperties ==
  ASSUME NEW p \in Process
  PROVE  Comm(p) \in Thread /\ Comm(p)[1] = p /\ Comm(p)[2] = 0
BY HybridSOGAssumption DEF Comm, Thread

LEMMA ThreadProperties ==
  ASSUME NEW x \in Thread
  PROVE  /\ x[1] \in Process /\ x[2] \in 0 .. MaxThread - 1 /\ x = <<x[1], x[2]>>
         /\ x[2] = 0 <=> x = Comm(x[1])
BY DEF Comm, Thread

LEMMA BuildersProperties ==
  ASSUME TypeOK, NEW p \in Process, NEW y \in Builders(p)
  PROVE  y \in Thread /\ y[1] = p /\ y[2] # 0
<1>1. m_nb_thread[p] \in 2 .. MaxThread /\ MaxThread \in Nat
  BY HybridSOGAssumption DEF TypeOK
<1>2. QED
  BY <1>1 DEF Builders, Thread

(* A thread at a label of a builder is one. *)
LEMMA BuilderProperties ==
  ASSUME TypeInv, NEW x \in Thread, pc[x] \in BuilderLabel \ {"start", "done"}
  PROVE  /\ x \in Builders(x[1]) /\ x[1] \in Process /\ x[1] < n_tasks
         /\ x[2] # 0 /\ x # Comm(x[1])
<1>1. x[2] # 0 /\ x[1] < n_tasks /\ x[2] < m_nb_thread[x[1]]
  BY DEF TypeInv, LabelsOK, BuilderLabel, CommLabel
<1>2. x[1] \in Process /\ x[2] \in 0 .. MaxThread - 1 /\ x = <<x[1], x[2]>> /\ x # Comm(x[1])
  BY <1>1, ThreadProperties
<1>3. m_nb_thread[x[1]] \in 2 .. MaxThread /\ MaxThread \in Nat
  BY <1>2, HybridSOGAssumption DEF TypeInv, TypeOK
<1>4. x[2] \in 1 .. m_nb_thread[x[1]] - 1
  BY <1>1, <1>2, <1>3
<1>5. x \in Builders(x[1])
  BY <1>2, <1>4 DEF Builders
<1>6. QED
  BY <1>1, <1>2, <1>5

(* Every process in use has a builder, and an aggregate belongs to one.    *)
LEMMA OwnerProperties ==
  ASSUME TypeOK, NEW a \in Aggregate
  PROVE  destination[a] \in Process
<1>1. MaxTask \in Nat \ {0, 1}
  BY HybridSOGAssumption
<1>2. QED
  BY <1>1 DEF TypeOK, Process

-----------------------------------------------------------------------------
(* What each step does.                                                    *)

(* Thread x goes to a label; the others stay where they are. *)
Moves(x, label) ==
  /\ pc' \in [Thread -> CommLabel \cup BuilderLabel]
  /\ pc'[x] = label
  /\ \A y \in Thread \ {x} : pc'[y] = pc[y]

LEMMA GotoMoves ==
  ASSUME TypeOK, NEW x \in Thread, NEW label \in CommLabel \cup BuilderLabel, Goto(x, label)
  PROVE  Moves(x, label)
BY DEF TypeOK, Goto, Moves

(* A node n for aggregate a is added in process p. *)
AddsNode(p, n, a) ==
  /\ m_graph' \in [Process -> Seq(GraphNode)]
  /\ n \in Nat /\ n \notin NodesOf(p)
  /\ DOMAIN m_graph'[p] = NodesOf(p) \cup {n}
  /\ m_graph'[p][n] = Node(a, destination[a] # p)
  /\ \A k \in NodesOf(p) : m_graph'[p][k] = m_graph[p][k]
  /\ \A q \in Process \ {p} : m_graph'[q] = m_graph[q]

(* An edge by u from node n to node m is added in process p. *)
AddsEdge(p, n, m, u) ==
  /\ m_graph' \in [Process -> Seq(GraphNode)]
  /\ DOMAIN m_graph'[p] = NodesOf(p)
  /\ \A k \in NodesOf(p) :
       /\ m_graph'[p][k].m_lddstate = Agg(p, k)
       /\ m_graph'[p][k].m_virtual = Virtual(p, k)
       /\ k # n => Links(m_graph'[p][k]) = Links(m_graph[p][k])
  /\ Links(m_graph'[p][n]) = Links(m_graph[p][n]) \cup {[to |-> m, t |-> u]}
  /\ \A q \in Process \ {p} : m_graph'[q] = m_graph[q]

LEMMA AddedNode ==
  ASSUME NEW p, NEW n, NEW a, AddsNode(p, n, a)
  PROVE  LET new == m_graph'[p][n]
         IN  /\ new.m_lddstate = a
             /\ new.m_virtual <=> destination[a] # p
             /\ Links(new) = {}
<1>1. PICK v \in BOOLEAN : v = (destination[a] # p)
  OBVIOUS
<1>2. m_graph'[p][n] = Node(a, v)
  BY <1>1, Zenon DEF AddsNode
<1>3. Node(a, v).m_lddstate = a /\ Node(a, v).m_virtual = v /\ Node(a, v).Successors = <<>>
  BY DEF Node
<1>4. Links(Node(a, v)) = {}
  BY <1>3 DEF Links
<1>5. QED
  BY <1>1, <1>2, <1>3, <1>4

LEMMA NodesDomain ==
  ASSUME TypeOK, NEW p \in Process
  PROVE  /\ NodesOf(p) = 1 .. Len(m_graph[p]) /\ Len(m_graph[p]) \in Nat
         /\ \A n \in NodesOf(p) : n \in Nat /\ m_graph[p][n] \in GraphNode
                                  /\ Agg(p, n) \in Aggregate
<1>1. m_graph[p] \in Seq(GraphNode)
  BY DEF TypeOK
<1>2. /\ NodesOf(p) = 1 .. Len(m_graph[p]) /\ Len(m_graph[p]) \in Nat
      /\ \A n \in NodesOf(p) : n \in Nat /\ m_graph[p][n] \in GraphNode
  BY <1>1, LenProperties, ElementOfSeq DEF NodesOf
<1>3. QED
  BY <1>2 DEF GraphNode, Agg

LEMMA InsertAdds ==
  ASSUME TypeOK, NEW p \in Process, NEW a \in Aggregate, NEW virtual \in BOOLEAN,
         virtual <=> destination[a] # p,
         m_graph' = [m_graph EXCEPT ![p] = insert(@, Node(a, virtual))]
  PROVE  AddsNode(p, Len(m_graph[p]) + 1, a)
<1> DEFINE g == m_graph[p]
<1> DEFINE x == Node(a, virtual)
<1>1. g \in Seq(GraphNode) /\ m_graph \in [Process -> Seq(GraphNode)]
  BY DEF TypeOK
<1>2. x \in GraphNode
  BY DEF Node, GraphNode
<1>3. x = Node(a, destination[a] # p)
  <2>1. virtual = (destination[a] # p)
    OBVIOUS
  <2>2. QED
    BY <2>1
<1> HIDE DEF x
<1>4. /\ insert(g, x) \in Seq(GraphNode)
      /\ Len(insert(g, x)) = Len(g) + 1
      /\ \A k \in 1 .. Len(g) : insert(g, x)[k] = g[k]
      /\ insert(g, x)[Len(g) + 1] = x
  BY <1>1, <1>2, AppendProperties DEF insert
<1>5. Len(g) \in Nat /\ DOMAIN g = 1 .. Len(g) /\ DOMAIN insert(g, x) = 1 .. Len(g) + 1
  BY <1>1, <1>4, LenProperties
<1>6. /\ m_graph' \in [Process -> Seq(GraphNode)]
      /\ m_graph'[p] = insert(g, x)
      /\ \A q \in Process \ {p} : m_graph'[q] = m_graph[q]
  BY <1>1, <1>4 DEF x
<1>7. DOMAIN insert(g, x) = DOMAIN g \cup {Len(g) + 1} /\ Len(g) + 1 \notin DOMAIN g
  BY <1>5
<1>8. QED
  BY <1>3, <1>4, <1>5, <1>6, <1>7 DEF AddsNode, NodesOf

LEMMA AddSuccessorAdds ==
  ASSUME TypeOK, NEW p \in Process, NEW n \in NodesOf(p), NEW m \in NodesOf(p),
         NEW u \in Transition,
         m_graph' = [m_graph EXCEPT ![p] = AddSuccessor(@, n, m, u)]
  PROVE  AddsEdge(p, n, m, u)
<1> DEFINE g == m_graph[p]
<1> DEFINE S == [to : Nat, t : Transition]
<1> DEFINE x == [to |-> m, t |-> u]
<1> DEFINE l == <<x>> \o g[n].Successors
<1> DEFINE r == [g[n] EXCEPT !.Successors = l]
<1>1. g \in Seq(GraphNode) /\ m_graph \in [Process -> Seq(GraphNode)]
  BY DEF TypeOK
<1>2. g[n] \in GraphNode /\ m \in Nat
  BY NodesDomain
<1>3. x \in S /\ g[n].Successors \in Seq(S)
  BY <1>2 DEF GraphNode
<1>4. l \in Seq(S) /\ Elements(l) = {x} \cup Elements(g[n].Successors)
  <2> HIDE DEF x, S
  <2>1. QED
    BY <1>3, FrontElements
<1>5. AddSuccessor(g, n, m, u) = [g EXCEPT ![n] = r]
  BY DEF AddSuccessor
<1> HIDE DEF l, x
<1>6. /\ r \in GraphNode
      /\ r.m_lddstate = g[n].m_lddstate /\ r.m_virtual = g[n].m_virtual
      /\ r.Successors = l
  BY <1>2, <1>4 DEF GraphNode
<1> HIDE DEF r
<1>7. n \in 1 .. Len(g)
  BY NodesDomain
<1>8. /\ [g EXCEPT ![n] = r] \in Seq(GraphNode)
      /\ DOMAIN [g EXCEPT ![n] = r] = DOMAIN g
      /\ \A k \in DOMAIN g : [g EXCEPT ![n] = r][k] = IF k = n THEN r ELSE g[k]
  BY <1>1, <1>6, <1>7, ExceptSeq, LenProperties
<1>9. Links(r) = Links(g[n]) \cup {x}
  BY <1>4, <1>6 DEF Links, Elements
<1>10. /\ m_graph'[p] = [g EXCEPT ![n] = r]
       /\ m_graph' \in [Process -> Seq(GraphNode)]
       /\ \A q \in Process \ {p} : m_graph'[q] = m_graph[q]
  BY <1>1, <1>5, <1>8
<1>11. QED
  BY <1>6, <1>8, <1>9, <1>10 DEF AddsEdge, NodesOf, Agg, Virtual, x

(* A state or an aggregate gets on the stack of y, or leaves it. *)
PushesState(y, n, F) ==
  /\ m_st' \in [Thread -> Seq(StackedPair)]
  /\ Elements(m_st'[y]) = Elements(m_st[y]) \cup {Pair(n, F)}
  /\ \A w \in Thread \ {y} : m_st'[w] = m_st[w]

TakesState(y, z) ==
  /\ m_st' \in [Thread -> Seq(StackedPair)]
  /\ Elements(m_st[y]) = Elements(m_st'[y]) \cup {z}
  /\ \A w \in Thread \ {y} : m_st'[w] = m_st[w]

PushesMessage(y, a) ==
  /\ m_msg' \in [Thread -> Seq(Aggregate)]
  /\ Elements(m_msg'[y]) = Msgs(y) \cup {a}
  /\ \A w \in Thread \ {y} : m_msg'[w] = m_msg[w]

TakesMessage(y, a) ==
  /\ m_msg' \in [Thread -> Seq(Aggregate)]
  /\ Msgs(y) = Elements(m_msg'[y]) \cup {a}
  /\ \A w \in Thread \ {y} : m_msg'[w] = m_msg[w]

LEMMA StatePushed ==
  ASSUME TypeOK, NEW y \in Thread, NEW n \in Nat, NEW F \in SUBSET Transition,
         m_st' = [m_st EXCEPT ![y] = <<Pair(n, F)>> \o @]
  PROVE  PushesState(y, n, F)
<1>1. m_st \in [Thread -> Seq(StackedPair)] /\ Pair(n, F) \in StackedPair
  BY DEF TypeOK, Pair, StackedPair
<1> DEFINE l == <<Pair(n, F)>> \o m_st[y]
<1>2. l \in Seq(StackedPair) /\ Elements(l) = Elements(m_st[y]) \cup {Pair(n, F)}
  BY <1>1, FrontElements
<1> HIDE DEF l
<1>3. m_st' = [m_st EXCEPT ![y] = l]
  BY DEF l
<1>4. QED
  BY <1>1, <1>2, <1>3 DEF PushesState

LEMMA StateTaken ==
  ASSUME TypeOK, NEW y \in Thread, m_st[y] # <<>>, m_st' = [m_st EXCEPT ![y] = Tail(@)]
  PROVE  TakesState(y, Head(m_st[y])) /\ Head(m_st[y]) \in StackedPair
<1>1. m_st \in [Thread -> Seq(StackedPair)]
  BY DEF TypeOK
<1>2. /\ Tail(m_st[y]) \in Seq(StackedPair) /\ Head(m_st[y]) \in StackedPair
      /\ Elements(m_st[y]) = {Head(m_st[y])} \cup Elements(Tail(m_st[y]))
  BY <1>1, PopElements
<1>3. QED
  BY <1>1, <1>2 DEF TakesState

LEMMA MessagePushed ==
  ASSUME TypeOK, NEW y \in Thread, NEW a \in Aggregate,
         m_msg' = [m_msg EXCEPT ![y] = <<a>> \o @]
  PROVE  PushesMessage(y, a)
<1>1. m_msg \in [Thread -> Seq(Aggregate)]
  BY DEF TypeOK
<1> DEFINE l == <<a>> \o m_msg[y]
<1>2. l \in Seq(Aggregate) /\ Elements(l) = Elements(m_msg[y]) \cup {a}
  BY <1>1, FrontElements
<1> HIDE DEF l
<1>3. m_msg' = [m_msg EXCEPT ![y] = l]
  BY DEF l
<1>4. QED
  BY <1>1, <1>2, <1>3 DEF PushesMessage, Msgs

LEMMA MessageTaken ==
  ASSUME TypeOK, NEW y \in Thread, m_msg[y] # <<>>, m_msg' = [m_msg EXCEPT ![y] = Tail(@)]
  PROVE  TakesMessage(y, Head(m_msg[y])) /\ Head(m_msg[y]) \in Aggregate
<1>1. m_msg \in [Thread -> Seq(Aggregate)]
  BY DEF TypeOK
<1>2. /\ Tail(m_msg[y]) \in Seq(Aggregate) /\ Head(m_msg[y]) \in Aggregate
      /\ Elements(m_msg[y]) = {Head(m_msg[y])} \cup Elements(Tail(m_msg[y]))
  BY <1>1, PopElements
<1>3. QED
  BY <1>1, <1>2 DEF TakesMessage, Msgs

-----------------------------------------------------------------------------
(* The channels.                                                           *)

LEMMA MessageTypes ==
  /\ \A m \in MessageType : m.tag = "STATE" => m.v \in Aggregate /\ m = Message("STATE", m.v)
  /\ \A m \in MessageType : m.tag # "STATE" => m.v \in Nat
  /\ \A a \in Aggregate : Message("STATE", a) \in MessageType
  /\ \A tag \in {"REC", "SEND", "TERM", "ABORT"} : \A v \in Nat :
       Message(tag, v) \in MessageType
  /\ \A tag : \A v : Message(tag, v).tag = tag /\ Message(tag, v).v = v
BY DEF MessageType, Message

LEMMA Sent ==
  ASSUME NEW c \in ChannelType, NEW p \in Process, NEW q \in Process, NEW m \in MessageType
  PROVE  /\ MpiSend(c, p, q, m) \in ChannelType
         /\ \A u, v \in Process :
              StatesIn(MpiSend(c, p, q, m), u, v)
                = IF u = p /\ v = q /\ m.tag = "STATE" THEN StatesIn(c, u, v) \cup {m.v}
                                                      ELSE StatesIn(c, u, v)
<1> DEFINE pq == <<p, q>>
<1> DEFINE l == Append(c[pq], m)
<1>1. c[pq] \in Seq(MessageType)
  BY DEF ChannelType
<1>2. l \in Seq(MessageType) /\ Elements(l) = Elements(c[pq]) \cup {m}
  BY <1>1, AppendElements
<1> HIDE DEF l
<1>3. MpiSend(c, p, q, m) = [c EXCEPT ![pq] = l]
  BY DEF MpiSend, l
<1>4. /\ MpiSend(c, p, q, m) \in ChannelType
      /\ MpiSend(c, p, q, m)[pq] = l
      /\ \A uv \in (Process \X Process) \ {pq} : MpiSend(c, p, q, m)[uv] = c[uv]
  BY <1>2, <1>3 DEF ChannelType
<1> DEFINE d == MpiSend(c, p, q, m)
<1> HIDE DEF d
<1>5. ASSUME NEW u \in Process, NEW v \in Process
      PROVE  StatesIn(d, u, v)
               = IF u = p /\ v = q /\ m.tag = "STATE" THEN StatesIn(c, u, v) \cup {m.v}
                                                     ELSE StatesIn(c, u, v)
  <2>1. CASE u = p /\ v = q
    <3>1. Elements(d[<<u, v>>]) = Elements(c[<<u, v>>]) \cup {m}
      BY <1>2, <1>4, <2>1 DEF d
    <3>2. QED
      BY <2>1, <3>1 DEF StatesIn
  <2>2. CASE ~(u = p /\ v = q)
    <3>1. <<u, v>> \in (Process \X Process) \ {pq}
      BY <2>2
    <3>2. QED
      BY <1>4, <2>2, <3>1 DEF StatesIn, d
  <2>3. QED
    BY <2>1, <2>2
<1>6. QED
  BY <1>4, <1>5 DEF d

LEMMA Received ==
  ASSUME NEW c \in ChannelType, NEW p \in Process, NEW q \in Process, c[<<p, q>>] # <<>>
  PROVE  LET m == Head(c[<<p, q>>])
         IN  /\ m \in MessageType
             /\ MpiRecv(c, p, q) \in ChannelType
             /\ \A u, v \in Process :
                  StatesIn(c, u, v)
                    = IF u = p /\ v = q /\ m.tag = "STATE"
                      THEN StatesIn(MpiRecv(c, p, q), u, v) \cup {m.v}
                      ELSE StatesIn(MpiRecv(c, p, q), u, v)
<1> DEFINE pq == <<p, q>>
<1> DEFINE m == Head(c[pq])
<1> DEFINE l == Tail(c[pq])
<1>1. c[pq] \in Seq(MessageType) /\ c[pq] # <<>>
  BY DEF ChannelType
<1>2. l \in Seq(MessageType) /\ m \in MessageType /\ Elements(c[pq]) = {m} \cup Elements(l)
  BY <1>1, PopElements
<1> HIDE DEF l, m
<1>3. MpiRecv(c, p, q) = [c EXCEPT ![pq] = l]
  BY DEF MpiRecv, l
<1>4. /\ MpiRecv(c, p, q) \in ChannelType
      /\ MpiRecv(c, p, q)[pq] = l
      /\ \A uv \in (Process \X Process) \ {pq} : MpiRecv(c, p, q)[uv] = c[uv]
  BY <1>2, <1>3 DEF ChannelType
<1> DEFINE d == MpiRecv(c, p, q)
<1> HIDE DEF d
<1>5. ASSUME NEW u \in Process, NEW v \in Process
      PROVE  StatesIn(c, u, v)
               = IF u = p /\ v = q /\ m.tag = "STATE" THEN StatesIn(d, u, v) \cup {m.v}
                                                     ELSE StatesIn(d, u, v)
  <2>1. CASE u = p /\ v = q
    <3>1. Elements(c[<<u, v>>]) = Elements(d[<<u, v>>]) \cup {m}
      BY <1>2, <1>4, <2>1 DEF d
    <3>2. QED
      BY <2>1, <3>1 DEF StatesIn
  <2>2. CASE ~(u = p /\ v = q)
    <3>1. <<u, v>> \in (Process \X Process) \ {pq}
      BY <2>2
    <3>2. QED
      BY <1>4, <2>2, <3>1 DEF StatesIn, d
  <2>3. QED
    BY <2>1, <2>2
<1>6. QED
  BY <1>2, <1>4, <1>5 DEF d, m

-----------------------------------------------------------------------------
(* What each step does to the graphs, the stacks, the messages and the     *)
(* locals of the builders.                                                 *)

Core == <<m_graph, stacks, local, s, chan>>

(* Builder x goes on and touches nothing of this. *)
Walks(x) ==
  LET label == pc'[x]
  IN  /\ Moves(x, label)
      /\ pc[x] \in BuilderLabel \ {"start", "done", "link", "store"}
      /\ label \in BuilderLabel \ {"start", "link", "store"}
      /\ label \in Expanding => pc[x] \in Expanding
      /\ pc[x] \in Expanding /\ label \notin Expanding => e[x].fire = {}
      /\ pc[x] = "loop" /\ label # "done" => m_st[x] # <<>> \/ m_msg[x] # <<>>
      /\ UNCHANGED Core

LEMMA WalkSteps ==
  ASSUME TypeInv, NEW x \in Thread,
         \/ Loop(x) \/ Busy(x) \/ Enter(x) \/ Collect(x) \/ Leave(x) \/ Idle(x)
         \/ Pop(x) /\ m_st[x] = <<>>
         \/ Fire(x) /\ e[x].fire = {}
         \/ Receive(x) /\ m_msg[x] = <<>>
  PROVE  Walks(x)
<1> USE DEF BuilderLabel, Expanding, Core, stacks, local, comm
<1>1. TypeOK
  BY DEF TypeInv
<1>2. ASSUME NEW label \in BuilderLabel \ {"start", "link", "store"}, Goto(x, label),
             pc[x] \in BuilderLabel \ {"start", "done", "link", "store"},
             label \in Expanding => pc[x] \in Expanding,
             pc[x] \in Expanding /\ label \notin Expanding => e[x].fire = {},
             pc[x] = "loop" /\ label # "done" => m_st[x] # <<>> \/ m_msg[x] # <<>>,
             UNCHANGED Core
      PROVE  Walks(x)
  <2>1. Moves(x, label)
    BY <1>1, <1>2, GotoMoves
  <2>2. QED
    BY <1>2, <2>1 DEF Walks, Moves
<1>3. CASE Loop(x)
  <2>1. \E label \in {"busy", "done"} :
          Goto(x, label) /\ (label # "done" => m_st[x] # <<>> \/ m_msg[x] # <<>>)
    BY <1>3 DEF Loop
  <2>2. QED
    BY <1>2, <1>3, <2>1 DEF Loop
<1>4. CASE Busy(x)
  <2>1. \E label \in {"enter", "pop"} : Goto(x, label)
    BY <1>4 DEF Busy
  <2>2. QED
    BY <1>2, <1>4, <2>1 DEF Busy
<1>5. CASE Enter(x)
  BY <1>2, <1>5 DEF Enter
<1>6. CASE Collect(x)
  BY <1>2, <1>6 DEF Collect
<1>7. CASE Leave(x)
  BY <1>2, <1>7 DEF Leave
<1>8. CASE Idle(x)
  BY <1>2, <1>8 DEF Idle
<1>9. CASE Pop(x) /\ m_st[x] = <<>>
  BY <1>2, <1>9 DEF Pop
<1>10. CASE Fire(x) /\ e[x].fire = {}
  BY <1>2, <1>10 DEF Fire
<1>11. CASE Receive(x) /\ m_msg[x] = <<>>
  <2>1. \E label \in {"leave", "idle"} : Goto(x, label)
    BY <1>11 DEF Receive, Out
  <2>2. QED
    BY <1>2, <1>11, <2>1 DEF Receive
<1>12. QED
  BY <1>3, <1>4, <1>5, <1>6, <1>7, <1>8, <1>9, <1>10, <1>11

LEMMA PopEffect ==
  ASSUME TypeInv, NEW x \in Thread, Pop(x), m_st[x] # <<>>
  PROVE  /\ pc[x] = "pop" /\ Moves(x, "fire")
         /\ e' \in [Thread -> StackedPair]
         /\ TakesState(x, e'[x])
         /\ \A y \in Thread \ {x} : e'[y] = e[y]
         /\ UNCHANGED <<m_graph, m_msg, t, pos, fresh, s, chan>>
<1>1. TypeOK
  BY DEF TypeInv
<1>2. /\ pc[x] = "pop" /\ Goto(x, "fire")
      /\ e' = [e EXCEPT ![x] = Head(m_st[x])] /\ m_st' = [m_st EXCEPT ![x] = Tail(@)]
  BY DEF Pop
<1>3. Moves(x, "fire")
  BY <1>1, <1>2, GotoMoves DEF BuilderLabel
<1>4. TakesState(x, Head(m_st[x])) /\ Head(m_st[x]) \in StackedPair
  BY <1>1, <1>2, StateTaken
<1>5. QED
  BY <1>1, <1>2, <1>3, <1>4 DEF Pop, TypeOK, comm

(* The node of aggregate a: found in the process of x, or added there. *)
FindsOrAdds(x, a) ==
  /\ pos' \in [Thread -> Nat] /\ fresh' \in [Thread -> BOOLEAN]
  /\ \A y \in Thread \ {x} : pos'[y] = pos[y] /\ fresh'[y] = fresh[y]
  /\ \/ /\ pos'[x] \in NodesOf(x[1]) /\ Agg(x[1], pos'[x]) = a /\ ~fresh'[x]
        /\ UNCHANGED m_graph
     \/ /\ AddsNode(x[1], pos'[x], a) /\ fresh'[x]
        /\ \A n \in NodesOf(x[1]) : Agg(x[1], n) = a => Dangling(x[1], n)

LEMMA FindInsertEffect ==
  ASSUME TypeOK, NEW x \in Thread, NEW a \in Aggregate, FindInsert(x, a)
  PROVE  FindsOrAdds(x, a)
<1> DEFINE p == x[1]
<1>1. p \in Process
  BY ThreadProperties
<1>2. pos \in [Thread -> Nat] /\ fresh \in [Thread -> BOOLEAN]
  BY DEF TypeOK
<1>3. \A n : n \in StatesOf(m_graph[p], a) <=> n \in NodesOf(p) /\ Agg(p, n) = a
  BY DEF StatesOf, NodesOf, Agg
<1>4. CASE \E n \in StatesOf(m_graph[p], a) : /\ pos' = [pos EXCEPT ![x] = n]
                                             /\ fresh' = [fresh EXCEPT ![x] = FALSE]
                                             /\ UNCHANGED m_graph
  BY <1>1, <1>2, <1>3, <1>4, NodesDomain DEF FindsOrAdds
<1>5. CASE /\ \A n \in StatesOf(m_graph[p], a) : Dangling(p, n)
           /\ m_graph' = [m_graph EXCEPT ![p] = insert(@, Node(a, destination[a] # p))]
           /\ pos' = [pos EXCEPT ![x] = Len(m_graph[p]) + 1]
           /\ fresh' = [fresh EXCEPT ![x] = TRUE]
  <2>1. PICK virtual \in BOOLEAN : virtual = (destination[a] # p)
    OBVIOUS
  <2>2. m_graph' = [m_graph EXCEPT ![p] = insert(@, Node(a, virtual))]
    BY <1>5, <2>1, Zenon
  <2>3. AddsNode(p, Len(m_graph[p]) + 1, a)
    BY <1>1, <2>1, <2>2, InsertAdds
  <2>4. Len(m_graph[p]) + 1 \in Nat
    BY <2>3 DEF AddsNode
  <2>5. QED
    BY <1>2, <1>3, <1>5, <2>3, <2>4 DEF FindsOrAdds
<1>6. QED
  BY <1>4, <1>5 DEF FindInsert

LEMMA FireEffect ==
  ASSUME TypeInv, NEW x \in Thread, Fire(x), e[x].fire # {}
  PROVE  /\ pc[x] \in {"fire", "collect"} /\ Moves(x, "link")
         /\ e[x].state \in NodesOf(x[1]) /\ ~Virtual(x[1], e[x].state)
         /\ e' \in [Thread -> StackedPair] /\ t' \in [Thread -> Transition \cup {NoTransition}]
         /\ \A y \in Thread \ {x} : e'[y] = e[y] /\ t'[y] = t[y]
         /\ e'[x].state = e[x].state
         /\ t'[x] \in e[x].fire /\ t'[x] \in FirableObs[Agg(x[1], e[x].state)]
         /\ e'[x].fire = e[x].fire \ {t'[x]}
         /\ FindsOrAdds(x, Successor[<<Agg(x[1], e[x].state), t'[x]>>])
         /\ UNCHANGED <<stacks, s, chan>>
<1>1. TypeOK /\ x[1] \in Process
  BY ThreadProperties DEF TypeInv
<1>2. pc[x] \in {"fire", "collect"}
  BY DEF Fire
<1>3. /\ e[x].state \in NodesOf(x[1]) /\ ~Virtual(x[1], e[x].state)
      /\ e[x].fire \subseteq FirableObs[Agg(x[1], e[x].state)]
  BY <1>2 DEF TypeInv, ThreadOK, Expanding
<1> DEFINE b == Agg(x[1], e[x].state)
<1>4. PICK u \in e[x].fire :
        /\ t' = [t EXCEPT ![x] = u]
        /\ e' = [e EXCEPT ![x].fire = @ \ {u}]
        /\ FindInsert(x, Successor[<<b, u>>])
        /\ Goto(x, "link")
  BY DEF Fire, Agg
<1>5. b \in Aggregate /\ u \in FirableObs[b] /\ u \in Transition /\ Successor[<<b, u>>] \in Aggregate
  <2>1. b \in Aggregate /\ u \in FirableObs[b]
    BY <1>1, <1>3, <1>4, NodesDomain
  <2>2. QED
    BY <2>1, FirableProperties
<1>6. FindsOrAdds(x, Successor[<<b, u>>])
  BY <1>1, <1>4, <1>5, FindInsertEffect
<1>7. e \in [Thread -> StackedPair] /\ t \in [Thread -> Transition \cup {NoTransition}]
  BY <1>1 DEF TypeOK
<1>8. /\ e' \in [Thread -> StackedPair]
      /\ e'[x].state = e[x].state /\ e'[x].fire = e[x].fire \ {u}
      /\ \A y \in Thread \ {x} : e'[y] = e[y]
  BY <1>4, <1>7 DEF StackedPair
<1>9. t'[x] = u /\ t' \in [Thread -> Transition \cup {NoTransition}]
      /\ \A y \in Thread \ {x} : t'[y] = t[y]
  BY <1>4, <1>5, <1>7
<1>10. Moves(x, "link")
  BY <1>1, <1>4, GotoMoves DEF BuilderLabel
<1>11. UNCHANGED <<stacks, s, chan>>
  BY DEF Fire, comm
<1>12. QED
  BY <1>2, <1>3, <1>4, <1>5, <1>6, <1>8, <1>9, <1>10, <1>11

LEMMA LinkEffect ==
  ASSUME TypeInv, NEW x \in Thread, Link(x)
  PROVE  LET p == x[1]
             a == Agg(p, pos[x])
         IN  /\ pc[x] = "link" /\ Moves(x, "fire")
             /\ e[x].state \in NodesOf(p) /\ ~Virtual(p, e[x].state)
             /\ pos[x] \in NodesOf(p) /\ t[x] \in FirableObs[Agg(p, e[x].state)]
             /\ AddsEdge(p, e[x].state, pos[x], t[x])
             /\ \/ ~fresh[x] /\ UNCHANGED stacks
                \/ /\ fresh[x] /\ ~Virtual(p, pos[x])
                   /\ \E y \in Builders(p) : PushesState(y, pos[x], FirableObs[a])
                   /\ UNCHANGED m_msg
                \/ /\ fresh[x] /\ Virtual(p, pos[x])
                   /\ PushesMessage(Comm(p), a)
                   /\ UNCHANGED m_st
             /\ UNCHANGED <<local, s, chan>>
<1> DEFINE p == x[1]
<1> DEFINE a == Agg(p, pos[x])
<1>1. TypeOK /\ p \in Process
  BY ThreadProperties DEF TypeInv
<1>2. pc[x] = "link" /\ Goto(x, "fire")
  BY DEF Link
<1>3. /\ e[x].state \in NodesOf(p) /\ ~Virtual(p, e[x].state)
      /\ pos[x] \in NodesOf(p) /\ t[x] \in FirableObs[Agg(p, e[x].state)]
  BY <1>2 DEF TypeInv, ThreadOK, Expanding
<1>4. Moves(x, "fire")
  BY <1>1, <1>2, GotoMoves DEF BuilderLabel
<1>5. a \in Aggregate /\ pos[x] \in Nat /\ FirableObs[a] \in SUBSET Transition /\ t[x] \in Transition
  BY <1>1, <1>3, NodesDomain, FirableProperties
<1>6. AddsEdge(p, e[x].state, pos[x], t[x])
  <2>1. m_graph' = [m_graph EXCEPT ![p] = AddSuccessor(@, e[x].state, pos[x], t[x])]
    BY DEF Link
  <2>2. QED
    BY <1>1, <1>3, <1>5, <2>1, AddSuccessorAdds
<1>7. ASSUME NEW y \in Builders(p), m_st' = [m_st EXCEPT ![y] = <<Pair(pos[x], FirableObs[a])>> \o @]
      PROVE  PushesState(y, pos[x], FirableObs[a])
  <2>1. y \in Thread
    BY <1>1, BuildersProperties
  <2>2. QED
    BY <1>1, <1>5, <1>7, <2>1, StatePushed
<1>8. m_msg' = [m_msg EXCEPT ![Comm(p)] = <<a>> \o @] => PushesMessage(Comm(p), a)
  BY <1>1, <1>5, CommProperties, MessagePushed
<1>9. \/ ~fresh[x] /\ UNCHANGED stacks
      \/ /\ fresh[x] /\ ~Virtual(p, pos[x])
         /\ \E y \in Builders(p) : PushesState(y, pos[x], FirableObs[a])
         /\ UNCHANGED m_msg
      \/ /\ fresh[x] /\ Virtual(p, pos[x])
         /\ PushesMessage(Comm(p), a)
         /\ UNCHANGED m_st
  BY <1>7, <1>8 DEF Link, Agg, Virtual
<1>10. UNCHANGED <<local, s, chan>>
  BY DEF Link, comm
<1>11. QED
  BY <1>2, <1>3, <1>4, <1>6, <1>9, <1>10

LEMMA ReceiveEffect ==
  ASSUME TypeInv, NEW x \in Thread, Receive(x), m_msg[x] # <<>>
  PROVE  \E a \in Aggregate :
           /\ pc[x] = "receive" /\ destination[a] = x[1]
           /\ TakesMessage(x, a)
           /\ FindsOrAdds(x, a)
           /\ Moves(x, IF fresh'[x] THEN "store" ELSE Out(x))
           /\ UNCHANGED <<m_st, e, t, s, chan>>
<1> DEFINE a == Head(m_msg[x])
<1>1. TypeOK /\ pc[x] = "receive"
  BY DEF TypeInv, Receive
<1>2. x[2] # 0
  BY <1>1, BuilderProperties DEF BuilderLabel
<1>3. /\ FindInsert(x, a)
      /\ m_msg' = [m_msg EXCEPT ![x] = Tail(@)]
      /\ Goto(x, IF fresh'[x] THEN "store" ELSE Out(x))
      /\ UNCHANGED <<m_st, e, t, s, chan>>
  BY DEF Receive, comm
<1>4. TakesMessage(x, a) /\ a \in Aggregate
  BY <1>1, <1>3, MessageTaken
<1>5. FindsOrAdds(x, a)
  BY <1>1, <1>3, <1>4, FindInsertEffect
<1>6. destination[a] = x[1]
  BY <1>2, <1>4 DEF TakesMessage, TypeInv, MessagesOK
<1>7. (IF fresh'[x] THEN "store" ELSE Out(x)) \in CommLabel \cup BuilderLabel
  BY DEF Out, BuilderLabel
<1>8. Moves(x, IF fresh'[x] THEN "store" ELSE Out(x))
  BY <1>1, <1>3, <1>7, GotoMoves
<1> HIDE DEF a
<1>9. QED
  BY <1>1, <1>3, <1>4, <1>5, <1>6, <1>8

LEMMA StoreEffect ==
  ASSUME TypeInv, NEW x \in Thread, Store(x)
  PROVE  /\ pc[x] = "store" /\ Moves(x, Out(x))
         /\ fresh[x] /\ pos[x] \in NodesOf(x[1]) /\ ~Virtual(x[1], pos[x])
         /\ \E y \in Builders(x[1]) : PushesState(y, pos[x], FirableObs[Agg(x[1], pos[x])])
         /\ UNCHANGED <<m_graph, m_msg, local, s, chan>>
<1> DEFINE p == x[1]
<1>1. TypeOK /\ p \in Process /\ pc[x] = "store" /\ Goto(x, Out(x))
  BY ThreadProperties DEF TypeInv, Store
<1>2. fresh[x] /\ pos[x] \in NodesOf(p) /\ ~Virtual(p, pos[x])
  BY <1>1 DEF TypeInv, ThreadOK
<1>3. Out(x) \in CommLabel \cup BuilderLabel
  BY DEF Out, BuilderLabel
<1>4. Moves(x, Out(x))
  BY <1>1, <1>3, GotoMoves
<1>5. pos[x] \in Nat /\ FirableObs[Agg(p, pos[x])] \in SUBSET Transition
  BY <1>1, <1>2, NodesDomain, FirableProperties
<1>6. PICK y \in Builders(p) :
        m_st' = [m_st EXCEPT ![y] = <<Pair(pos[x], FirableObs[Agg(p, pos[x])])>> \o @]
  BY DEF Store, Agg
<1>7. y \in Thread
  BY <1>1, BuildersProperties
<1>8. PushesState(y, pos[x], FirableObs[Agg(p, pos[x])])
  BY <1>1, <1>5, <1>6, <1>7, StatePushed
<1>9. UNCHANGED <<m_graph, m_msg, local, s, chan>>
  BY DEF Store, comm
<1>10. QED
  BY <1>1, <1>2, <1>4, <1>8, <1>9

(* The aggregate process 0 begins with. *)
Begins ==
  /\ NodesOf(0) = {}
  /\ AddsNode(0, 1, InitialAggregate)
  /\ \/ /\ destination[InitialAggregate] = 0
        /\ PushesState(<<0, 1>>, 1, FirableObs[InitialAggregate])
        /\ UNCHANGED m_msg
     \/ /\ destination[InitialAggregate] # 0
        /\ PushesMessage(Comm(0), InitialAggregate)
        /\ UNCHANGED m_st

LEMMA StartEffect ==
  ASSUME TypeInv, NEW x \in Thread, Start(x)
  PROVE  /\ pc[x] = "start" /\ Moves(x, IF x[2] = 0 THEN "send" ELSE "loop")
         /\ IF x = Comm(0) THEN Begins ELSE UNCHANGED <<m_graph, stacks>>
         /\ UNCHANGED <<local, s, chan>>
<1>1. TypeOK /\ 0 \in Process /\ InitialAggregate \in Aggregate
  BY SOGAssumption, HybridSOGAssumption DEF TypeInv, Process
<1>2. pc[x] = "start" /\ Goto(x, IF x[2] = 0 THEN "send" ELSE "loop")
  BY ThreadProperties DEF Start
<1>3. Moves(x, IF x[2] = 0 THEN "send" ELSE "loop")
  BY <1>1, <1>2, GotoMoves DEF BuilderLabel, CommLabel
<1>4. ASSUME x = Comm(0)
      PROVE  Begins
  <2> DEFINE a == InitialAggregate
  <2>1. /\ m_graph[0] = <<>>
        /\ \A y \in Thread : y[1] = 0 => m_st[y] = <<>> /\ m_msg[y] = <<>>
    BY <1>2, <1>4 DEF TypeInv, StartOK
  <2>2. PICK virtual \in BOOLEAN : virtual = (destination[a] # 0)
    OBVIOUS
  <2>3. m_graph' = [m_graph EXCEPT ![0] = insert(@, Node(a, virtual))]
    <3>1. m_graph' = [m_graph EXCEPT ![0] = insert(@, Node(a, ~(destination[a] = 0)))]
      BY <1>4 DEF Start
    <3>2. virtual = ~(destination[a] = 0)
      BY <2>2
    <3>3. QED
      BY <3>1, <3>2, Zenon
  <2>4. Len(m_graph[0]) + 1 = 1 /\ NodesOf(0) = {}
    BY <2>1 DEF NodesOf
  <2>5. AddsNode(0, 1, a)
    BY <1>1, <2>2, <2>3, <2>4, InsertAdds
  <2>6. <<0, 1>> \in Thread /\ Comm(0) \in Thread
    BY <1>1, HybridSOGAssumption, CommProperties DEF Thread
  <2>7. m_st[<<0, 1>>] = <<>> /\ m_msg[Comm(0)] = <<>>
    BY <2>1, <2>6, CommProperties, <1>1
  <2>8. FirableObs[a] \in SUBSET Transition
    BY <1>1, FirableProperties
  <2>9. CASE destination[a] = 0
    <3>1. /\ m_st' = [m_st EXCEPT ![<<0, 1>>] = <<Pair(1, FirableObs[a])>>]
          /\ UNCHANGED m_msg
      BY <1>4, <2>9 DEF Start
    <3>2. Pair(1, FirableObs[a]) \in StackedPair
      BY <2>8 DEF Pair, StackedPair
    <3>3. <<Pair(1, FirableObs[a])>> \in Seq(StackedPair)
      BY <3>2
    <3>4. Elements(<<Pair(1, FirableObs[a])>>) = {Pair(1, FirableObs[a])} /\ Elements(m_st[<<0, 1>>]) = {}
      BY <2>7 DEF Elements
    <3>5. PushesState(<<0, 1>>, 1, FirableObs[a])
      BY <1>1, <2>6, <3>1, <3>3, <3>4 DEF PushesState, TypeOK
    <3>6. QED
      BY <2>4, <2>5, <2>9, <3>1, <3>5 DEF Begins
  <2>10. CASE destination[a] # 0
    <3>1. m_msg' = [m_msg EXCEPT ![Comm(0)] = <<a>>] /\ UNCHANGED m_st
      BY <1>4, <2>10 DEF Start
    <3>2. <<a>> \in Seq(Aggregate) /\ Elements(<<a>>) = {a} /\ Msgs(Comm(0)) = {}
      BY <1>1, <2>7 DEF Elements, Msgs
    <3>3. PushesMessage(Comm(0), a)
      BY <1>1, <2>6, <3>1, <3>2 DEF PushesMessage, TypeOK
    <3>4. QED
      BY <2>4, <2>5, <2>10, <3>1, <3>3 DEF Begins
  <2>11. QED
    BY <2>9, <2>10
<1>5. x # Comm(0) => UNCHANGED <<m_graph, stacks>>
  BY DEF Start
<1>6. UNCHANGED <<local, s, chan>>
  BY DEF Start, comm
<1>7. QED
  BY <1>2, <1>3, <1>4, <1>5, <1>6

-----------------------------------------------------------------------------
(* What thread 0 does.                                                     *)

(* It communicates and touches no state message. *)
CommWalks(p) ==
  LET c == Comm(p)
  IN  /\ Moves(c, pc'[c])
      /\ pc[c] \notin {"start", "done"} /\ pc'[c] \in CommLabel \ {"start"}
      /\ pc'[c] = "held" <=> pc[c] = "held"
      /\ chan' \in ChannelType
      /\ \A u, v \in Process : StatesIn(chan', u, v) = Travel(u, v)
      /\ UNCHANGED <<m_graph, stacks, local, s>>

LEMMA NextTaskType ==
  ASSUME TypeOK, NEW p \in Process
  PROVE  NextTask(p) \in Process /\ 0 \in Process /\ 1 \in Process
<1>1. n_tasks \in Nat /\ n_tasks > 0 /\ n_tasks <= MaxTask /\ MaxTask \in Nat \ {0, 1}
  BY HybridSOGAssumption DEF TypeOK
<1>2. p + 1 \in Nat
  BY DEF Process
<1>3. (p + 1) % n_tasks \in 0 .. n_tasks - 1
  BY <1>1, <1>2
<1>4. QED
  BY <1>1, <1>3 DEF NextTask, Process

(* A signal sent, or received, leaves the states on their way. *)
Signal == {m \in MessageType : m.tag # "STATE"}

LEMMA SignalType ==
  ASSUME NEW tag \in {"REC", "SEND", "TERM", "ABORT"}, NEW v, v \in Nat
  PROVE  Message(tag, v) \in Signal
BY DEF Message, MessageType, Signal

LEMMA SignalSent ==
  ASSUME NEW c \in ChannelType, NEW p \in Process, NEW q \in Process, NEW m \in Signal
  PROVE  /\ MpiSend(c, p, q, m) \in ChannelType
         /\ \A y, z \in Process : StatesIn(MpiSend(c, p, q, m), y, z) = StatesIn(c, y, z)
BY Sent DEF Signal

LEMMA SignalReceived ==
  ASSUME NEW c \in ChannelType, NEW p \in Process, NEW q \in Process, c[<<p, q>>] # <<>>,
         Head(c[<<p, q>>]).tag # "STATE"
  PROVE  LET d == MpiRecv(c, p, q)
         IN  /\ d \in ChannelType
             /\ Head(c[<<p, q>>]).v \in Nat
             /\ \A y, z \in Process : StatesIn(d, y, z) = StatesIn(c, y, z)
<1> DEFINE m == Head(c[<<p, q>>])
<1> DEFINE d == MpiRecv(c, p, q)
<1>1. /\ m \in MessageType
      /\ d \in ChannelType
      /\ \A u, v \in Process :
           StatesIn(c, u, v)
             = IF u = p /\ v = q /\ m.tag = "STATE" THEN StatesIn(d, u, v) \cup {m.v}
                                                   ELSE StatesIn(d, u, v)
  BY Received
<1>2. m.tag # "STATE"
  OBVIOUS
<1> HIDE DEF m, d
<1>3. m.v \in Nat /\ \A y, z \in Process : StatesIn(d, y, z) = StatesIn(c, y, z)
  <2>1. m.v \in Nat
    BY <1>1, <1>2, MessageTypes
  <2>2. QED
    BY <1>1, <1>2, <2>1
<1>4. QED
  BY <1>1, <1>3 DEF m, d

LEMMA CommGoto ==
  ASSUME TypeInv, NEW p \in Process, NEW label \in CommLabel \ {"start"}, Goto(Comm(p), label),
         pc[Comm(p)] \notin {"start", "done"},
         label = "held" <=> pc[Comm(p)] = "held",
         chan' \in ChannelType,
         \A u, v \in Process : StatesIn(chan', u, v) = Travel(u, v),
         UNCHANGED <<m_graph, stacks, local, s>>
  PROVE  CommWalks(p)
<1>1. Moves(Comm(p), label)
  BY CommProperties, GotoMoves DEF TypeInv
<1>2. QED
  BY <1>1 DEF CommWalks, Moves

LEMMA CommStays ==
  ASSUME TypeInv, NEW p \in Process, UNCHANGED pc,
         pc[Comm(p)] \notin {"start", "done"},
         chan' \in ChannelType,
         \A u, v \in Process : StatesIn(chan', u, v) = Travel(u, v),
         UNCHANGED <<m_graph, stacks, local, s>>
  PROVE  CommWalks(p)
<1>1. Comm(p) \in Thread /\ Comm(p)[2] = 0
  BY CommProperties
<1>2. Moves(Comm(p), pc[Comm(p)])
  BY <1>1 DEF TypeInv, TypeOK, Moves
<1>3. pc[Comm(p)] \in CommLabel
  BY <1>1 DEF TypeInv, LabelsOK
<1>4. QED
  BY <1>2, <1>3 DEF CommWalks

LEMMA CommWalkSteps ==
  ASSUME TypeInv, NEW p \in Process,
         \/ PopMessage(p) /\ m_msg[Comm(p)] = <<>>
         \/ isNotTerminated(p)
         \/ Quiet(p)
         \/ EndRound(p)
  PROVE  CommWalks(p)
<1> USE DEF CommLabel, stacks, comm, Travel, local
<1>1. TypeOK /\ chan \in ChannelType
  BY DEF TypeInv, TypeOK
<1>2. CASE PopMessage(p) /\ m_msg[Comm(p)] = <<>>
  BY <1>1, <1>2, CommGoto DEF PopMessage
<1>3. CASE isNotTerminated(p)
  <2>1. \E label \in {"send", "quiet", "scan"} : Goto(Comm(p), label)
    BY <1>3 DEF isNotTerminated
  <2>2. QED
    BY <1>1, <1>3, <2>1, CommGoto DEF isNotTerminated
<1>4. CASE Quiet(p)
  <2>1. /\ \E label \in {"term", "send"} : Goto(Comm(p), label)
        /\ \/ UNCHANGED chan
           \/ p = 0 /\ chan' = MpiSend(chan, 0, NextTask(0), Message("REC", m_nbrecv[0]))
        /\ UNCHANGED <<m_graph, stacks, local, s>>
        /\ pc[Comm(p)] = "quiet"
    BY <1>4 DEF Quiet
  <2>2. chan' \in ChannelType /\ \A u, v \in Process : StatesIn(chan', u, v) = Travel(u, v)
    <3>1. CASE UNCHANGED chan
      BY <1>1, <3>1
    <3>2. CASE p = 0 /\ chan' = MpiSend(chan, 0, NextTask(0), Message("REC", m_nbrecv[0]))
      <4>1. m_nbrecv[0] \in Nat /\ NextTask(0) \in Process /\ 0 \in Process
        BY <1>1, NextTaskType DEF TypeOK
      <4> DEFINE m == Message("REC", m_nbrecv[0])
      <4>a. m \in Signal
        BY <4>1, SignalType
      <4> HIDE DEF m
      <4> DEFINE d == MpiSend(chan, 0, NextTask(0), m)
      <4>2. d \in ChannelType /\ \A y, z \in Process : StatesIn(d, y, z) = StatesIn(chan, y, z)
        BY <1>1, <4>1, <4>a, SignalSent
      <4> HIDE DEF d
      <4>3. chan' = d
        BY <3>2 DEF d, m
      <4>4. QED
        BY <4>2, <4>3
    <3>3. QED
      BY <2>1, <3>1, <3>2
  <2>3. QED
    BY <2>1, <2>2, CommGoto
<1>5. CASE EndRound(p)
  <2>1. \E label \in {"done", "send"} : Goto(Comm(p), label)
    BY <1>5 DEF EndRound
  <2>2. QED
    BY <1>1, <1>5, <2>1, CommGoto DEF EndRound
<1>6. QED
  BY <1>2, <1>3, <1>4, <1>5

(* The other messages that read_message and read_termination receive. *)
LEMMA SignalSteps ==
  ASSUME TypeInv, NEW p \in Process, NEW q \in Process, chan[<<q, p>>] # <<>>,
         \/ /\ pc[Comm(p)] \in {"held", "read"} /\ AbortTerm(p, q)
            /\ UNCHANGED <<m_graph, m_st, pc, local, s>>
         \/ ReadTermination(p)
  PROVE  CommWalks(p)
<1> USE DEF CommLabel, stacks, Travel
<1>1. TypeOK /\ chan \in ChannelType /\ 0 \in Process /\ 1 \in Process /\ NextTask(p) \in Process
  BY NextTaskType DEF TypeInv, TypeOK
<1> DEFINE Same(c) == c \in ChannelType /\ \A u, v \in Process : StatesIn(c, u, v) = Travel(u, v)
<1>2. Same(chan)
  BY <1>1
<1>3. ASSUME NEW r \in Process, chan[<<r, p>>] # <<>>, Head(chan[<<r, p>>]).tag # "STATE"
      PROVE  Same(MpiRecv(chan, r, p)) /\ Head(chan[<<r, p>>]).v \in Nat
  BY <1>1, <1>3, SignalReceived
<1>4. ASSUME NEW c, Same(c), NEW r \in Process, NEW m \in Signal
      PROVE  Same(MpiSend(c, p, r, m))
  BY <1>4, SignalSent
<1> HIDE DEF Same
<1>5. CASE /\ pc[Comm(p)] \in {"held", "read"} /\ AbortTerm(p, q)
           /\ UNCHANGED <<m_graph, m_st, pc, local, s>>
  <2>1. /\ Head(chan[<<q, p>>]).tag # "STATE" /\ UNCHANGED m_msg
        /\ \/ p # 0 /\ chan' = MpiSend(MpiRecv(chan, q, p), p, 0, Message("ABORT", 0))
           \/ p = 0 /\ chan' = MpiRecv(chan, q, p)
    BY <1>5 DEF AbortTerm
  <2>2. Message("ABORT", 0) \in Signal
    BY SignalType
  <2>3. Same(chan')
    BY <1>1, <1>3, <1>4, <2>1, <2>2
  <2>4. QED
    BY <1>5, <2>1, <2>3, CommStays DEF Same
<1>6. CASE ReadTermination(p)
  <2>1. PICK r \in Process :
          LET m == Head(chan[<<r, p>>])
              c == MpiRecv(chan, r, p)
          IN  /\ chan[<<r, p>>] # <<>>
              /\ \/ LeaveRound(p, r)
                 \/ m.tag = "REC" /\ TermReceivedMsg(p, m.v, c) /\ UNCHANGED pc
                 \/ m.tag = "SEND" /\ TermSendMsg(p, m.v, c) /\ UNCHANGED pc
                 \/ m.tag = "TERM" /\ ReceiveTermSignal(p, c) /\ UNCHANGED pc
    BY <1>6 DEF ReadTermination
  <2>2. pc[Comm(p)] = "term" /\ UNCHANGED <<m_graph, stacks, local, s>>
    BY <1>6 DEF ReadTermination
  <2> DEFINE m == Head(chan[<<r, p>>])
  <2> DEFINE c == MpiRecv(chan, r, p)
  <2>3. m.tag # "STATE" => Same(c) /\ m.v \in Nat
    BY <1>3, <2>1
  <2>4. CASE LeaveRound(p, r)
    <3>1. \E label \in {"done", "send"} : Goto(Comm(p), label)
      BY <2>4 DEF LeaveRound
    <3>2. Same(chan')
      BY <1>2, <2>3, <2>4 DEF LeaveRound
    <3>3. QED
      BY <2>2, <3>1, <3>2, CommGoto DEF Same
  <2> SUFFICES ASSUME UNCHANGED pc,
                      \/ m.tag = "REC" /\ TermReceivedMsg(p, m.v, c)
                      \/ m.tag = "SEND" /\ TermSendMsg(p, m.v, c)
                      \/ m.tag = "TERM" /\ ReceiveTermSignal(p, c)
               PROVE  CommWalks(p)
    BY <2>1, <2>4
  <2>5. Same(c) /\ m.v \in Nat
    BY <2>3
  <2>6. m_nbrecv[p] \in Nat /\ m_nbsend[p] \in Nat /\ m_nbsend[0] \in Nat
    BY <1>1 DEF TypeOK
  <2> HIDE DEF m, c
  <2>7. Same(chan')
    <3>1. CASE m.tag = "REC" /\ TermReceivedMsg(p, m.v, c)
      <4>1. /\ Message("REC", m.v + m_nbrecv[p]) \in Signal
            /\ Message("SEND", m_nbsend[0]) \in Signal
        BY <2>5, <2>6, SignalType
      <4>2. QED
        BY <1>1, <1>4, <2>5, <2>6, <3>1, <4>1 DEF TermReceivedMsg
    <3>2. CASE m.tag = "SEND" /\ TermSendMsg(p, m.v, c)
      <4>1. /\ Message("SEND", m.v + m_nbsend[p]) \in Signal
            /\ Message("TERM", 0) \in Signal
        BY <2>5, <2>6, SignalType
      <4>2. QED
        BY <1>1, <1>4, <2>5, <3>2, <4>1 DEF TermSendMsg
    <3>3. CASE m.tag = "TERM" /\ ReceiveTermSignal(p, c)
      <4>1. Message("TERM", 0) \in Signal
        BY SignalType
      <4>2. QED
        BY <1>1, <1>4, <2>5, <3>3, <4>1 DEF ReceiveTermSignal
    <3>4. QED
      BY <3>1, <3>2, <3>3
  <2>8. QED
    BY <2>2, <2>7, CommStays DEF Same
<1>7. QED
  BY <1>5, <1>6

(* It takes an aggregate to send. *)
LEMMA PopMessageEffect ==
  ASSUME TypeInv, NEW p \in Process, PopMessage(p), m_msg[Comm(p)] # <<>>
  PROVE  \E a \in Aggregate :
           /\ pc[Comm(p)] = "send" /\ Moves(Comm(p), "held")
           /\ TakesMessage(Comm(p), a)
           /\ s' \in [Process -> SUBSET Aggregate]
           /\ s'[p] = {a} /\ s[p] = {} /\ \A q \in Process \ {p} : s'[q] = s[q]
           /\ UNCHANGED <<m_graph, m_st, local, chan>>
<1> DEFINE c == Comm(p)
<1> DEFINE a == Head(m_msg[c])
<1>1. TypeOK /\ c \in Thread
  BY CommProperties DEF TypeInv
<1>2. /\ pc[c] = "send" /\ Goto(c, "held")
      /\ s' = [s EXCEPT ![p] = {a}] /\ m_msg' = [m_msg EXCEPT ![c] = Tail(@)]
      /\ UNCHANGED <<m_graph, m_st, local, chan>>
  BY DEF PopMessage
<1>3. Moves(c, "held")
  BY <1>1, <1>2, GotoMoves DEF CommLabel
<1>4. TakesMessage(c, a) /\ a \in Aggregate
  BY <1>1, <1>2, MessageTaken
<1>5. s[p] = {}
  BY <1>2 DEF TypeInv, MessagesOK
<1> HIDE DEF a
<1>6. s' \in [Process -> SUBSET Aggregate] /\ s'[p] = {a} /\ \A q \in Process \ {p} : s'[q] = s[q]
  BY <1>1, <1>2, <1>4 DEF TypeOK
<1>7. QED
  BY <1>2, <1>3, <1>4, <1>5, <1>6

(* It sends it. *)
LEMMA SendStateEffect ==
  ASSUME TypeInv, NEW p \in Process, SendState(p)
  PROVE  \E a \in Aggregate :
           /\ pc[Comm(p)] = "held" /\ Moves(Comm(p), "send")
           /\ s[p] = {a} /\ s' \in [Process -> SUBSET Aggregate] /\ s'[p] = {}
           /\ \A q \in Process \ {p} : s'[q] = s[q]
           /\ destination[a] \in Process
           /\ chan' \in ChannelType
           /\ StatesIn(chan', p, destination[a]) = Travel(p, destination[a]) \cup {a}
           /\ \A u, v \in Process : ~(u = p /\ v = destination[a]) =>
                StatesIn(chan', u, v) = Travel(u, v)
           /\ UNCHANGED <<m_graph, stacks, local>>
<1>1. TypeOK /\ Comm(p) \in Thread /\ chan \in ChannelType
  BY CommProperties DEF TypeInv, TypeOK
<1>2. PICK a \in s[p] : chan' = MpiSend(chan, p, destination[a], Message("STATE", a))
  BY DEF SendState
<1>3. /\ pc[Comm(p)] = "held" /\ Goto(Comm(p), "send")
      /\ s' = [s EXCEPT ![p] = {}]
      /\ UNCHANGED <<m_graph, stacks, local>>
  BY DEF SendState
<1>4. a \in Aggregate /\ s[p] = {a}
  BY <1>1, <1>2 DEF TypeOK, TypeInv, MessagesOK
<1>5. destination[a] \in Process
  BY <1>1, <1>4, OwnerProperties
<1> DEFINE m == Message("STATE", a)
<1>6. m \in MessageType /\ m.tag = "STATE" /\ m.v = a
  BY <1>4, MessageTypes
<1> HIDE DEF m
<1> DEFINE q == destination[a]
<1>7. q \in Process /\ chan' = MpiSend(chan, p, q, m)
  BY <1>2, <1>5 DEF m
<1> HIDE DEF q
<1>8. /\ chan' \in ChannelType
      /\ \A u, v \in Process :
           StatesIn(chan', u, v)
             = IF u = p /\ v = q /\ m.tag = "STATE" THEN StatesIn(chan, u, v) \cup {m.v}
                                                   ELSE StatesIn(chan, u, v)
  BY <1>1, <1>6, <1>7, Sent
<1>9. /\ StatesIn(chan', p, q) = Travel(p, q) \cup {a}
      /\ \A u, v \in Process : ~(u = p /\ v = q) => StatesIn(chan', u, v) = Travel(u, v)
  BY <1>6, <1>7, <1>8 DEF Travel
<1>10. /\ s' \in [Process -> SUBSET Aggregate] /\ s'[p] = {}
       /\ \A r \in Process \ {p} : s'[r] = s[r]
  BY <1>1, <1>3 DEF TypeOK
<1>11. Moves(Comm(p), "send")
  BY <1>1, <1>3, GotoMoves DEF CommLabel
<1>12. QED
  BY <1>3, <1>4, <1>5, <1>8, <1>9, <1>10, <1>11 DEF q

(* It receives one for a builder. *)
LEMMA ReadStateEffect ==
  ASSUME TypeInv, NEW p \in Process, NEW q \in Process, chan[<<q, p>>] # <<>>, ReadState(p, q),
         pc[Comm(p)] \in {"held", "read"}, UNCHANGED <<m_graph, m_st, pc, local, s>>
  PROVE  \E a \in Aggregate : \E y \in Builders(p) :
           /\ destination[a] = p
           /\ PushesMessage(y, a)
           /\ chan' \in ChannelType
           /\ Travel(q, p) = StatesIn(chan', q, p) \cup {a}
           /\ \A u, v \in Process : ~(u = q /\ v = p) => StatesIn(chan', u, v) = Travel(u, v)
<1> DEFINE m == Head(chan[<<q, p>>])
<1> DEFINE a == m.v
<1>1. TypeOK /\ chan \in ChannelType
  BY DEF TypeInv, TypeOK
<1>2. m.tag = "STATE" /\ chan' = MpiRecv(chan, q, p)
  BY DEF ReadState
<1>3. PICK y \in Builders(p) : m_msg' = [m_msg EXCEPT ![y] = <<a>> \o @]
  BY DEF ReadState
<1>4. /\ m \in MessageType /\ MpiRecv(chan, q, p) \in ChannelType
      /\ \A u, v \in Process :
           StatesIn(chan, u, v)
             = IF u = q /\ v = p /\ m.tag = "STATE"
               THEN StatesIn(MpiRecv(chan, q, p), u, v) \cup {m.v}
               ELSE StatesIn(MpiRecv(chan, q, p), u, v)
  BY <1>1, Received
<1> HIDE DEF m
<1>5. /\ a \in Aggregate
      /\ chan' \in ChannelType
      /\ Travel(q, p) = StatesIn(chan', q, p) \cup {a}
      /\ \A u, v \in Process : ~(u = q /\ v = p) => StatesIn(chan', u, v) = Travel(u, v)
  BY <1>2, <1>4, MessageTypes DEF Travel
<1> HIDE DEF a
<1>6. destination[a] = p
  BY <1>5 DEF TypeInv, MessagesOK
<1>7. y \in Thread
  BY <1>1, BuildersProperties
<1>8. PushesMessage(y, a)
  BY <1>1, <1>3, <1>5, <1>7, MessagePushed
<1>9. QED
  BY <1>5, <1>6, <1>8

-----------------------------------------------------------------------------
(* The types of the counters, flags and indices.                           *)
CountersOK ==
  /\ m_working \in [Process -> Int]
  /\ m_gc \in [Process -> Int]
  /\ m_nbsend \in [Process -> Nat]
  /\ m_nbrecv \in [Process -> Nat]
  /\ m_total_nb_recv \in Nat
  /\ m_Terminated \subseteq Process
  /\ m_Terminating \subseteq Process
  /\ probed \in [Process -> SUBSET Process]
  /\ i \in [Process -> Nat]

LEMMA CountersStep ==
  ASSUME TypeInv, [Next]_vars
  PROVE  CountersOK' /\ UNCHANGED launch
<1> USE DEF CountersOK, counts, flags, comm
<1>1. CountersOK /\ chan \in ChannelType
  BY DEF TypeInv, TypeOK
<1>2. ASSUME NEW x \in Thread, Start(x) \/ BuilderStep(x)
      PROVE  CountersOK' /\ UNCHANGED launch
  <2>1. x[1] \in Process
    BY ThreadProperties
  <2>2. CASE Start(x)
    BY <1>1, <2>1, <2>2 DEF Start
  <2>3. CASE Loop(x) \/ Collect(x) \/ Pop(x) \/ Fire(x) \/ Link(x) \/ Receive(x) \/ Store(x)
    BY <1>1, <2>3 DEF Loop, Collect, Pop, Fire, Link, Receive, Store
  <2>4. CASE Busy(x) \/ Idle(x)
    BY <1>1, <2>1, <2>4 DEF Busy, Idle
  <2>5. CASE Enter(x) \/ Leave(x)
    BY <1>1, <2>1, <2>5 DEF Enter, Leave
  <2>6. QED
    BY <1>2, <2>2, <2>3, <2>4, <2>5 DEF BuilderStep
<1>3. ASSUME NEW p \in Process, CommStep(p)
      PROVE  CountersOK' /\ UNCHANGED launch
  <2>1. CASE PopMessage(p)
    BY <1>1, <2>1 DEF PopMessage
  <2>2. CASE SendState(p)
    BY <1>1, <2>2 DEF SendState
  <2>3. CASE isNotTerminated(p)
    BY <1>1, <2>3 DEF isNotTerminated
  <2>4. CASE Quiet(p)
    BY <1>1, <2>4 DEF Quiet
  <2>5. CASE EndRound(p)
    BY <1>1, <2>5 DEF EndRound
  <2>6. QED
    BY <1>3, <2>1, <2>2, <2>3, <2>4, <2>5 DEF CommStep
<1>4. ASSUME NEW p \in Process, ReadMessage(p)
      PROVE  CountersOK' /\ UNCHANGED launch
  <2>1. PICK q \in Process : ReadState(p, q) \/ AbortTerm(p, q)
    BY <1>4 DEF ReadMessage
  <2>2. UNCHANGED <<launch, m_working, m_gc, i>>
    BY <1>4 DEF ReadMessage
  <2>3. CASE ReadState(p, q)
    BY <1>1, <2>2, <2>3 DEF ReadState
  <2>4. CASE AbortTerm(p, q)
    BY <1>1, <2>2, <2>4 DEF AbortTerm
  <2>5. QED
    BY <2>1, <2>3, <2>4
<1>5. ASSUME NEW p \in Process, ReadTermination(p)
      PROVE  CountersOK' /\ UNCHANGED launch
  <2>1. PICK q \in Process :
          LET m == Head(chan[<<q, p>>])
              c == MpiRecv(chan, q, p)
          IN  /\ chan[<<q, p>>] # <<>>
              /\ \/ LeaveRound(p, q)
                 \/ m.tag = "REC" /\ TermReceivedMsg(p, m.v, c) /\ UNCHANGED <<flags, probed>>
                 \/ /\ m.tag = "SEND" /\ TermSendMsg(p, m.v, c)
                    /\ UNCHANGED <<m_Terminated, m_total_nb_recv, probed>>
                 \/ /\ m.tag = "TERM" /\ ReceiveTermSignal(p, c)
                    /\ UNCHANGED <<m_Terminating, m_total_nb_recv, probed>>
    BY <1>5 DEF ReadTermination
  <2>2. UNCHANGED <<launch, m_working, m_gc, i, m_nbsend, m_nbrecv>>
    BY <1>5 DEF ReadTermination
  <2> DEFINE m == Head(chan[<<q, p>>])
  <2> DEFINE c == MpiRecv(chan, q, p)
  <2>3. m.tag # "STATE" => m.v \in Nat
    BY <1>1, <2>1, SignalReceived
  <2> HIDE DEF m, c
  <2>4. CASE LeaveRound(p, q)
    BY <1>1, <2>2, <2>4 DEF LeaveRound
  <2>5. CASE m.tag = "REC" /\ TermReceivedMsg(p, m.v, c) /\ UNCHANGED <<flags, probed>>
    BY <1>1, <2>2, <2>3, <2>5 DEF TermReceivedMsg
  <2>6. CASE /\ m.tag = "SEND" /\ TermSendMsg(p, m.v, c)
             /\ UNCHANGED <<m_Terminated, m_total_nb_recv, probed>>
    BY <1>1, <2>2, <2>6 DEF TermSendMsg
  <2>7. CASE /\ m.tag = "TERM" /\ ReceiveTermSignal(p, c)
             /\ UNCHANGED <<m_Terminating, m_total_nb_recv, probed>>
    BY <1>1, <2>2, <2>7 DEF ReceiveTermSignal
  <2>8. QED
    BY <2>1, <2>4, <2>5, <2>6, <2>7 DEF m, c
<1>6. CASE UNCHANGED vars
  BY <1>1, <1>6 DEF vars
<1>7. QED
  BY <1>2, <1>3, <1>4, <1>5, <1>6 DEF Next

-----------------------------------------------------------------------------
(* The types are kept.                                                     *)

ReadsState(p, q) ==
  /\ chan[<<q, p>>] # <<>> /\ ReadState(p, q) /\ pc[Comm(p)] \in {"held", "read"}
  /\ UNCHANGED <<m_graph, m_st, pc, local, s>>

(* Every step is one of these. *)
BuilderCases(x) ==
  \/ Walks(x)
  \/ Pop(x) /\ m_st[x] # <<>>
  \/ Fire(x) /\ e[x].fire # {}
  \/ Link(x)
  \/ Receive(x) /\ m_msg[x] # <<>>
  \/ Store(x)

CommCases(p) ==
  \/ CommWalks(p)
  \/ PopMessage(p) /\ m_msg[Comm(p)] # <<>>
  \/ SendState(p)
  \/ \E q \in Process : ReadsState(p, q)

LEMMA StepCases ==
  ASSUME TypeInv, [Next]_vars
  PROVE  \/ \E x \in Thread : Start(x) \/ BuilderCases(x)
         \/ \E p \in Process : CommCases(p)
         \/ UNCHANGED <<Core, pc>>
<1>1. ASSUME NEW x \in Thread, BuilderStep(x)
      PROVE  BuilderCases(x)
  BY <1>1, WalkSteps DEF BuilderStep, BuilderCases
<1>2. ASSUME NEW p \in Process, CommStep(p)
      PROVE  CommCases(p)
  BY <1>2, CommWalkSteps DEF CommStep, CommCases
<1>3. ASSUME NEW p \in Process, ReadMessage(p)
      PROVE  CommCases(p)
  <2>1. PICK q \in Process : chan[<<q, p>>] # <<>> /\ (ReadState(p, q) \/ AbortTerm(p, q))
    BY <1>3 DEF ReadMessage
  <2>2. pc[Comm(p)] \in {"held", "read"} /\ UNCHANGED <<m_graph, m_st, pc, local, s>>
    BY <1>3 DEF ReadMessage
  <2>3. QED
    BY <2>1, <2>2, SignalSteps DEF CommCases, ReadsState
<1>4. ASSUME NEW p \in Process, ReadTermination(p)
      PROVE  CommCases(p)
  <2>1. PICK q \in Process : chan[<<q, p>>] # <<>>
    BY <1>4 DEF ReadTermination
  <2>2. QED
    BY <1>4, <2>1, SignalSteps DEF CommCases
<1>5. UNCHANGED vars => UNCHANGED <<Core, pc>>
  BY DEF vars, Core, comm
<1>6. QED
  BY <1>1, <1>2, <1>3, <1>4, <1>5 DEF Next

(* Nodes stay, with their aggregates. *)
Grows ==
  /\ m_graph' \in [Process -> Seq(GraphNode)]
  /\ \A p \in Process : \A n \in NodesOf(p) :
       /\ n \in DOMAIN m_graph'[p]
       /\ m_graph'[p][n].m_lddstate = Agg(p, n)
       /\ m_graph'[p][n].m_virtual = Virtual(p, n)

LEMMA GraphGrows ==
  ASSUME TypeOK, NEW p \in Process, NEW n, NEW m, NEW u, NEW a, 
         \/ UNCHANGED m_graph
         \/ AddsNode(p, n, a)
         \/ n \in NodesOf(p) /\ AddsEdge(p, n, m, u)
  PROVE  Grows /\ \A q \in Process \ {p} : m_graph'[q] = m_graph[q]
<1>1. CASE UNCHANGED m_graph
  BY <1>1 DEF TypeOK, Grows, NodesOf, Agg, Virtual
<1>2. CASE AddsNode(p, n, a)
  BY <1>2 DEF AddsNode, Grows, NodesOf, Agg, Virtual
<1>3. CASE n \in NodesOf(p) /\ AddsEdge(p, n, m, u)
  BY <1>3 DEF AddsEdge, Grows, NodesOf, Agg, Virtual
<1>4. QED
  BY <1>1, <1>2, <1>3

LEMMA FindGrows ==
  ASSUME TypeOK, NEW x \in Thread, NEW a, FindsOrAdds(x, a)
  PROVE  /\ Grows /\ \A q \in Process \ {x[1]} : m_graph'[q] = m_graph[q]
         /\ pos'[x] \in DOMAIN m_graph'[x[1]] /\ m_graph'[x[1]][pos'[x]].m_lddstate = a
<1>1. x[1] \in Process
  BY ThreadProperties
<1>2. Grows /\ \A q \in Process \ {x[1]} : m_graph'[q] = m_graph[q]
  BY <1>1, GraphGrows DEF FindsOrAdds
<1>3. pos'[x] \in DOMAIN m_graph'[x[1]] /\ m_graph'[x[1]][pos'[x]].m_lddstate = a
  BY <1>1 DEF FindsOrAdds, AddsNode, NodesOf, Agg, Node
<1>4. QED
  BY <1>2, <1>3

(* The new node is virtual where its aggregate does not belong. *)
LEMMA NodesKept ==
  ASSUME TypeInv, UNCHANGED launch, NEW p \in Process, NEW n, NEW m, NEW u, NEW a,
         \/ UNCHANGED m_graph
         \/ AddsNode(p, n, a)
         \/ n \in NodesOf(p) /\ AddsEdge(p, n, m, u)
  PROVE  NodesOK'
<1>1. NodesOK /\ UNCHANGED destination
  BY DEF TypeInv, launch
<1>2. CASE UNCHANGED m_graph
  BY <1>1, <1>2 DEF NodesOK, NodesOf, Agg, Virtual
<1>3. CASE AddsNode(p, n, a)
  <2>1. ASSUME NEW q \in Process, NEW k \in DOMAIN m_graph'[q]
        PROVE  m_graph'[q][k].m_virtual <=> destination[m_graph'[q][k].m_lddstate] # q
    <3>1. CASE q = p /\ k = n
      BY <1>3, <3>1, AddedNode
    <3>2. CASE ~(q = p /\ k = n)
      <4>1. k \in NodesOf(q) /\ m_graph'[q][k] = m_graph[q][k]
        BY <1>3, <3>2 DEF AddsNode, NodesOf
      <4>2. QED
        BY <1>1, <4>1 DEF NodesOK, Agg, Virtual
    <3>3. QED
      BY <3>1, <3>2
  <2>2. QED
    BY <1>1, <2>1 DEF NodesOK, NodesOf, Agg, Virtual
<1>4. CASE n \in NodesOf(p) /\ AddsEdge(p, n, m, u)
  BY <1>1, <1>4 DEF AddsEdge, NodesOK, NodesOf, Agg, Virtual
<1>5. QED
  BY <1>2, <1>3, <1>4

LEMMA FindNodesKept ==
  ASSUME TypeInv, UNCHANGED launch, NEW x \in Thread, NEW a, FindsOrAdds(x, a)
  PROVE  NodesOK'
<1>1. x[1] \in Process
  BY ThreadProperties
<1>2. QED
  BY <1>1, NodesKept DEF FindsOrAdds

(* A thread that does not move keeps its pointers, and so do the stacks. *)
LEMMA ThreadKept ==
  ASSUME TypeInv, Grows, NEW x \in Thread,
         pc'[x] = pc[x], e'[x] = e[x], t'[x] = t[x], pos'[x] = pos[x], fresh'[x] = fresh[x]
  PROVE  ThreadOK(x)'
<1>1. x[1] \in Process /\ ThreadOK(x)
  BY ThreadProperties DEF TypeInv
<1>2. ASSUME NEW n \in NodesOf(x[1])
      PROVE  n \in NodesOf(x[1])' /\ Agg(x[1], n)' = Agg(x[1], n)
             /\ Virtual(x[1], n)' = Virtual(x[1], n)
  BY <1>1 DEF Grows, NodesOf, Agg, Virtual
<1>3. CASE pc[x] \notin Expanding \cup {"store"}
  BY <1>3 DEF ThreadOK, Expanding
<1>4. CASE pc[x] = "store"
  <2>1. fresh[x] /\ pos[x] \in NodesOf(x[1]) /\ ~Virtual(x[1], pos[x])
    BY <1>1, <1>4 DEF ThreadOK
  <2>2. (fresh[x] /\ pos[x] \in NodesOf(x[1]) /\ ~Virtual(x[1], pos[x]))'
    BY <1>2, <2>1
  <2>3. QED
    BY <1>4, <2>2 DEF ThreadOK, Expanding
<1>5. CASE pc[x] \in Expanding
  <2>1. /\ e[x].state \in NodesOf(x[1]) /\ ~Virtual(x[1], e[x].state)
        /\ e[x].fire \subseteq FirableObs[Agg(x[1], e[x].state)]
    BY <1>1, <1>5 DEF ThreadOK
  <2>2. (/\ e[x].state \in NodesOf(x[1]) /\ ~Virtual(x[1], e[x].state)
         /\ e[x].fire \subseteq FirableObs[Agg(x[1], e[x].state)])'
    BY <1>2, <2>1
  <2>3. CASE pc[x] # "link"
    BY <1>5, <2>2, <2>3 DEF ThreadOK, Expanding
  <2>4. CASE pc[x] = "link"
    <3>1. /\ t[x] \in FirableObs[Agg(x[1], e[x].state)]
          /\ pos[x] \in NodesOf(x[1])
          /\ Agg(x[1], pos[x]) = Successor[<<Agg(x[1], e[x].state), t[x]>>]
      BY <1>1, <2>4 DEF ThreadOK
    <3>2. (/\ t[x] \in FirableObs[Agg(x[1], e[x].state)]
           /\ pos[x] \in NodesOf(x[1])
           /\ Agg(x[1], pos[x]) = Successor[<<Agg(x[1], e[x].state), t[x]>>])'
      BY <1>2, <2>1, <3>1
    <3>3. QED
      BY <2>2, <2>4, <3>2 DEF ThreadOK
  <2>5. QED
    BY <2>3, <2>4
<1>6. QED
  BY <1>3, <1>4, <1>5

LEMMA PairKept ==
  ASSUME TypeOK, Grows, NEW p \in Process, NEW z, PairOK(p, z)
  PROVE  PairOK(p, z)'
BY DEF PairOK, Grows, NodesOf, Agg, Virtual

LEMMA StacksKept ==
  ASSUME TypeInv, Grows,
         \/ UNCHANGED m_st
         \/ \E y \in Thread : \E z : TakesState(y, z)
  PROVE  StacksOK'
<1>1. ASSUME NEW x \in Thread, NEW z \in Elements(m_st'[x])
      PROVE  PairOK(x[1], z)'
  <2>1. z \in Elements(m_st[x])
    BY DEF TakesState
  <2>2. PairOK(x[1], z) /\ TypeOK /\ x[1] \in Process
    BY <2>1, ThreadProperties DEF TypeInv, StacksOK
  <2>3. QED
    BY <2>2, PairKept
<1>2. QED
  BY <1>1 DEF StacksOK, Elements

LEMMA PushKept ==
  ASSUME TypeInv, Grows, NEW y \in Thread, NEW n, NEW F, PushesState(y, n, F),
         PairOK(y[1], Pair(n, F))'
  PROVE  StacksOK'
<1>1. ASSUME NEW x \in Thread, NEW z \in Elements(m_st'[x])
      PROVE  PairOK(x[1], z)'
  <2>1. CASE x = y /\ z = Pair(n, F)
    BY <2>1
  <2>2. CASE ~(x = y /\ z = Pair(n, F))
    <3>1. z \in Elements(m_st[x])
      BY <2>2 DEF PushesState
    <3>2. PairOK(x[1], z) /\ TypeOK /\ x[1] \in Process
      BY <3>1, ThreadProperties DEF TypeInv, StacksOK
    <3>3. QED
      BY <3>2, PairKept
  <2>3. QED
    BY <2>1, <2>2
<1>2. QED
  BY <1>1 DEF StacksOK, Elements

(* Only process p does something, and process 0 has started if it is p. *)
LEMMA StartKept ==
  ASSUME TypeInv, NEW p \in Process, p = 0 => pc'[Comm(0)] # "start",
         \A q \in Process \ {p} : m_graph'[q] = m_graph[q],
         \A x \in Thread : x[1] # p => m_st'[x] = m_st[x] /\ m_msg'[x] = m_msg[x] /\ pc'[x] = pc[x]
  PROVE  StartOK'
<1>1. 0 \in Process
  BY NextTaskType DEF TypeInv
<1>2. Comm(0) \in Thread /\ Comm(0)[1] = 0
  BY <1>1, CommProperties
<1>3. CASE p = 0
  BY <1>3 DEF StartOK, Comm
<1>4. CASE p # 0
  <2>1. pc'[Comm(0)] = pc[Comm(0)] /\ m_graph'[0] = m_graph[0]
    BY <1>1, <1>2, <1>4
  <2>2. \A x \in Thread : x[1] = 0 => m_st'[x] = m_st[x] /\ m_msg'[x] = m_msg[x] /\ pc'[x] = pc[x]
    BY <1>4
  <2>3. StartOK
    BY DEF TypeInv
  <2>4. QED
    BY <2>1, <2>2, <2>3 DEF StartOK, Comm
<1>5. QED
  BY <1>3, <1>4

LEMMA LabelsKept ==
  ASSUME TypeInv, UNCHANGED launch, NEW x \in Thread, NEW label, Moves(x, label), pc[x] # "done",
         label \in IF x[2] = 0 THEN CommLabel ELSE BuilderLabel
  PROVE  LabelsOK'
<1>1. LabelsOK /\ UNCHANGED <<n_tasks, m_nb_thread>>
  BY DEF TypeInv, launch
<1>2. QED
  BY <1>1 DEF LabelsOK, Moves

(* The threads that communicate keep what they do. *)
LEMMA MessagesKept ==
  ASSUME TypeInv, UNCHANGED <<launch, s, chan>>,
         \A p \in Process : pc'[Comm(p)] # "held" => pc[Comm(p)] # "held",
         \A x \in Thread : x[2] # 0 => \A a \in Elements(m_msg'[x]) : destination[a] = x[1]
  PROVE  MessagesOK'
<1>1. MessagesOK /\ UNCHANGED destination
  BY DEF TypeInv, launch
<1>2. QED
  BY <1>1 DEF MessagesOK, Travel, StatesIn, Elements, Msgs

LEMMA StackStays ==
  ASSUME TypeInv, NEW x \in Thread, x[2] # 0, NEW a \in Msgs(x)
  PROVE  destination[a] = x[1]
BY DEF TypeInv, MessagesOK

(* No builder goes from or to a label of a thread 0. *)
LEMMA BuilderMoves ==
  ASSUME NEW x \in Thread, x[2] # 0, NEW label, Moves(x, label)
  PROVE  \A p \in Process : pc'[Comm(p)] = pc[Comm(p)] /\ Comm(p) # x
<1>1. ASSUME NEW p \in Process
      PROVE  Comm(p) \in Thread \ {x}
  BY CommProperties
<1>2. QED
  BY <1>1 DEF Moves

(* A builder past its start is in a process that has started. *)
LEMMA BuilderStarted ==
  ASSUME TypeInv, NEW x \in Thread, x[2] # 0, pc[x] \notin {"start", "loop", "done"}, x[1] = 0
  PROVE  pc[Comm(0)] # "start"
BY DEF TypeInv, StartOK

LEMMA StartTyped ==
  ASSUME TypeInv, CountersOK', UNCHANGED launch, NEW x \in Thread, Start(x)
  PROVE  TypeInv'
<1> USE DEF local, stacks
<1>1. /\ pc[x] = "start" /\ Moves(x, IF x[2] = 0 THEN "send" ELSE "loop")
      /\ IF x = Comm(0) THEN Begins ELSE UNCHANGED <<m_graph, stacks>>
      /\ UNCHANGED <<local, s, chan>>
  BY StartEffect
<1>2. TypeOK /\ x[1] \in Process /\ 0 \in Process /\ Comm(0) \in Thread /\ Comm(0)[1] = 0
  BY ThreadProperties, NextTaskType, CommProperties DEF TypeInv
<1>3. Grows /\ NodesOK' /\ \A q \in Process \ {0} : m_graph'[q] = m_graph[q]
  BY <1>1, <1>2, GraphGrows, NodesKept DEF Begins
<1>4. m_st' \in [Thread -> Seq(StackedPair)] /\ m_msg' \in [Thread -> Seq(Aggregate)]
  BY <1>1, <1>2 DEF Begins, PushesState, PushesMessage, TypeOK
<1>5. TypeOK'
  BY <1>1, <1>2, <1>3, <1>4 DEF TypeOK, CountersOK, launch, Moves, Grows
<1>6. LabelsOK'
  BY <1>1, LabelsKept DEF CommLabel, BuilderLabel
<1>7. MessagesOK'
  <2>1. ASSUME NEW p \in Process, pc'[Comm(p)] # "held"
        PROVE  pc[Comm(p)] # "held"
    BY <1>1, <2>1, CommProperties DEF Moves
  <2>2. ASSUME NEW y \in Thread, y[2] # 0, NEW a \in Elements(m_msg'[y])
        PROVE  destination[a] = y[1]
    <3>1. y # Comm(0)
      BY <1>2, <2>2, CommProperties
    <3>2. m_msg'[y] = m_msg[y]
      BY <1>1, <3>1 DEF Begins, PushesMessage
    <3>3. QED
      BY <2>2, <3>2, StackStays DEF Msgs
  <2>3. QED
    BY <1>1, <2>1, <2>2, MessagesKept
<1>8. StacksOK'
  <2>1. CASE UNCHANGED m_st
    BY <1>3, <2>1, StacksKept
  <2>2. CASE ~UNCHANGED m_st
    <3>1. /\ AddsNode(0, 1, InitialAggregate) /\ destination[InitialAggregate] = 0
          /\ PushesState(<<0, 1>>, 1, FirableObs[InitialAggregate])
      BY <1>1, <2>2 DEF Begins
    <3>2. 1 \in DOMAIN m_graph'[0] /\ m_graph'[0][1].m_lddstate = InitialAggregate
          /\ ~m_graph'[0][1].m_virtual
      <4>1. 1 \in DOMAIN m_graph'[0]
        BY <3>1 DEF AddsNode
      <4>2. QED
        BY <3>1, <4>1, AddedNode
    <3>3. PairOK(0, Pair(1, FirableObs[InitialAggregate]))'
      BY <3>2 DEF PairOK, Pair, NodesOf, Agg, Virtual
    <3>4. <<0, 1>> \in Thread /\ <<0, 1>>[1] = 0
      BY <1>2, HybridSOGAssumption DEF Thread
    <3>5. QED
      BY <1>3, <3>1, <3>3, <3>4, PushKept
  <2>3. QED
    BY <2>1, <2>2
<1>9. \A y \in Thread : ThreadOK(y)'
  <2>1. ASSUME NEW y \in Thread \ {x}
        PROVE  ThreadOK(y)'
    BY <1>1, <1>3, ThreadKept DEF Moves
  <2>2. ThreadOK(x)'
    BY <1>1 DEF ThreadOK, Moves, Expanding
  <2>3. QED
    BY <2>1, <2>2
<1>10. StartOK'
  <2>1. CASE x = Comm(0)
    <3>1. pc'[Comm(0)] # "start"
      BY <1>1, <1>2, <2>1 DEF Moves
    <3>2. QED
      BY <3>1 DEF StartOK, Comm
  <2>2. CASE x # Comm(0)
    <3>1. pc'[Comm(0)] = pc[Comm(0)] /\ UNCHANGED <<m_graph, stacks>> /\ StartOK
      BY <1>1, <1>2, <2>2 DEF Moves, TypeInv
    <3>2. ASSUME NEW y \in Thread, y[1] = 0, y[2] # 0, pc[y] \in {"start", "loop", "done"}
          PROVE  pc'[y] \in {"start", "loop", "done"}
      BY <1>1, <3>2 DEF Moves
    <3>3. QED
      BY <3>1, <3>2 DEF StartOK, Comm
  <2>3. QED
    BY <2>1, <2>2
<1>11. QED
  BY <1>3, <1>5, <1>6, <1>7, <1>8, <1>9, <1>10 DEF TypeInv

LEMMA WalkTyped ==
  ASSUME TypeInv, CountersOK', UNCHANGED launch, NEW x \in Thread, Walks(x)
  PROVE  TypeInv'
<1> USE DEF local, stacks, Core
<1>1. /\ Moves(x, pc'[x]) /\ UNCHANGED Core
      /\ pc[x] \in BuilderLabel \ {"start", "done"} /\ pc'[x] \in BuilderLabel
  BY DEF Walks
<1>2. TypeOK /\ x[1] \in Process /\ x[2] # 0
  BY <1>1, BuilderProperties, ThreadProperties DEF TypeInv
<1>3. Grows /\ NodesOK'
  BY <1>1, <1>2, GraphGrows, NodesKept
<1>4. TypeOK'
  BY <1>1, <1>2 DEF TypeOK, CountersOK, launch, Moves
<1>5. LabelsOK'
  BY <1>1, <1>2, LabelsKept
<1>6. MessagesOK'
  <2>1. \A p \in Process : pc'[Comm(p)] = pc[Comm(p)]
    BY <1>1, <1>2, BuilderMoves
  <2>2. \A y \in Thread : y[2] # 0 => \A a \in Elements(m_msg'[y]) : destination[a] = y[1]
    BY <1>1, StackStays DEF Msgs
  <2>3. QED
    BY <1>1, <2>1, <2>2, MessagesKept
<1>7. StacksOK'
  BY <1>1, <1>3, StacksKept
<1>8. \A y \in Thread : ThreadOK(y)'
  <2>1. ASSUME NEW y \in Thread \ {x}
        PROVE  ThreadOK(y)'
    BY <1>1, <1>3, ThreadKept DEF Moves
  <2>2. ThreadOK(x)'
    <3>1. ThreadOK(x) /\ pc'[x] \notin {"link", "store"} /\ (pc'[x] \in Expanding => pc[x] \in Expanding)
      BY DEF Walks, TypeInv
    <3>2. QED
      BY <1>1, <3>1 DEF ThreadOK, NodesOf, Agg, Virtual
  <2>3. QED
    BY <2>1, <2>2
<1>9. StartOK'
  <2>1. \A p \in Process : pc'[Comm(p)] = pc[Comm(p)]
    BY <1>1, <1>2, BuilderMoves
  <2>2. 0 \in Process
    BY <1>2, NextTaskType
  <2>3. CASE x[1] # 0
    BY <1>1, <1>2, <2>1, <2>3, StartKept DEF Moves
  <2>4. CASE x[1] = 0 /\ pc[x] # "loop"
    <3>1. pc'[Comm(0)] # "start"
      BY <1>1, <1>2, <2>1, <2>2, <2>4, BuilderStarted
    <3>2. QED
      BY <3>1 DEF StartOK, Comm
  <2>5. CASE x[1] = 0 /\ pc[x] = "loop"
    <3>1. CASE pc[Comm(0)] = "start"
      <4>1. /\ m_graph[0] = <<>>
            /\ \A y \in Thread : y[1] = 0 =>
                 /\ m_st[y] = <<>> /\ m_msg[y] = <<>>
                 /\ y[2] # 0 => pc[y] \in {"start", "loop", "done"}
        BY <3>1 DEF TypeInv, StartOK
      <4>2. pc'[x] = "done"
        BY <2>5, <4>1 DEF Walks
      <4>3. \A y \in Thread : y[1] = 0 /\ y[2] # 0 => pc'[y] \in {"start", "loop", "done"}
        BY <1>1, <4>1, <4>2 DEF Moves
      <4>4. QED
        BY <1>1, <4>1, <4>3 DEF StartOK
    <3>2. CASE pc[Comm(0)] # "start"
      BY <2>1, <2>2, <3>2 DEF StartOK, Comm
    <3>3. QED
      BY <3>1, <3>2
  <2>6. QED
    BY <2>3, <2>4, <2>5
<1>10. QED
  BY <1>3, <1>4, <1>5, <1>6, <1>7, <1>8, <1>9 DEF TypeInv

(* The part of the argument the steps of a builder past its start share.   *)
LEMMA BuilderTyped ==
  ASSUME TypeInv, UNCHANGED <<launch, s, chan>>, NEW x \in Thread,
         pc[x] \in BuilderLabel \ {"start", "loop", "done"},
         NEW label \in BuilderLabel, Moves(x, label),
         Grows, \A q \in Process \ {x[1]} : m_graph'[q] = m_graph[q],
         \A y \in Thread : y[1] # x[1] => m_st'[y] = m_st[y] /\ m_msg'[y] = m_msg[y],
         \A y \in Thread : y[2] # 0 => \A a \in Elements(m_msg'[y]) : a \in Msgs(y),
         \A y \in Thread \ {x} : /\ e'[y] = e[y] /\ t'[y] = t[y]
                                 /\ pos'[y] = pos[y] /\ fresh'[y] = fresh[y]
  PROVE  /\ LabelsOK' /\ MessagesOK' /\ StartOK'
         /\ \A y \in Thread \ {x} : ThreadOK(y)'
<1>1. x[1] \in Process /\ x[2] # 0 /\ 0 \in Process
  BY BuilderProperties, ThreadProperties, NextTaskType DEF TypeInv
<1>2. \A p \in Process : pc'[Comm(p)] = pc[Comm(p)]
  BY <1>1, BuilderMoves
<1>3. LabelsOK'
  BY <1>1, LabelsKept
<1>4. MessagesOK'
  BY <1>2, StackStays, MessagesKept
<1>5. StartOK'
  <2>1. x[1] = 0 => pc'[Comm(0)] # "start"
    BY <1>1, <1>2, BuilderStarted
  <2>2. \A y \in Thread : y[1] # x[1] => pc'[y] = pc[y]
    BY DEF Moves
  <2>3. QED
    BY <1>1, <2>1, <2>2, StartKept
<1>6. ASSUME NEW y \in Thread \ {x}
      PROVE  ThreadOK(y)'
  BY ThreadKept DEF Moves
<1>7. QED
  BY <1>3, <1>4, <1>5, <1>6

LEMMA PopTyped ==
  ASSUME TypeInv, CountersOK', UNCHANGED launch, NEW x \in Thread, Pop(x), m_st[x] # <<>>
  PROVE  TypeInv'
<1> USE DEF BuilderLabel
<1>1. /\ pc[x] = "pop" /\ Moves(x, "fire")
      /\ e' \in [Thread -> StackedPair]
      /\ TakesState(x, e'[x])
      /\ \A y \in Thread \ {x} : e'[y] = e[y]
      /\ UNCHANGED <<m_graph, m_msg, t, pos, fresh, s, chan>>
  BY PopEffect
<1>2. TypeOK /\ x[1] \in Process
  BY ThreadProperties DEF TypeInv
<1>3. Grows /\ NodesOK'
  BY <1>1, <1>2, GraphGrows, NodesKept
<1>4. TypeOK'
  BY <1>1, <1>2 DEF TypeOK, CountersOK, launch, Moves, TakesState
<1>5. /\ LabelsOK' /\ MessagesOK' /\ StartOK'
      /\ \A y \in Thread \ {x} : ThreadOK(y)'
  BY <1>1, <1>3, BuilderTyped DEF TakesState, Msgs
<1>6. StacksOK'
  BY <1>1, <1>3, StacksKept
<1>7. ThreadOK(x)'
  <2>1. PICK z : z = e'[x]
    OBVIOUS
  <2>2. PairOK(x[1], z)
    BY <1>1, <2>1 DEF TypeInv, StacksOK, TakesState
  <2>3. PairOK(x[1], z)'
    BY <1>2, <1>3, <2>2, PairKept
  <2>4. pc'[x] = "fire"
    BY <1>1 DEF Moves
  <2>5. QED
    BY <2>1, <2>3, <2>4 DEF ThreadOK, PairOK, NodesOf, Agg, Virtual
<1>8. QED
  BY <1>3, <1>4, <1>5, <1>6, <1>7 DEF TypeInv

LEMMA FireTyped ==
  ASSUME TypeInv, CountersOK', UNCHANGED launch, NEW x \in Thread, Fire(x), e[x].fire # {}
  PROVE  TypeInv'
<1> USE DEF BuilderLabel, stacks
<1> DEFINE p == x[1]
<1> DEFINE n == e[x].state
<1> DEFINE a == Successor[<<Agg(p, n), t'[x]>>]
<1>1. /\ pc[x] \in {"fire", "collect"} /\ Moves(x, "link")
      /\ n \in NodesOf(p) /\ ~Virtual(p, n)
      /\ e' \in [Thread -> StackedPair] /\ t' \in [Thread -> Transition \cup {NoTransition}]
      /\ \A y \in Thread \ {x} : e'[y] = e[y] /\ t'[y] = t[y]
      /\ e'[x].state = n
      /\ t'[x] \in e[x].fire /\ t'[x] \in FirableObs[Agg(p, n)]
      /\ e'[x].fire = e[x].fire \ {t'[x]}
      /\ FindsOrAdds(x, a)
      /\ UNCHANGED <<stacks, s, chan>>
  BY FireEffect
<1>2. TypeOK /\ p \in Process
  BY ThreadProperties DEF TypeInv
<1>3. /\ Grows /\ \A q \in Process \ {p} : m_graph'[q] = m_graph[q]
      /\ pos'[x] \in DOMAIN m_graph'[p] /\ m_graph'[p][pos'[x]].m_lddstate = a
  BY <1>1, <1>2, FindGrows
<1>4. NodesOK'
  BY <1>1, FindNodesKept
<1>5. TypeOK'
  BY <1>1, <1>2, <1>3 DEF TypeOK, CountersOK, launch, Moves, FindsOrAdds, Grows
<1>6. /\ LabelsOK' /\ MessagesOK' /\ StartOK'
      /\ \A y \in Thread \ {x} : ThreadOK(y)'
  BY <1>1, <1>3, BuilderTyped DEF FindsOrAdds, Msgs
<1>7. StacksOK'
  BY <1>1, <1>3, StacksKept
<1>8. ThreadOK(x)'
  <2>1. e[x].fire \subseteq FirableObs[Agg(p, n)]
    BY <1>1 DEF TypeInv, ThreadOK, Expanding
  <2>2. /\ n \in DOMAIN m_graph'[p] /\ m_graph'[p][n].m_lddstate = Agg(p, n)
        /\ ~m_graph'[p][n].m_virtual
    BY <1>1, <1>2, <1>3 DEF Grows
  <2>3. pc'[x] = "link"
    BY <1>1 DEF Moves
  <2>4. QED
    BY <1>1, <1>3, <2>1, <2>2, <2>3 DEF ThreadOK, NodesOf, Agg, Virtual
<1>9. QED
  BY <1>4, <1>5, <1>6, <1>7, <1>8 DEF TypeInv

LEMMA LinkTyped ==
  ASSUME TypeInv, CountersOK', UNCHANGED launch, NEW x \in Thread, Link(x)
  PROVE  TypeInv'
<1> USE DEF BuilderLabel, stacks, local
<1> DEFINE p == x[1]
<1> DEFINE n == e[x].state
<1> DEFINE m == pos[x]
<1>1. /\ pc[x] = "link" /\ Moves(x, "fire")
      /\ n \in NodesOf(p) /\ ~Virtual(p, n)
      /\ m \in NodesOf(p) /\ t[x] \in FirableObs[Agg(p, n)]
      /\ AddsEdge(p, n, m, t[x])
      /\ \/ ~fresh[x] /\ UNCHANGED stacks
         \/ /\ fresh[x] /\ ~Virtual(p, m)
            /\ \E y \in Builders(p) : PushesState(y, m, FirableObs[Agg(p, m)])
            /\ UNCHANGED m_msg
         \/ /\ fresh[x] /\ Virtual(p, m)
            /\ PushesMessage(Comm(p), Agg(p, m))
            /\ UNCHANGED m_st
      /\ UNCHANGED <<local, s, chan>>
  BY LinkEffect
<1>2. TypeOK /\ p \in Process /\ Comm(p) \in Thread /\ Comm(p)[1] = p /\ Comm(p)[2] = 0
  BY ThreadProperties, CommProperties DEF TypeInv
<1>3. Grows /\ \A q \in Process \ {p} : m_graph'[q] = m_graph[q]
  BY <1>1, <1>2, GraphGrows
<1>4. NodesOK'
  BY <1>1, <1>2, NodesKept
<1>5. m_st' \in [Thread -> Seq(StackedPair)] /\ m_msg' \in [Thread -> Seq(Aggregate)]
  BY <1>1, <1>2 DEF PushesState, PushesMessage, TypeOK
<1>6. TypeOK'
  BY <1>1, <1>2, <1>3, <1>5 DEF TypeOK, CountersOK, launch, Moves, Grows
<1>7. \A y \in Thread : y[1] # p => m_st'[y] = m_st[y] /\ m_msg'[y] = m_msg[y]
  BY <1>1, <1>2, BuildersProperties DEF PushesState, PushesMessage
<1>8. /\ LabelsOK' /\ MessagesOK' /\ StartOK'
      /\ \A y \in Thread \ {x} : ThreadOK(y)'
  <2>1. ASSUME NEW y \in Thread, y[2] # 0
        PROVE  m_msg'[y] = m_msg[y]
    BY <1>1, <1>2, <2>1 DEF PushesMessage
  <2>2. QED
    BY <1>1, <1>3, <1>7, <2>1, BuilderTyped DEF Msgs
<1>9. StacksOK'
  <2>1. ASSUME NEW y \in Builders(p), ~Virtual(p, m), PushesState(y, m, FirableObs[Agg(p, m)])
        PROVE  StacksOK'
    <3> DEFINE z == Pair(m, FirableObs[Agg(p, m)])
    <3>1. y \in Thread /\ y[1] = p
      BY <1>2, BuildersProperties
    <3>2. PairOK(p, z)
      BY <1>1, <2>1 DEF PairOK, Pair
    <3> HIDE DEF z
    <3>3. PICK w : w = z
      OBVIOUS
    <3>4. PairOK(p, w)'
      BY <1>2, <1>3, <3>2, <3>3, PairKept
    <3>5. PICK F : F = FirableObs[Agg(p, m)]
      OBVIOUS
    <3>6. PICK k : k = m
      OBVIOUS
    <3>7. w = Pair(k, F) /\ PushesState(y, k, F)
      BY <2>1, <3>3, <3>5, <3>6 DEF z
    <3>8. PairOK(y[1], Pair(k, F))'
      BY <3>1, <3>4, <3>7
    <3>9. QED
      BY <1>3, <3>1, <3>7, <3>8, PushKept
  <2>2. QED
    BY <1>1, <1>3, <2>1, StacksKept
<1>10. ThreadOK(x)'
  <2>1. e[x].fire \subseteq FirableObs[Agg(p, n)]
    BY <1>1 DEF TypeInv, ThreadOK, Expanding
  <2>2. /\ n \in DOMAIN m_graph'[p] /\ m_graph'[p][n].m_lddstate = Agg(p, n)
        /\ ~m_graph'[p][n].m_virtual
    BY <1>1, <1>2, <1>3 DEF Grows
  <2>3. pc'[x] = "fire"
    BY <1>1 DEF Moves
  <2>4. QED
    BY <1>1, <2>1, <2>2, <2>3 DEF ThreadOK, NodesOf, Agg, Virtual
<1>11. QED
  BY <1>4, <1>6, <1>8, <1>9, <1>10 DEF TypeInv

LEMMA ReceiveTyped ==
  ASSUME TypeInv, CountersOK', UNCHANGED launch, NEW x \in Thread, Receive(x), m_msg[x] # <<>>
  PROVE  TypeInv'
<1> USE DEF BuilderLabel
<1> DEFINE p == x[1]
<1>1. PICK a \in Aggregate :
        /\ pc[x] = "receive" /\ destination[a] = p
        /\ TakesMessage(x, a)
        /\ FindsOrAdds(x, a)
        /\ Moves(x, IF fresh'[x] THEN "store" ELSE Out(x))
        /\ UNCHANGED <<m_st, e, t, s, chan>>
  BY ReceiveEffect
<1>2. TypeOK /\ p \in Process
  BY ThreadProperties DEF TypeInv
<1>3. /\ Grows /\ \A q \in Process \ {p} : m_graph'[q] = m_graph[q]
      /\ pos'[x] \in DOMAIN m_graph'[p] /\ m_graph'[p][pos'[x]].m_lddstate = a
  BY <1>1, <1>2, FindGrows
<1>4. NodesOK'
  BY <1>1, FindNodesKept
<1>5. TypeOK'
  BY <1>1, <1>2, <1>3 DEF TypeOK, CountersOK, launch, Moves, FindsOrAdds, Grows, TakesMessage
<1>6. PICK label \in {"store", "leave", "idle"} :
        Moves(x, label) /\ (label = "store" => fresh'[x])
  BY <1>1 DEF Out
<1>7. /\ LabelsOK' /\ MessagesOK' /\ StartOK'
      /\ \A y \in Thread \ {x} : ThreadOK(y)'
  <2>1. \A y \in Thread : m_st'[y] = m_st[y] /\ (y # x => m_msg'[y] = m_msg[y])
    BY <1>1 DEF TakesMessage
  <2>2. \A y \in Thread : \A b \in Elements(m_msg'[y]) : b \in Msgs(y)
    BY <1>1 DEF TakesMessage, Msgs
  <2>3. QED
    BY <1>1, <1>3, <1>6, <2>1, <2>2, BuilderTyped DEF FindsOrAdds
<1>8. StacksOK'
  BY <1>1, <1>3, StacksKept
<1>9. ThreadOK(x)'
  <2>1. ~m_graph'[p][pos'[x]].m_virtual
    <3>1. UNCHANGED destination
      BY DEF launch
    <3>2. QED
      BY <1>1, <1>2, <1>3, <1>4, <3>1 DEF NodesOK, NodesOf, Agg, Virtual
  <2>2. pc'[x] = label
    BY <1>6 DEF Moves
  <2>3. QED
    BY <1>3, <1>6, <2>1, <2>2 DEF ThreadOK, NodesOf, Agg, Virtual, Expanding
<1>10. QED
  BY <1>4, <1>5, <1>7, <1>8, <1>9 DEF TypeInv

LEMMA StoreTyped ==
  ASSUME TypeInv, CountersOK', UNCHANGED launch, NEW x \in Thread, Store(x)
  PROVE  TypeInv'
<1> USE DEF BuilderLabel, local
<1> DEFINE p == x[1]
<1>1. /\ pc[x] = "store" /\ Moves(x, Out(x))
      /\ fresh[x] /\ pos[x] \in NodesOf(p) /\ ~Virtual(p, pos[x])
      /\ UNCHANGED <<m_graph, m_msg, local, s, chan>>
  BY StoreEffect
<1>2. TypeOK /\ p \in Process
  BY ThreadProperties DEF TypeInv
<1>3. Grows /\ NodesOK' /\ \A q \in Process \ {p} : m_graph'[q] = m_graph[q]
  BY <1>1, <1>2, GraphGrows, NodesKept
<1>4. PICK k, F : k = pos[x] /\ F = FirableObs[Agg(p, pos[x])]
  OBVIOUS
<1>5. PICK y \in Builders(p) : PushesState(y, k, F)
  BY <1>4, StoreEffect
<1>6. y \in Thread /\ y[1] = p
  BY <1>2, BuildersProperties
<1>7. TypeOK'
  BY <1>1, <1>2, <1>5 DEF TypeOK, CountersOK, launch, Moves, PushesState
<1>8. PICK label \in {"leave", "idle"} : Moves(x, label)
  BY <1>1 DEF Out
<1>9. /\ LabelsOK' /\ MessagesOK' /\ StartOK'
      /\ \A z \in Thread \ {x} : ThreadOK(z)'
  <2>1. \A z \in Thread : z[1] # p => m_st'[z] = m_st[z] /\ m_msg'[z] = m_msg[z]
    BY <1>1, <1>5, <1>6 DEF PushesState
  <2>2. \A z \in Thread : \A b \in Elements(m_msg'[z]) : b \in Msgs(z)
    BY <1>1 DEF Msgs
  <2>3. QED
    BY <1>1, <1>3, <1>8, <2>1, <2>2, BuilderTyped
<1>10. StacksOK'
  <2>1. PairOK(p, Pair(k, F))
    BY <1>1, <1>4 DEF PairOK, Pair
  <2>2. PairOK(p, Pair(k, F))'
    BY <1>2, <1>3, <2>1, PairKept
  <2>3. QED
    BY <1>3, <1>5, <1>6, <2>2, PushKept
<1>11. ThreadOK(x)'
  BY <1>8 DEF ThreadOK, Moves, Expanding
<1>12. QED
  BY <1>3, <1>7, <1>9, <1>10, <1>11 DEF TypeInv

(* What the steps of thread 0 share. *)
LEMMA CommTyped ==
  ASSUME TypeInv, UNCHANGED launch, NEW p \in Process,
         pc[Comm(p)] \notin {"start", "done"},
         NEW label \in CommLabel \ {"start"}, Moves(Comm(p), label),
         UNCHANGED <<m_graph, m_st, local>>,
         \A y \in Thread : y[1] # p => m_msg'[y] = m_msg[y]
  PROVE  /\ LabelsOK' /\ NodesOK' /\ StacksOK' /\ StartOK'
         /\ \A y \in Thread : ThreadOK(y)'
<1> USE DEF local
<1>1. TypeOK /\ Comm(p) \in Thread /\ Comm(p)[1] = p /\ Comm(p)[2] = 0
  BY CommProperties DEF TypeInv
<1>2. Grows /\ NodesOK'
  BY <1>1, GraphGrows, NodesKept
<1>3. LabelsOK'
  BY <1>1, LabelsKept
<1>4. StacksOK'
  BY <1>2, StacksKept
<1>5. StartOK'
  <2>1. p = 0 => pc'[Comm(0)] # "start"
    BY <1>1 DEF Moves
  <2>2. \A y \in Thread : y[1] # p => pc'[y] = pc[y]
    BY <1>1 DEF Moves
  <2>3. QED
    BY <1>1, <2>1, <2>2, StartKept
<1>6. ASSUME NEW y \in Thread
      PROVE  ThreadOK(y)'
  <2>1. CASE y # Comm(p)
    BY <1>2, <2>1, ThreadKept DEF Moves
  <2>2. CASE y = Comm(p)
    BY <1>1, <2>2 DEF ThreadOK, Moves, CommLabel, Expanding
  <2>3. QED
    BY <2>1, <2>2
<1>7. QED
  BY <1>2, <1>3, <1>4, <1>5, <1>6

LEMMA CommStepTyped ==
  ASSUME TypeInv, CountersOK', UNCHANGED launch, NEW p \in Process, CommCases(p)
  PROVE  TypeInv'
<1> USE DEF local, stacks
<1>1. TypeOK /\ Comm(p) \in Thread /\ UNCHANGED destination
  BY CommProperties DEF TypeInv, launch
<1>2. \A q \in Process : q # p => Comm(q) # Comm(p)
  BY DEF Comm
<1>3. CASE CommWalks(p)
  <2>1. /\ LabelsOK' /\ NodesOK' /\ StacksOK' /\ StartOK'
        /\ \A y \in Thread : ThreadOK(y)'
    BY <1>3, CommTyped DEF CommWalks
  <2>2. TypeOK'
    BY <1>1, <1>3 DEF TypeOK, CountersOK, launch, Moves, CommWalks
  <2>3. MessagesOK'
    <3>1. \A q \in Process : pc'[Comm(q)] # "held" => s'[q] = {}
      <4>1. ASSUME NEW q \in Process, pc'[Comm(q)] # "held"
            PROVE  s'[q] = {}
        <5>1. pc[Comm(q)] # "held"
          BY <1>1, <1>2, <1>3, <4>1, CommProperties DEF CommWalks, Moves
        <5>2. QED
          BY <1>3, <5>1 DEF CommWalks, TypeInv, MessagesOK
      <4>2. QED
        BY <4>1
    <3>2. \A u, v \in Process : \A a \in StatesIn(chan', u, v) : destination'[a] = v
      BY <1>1, <1>3 DEF CommWalks, TypeInv, MessagesOK
    <3>3. \A x \in Thread : x[2] # 0 => \A a \in Elements(m_msg'[x]) : destination'[a] = x[1]
      BY <1>1, <1>3, StackStays DEF CommWalks, Msgs
    <3>4. \A q \in Process : \A a, b \in s'[q] : a = b
      BY <1>3 DEF CommWalks, TypeInv, MessagesOK
    <3>5. QED
      BY <3>1, <3>2, <3>3, <3>4 DEF MessagesOK, Travel, StatesIn, Elements, Msgs
  <2>4. QED
    BY <2>1, <2>2, <2>3 DEF TypeInv
<1>4. CASE PopMessage(p) /\ m_msg[Comm(p)] # <<>>
  <2>1. PICK a \in Aggregate :
          /\ pc[Comm(p)] = "send" /\ Moves(Comm(p), "held")
          /\ TakesMessage(Comm(p), a)
          /\ s' \in [Process -> SUBSET Aggregate]
          /\ s'[p] = {a} /\ s[p] = {} /\ \A q \in Process \ {p} : s'[q] = s[q]
          /\ UNCHANGED <<m_graph, m_st, local, chan>>
    BY <1>4, PopMessageEffect
  <2>2. \A y \in Thread : y # Comm(p) => m_msg'[y] = m_msg[y]
    BY <2>1 DEF TakesMessage
  <2>3. /\ LabelsOK' /\ NodesOK' /\ StacksOK' /\ StartOK'
        /\ \A y \in Thread : ThreadOK(y)'
    BY <2>1, <2>2, CommTyped, CommProperties DEF CommLabel
  <2>4. TypeOK'
    BY <1>1, <2>1 DEF TypeOK, CountersOK, launch, Moves, TakesMessage
  <2>5. MessagesOK'
    <3>1. ASSUME NEW q \in Process
          PROVE  (pc'[Comm(q)] # "held" => s'[q] = {}) /\ \A b, c \in s'[q] : b = c
      <4>1. CASE q = p
        BY <1>1, <2>1, <4>1 DEF Moves
      <4>2. CASE q # p
        <5>1. pc'[Comm(q)] = pc[Comm(q)] /\ s'[q] = s[q]
          BY <1>1, <1>2, <2>1, <4>2, CommProperties DEF Moves
        <5>2. QED
          BY <5>1 DEF TypeInv, MessagesOK
      <4>3. QED
        BY <4>1, <4>2
    <3>2. \A u, v \in Process : \A b \in StatesIn(chan', u, v) : destination'[b] = v
      BY <1>1, <2>1 DEF TypeInv, MessagesOK, Travel
    <3>3. \A x \in Thread : x[2] # 0 => \A b \in Elements(m_msg'[x]) : destination'[b] = x[1]
      BY <1>1, <2>2, StackStays, CommProperties DEF Msgs
    <3>4. QED
      BY <3>1, <3>2, <3>3 DEF MessagesOK, Travel, StatesIn, Elements, Msgs
  <2>6. QED
    BY <2>3, <2>4, <2>5 DEF TypeInv
<1>5. CASE SendState(p)
  <2>1. PICK a \in Aggregate :
          /\ pc[Comm(p)] = "held" /\ Moves(Comm(p), "send")
          /\ s[p] = {a} /\ s' \in [Process -> SUBSET Aggregate] /\ s'[p] = {}
          /\ \A q \in Process \ {p} : s'[q] = s[q]
          /\ destination[a] \in Process
          /\ chan' \in ChannelType
          /\ StatesIn(chan', p, destination[a]) = Travel(p, destination[a]) \cup {a}
          /\ \A u, v \in Process : ~(u = p /\ v = destination[a]) =>
               StatesIn(chan', u, v) = Travel(u, v)
          /\ UNCHANGED <<m_graph, stacks, local>>
    BY <1>5, SendStateEffect
  <2>2. /\ LabelsOK' /\ NodesOK' /\ StacksOK' /\ StartOK'
        /\ \A y \in Thread : ThreadOK(y)'
    BY <2>1, CommTyped DEF CommLabel
  <2>3. TypeOK'
    BY <1>1, <2>1 DEF TypeOK, CountersOK, launch, Moves
  <2>4. MessagesOK'
    <3>1. ASSUME NEW q \in Process
          PROVE  (pc'[Comm(q)] # "held" => s'[q] = {}) /\ \A b, c \in s'[q] : b = c
      <4>1. CASE q = p
        BY <2>1, <4>1
      <4>2. CASE q # p
        <5>1. pc'[Comm(q)] = pc[Comm(q)] /\ s'[q] = s[q]
          BY <1>1, <1>2, <2>1, <4>2, CommProperties DEF Moves
        <5>2. QED
          BY <5>1 DEF TypeInv, MessagesOK
      <4>3. QED
        BY <4>1, <4>2
    <3>2. ASSUME NEW u \in Process, NEW v \in Process, NEW b \in StatesIn(chan', u, v)
          PROVE  destination'[b] = v
      <4>1. b \in Travel(u, v) \/ (v = destination[a] /\ b = a)
        BY <2>1
      <4>2. QED
        BY <1>1, <4>1 DEF TypeInv, MessagesOK
    <3>3. \A x \in Thread : x[2] # 0 => \A b \in Elements(m_msg'[x]) : destination'[b] = x[1]
      BY <1>1, <2>1, StackStays DEF Msgs
    <3>4. QED
      BY <3>1, <3>2, <3>3 DEF MessagesOK, Travel, StatesIn, Elements, Msgs
  <2>5. QED
    BY <2>2, <2>3, <2>4 DEF TypeInv
<1>6. ASSUME NEW q \in Process, ReadsState(p, q)
      PROVE  TypeInv'
  <2>1. pc[Comm(p)] \in {"held", "read"} /\ UNCHANGED <<m_graph, m_st, pc, local, s>>
    BY <1>6 DEF ReadsState
  <2>2. PICK a \in Aggregate, y \in Builders(p) :
          /\ destination[a] = p
          /\ PushesMessage(y, a)
          /\ chan' \in ChannelType
          /\ Travel(q, p) = StatesIn(chan', q, p) \cup {a}
          /\ \A u, v \in Process : ~(u = q /\ v = p) => StatesIn(chan', u, v) = Travel(u, v)
    BY <1>6, ReadStateEffect DEF ReadsState
  <2>3. y \in Thread /\ y[1] = p
    BY <1>1, BuildersProperties
  <2>4. \A z \in Thread : z # y => m_msg'[z] = m_msg[z]
    BY <2>2 DEF PushesMessage
  <2>5. Moves(Comm(p), pc[Comm(p)]) /\ pc[Comm(p)] \in CommLabel \ {"start"}
    BY <1>1, <2>1 DEF TypeOK, Moves, CommLabel
  <2>6. /\ LabelsOK' /\ NodesOK' /\ StacksOK' /\ StartOK'
        /\ \A z \in Thread : ThreadOK(z)'
    BY <2>1, <2>3, <2>4, <2>5, CommTyped
  <2>7. TypeOK'
    BY <1>1, <2>1, <2>2 DEF TypeOK, CountersOK, launch, PushesMessage
  <2>8. MessagesOK'
    <3>1. ASSUME NEW u \in Process, NEW v \in Process, NEW b \in StatesIn(chan', u, v)
          PROVE  destination'[b] = v
      <4>1. b \in Travel(u, v)
        BY <2>2
      <4>2. QED
        BY <1>1, <4>1 DEF TypeInv, MessagesOK
    <3>2. ASSUME NEW x \in Thread, x[2] # 0, NEW b \in Elements(m_msg'[x])
          PROVE  destination'[b] = x[1]
      <4>1. b \in Msgs(x) \/ (x = y /\ b = a)
        BY <2>2 DEF PushesMessage, Msgs
      <4>2. QED
        BY <1>1, <2>2, <2>3, <3>2, <4>1, StackStays
    <3>3. \A r \in Process : /\ pc'[Comm(r)] # "held" => s'[r] = {}
                             /\ \A b, c \in s'[r] : b = c
      BY <2>1 DEF TypeInv, MessagesOK
    <3>4. QED
      BY <3>1, <3>2, <3>3 DEF MessagesOK, Travel, StatesIn, Elements, Msgs
  <2>9. QED
    BY <2>6, <2>7, <2>8 DEF TypeInv
<1>7. QED
  BY <1>3, <1>4, <1>5, <1>6 DEF CommCases

LEMMA InitTyped ==
  ASSUME Init
  PROVE  TypeInv
<1>1. PICK l \in Launches :
        n_tasks = l.n_tasks /\ m_nb_thread = l.nb_th /\ destination = l.destination
  BY DEF Init
<1>2. /\ n_tasks \in 2 .. MaxTask
      /\ m_nb_thread \in [Process -> 2 .. MaxThread]
      /\ destination \in [Aggregate -> 0 .. n_tasks - 1]
  BY <1>1, HybridSOGAssumption
<1>3. CountersOK
  BY DEF Init, CountersOK
<1>4. /\ m_graph \in [Process -> Seq(GraphNode)]
      /\ m_st \in [Thread -> Seq(StackedPair)]
      /\ m_msg \in [Thread -> Seq(Aggregate)]
      /\ chan \in ChannelType
      /\ s \in [Process -> SUBSET Aggregate]
  BY EmptySeq DEF Init, ChannelType
<1>5. /\ pc \in [Thread -> {"start", "done"}]
      /\ \A x \in Thread : pc[x] # "done" => x[1] < n_tasks /\ x[2] < m_nb_thread[x[1]]
  BY DEF Init
<1>6. /\ e \in [Thread -> StackedPair]
      /\ t \in [Thread -> Transition \cup {NoTransition}]
      /\ pos \in [Thread -> Nat]
      /\ fresh \in [Thread -> BOOLEAN]
  BY DEF Init, StackedPair, Pair, NoState
<1>7. TypeOK
  BY <1>2, <1>3, <1>4, <1>5, <1>6 DEF TypeOK, CountersOK, CommLabel
<1>8. LabelsOK
  BY <1>5 DEF LabelsOK, CommLabel, BuilderLabel
<1>9. /\ \A p \in Process : m_graph[p] = <<>> /\ NodesOf(p) = {} /\ s[p] = {}
      /\ \A x \in Thread : /\ m_st[x] = <<>> /\ Elements(m_st[x]) = {}
                           /\ m_msg[x] = <<>> /\ Msgs(x) = {}
      /\ \A p, q \in Process : Travel(p, q) = {}
  BY DEF Init, NodesOf, Elements, Msgs, Travel, StatesIn
<1>10. NodesOK /\ MessagesOK /\ StacksOK
  BY <1>9 DEF NodesOK, MessagesOK, StacksOK
<1>11. \A x \in Thread : ThreadOK(x)
  BY <1>5 DEF ThreadOK, Expanding
<1>12. StartOK
  <2>1. 0 \in Process
    BY HybridSOGAssumption DEF Process
  <2>2. QED
    BY <1>5, <1>9, <2>1 DEF StartOK
<1>13. QED
  BY <1>7, <1>8, <1>10, <1>11, <1>12 DEF TypeInv

LEMMA NextTyped ==
  ASSUME TypeInv, [Next]_vars
  PROVE  TypeInv'
<1>1. CountersOK' /\ UNCHANGED launch
  BY CountersStep
<1>2. ASSUME NEW x \in Thread, Start(x) \/ BuilderCases(x)
      PROVE  TypeInv'
  BY <1>1, <1>2, StartTyped, WalkTyped, PopTyped, FireTyped, LinkTyped, ReceiveTyped, StoreTyped
     DEF BuilderCases
<1>3. ASSUME NEW p \in Process, CommCases(p)
      PROVE  TypeInv'
  BY <1>1, <1>3, CommStepTyped
<1>4. CASE UNCHANGED <<Core, pc>>
  <2>1. TypeOK'
    BY <1>1, <1>4 DEF TypeInv, TypeOK, CountersOK, launch, Core, stacks, local
  <2>2. UNCHANGED <<n_tasks, m_nb_thread, destination, m_graph, m_st, m_msg, pc, e, t, pos, fresh,
                    s, chan>>
    BY <1>1, <1>4 DEF launch, Core, stacks, local
  <2>3. /\ LabelsOK' /\ NodesOK' /\ MessagesOK' /\ StacksOK' /\ StartOK'
        /\ \A x \in Thread : ThreadOK(x)'
    BY <2>2 DEF TypeInv, LabelsOK, NodesOK, MessagesOK, StacksOK, StartOK, ThreadOK, PairOK,
                NodesOf, Agg, Virtual, Travel, StatesIn, Elements, Msgs
  <2>4. QED
    BY <2>1, <2>3 DEF TypeInv
<1>5. QED
  BY <1>2, <1>3, <1>4, StepCases

(* Types are right in every state: a builder only works on real nodes of   *)
(* its own process, a node is virtual exactly where its aggregate does not *)
(* belong, a state message only travels towards the owner of its aggregate *)
(* and waits in the stacks of its builders (computeDSOG, doCompute).       *)
THEOREM TypeCorrect == Spec => []TypeInv
<1>1. Init => TypeInv
  BY InitTyped
<1>2. TypeInv /\ [Next]_vars => TypeInv'
  BY NextTyped
<1>3. QED
  BY <1>1, <1>2, PTL DEF Spec

-----------------------------------------------------------------------------
(* An aggregate has one node in a process.                                 *)

(* What a step does to the graph of one process. *)
LEMMA GraphCases ==
  ASSUME TypeInv, [Next]_vars
  PROVE  \/ UNCHANGED m_graph
         \/ \E p \in Process : \E n, m \in NodesOf(p) :
              \E u \in FirableObs[Agg(p, n)] :
                AddsEdge(p, n, m, u) /\ Agg(p, m) = Successor[<<Agg(p, n), u>>]
         \/ \E p \in Process : \E n : \E a \in Aggregate :
              /\ AddsNode(p, n, a)
              /\ \A k \in NodesOf(p) : Agg(p, k) = a => Dangling(p, k)
<1>1. TypeOK /\ 0 \in Process /\ InitialAggregate \in Aggregate
  BY HybridSOGAssumption, SOGAssumption DEF TypeInv, Process
<1>2. ASSUME NEW x \in Thread, NEW a \in Aggregate, FindsOrAdds(x, a)
      PROVE  \/ UNCHANGED m_graph
             \/ \E p \in Process : \E n : \E b \in Aggregate :
                  /\ AddsNode(p, n, b)
                  /\ \A k \in NodesOf(p) : Agg(p, k) = b => Dangling(p, k)
  <2>1. x[1] \in Process
    BY ThreadProperties
  <2>2. PICK p, n : p = x[1] /\ n = pos'[x]
    OBVIOUS
  <2>3. UNCHANGED m_graph \/ (AddsNode(p, n, a) /\ \A k \in NodesOf(p) : Agg(p, k) = a => Dangling(p, k))
    BY <1>2, <2>2 DEF FindsOrAdds
  <2>4. QED
    BY <2>1, <2>2, <2>3
<1>3. ASSUME NEW x \in Thread, Start(x)
      PROVE  \/ UNCHANGED m_graph
             \/ \E p \in Process : \E n : \E a \in Aggregate :
                  /\ AddsNode(p, n, a)
                  /\ \A k \in NodesOf(p) : Agg(p, k) = a => Dangling(p, k)
  <2>1. UNCHANGED m_graph \/ (AddsNode(0, 1, InitialAggregate) /\ NodesOf(0) = {})
    BY <1>3, StartEffect DEF Begins
  <2>2. QED
    BY <1>1, <2>1
<1>4. ASSUME NEW x \in Thread, Fire(x), e[x].fire # {}
      PROVE  \E a \in Aggregate : FindsOrAdds(x, a)
  <2>1. PICK a : a = Successor[<<Agg(x[1], e[x].state), t'[x]>>]
    OBVIOUS
  <2>2. /\ FindsOrAdds(x, a) /\ e[x].state \in NodesOf(x[1])
        /\ t'[x] \in FirableObs[Agg(x[1], e[x].state)]
    BY <1>4, <2>1, FireEffect
  <2>3. x[1] \in Process
    BY ThreadProperties
  <2>4. a \in Aggregate
    BY <1>1, <2>1, <2>2, <2>3, NodesDomain, FirableProperties
  <2>5. QED
    BY <2>2, <2>4
<1>5. ASSUME NEW x \in Thread, Receive(x), m_msg[x] # <<>>
      PROVE  \E a \in Aggregate : FindsOrAdds(x, a)
  BY <1>5, ReceiveEffect
<1>6. ASSUME NEW x \in Thread, Link(x)
      PROVE  \E p \in Process : \E n, m \in NodesOf(p) :
               \E u \in FirableObs[Agg(p, n)] :
                 AddsEdge(p, n, m, u) /\ Agg(p, m) = Successor[<<Agg(p, n), u>>]
  <2>1. x[1] \in Process
    BY ThreadProperties
  <2>2. PICK n, m, u : n = e[x].state /\ m = pos[x] /\ u = t[x]
    OBVIOUS
  <2>3. n \in NodesOf(x[1]) /\ m \in NodesOf(x[1]) /\ u \in FirableObs[Agg(x[1], n)]
        /\ AddsEdge(x[1], n, m, u)
    BY <1>6, <2>2, LinkEffect
  <2>4. Agg(x[1], m) = Successor[<<Agg(x[1], n), u>>]
    BY <1>6, <2>2 DEF Link, TypeInv, ThreadOK
  <2>5. QED
    BY <2>1, <2>3, <2>4
<1>7. ASSUME NEW x \in Thread, Walks(x) \/ Pop(x) \/ Store(x)
      PROVE  UNCHANGED m_graph
  BY <1>7 DEF Walks, Core, Pop, Store
<1>8. ASSUME NEW p \in Process, CommCases(p)
      PROVE  UNCHANGED m_graph
  BY <1>8 DEF CommCases, CommWalks, PopMessage, SendState, ReadsState
<1>9. UNCHANGED <<Core, pc>> => UNCHANGED m_graph
  BY DEF Core
<1>10. ASSUME NEW x \in Thread, BuilderCases(x)
       PROVE  \/ UNCHANGED m_graph
              \/ \E p \in Process : \E n, m \in NodesOf(p) :
                   \E u \in FirableObs[Agg(p, n)] :
                     AddsEdge(p, n, m, u) /\ Agg(p, m) = Successor[<<Agg(p, n), u>>]
              \/ \E p \in Process : \E n : \E a \in Aggregate :
                   /\ AddsNode(p, n, a)
                   /\ \A k \in NodesOf(p) : Agg(p, k) = a => Dangling(p, k)
  BY <1>2, <1>4, <1>5, <1>6, <1>7, <1>10 DEF BuilderCases
<1>11. QED
  BY <1>3, <1>8, <1>9, <1>10, StepCases

LEMMA NextGrows ==
  ASSUME TypeInv, [Next]_vars
  PROVE  Grows
<1>1. TypeOK /\ 0 \in Process
  BY HybridSOGAssumption DEF TypeInv, Process
<1>2. CASE UNCHANGED m_graph
  BY <1>1, <1>2, GraphGrows
<1>3. CASE ~UNCHANGED m_graph
  BY <1>1, <1>3, GraphCases, GraphGrows
<1>4. QED
  BY <1>2, <1>3

LEMMA NextOnce ==
  ASSUME TypeInv, OnceInv, [Next]_vars
  PROVE  OnceInv'
<1>1. CASE UNCHANGED m_graph
  BY <1>1 DEF OnceInv, NodesOf, Agg, Dangling
<1>2. ASSUME NEW p \in Process, NEW n \in NodesOf(p), NEW m, NEW u, AddsEdge(p, n, m, u)
      PROVE  OnceInv'
  <2>1. ASSUME NEW q \in Process
        PROVE  /\ DOMAIN m_graph'[q] = NodesOf(q)
               /\ \A k \in NodesOf(q) : /\ m_graph'[q][k].m_lddstate = Agg(q, k)
                                        /\ m_graph'[q][k].m_virtual = Virtual(q, k)
    BY <1>2 DEF AddsEdge, NodesOf, Agg, Virtual
  <2>2. ASSUME NEW q \in Process, NEW k \in NodesOf(q), Dangling(q, k)
        PROVE  Dangling(q, k)'
    BY <2>1, <2>2 DEF Dangling, Virtual
  <2>3. ASSUME NEW q \in Process, NEW k \in DOMAIN m_graph'[q], NEW j \in DOMAIN m_graph'[q],
               m_graph'[q][k].m_lddstate = m_graph'[q][j].m_lddstate
        PROVE  k = j \/ Dangling(q, k)' \/ Dangling(q, j)'
    <3>1. k \in NodesOf(q) /\ j \in NodesOf(q) /\ Agg(q, k) = Agg(q, j)
      BY <2>1, <2>3
    <3>2. k = j \/ Dangling(q, k) \/ Dangling(q, j)
      BY <3>1 DEF OnceInv
    <3>3. QED
      BY <2>2, <3>1, <3>2
  <2>4. QED
    BY <2>3 DEF OnceInv, NodesOf, Agg
<1>3. ASSUME NEW p \in Process, NEW n, NEW a \in Aggregate, AddsNode(p, n, a),
             \A k \in NodesOf(p) : Agg(p, k) = a => Dangling(p, k)
      PROVE  OnceInv'
  <2>1. m_graph'[p][n].m_lddstate = a
    BY <1>3, AddedNode
  <2>2. ASSUME NEW q \in Process, NEW k \in NodesOf(q)
        PROVE  m_graph'[q][k] = m_graph[q][k]
    BY <1>3 DEF AddsNode
  <2>3. \A q \in Process : \A k \in DOMAIN m_graph'[q] : k \in NodesOf(q) \/ (q = p /\ k = n)
    BY <1>3 DEF AddsNode, NodesOf
  <2>4. QED
    BY <1>3, <2>1, <2>2, <2>3 DEF OnceInv, NodesOf, Agg, Dangling
<1>4. QED
  BY <1>1, <1>2, <1>3, GraphCases

LEMMA OnceExpanded ==
  ASSUME TypeInv, OnceInv
  PROVE  ExpandedOnce
<1>1. ASSUME NEW p \in Process, NEW a \in Aggregate
      PROVE  Cardinality(Real(p, a)) <= IF p = destination[a] THEN 1 ELSE 0
  <2>1. \A n : n \in Real(p, a) <=> n \in NodesOf(p) /\ Agg(p, n) = a /\ ~Virtual(p, n)
    BY DEF Real, StatesOf, NodesOf, Agg, Virtual
  <2>2. \A n, m \in Real(p, a) : n = m
    BY <2>1 DEF OnceInv, Dangling, Virtual
  <2>3. CASE Real(p, a) = {}
    <3>1. Cardinality(Real(p, a)) = 0
      BY <2>3, FS_EmptySet
    <3>2. QED
      BY <3>1
  <2>4. CASE Real(p, a) # {}
    <3>1. PICK n \in Real(p, a) : TRUE
      BY <2>4
    <3>2. Real(p, a) = {n}
      BY <2>2, <3>1
    <3>3. p = destination[a]
      BY <2>1, <3>1 DEF TypeInv, NodesOK
    <3>4. Cardinality(Real(p, a)) = 1
      BY <3>2, FS_Singleton
    <3>5. QED
      BY <3>3, <3>4
  <2>5. QED
    BY <2>3, <2>4
<1>2. QED
  BY <1>1 DEF ExpandedOnce, OnceInv, NodesOf, Agg

LEMMA InitOnce ==
  ASSUME Init
  PROVE  OnceInv
BY DEF Init, OnceInv, NodesOf

(* However threads, processes and messages interleave, an aggregate has    *)
(* one node to expand, in the process it belongs to (find and insert are   *)
(* under m_graph_mutex, and destination is a function of the aggregate).   *)
THEOREM ExpandedByItsOwner == Spec => []ExpandedOnce
<1>1. Init => TypeInv /\ OnceInv
  BY InitTyped, InitOnce
<1>2. (TypeInv /\ OnceInv) /\ [Next]_vars => (TypeInv /\ OnceInv)'
  BY NextTyped, NextOnce
<1>3. TypeInv /\ OnceInv => ExpandedOnce
  BY OnceExpanded
<1>4. QED
  BY <1>1, <1>2, <1>3, PTL DEF Spec

-----------------------------------------------------------------------------
(* No aggregate is lost.                                                   *)

(* Aggregate a goes from process p to its owner, or has a node there. *)
OnItsWay(p, a) ==
  LET q == destination[a]
  IN  \/ a \in Msgs(Comm(p)) \/ a \in s[p] \/ a \in Travel(p, q)
      \/ \E x \in Builders(q) : a \in Msgs(x)
      \/ \E n \in NodesOf(q) : Agg(q, n) = a

(* A builder has just inserted node n and is about to send its aggregate.  *)
Pending(p, n) == \E x \in Builders(p) : pc[x] = "link" /\ fresh[x] /\ pos[x] = n

DeliveryInv ==
  \A p \in Process : \A n \in NodesOf(p) :
    Virtual(p, n) => Pending(p, n) \/ OnItsWay(p, Agg(p, n))

LEMMA BuildersKept ==
  ASSUME TypeInv, [Next]_vars, NEW p
  PROVE  Builders(p)' = Builders(p) /\ UNCHANGED destination
BY CountersStep DEF Builders, launch

(* An aggregate that leaves one place enters the next one. *)
LEMMA WayKept ==
  ASSUME TypeInv, [Next]_vars, NEW p \in Process, NEW a \in Aggregate, OnItsWay(p, a)
  PROVE  OnItsWay(p, a)'
<1> DEFINE q == destination[a]
<1>1. TypeOK /\ q \in Process /\ Comm(p) \in Thread /\ UNCHANGED destination
  BY OwnerProperties, CommProperties, BuildersKept DEF TypeInv
<1>2. Builders(q)' = Builders(q) /\ \A x \in Builders(q) : x \in Thread /\ x[1] = q
  BY <1>1, BuildersKept, BuildersProperties
<1>3. (\E n \in DOMAIN m_graph'[q] : m_graph'[q][n].m_lddstate = a) => OnItsWay(p, a)'
  BY <1>1 DEF OnItsWay, NodesOf, Agg
<1>4. (\E n \in NodesOf(q) : Agg(q, n) = a) => OnItsWay(p, a)'
  BY <1>1, <1>3, NextGrows DEF Grows
<1>5. /\ a \in Elements(m_msg'[Comm(p)]) => OnItsWay(p, a)'
      /\ a \in s'[p] => OnItsWay(p, a)'
      /\ a \in StatesIn(chan', p, q) => OnItsWay(p, a)'
      /\ (\E x \in Builders(q) : a \in Elements(m_msg'[x])) => OnItsWay(p, a)'
  BY <1>1, <1>2 DEF OnItsWay, Msgs, Travel, Comm
<1>6. ASSUME \A x \in Thread : Msgs(x) \subseteq Elements(m_msg'[x]),
             s[p] \subseteq s'[p], Travel(p, q) \subseteq StatesIn(chan', p, q)
      PROVE  OnItsWay(p, a)'
  BY <1>1, <1>2, <1>4, <1>5, <1>6 DEF OnItsWay
<1>7. UNCHANGED <<stacks, s, chan>> => OnItsWay(p, a)'
  BY <1>6 DEF stacks, Msgs, Travel
<1>8. ASSUME NEW x \in Thread, Start(x)
      PROVE  OnItsWay(p, a)'
  <2>1. UNCHANGED <<s, chan>> /\ (UNCHANGED stacks \/ UNCHANGED m_msg \/ \E y \in Thread : \E b : PushesMessage(y, b))
    <3>1. 0 \in Process
      BY HybridSOGAssumption DEF Process
    <3>2. Comm(0) \in Thread
      BY <3>1, CommProperties
    <3>3. QED
      BY <1>8, <3>2, StartEffect DEF Begins
  <2>2. \A y \in Thread : Msgs(y) \subseteq Elements(m_msg'[y])
    BY <2>1 DEF PushesMessage, Msgs, stacks
  <2>3. QED
    BY <1>6, <2>1, <2>2 DEF Travel
<1>9. ASSUME NEW x \in Thread, BuilderCases(x)
      PROVE  OnItsWay(p, a)'
  <2>1. CASE Walks(x)
    BY <1>7, <2>1 DEF Walks, Core
  <2>2. CASE Pop(x) /\ m_st[x] # <<>>
    BY <1>6, <2>2, PopEffect DEF Msgs, Travel
  <2>3. CASE Fire(x) /\ e[x].fire # {}
    BY <1>7, <2>3, FireEffect
  <2>4. CASE Link(x)
    <3>1. UNCHANGED <<s, chan>> /\ (UNCHANGED m_msg \/ \E y \in Thread : \E b : PushesMessage(y, b))
      <4>1. x[1] \in Process
        BY ThreadProperties
      <4>2. Comm(x[1]) \in Thread
        BY <4>1, CommProperties
      <4>3. QED
        BY <2>4, <4>2, LinkEffect DEF stacks
    <3>2. \A y \in Thread : Msgs(y) \subseteq Elements(m_msg'[y])
      BY <3>1 DEF PushesMessage, Msgs
    <3>3. QED
      BY <1>6, <3>1, <3>2 DEF Travel
  <2>5. CASE Receive(x) /\ m_msg[x] # <<>>
    <3>1. PICK b \in Aggregate :
            /\ pc[x] = "receive" /\ destination[b] = x[1] /\ TakesMessage(x, b) /\ FindsOrAdds(x, b)
            /\ UNCHANGED <<s, chan>>
      BY <2>5, ReceiveEffect
    <3>2. CASE a = b
      <4>1. pos'[x] \in DOMAIN m_graph'[x[1]] /\ m_graph'[x[1]][pos'[x]].m_lddstate = a
        BY <1>1, <3>1, <3>2, FindGrows
      <4>2. QED
        BY <1>3, <3>1, <3>2, <4>1
    <3>3. CASE a # b
      <4>1. \A y \in Thread : a \in Msgs(y) => a \in Elements(m_msg'[y])
        BY <3>1, <3>3 DEF TakesMessage, Msgs
      <4>2. QED
        BY <1>1, <1>2, <1>4, <1>5, <3>1, <4>1 DEF OnItsWay, Travel
    <3>4. QED
      BY <3>2, <3>3
  <2>6. CASE Store(x)
    BY <1>6, <2>6, StoreEffect DEF Msgs, Travel
  <2>7. QED
    BY <1>9, <2>1, <2>2, <2>3, <2>4, <2>5, <2>6 DEF BuilderCases
<1>10. ASSUME NEW r \in Process, CommCases(r)
       PROVE  OnItsWay(p, a)'
  <2>1. CASE CommWalks(r)
    <3>1. StatesIn(chan', p, q) = Travel(p, q) /\ UNCHANGED <<stacks, s>>
      BY <1>1, <2>1 DEF CommWalks
    <3>2. QED
      BY <1>6, <3>1 DEF stacks, Msgs
  <2>2. CASE PopMessage(r) /\ m_msg[Comm(r)] # <<>>
    <3>1. PICK b \in Aggregate :
            /\ TakesMessage(Comm(r), b) /\ s'[r] = {b} /\ s[r] = {}
            /\ \A z \in Process \ {r} : s'[z] = s[z]
            /\ UNCHANGED <<m_graph, chan>>
      BY <2>2, PopMessageEffect
    <3>2. \A x \in Thread : x # Comm(r) => Msgs(x) = Elements(m_msg'[x])
      BY <3>1 DEF TakesMessage, Msgs
    <3>3. \A x \in Builders(q) : x # Comm(r)
      BY <1>1, BuildersProperties, CommProperties
    <3>4. a \in Msgs(Comm(p)) => a \in Elements(m_msg'[Comm(p)]) \/ a \in s'[p]
      <4>1. CASE p = r
        BY <3>1, <4>1 DEF TakesMessage, Msgs
      <4>2. CASE p # r
        BY <1>1, <3>2, <4>2, CommProperties
      <4>3. QED
        BY <4>1, <4>2
    <3>5. a \in s[p] => a \in s'[p]
      BY <3>1
    <3>6. QED
      BY <1>1, <1>2, <1>4, <1>5, <3>1, <3>2, <3>3, <3>4, <3>5 DEF OnItsWay, Travel
  <2>3. CASE SendState(r)
    <3>1. PICK b \in Aggregate :
            /\ s[r] = {b} /\ \A z \in Process \ {r} : s'[z] = s[z]
            /\ StatesIn(chan', r, destination[b]) = Travel(r, destination[b]) \cup {b}
            /\ \A u, v \in Process : ~(u = r /\ v = destination[b]) =>
                 StatesIn(chan', u, v) = Travel(u, v)
            /\ UNCHANGED stacks
      BY <2>3, SendStateEffect
    <3>2. \A x \in Thread : Msgs(x) = Elements(m_msg'[x])
      BY <3>1 DEF Msgs, stacks
    <3>3. a \in s[p] => a \in s'[p] \/ a \in StatesIn(chan', p, q)
      BY <3>1
    <3>4. a \in Travel(p, q) => a \in StatesIn(chan', p, q)
      BY <1>1, <3>1
    <3>5. QED
      BY <1>1, <1>2, <1>4, <1>5, <3>2, <3>3, <3>4 DEF OnItsWay
  <2>4. ASSUME NEW z \in Process, ReadsState(r, z)
        PROVE  OnItsWay(p, a)'
    <3>1. PICK b \in Aggregate, y \in Builders(r) :
            /\ destination[b] = r
            /\ PushesMessage(y, b)
            /\ Travel(z, r) = StatesIn(chan', z, r) \cup {b}
            /\ \A u, v \in Process : ~(u = z /\ v = r) => StatesIn(chan', u, v) = Travel(u, v)
      BY <2>4, ReadStateEffect DEF ReadsState
    <3>2. \A x \in Thread : Msgs(x) \subseteq Elements(m_msg'[x])
      BY <3>1 DEF PushesMessage, Msgs
    <3>3. a \in Travel(p, q) => a \in StatesIn(chan', p, q) \/ a = b
      BY <1>1, <3>1
    <3>4. a = b => y \in Builders(q) /\ a \in Elements(m_msg'[y])
      BY <3>1 DEF PushesMessage
    <3>5. UNCHANGED s
      BY <2>4 DEF ReadsState
    <3>6. QED
      BY <1>1, <1>2, <1>4, <1>5, <3>2, <3>3, <3>4, <3>5 DEF OnItsWay
  <2>5. QED
    BY <1>10, <2>1, <2>2, <2>3, <2>4 DEF CommCases
<1>11. UNCHANGED <<Core, pc>> => OnItsWay(p, a)'
  BY <1>7 DEF Core
<1>12. QED
  BY <1>8, <1>9, <1>10, <1>11, StepCases

(* A builder sends the aggregate of the node it has just inserted. *)
LEMMA PendingKept ==
  ASSUME TypeInv, [Next]_vars, NEW p \in Process, NEW n \in NodesOf(p), Virtual(p, n),
         Pending(p, n)
  PROVE  Pending(p, n)' \/ OnItsWay(p, Agg(p, n))'
<1>1. PICK y \in Builders(p) : pc[y] = "link" /\ fresh[y] /\ pos[y] = n
  BY DEF Pending
<1>2. y \in Thread /\ y[1] = p /\ y[2] # 0 /\ y \in Builders(p)' /\ UNCHANGED destination
  BY <1>1, BuildersKept, BuildersProperties DEF TypeInv
<1>3. pc'[y] = pc[y] /\ fresh'[y] = fresh[y] /\ pos'[y] = pos[y] => Pending(p, n)'
  BY <1>1, <1>2 DEF Pending
<1>4. \A r \in Process : y # Comm(r)
  BY <1>2, CommProperties
<1>5. ASSUME NEW x \in Thread, Start(x)
      PROVE  Pending(p, n)'
  <2>1. x # y /\ pc'[y] = pc[y] /\ UNCHANGED <<fresh, pos>>
    BY <1>1, <1>2, <1>5, StartEffect DEF Moves, local
  <2>2. QED
    BY <1>3, <2>1
<1>6. ASSUME NEW x \in Thread, x # y, BuilderCases(x)
      PROVE  Pending(p, n)'
  <2>1. CASE Walks(x)
    BY <1>2, <1>3, <1>6, <2>1 DEF Walks, Core, local, Moves
  <2>2. CASE Pop(x) /\ m_st[x] # <<>>
    BY <1>2, <1>3, <1>6, <2>2, PopEffect DEF Moves
  <2>3. CASE Fire(x) /\ e[x].fire # {}
    <3>1. PICK a : Moves(x, "link") /\ FindsOrAdds(x, a)
      BY <2>3, FireEffect
    <3>2. QED
      BY <1>2, <1>3, <1>6, <3>1 DEF Moves, FindsOrAdds
  <2>4. CASE Link(x)
    BY <1>2, <1>3, <1>6, <2>4, LinkEffect DEF Moves, local
  <2>5. CASE Receive(x) /\ m_msg[x] # <<>>
    <3>1. PICK a, label : Moves(x, label) /\ FindsOrAdds(x, a)
      BY <2>5, ReceiveEffect
    <3>2. QED
      BY <1>2, <1>3, <1>6, <3>1 DEF Moves, FindsOrAdds
  <2>6. CASE Store(x)
    BY <1>2, <1>3, <1>6, <2>6, StoreEffect DEF Moves, local
  <2>7. QED
    BY <1>6, <2>1, <2>2, <2>3, <2>4, <2>5, <2>6 DEF BuilderCases
<1>7. CASE BuilderCases(y)
  <2>1. Link(y)
    BY <1>1, <1>7, WalkSteps, PopEffect, FireEffect, ReceiveEffect, StoreEffect
       DEF BuilderCases, Walks, Pop, Fire, Receive, Store, BuilderLabel
  <2>2. PushesMessage(Comm(p), Agg(p, n))
    BY <1>1, <1>2, <2>1, LinkEffect
  <2>3. PICK a : a = Agg(p, n)
    OBVIOUS
  <2>4. Agg(p, n)' = a
    BY <2>3, NextGrows DEF Grows, Agg
  <2>5. a \in Elements(m_msg'[Comm(p)])
    BY <2>2, <2>3 DEF PushesMessage
  <2>6. QED
    BY <2>4, <2>5 DEF OnItsWay, Msgs, Comm
<1>8. ASSUME NEW r \in Process, CommCases(r)
      PROVE  Pending(p, n)'
  <2>1. CASE CommWalks(r)
    BY <1>2, <1>3, <1>4, <2>1 DEF CommWalks, Moves, local
  <2>2. CASE PopMessage(r) /\ m_msg[Comm(r)] # <<>>
    BY <1>2, <1>3, <1>4, <2>2, PopMessageEffect DEF Moves, local
  <2>3. CASE SendState(r)
    BY <1>2, <1>3, <1>4, <2>3, SendStateEffect DEF Moves, local
  <2>4. CASE \E q \in Process : ReadsState(r, q)
    BY <1>3, <2>4 DEF ReadsState, local
  <2>5. QED
    BY <1>8, <2>1, <2>2, <2>3, <2>4 DEF CommCases
<1>9. UNCHANGED <<Core, pc>> => Pending(p, n)'
  BY <1>3 DEF Core, local
<1>10. QED
  BY <1>5, <1>6, <1>7, <1>8, <1>9, StepCases

(* A process inserts a virtual node for the target of an edge, about to be *)
(* sent, and process 0 for its initial aggregate.                          *)
LEMMA NewVirtual ==
  ASSUME TypeInv, [Next]_vars, NEW p \in Process, NEW n \in DOMAIN m_graph'[p],
         n \notin NodesOf(p), Virtual(p, n)'
  PROVE  Pending(p, n)' \/ OnItsWay(p, Agg(p, n))'
<1>1. TypeInv' /\ UNCHANGED destination
  BY NextTyped, BuildersKept
<1>2. destination[m_graph'[p][n].m_lddstate] # p
  BY <1>1 DEF TypeInv, NodesOK, NodesOf, Agg
<1>3. ~UNCHANGED m_graph
  BY DEF NodesOf
<1>4. ASSUME NEW x \in Thread, NEW a, FindsOrAdds(x, a)
      PROVE  x[1] = p /\ pos'[x] = n /\ fresh'[x] /\ m_graph'[p][n].m_lddstate = a
  <2>1. AddsNode(x[1], pos'[x], a) /\ fresh'[x]
    BY <1>3, <1>4 DEF FindsOrAdds
  <2>2. x[1] = p /\ pos'[x] = n
    BY <2>1 DEF AddsNode, NodesOf
  <2>3. QED
    BY <2>1, <2>2, FindGrows, <1>4 DEF TypeInv
<1>5. ASSUME NEW x \in Thread, Start(x)
      PROVE  OnItsWay(p, Agg(p, n))'
  <2>1. Begins
    BY <1>3, <1>5, StartEffect
  <2>2. p = 0 /\ n = 1
    BY <2>1 DEF Begins, AddsNode, NodesOf
  <2>3. m_graph'[p][n].m_lddstate = InitialAggregate
    BY <2>1, <2>2, AddedNode DEF Begins
  <2>4. PushesMessage(Comm(0), InitialAggregate)
    BY <1>2, <2>1, <2>2, <2>3 DEF Begins
  <2>5. QED
    BY <2>2, <2>3, <2>4 DEF OnItsWay, Agg, Msgs, PushesMessage, Comm
<1>6. ASSUME NEW x \in Thread, BuilderCases(x)
      PROVE  Pending(p, n)'
  <2>1. CASE Walks(x) \/ (Pop(x) /\ m_st[x] # <<>>) \/ Store(x)
    BY <1>3, <2>1, PopEffect, StoreEffect DEF Walks, Core
  <2>2. CASE Fire(x) /\ e[x].fire # {}
    <3>1. x[1] = p /\ pos'[x] = n /\ fresh'[x]
      BY <1>4, <2>2, FireEffect
    <3>2. pc'[x] = "link" /\ pc[x] \in {"fire", "collect"}
      BY <2>2, FireEffect DEF Moves
    <3>3. x \in Builders(p)'
      BY <3>1, <3>2, BuilderProperties, BuildersKept DEF BuilderLabel
    <3>4. QED
      BY <3>1, <3>2, <3>3 DEF Pending
  <2>3. CASE Link(x)
    <3>1. x[1] \in Process /\ AddsEdge(x[1], e[x].state, pos[x], t[x])
      BY <2>3, LinkEffect, ThreadProperties
    <3>2. QED
      BY <3>1 DEF AddsEdge, NodesOf
  <2>4. CASE Receive(x) /\ m_msg[x] # <<>>
    <3>1. PICK a \in Aggregate : destination[a] = x[1] /\ FindsOrAdds(x, a)
      BY <2>4, ReceiveEffect
    <3>2. QED
      BY <1>2, <1>4, <3>1
  <2>5. QED
    BY <1>6, <2>1, <2>2, <2>3, <2>4 DEF BuilderCases
<1>7. ASSUME NEW r \in Process, CommCases(r)
      PROVE  FALSE
  BY <1>3, <1>7, PopMessageEffect, SendStateEffect DEF CommCases, CommWalks, ReadsState
<1>8. ~UNCHANGED <<Core, pc>>
  BY <1>3 DEF Core
<1>9. QED
  BY <1>5, <1>6, <1>7, <1>8, StepCases

LEMMA NextDelivers ==
  ASSUME TypeInv, DeliveryInv, [Next]_vars
  PROVE  DeliveryInv'
<1>1. ASSUME NEW p \in Process, NEW n \in DOMAIN m_graph'[p], Virtual(p, n)'
      PROVE  Pending(p, n)' \/ OnItsWay(p, Agg(p, n))'
  <2>1. CASE n \in NodesOf(p)
    <3>1. Agg(p, n)' = Agg(p, n) /\ Virtual(p, n)
      BY <1>1, <2>1, NextGrows DEF Grows, Agg, Virtual
    <3>2. Agg(p, n) \in Aggregate
      BY <2>1, NodesDomain DEF TypeInv
    <3>3. CASE Pending(p, n)
      <4>1. Pending(p, n)' \/ OnItsWay(p, Agg(p, n))'
        BY <2>1, <3>1, <3>3, PendingKept
      <4>2. QED
        BY <4>1
    <3>4. CASE OnItsWay(p, Agg(p, n))
      <4>1. PICK a : a = Agg(p, n)
        OBVIOUS
      <4>2. OnItsWay(p, a)'
        BY <3>2, <3>4, <4>1, WayKept
      <4>3. Agg(p, n)' = a
        BY <3>1, <4>1
      <4>4. QED
        BY <4>2, <4>3 DEF OnItsWay
    <3>5. QED
      BY <2>1, <3>1, <3>3, <3>4 DEF DeliveryInv
  <2>2. CASE n \notin NodesOf(p)
    BY <1>1, <2>2, NewVirtual
  <2>3. QED
    BY <2>1, <2>2
<1>2. QED
  BY <1>1 DEF DeliveryInv, NodesOf

LEMMA DeliveryKept ==
  ASSUME TypeInv, DeliveryInv
  PROVE  NoAggregateLost
<1>1. ASSUME NEW p \in Process, NEW n \in NodesOf(p), Virtual(p, n)
      PROVE  LET a == Agg(p, n)
                 q == destination[a]
             IN  \/ Pending(p, n)
                 \/ Has(m_msg[Comm(p)], a) \/ a \in s[p]
                 \/ Has(chan[<<p, q>>], Message("STATE", a))
                 \/ \E x \in Builders(q) : Has(m_msg[x], a)
                 \/ Real(q, a) # {}
  <2>1. PICK a, q : a = Agg(p, n) /\ q = destination[a]
    OBVIOUS
  <2>2. a \in Aggregate /\ q \in Process
    BY <1>1, <2>1, NodesDomain, OwnerProperties DEF TypeInv
  <2>3. a \in Travel(p, q) => Has(chan[<<p, q>>], Message("STATE", a))
    <3>1. Elements(chan[<<p, q>>]) \subseteq MessageType
      BY <2>2, ElementsType DEF TypeInv, TypeOK, ChannelType
    <3>2. a \in Travel(p, q) => Message("STATE", a) \in Elements(chan[<<p, q>>])
      BY <3>1, MessageTypes DEF Travel, StatesIn
    <3>3. QED
      BY <3>2, HasElement
  <2>4. (\E k \in NodesOf(q) : Agg(q, k) = a) => Real(q, a) # {}
    BY <2>1, <2>2 DEF TypeInv, NodesOK, Real, StatesOf, NodesOf, Agg, Virtual
  <2>5. \A x : a \in Msgs(x) => Has(m_msg[x], a)
    BY HasElement DEF Msgs
  <2>6. QED
    BY <1>1, <2>1, <2>3, <2>4, <2>5 DEF DeliveryInv, OnItsWay
<1>2. QED
  BY <1>1 DEF NoAggregateLost, Pending, NodesOf, Agg, Virtual

LEMMA InitDelivers ==
  ASSUME Init
  PROVE  DeliveryInv
<1>1. \A p \in Process : NodesOf(p) = {}
  BY DEF Init, NodesOf
<1>2. QED
  BY <1>1 DEF DeliveryInv

(* An aggregate a process has met is in its hands, on its way or a node of *)
(* its owner, whatever the processes do with the messages: a process that  *)
(* waits to send still receives, read_termination leaves a state message   *)
(* to read_message, and no stack drops what it holds.                      *)
THEOREM NothingLost == Spec => []NoAggregateLost
<1>1. Init => DeliveryInv
  BY InitDelivers
<1>2. TypeInv /\ DeliveryInv /\ [Next]_vars => DeliveryInv'
  BY NextDelivers
<1>3. TypeInv /\ DeliveryInv => NoAggregateLost
  BY DeliveryKept
<1>4. QED
  BY TypeCorrect, <1>1, <1>2, <1>3, PTL DEF Spec

-----------------------------------------------------------------------------
(* Every edge is one of the SOG and every message about an aggregate met.  *)

LEMMA KnownAre ==
  /\ \A a : a \in Known <=> \E p \in Process : \E n \in NodesOf(p) : a = Agg(p, n)
  /\ \A a : a \in Known' <=>
       \E p \in Process : \E n \in DOMAIN m_graph'[p] : a = m_graph'[p][n].m_lddstate
<1>1. \A pn : pn \in Nodes <=> \E p \in Process : \E n \in NodesOf(p) : pn = <<p, n>>
  BY DEF Nodes, NodesOf
<1>2. \A pn : pn \in Nodes' <=> \E p \in Process : \E n \in DOMAIN m_graph'[p] : pn = <<p, n>>
  BY DEF Nodes
<1>3. \A a : a \in Known <=> \E pn \in Nodes : a = m_graph[pn[1]][pn[2]].m_lddstate
  BY DEF Known, AggregatesOf
<1>4. \A a : a \in Known' <=> \E pn \in Nodes' : a = m_graph'[pn[1]][pn[2]].m_lddstate
  BY DEF Known, AggregatesOf
<1>5. \A a : a \in Known <=> \E p \in Process : \E n \in NodesOf(p) : a = Agg(p, n)
  <2>1. ASSUME NEW a \in Known
        PROVE  \E p \in Process : \E n \in NodesOf(p) : a = Agg(p, n)
    <3>1. PICK pn \in Nodes : a = m_graph[pn[1]][pn[2]].m_lddstate
      BY <1>3
    <3>2. PICK p \in Process : \E n \in NodesOf(p) : pn = <<p, n>>
      BY <1>1
    <3>3. PICK n \in NodesOf(p) : pn = <<p, n>>
      BY <3>2
    <3>4. QED
      BY <3>1, <3>3 DEF Agg
  <2>2. ASSUME NEW a, NEW p \in Process, NEW n \in NodesOf(p), a = Agg(p, n)
        PROVE  a \in Known
    <3>1. PICK pn : pn = <<p, n>>
      OBVIOUS
    <3>2. pn \in Nodes /\ pn[1] = p /\ pn[2] = n
      BY <1>1, <3>1
    <3>3. QED
      BY <1>3, <2>2, <3>2 DEF Agg
  <2>3. QED
    BY <2>1, <2>2
<1>6. \A a : a \in Known' <=>
        \E p \in Process : \E n \in DOMAIN m_graph'[p] : a = m_graph'[p][n].m_lddstate
  <2>1. ASSUME NEW a \in Known'
        PROVE  \E p \in Process : \E n \in DOMAIN m_graph'[p] : a = m_graph'[p][n].m_lddstate
    <3>1. PICK pn \in Nodes' : a = m_graph'[pn[1]][pn[2]].m_lddstate
      BY <1>4
    <3>2. PICK p \in Process : \E n \in DOMAIN m_graph'[p] : pn = <<p, n>>
      BY <1>2
    <3>3. PICK n \in DOMAIN m_graph'[p] : pn = <<p, n>>
      BY <3>2
    <3>4. QED
      BY <3>1, <3>3
  <2>2. ASSUME NEW a, NEW p \in Process, NEW n \in DOMAIN m_graph'[p],
               a = m_graph'[p][n].m_lddstate
        PROVE  a \in Known'
    <3>1. PICK pn : pn = <<p, n>>
      OBVIOUS
    <3>2. pn \in Nodes' /\ pn[1] = p /\ pn[2] = n
      BY <1>2, <3>1
    <3>3. QED
      BY <1>4, <2>2, <3>2
  <2>3. QED
    BY <2>1, <2>2
<1>7. QED
  BY <1>5, <1>6

LEMMA KnownGrows ==
  ASSUME TypeInv, [Next]_vars
  PROVE  Known \subseteq Known'
BY KnownAre, NextGrows DEF Grows

(* An aggregate that a process receives, or is about to send, is known. *)
LEMMA MessagesStayKnown ==
  ASSUME TypeInv, GraphInv, [Next]_vars
  PROVE  /\ \A x \in Thread : Elements(m_msg'[x]) \subseteq Known'
         /\ \A p \in Process : s'[p] \subseteq Known'
         /\ \A p, q \in Process : StatesIn(chan', p, q) \subseteq Known'
<1> DEFINE Goal == /\ \A x \in Thread : Elements(m_msg'[x]) \subseteq Known'
                   /\ \A p \in Process : s'[p] \subseteq Known'
                   /\ \A p, q \in Process : StatesIn(chan', p, q) \subseteq Known'
<1>1. /\ \A x \in Thread : Msgs(x) \subseteq Known'
      /\ \A p \in Process : s[p] \subseteq Known'
      /\ \A p, q \in Process : Travel(p, q) \subseteq Known'
  BY KnownGrows DEF GraphInv
<1>2. TypeOK /\ 0 \in Process
  BY HybridSOGAssumption DEF TypeInv, Process
<1>3. \A y : \A a \in Known' :
        PushesMessage(y, a) => \A x \in Thread : Elements(m_msg'[x]) \subseteq Known'
  BY <1>1 DEF PushesMessage, Msgs
<1>4. \A y : \A a :
        TakesMessage(y, a) => \A x \in Thread : Elements(m_msg'[x]) \subseteq Msgs(x)
  BY DEF TakesMessage, Msgs
<1>5. /\ UNCHANGED m_msg => \A x \in Thread : Elements(m_msg'[x]) \subseteq Known'
      /\ UNCHANGED s => \A p \in Process : s'[p] \subseteq Known'
      /\ UNCHANGED chan => \A p, q \in Process : StatesIn(chan', p, q) \subseteq Known'
  BY <1>1 DEF Msgs, Travel
<1>6. ASSUME NEW x \in Thread, Start(x)
      PROVE  Goal
  <2>1. UNCHANGED <<s, chan>> /\ (UNCHANGED m_msg \/ (Begins /\ PushesMessage(Comm(0), InitialAggregate)))
    BY <1>6, StartEffect DEF Begins, stacks
  <2>2. Begins => InitialAggregate \in Known'
    BY <1>2, KnownAre, AddedNode DEF Begins, AddsNode
  <2>3. QED
    BY <1>3, <1>5, <2>1, <2>2
<1>7. ASSUME NEW x \in Thread, BuilderCases(x)
      PROVE  Goal
  <2>1. CASE Walks(x)
    BY <1>5, <2>1 DEF Walks, Core, stacks
  <2>2. CASE Pop(x) /\ m_st[x] # <<>>
    BY <1>5, <2>2, PopEffect
  <2>3. CASE Fire(x) /\ e[x].fire # {}
    BY <1>5, <2>3, FireEffect DEF stacks
  <2>4. CASE Link(x)
    <3>1. PICK a : a = Agg(x[1], pos[x])
      OBVIOUS
    <3>2. /\ UNCHANGED <<s, chan>> /\ pos[x] \in NodesOf(x[1])
          /\ UNCHANGED m_msg \/ PushesMessage(Comm(x[1]), a)
      BY <2>4, <3>1, LinkEffect DEF stacks
    <3>3. a \in Known'
      BY <3>1, <3>2, KnownAre, KnownGrows, ThreadProperties
    <3>4. QED
      BY <1>3, <1>5, <3>2, <3>3
  <2>5. CASE Receive(x) /\ m_msg[x] # <<>>
    <3>1. UNCHANGED <<s, chan>> /\ \E a : TakesMessage(x, a)
      BY <2>5, ReceiveEffect
    <3>2. QED
      BY <1>1, <1>4, <1>5, <3>1
  <2>6. CASE Store(x)
    BY <1>5, <2>6, StoreEffect
  <2>7. QED
    BY <1>7, <2>1, <2>2, <2>3, <2>4, <2>5, <2>6 DEF BuilderCases
<1>8. ASSUME NEW r \in Process, CommCases(r)
      PROVE  Goal
  <2>1. CASE CommWalks(r)
    BY <1>1, <1>5, <2>1 DEF CommWalks, stacks
  <2>2. CASE PopMessage(r) /\ m_msg[Comm(r)] # <<>>
    <3>1. PICK a : /\ TakesMessage(Comm(r), a) /\ s'[r] = {a}
                   /\ \A q \in Process \ {r} : s'[q] = s[q]
                   /\ UNCHANGED chan
      BY <2>2, PopMessageEffect
    <3>2. a \in Known'
      BY <1>1, <3>1, CommProperties DEF TakesMessage
    <3>3. QED
      BY <1>1, <1>4, <1>5, <3>1, <3>2
  <2>3. CASE SendState(r)
    <3>1. PICK a : /\ s[r] = {a} /\ s'[r] = {} /\ \A q \in Process \ {r} : s'[q] = s[q]
                   /\ StatesIn(chan', r, destination[a]) = Travel(r, destination[a]) \cup {a}
                   /\ destination[a] \in Process
                   /\ \A u, v \in Process : ~(u = r /\ v = destination[a]) =>
                        StatesIn(chan', u, v) = Travel(u, v)
                   /\ UNCHANGED m_msg
      BY <2>3, SendStateEffect DEF stacks
    <3>2. a \in Known'
      BY <1>1, <3>1
    <3>3. \A p \in Process : s'[p] \subseteq Known'
      BY <1>1, <3>1
    <3>4. \A p, q \in Process : StatesIn(chan', p, q) \subseteq Known'
      BY <1>1, <3>1, <3>2
    <3>5. QED
      BY <1>5, <3>1, <3>3, <3>4
  <2>4. ASSUME NEW z \in Process, ReadsState(r, z)
        PROVE  Goal
    <3>1. PICK a, y :
            /\ PushesMessage(y, a)
            /\ Travel(z, r) = StatesIn(chan', z, r) \cup {a}
            /\ \A u, v \in Process : ~(u = z /\ v = r) => StatesIn(chan', u, v) = Travel(u, v)
            /\ UNCHANGED s
      BY <2>4, ReadStateEffect DEF ReadsState
    <3>2. a \in Known'
      BY <1>1, <3>1
    <3>3. \A p, q \in Process : StatesIn(chan', p, q) \subseteq Known'
      BY <1>1, <3>1
    <3>4. QED
      BY <1>3, <1>5, <3>1, <3>2, <3>3
  <2>5. QED
    BY <1>8, <2>1, <2>2, <2>3, <2>4 DEF CommCases
<1>9. UNCHANGED <<Core, pc>> => Goal
  BY <1>5 DEF Core, stacks
<1>10. QED
  BY <1>6, <1>7, <1>8, <1>9, StepCases

(* Before thread 0 of process 0 starts, no process has anything to do.     *)
LEMMA NothingBeforeStart ==
  ASSUME TypeInv, GraphInv, [Next]_vars, pc'[Comm(0)] = "start"
  PROVE  UNCHANGED m_graph /\ pc[Comm(0)] = "start"
<1>1. 0 \in Process
  BY HybridSOGAssumption DEF Process
<1>2. Comm(0) \in Thread
  BY <1>1, CommProperties
<1>3. ASSUME NEW x \in Thread, NEW label, Moves(x, label), label # "start"
      PROVE  pc[Comm(0)] = "start" /\ x # Comm(0)
  BY <1>2, <1>3 DEF Moves
<1>4. pc[Comm(0)] = "start" =>
        /\ Known = {} /\ \A p \in Process : NodesOf(p) = {}
        /\ \A x \in Thread : Msgs(x) = {}
  BY KnownAre DEF GraphInv
<1>5. ASSUME NEW x \in Thread, Start(x)
      PROVE  UNCHANGED m_graph /\ pc[Comm(0)] = "start"
  BY <1>3, <1>5, StartEffect
<1>6. ASSUME NEW x \in Thread, BuilderCases(x)
      PROVE  UNCHANGED m_graph /\ pc[Comm(0)] = "start"
  <2>1. x[1] \in Process
    BY ThreadProperties
  <2>2. CASE Walks(x)
    BY <1>3, <2>2 DEF Walks, Core, BuilderLabel
  <2>3. CASE Pop(x) /\ m_st[x] # <<>>
    BY <1>3, <2>3, PopEffect
  <2>4. CASE Fire(x) /\ e[x].fire # {}
    BY <1>3, <1>4, <2>1, <2>4, FireEffect
  <2>5. CASE Link(x)
    BY <1>3, <1>4, <2>1, <2>5, LinkEffect
  <2>6. CASE Receive(x) /\ m_msg[x] # <<>>
    <3>1. PICK a : TakesMessage(x, a) /\ Moves(x, IF fresh'[x] THEN "store" ELSE Out(x))
      BY <2>6, ReceiveEffect
    <3>2. (IF fresh'[x] THEN "store" ELSE Out(x)) # "start"
      BY DEF Out
    <3>3. QED
      BY <1>3, <1>4, <3>1, <3>2 DEF TakesMessage
  <2>7. CASE Store(x)
    <3>1. Out(x) # "start"
      BY DEF Out
    <3>2. QED
      BY <1>3, <2>7, <3>1, StoreEffect
  <2>8. QED
    BY <1>6, <2>2, <2>3, <2>4, <2>5, <2>6, <2>7 DEF BuilderCases
<1>7. ASSUME NEW r \in Process, CommCases(r)
      PROVE  UNCHANGED m_graph /\ pc[Comm(0)] = "start"
  <2>1. Comm(r) \in Thread
    BY CommProperties
  <2>2. CASE CommWalks(r)
    BY <1>3, <2>1, <2>2 DEF CommWalks
  <2>3. CASE PopMessage(r) /\ m_msg[Comm(r)] # <<>>
    BY <1>3, <2>1, <2>3, PopMessageEffect
  <2>4. CASE SendState(r)
    BY <1>3, <2>1, <2>4, SendStateEffect
  <2>5. CASE \E q \in Process : ReadsState(r, q)
    BY <2>5 DEF ReadsState
  <2>6. QED
    BY <1>7, <2>2, <2>3, <2>4, <2>5 DEF CommCases
<1>8. UNCHANGED <<Core, pc>> => UNCHANGED m_graph /\ pc[Comm(0)] = "start"
  BY DEF Core
<1>9. QED
  BY <1>5, <1>6, <1>7, <1>8, StepCases

(* The edges a step leaves behind. *)
LEMMA LinksKept ==
  ASSUME TypeInv, GraphInv, [Next]_vars, NEW p \in Process, NEW n \in DOMAIN m_graph'[p],
         NEW u \in Links(m_graph'[p][n])
  PROVE  /\ u.to \in DOMAIN m_graph'[p]
         /\ u.t \in FirableObs[m_graph'[p][n].m_lddstate]
         /\ m_graph'[p][u.to].m_lddstate = Successor[<<m_graph'[p][n].m_lddstate, u.t>>]
<1> DEFINE Goal == /\ u.to \in DOMAIN m_graph'[p]
                   /\ u.t \in FirableObs[m_graph'[p][n].m_lddstate]
                   /\ m_graph'[p][u.to].m_lddstate = Successor[<<m_graph'[p][n].m_lddstate, u.t>>]
<1>1. \A k \in NodesOf(p) : k \in DOMAIN m_graph'[p] /\ m_graph'[p][k].m_lddstate = Agg(p, k)
  BY NextGrows DEF Grows
<1>2. ASSUME n \in NodesOf(p), u \in Links(m_graph[p][n])
      PROVE  Goal
  <2>1. /\ u.to \in NodesOf(p) /\ u.t \in FirableObs[Agg(p, n)]
        /\ Agg(p, u.to) = Successor[<<Agg(p, n), u.t>>]
    BY <1>2 DEF GraphInv
  <2>2. QED
    BY <1>1, <1>2, <2>1
<1>3. CASE UNCHANGED m_graph
  BY <1>2, <1>3 DEF NodesOf
<1>4. ASSUME NEW q \in Process, NEW k \in NodesOf(q), NEW m \in NodesOf(q),
             NEW v \in FirableObs[Agg(q, k)], AddsEdge(q, k, m, v),
             Agg(q, m) = Successor[<<Agg(q, k), v>>]
      PROVE  Goal
  <2>1. CASE q = p /\ k = n
    <3>1. u \in Links(m_graph[p][n]) \/ u = [to |-> m, t |-> v]
      BY <1>4, <2>1 DEF AddsEdge
    <3>2. CASE u = [to |-> m, t |-> v]
      <4>1. u.to = m /\ u.t = v
        BY <3>2
      <4>2. QED
        BY <1>1, <1>4, <2>1, <4>1
    <3>3. QED
      BY <1>2, <1>4, <2>1, <3>1, <3>2
  <2>2. CASE ~(q = p /\ k = n)
    <3>1. n \in NodesOf(p) /\ Links(m_graph'[p][n]) = Links(m_graph[p][n])
      BY <1>4, <2>2 DEF AddsEdge, NodesOf
    <3>2. QED
      BY <1>2, <3>1
  <2>3. QED
    BY <2>1, <2>2
<1>5. ASSUME NEW q \in Process, NEW k, NEW a \in Aggregate, AddsNode(q, k, a)
      PROVE  Goal
  <2>1. CASE q = p /\ k = n
    <3>1. Links(m_graph'[p][n]) = {}
      BY <1>5, <2>1, AddedNode
    <3>2. QED
      BY <3>1
  <2>2. CASE ~(q = p /\ k = n)
    <3>1. n \in NodesOf(p) /\ m_graph'[p][n] = m_graph[p][n]
      BY <1>5, <2>2 DEF AddsNode, NodesOf
    <3>2. QED
      BY <1>2, <3>1
  <2>3. QED
    BY <2>1, <2>2
<1>6. QED
  BY <1>3, <1>4, <1>5, GraphCases

LEMMA NextGraph ==
  ASSUME TypeInv, GraphInv, [Next]_vars
  PROVE  GraphInv'
<1>1. /\ \A x \in Thread : Elements(m_msg'[x]) \subseteq Known'
      /\ \A p \in Process : s'[p] \subseteq Known'
      /\ \A p, q \in Process : StatesIn(chan', p, q) \subseteq Known'
  BY MessagesStayKnown
<1>2. ASSUME pc'[Comm(0)] = "start"
      PROVE  \A p \in Process : DOMAIN m_graph'[p] = {}
  BY <1>2, NothingBeforeStart DEF GraphInv, NodesOf
<1>3. ASSUME NEW p \in Process, NEW n \in DOMAIN m_graph'[p], NEW u \in Links(m_graph'[p][n])
      PROVE  /\ u.to \in DOMAIN m_graph'[p]
             /\ u.t \in FirableObs[m_graph'[p][n].m_lddstate]
             /\ m_graph'[p][u.to].m_lddstate = Successor[<<m_graph'[p][n].m_lddstate, u.t>>]
  BY LinksKept
<1>4. QED
  BY <1>1, <1>2, <1>3 DEF GraphInv, NodesOf, Agg, Msgs, Travel, Comm

-----------------------------------------------------------------------------
(* Who works on a node.                                                    *)

WorksOn(x, n) == Stacked(x, n) \/ Holds(x, n)

LEMMA FinishedMeaning ==
  ASSUME NEW p, NEW n
  PROVE  /\ Finished(p, n) <=> \A x \in Builders(p) : ~WorksOn(x, n)
         /\ Finished(p, n)' <=> \A x \in Builders(p)' : ~WorksOn(x, n)'
BY DEF Finished, WorksOn

LEMMA SameWork ==
  ASSUME NEW x, NEW n, Elements(m_st'[x]) = Elements(m_st[x]),
         pc'[x] = pc[x], e'[x] = e[x], pos'[x] = pos[x], fresh'[x] = fresh[x]
  PROVE  WorksOn(x, n)' <=> WorksOn(x, n)
<1>1. Stacked(x, n)' <=> Stacked(x, n)
  BY StackedElement
<1>2. Holds(x, n)' <=> Holds(x, n)
  BY DEF Holds
<1>3. QED
  BY <1>1, <1>2 DEF WorksOn

(* The builder that works on a new state pushes it for a builder. *)
LEMMA PushedWork ==
  ASSUME TypeInv, NEW x \in Thread, x \in Builders(x[1]), NEW y \in Builders(x[1]),
         NEW m, NEW F, NEW label \in {"fire", "leave", "idle"},
         PushesState(y, m, F), Moves(x, label), UNCHANGED local,
         \A k : Holds(x, k) <=> k = m \/ (label = "fire" /\ e[x].state = k),
         NEW p \in Process, NEW n
  PROVE  (\E w \in Builders(p) : WorksOn(w, n)) <=> (\E w \in Builders(p) : WorksOn(w, n)')
<1>1. /\ \A w \in Builders(p) : w \in Thread /\ w[1] = p
      /\ y \in Thread /\ y[1] = x[1] /\ x[1] \in Process
  BY BuildersProperties, ThreadProperties DEF TypeInv
<1>2. \A w \in Thread \ {x, y} : WorksOn(w, n)' <=> WorksOn(w, n)
  BY SameWork DEF PushesState, Moves, local
<1>3. Holds(x, n)' <=> label = "fire" /\ e[x].state = n
  BY DEF Holds, Moves, local
<1>4. y # x => (Holds(y, n)' <=> Holds(y, n))
  BY <1>1 DEF Holds, Moves, local
<1>5. Stacked(y, n)' <=> Stacked(y, n) \/ n = m
  <2>1. PICK z : z = Pair(m, F)
    OBVIOUS
  <2>2. z.state = m
    BY <2>1 DEF Pair
  <2>3. Elements(m_st'[y]) = Elements(m_st[y]) \cup {z}
    BY <2>1 DEF PushesState
  <2>4. QED
    BY <2>2, <2>3, StackedElement
<1>6. x # y => (Stacked(x, n)' <=> Stacked(x, n))
  BY StackedElement DEF PushesState
<1>7. CASE x[1] = p
  <2>1. (WorksOn(x, n) \/ WorksOn(y, n)) <=> (WorksOn(x, n)' \/ WorksOn(y, n)')
    BY <1>3, <1>4, <1>5, <1>6 DEF WorksOn
  <2>2. QED
    BY <1>1, <1>2, <1>7, <2>1
<1>8. CASE x[1] # p
  BY <1>1, <1>2, <1>8
<1>9. QED
  BY <1>7, <1>8

(* A builder has nothing more to fire and drops its node. *)
Drops(x, n) ==
  /\ Walks(x) /\ pc[x] \in Expanding /\ pc'[x] \notin Expanding
  /\ pc[x] # "link" /\ e[x].fire = {} /\ e[x].state = n

(* Only that may finish a node, and nothing makes a builder work again on  *)
(* a finished one.                                                         *)
LEMMA FinishedStep ==
  ASSUME TypeInv, [Next]_vars, NEW p \in Process, NEW n \in NodesOf(p), ~Virtual(p, n)
  PROVE  \/ Finished(p, n)' <=> Finished(p, n)
         \/ ~Finished(p, n) /\ \E x \in Builders(p) : Drops(x, n)
<1> DEFINE W == \E w \in Builders(p) : WorksOn(w, n)
<1> DEFINE V == \E w \in Builders(p) : WorksOn(w, n)'
<1>1. (Finished(p, n) <=> ~W) /\ (Finished(p, n)' <=> ~V)
  <2>1. Builders(p)' = Builders(p)
    BY BuildersKept
  <2>2. QED
    BY <2>1, FinishedMeaning
<1>2. \A w \in Builders(p) : w \in Thread /\ w[1] = p /\ w[2] # 0 /\ \A q \in Process : w # Comm(q)
  BY BuildersProperties, CommProperties DEF TypeInv
<1>3. ASSUME \A w \in Builders(p) : WorksOn(w, n)' <=> WorksOn(w, n)
      PROVE  W <=> V
  BY <1>3
<1>4. ASSUME NEW x \in Thread, \A w \in Thread \ {x} : WorksOn(w, n)' <=> WorksOn(w, n),
             x[1] = p => (WorksOn(x, n)' <=> WorksOn(x, n))
      PROVE  W <=> V
  BY <1>2, <1>4
<1>5. ASSUME NEW x \in Thread, NEW label, Moves(x, label), UNCHANGED <<m_st, local>>
      PROVE  \A w \in Thread \ {x} : WorksOn(w, n)' <=> WorksOn(w, n)
  BY <1>5, SameWork DEF Moves, local
<1>6. ASSUME NEW x \in Thread, Start(x)
      PROVE  W <=> V
  <2>1. CASE x = Comm(0)
    <3>1. Begins /\ Moves(x, "send") /\ UNCHANGED local /\ 0 \in Process
      BY <1>6, <2>1, StartEffect, HybridSOGAssumption DEF Process, Comm
    <3>2. p # 0
      BY <3>1 DEF Begins
    <3>3. \A w \in Builders(p) : m_st'[w] = m_st[w]
      BY <1>2, <3>1, <3>2 DEF Begins, PushesState
    <3>4. \A w \in Builders(p) : pc'[w] = pc[w]
      BY <1>2, <2>1, <3>1 DEF Moves
    <3>5. QED
      BY <1>3, <3>1, <3>3, <3>4, SameWork DEF local
  <2>2. CASE x # Comm(0)
    <3>1. pc[x] = "start" /\ Moves(x, IF x[2] = 0 THEN "send" ELSE "loop") /\ UNCHANGED <<m_st, local>>
      BY <1>6, <2>2, StartEffect DEF stacks
    <3>2. WorksOn(x, n)' <=> WorksOn(x, n)
      <4>1. Stacked(x, n)' <=> Stacked(x, n)
        BY <3>1, StackedElement
      <4>2. ~Holds(x, n) /\ ~Holds(x, n)'
        BY <3>1 DEF Holds, Moves
      <4>3. QED
        BY <4>1, <4>2 DEF WorksOn
    <3>3. QED
      BY <1>4, <1>5, <3>1, <3>2
  <2>3. QED
    BY <2>1, <2>2
<1>7. ASSUME NEW x \in Thread, BuilderCases(x)
      PROVE  (W <=> V) \/ (W /\ \E y \in Builders(p) : Drops(y, n))
  <2>1. CASE Walks(x)
    <3>1. /\ Moves(x, pc'[x]) /\ UNCHANGED <<m_st, local>>
          /\ pc[x] \in BuilderLabel \ {"start", "done", "link", "store"}
          /\ pc'[x] \in BuilderLabel \ {"start", "link", "store"}
          /\ pc'[x] \in Expanding => pc[x] \in Expanding
          /\ pc[x] \in Expanding /\ pc'[x] \notin Expanding => e[x].fire = {}
      BY <2>1 DEF Walks, Core, stacks
    <3>2. (Holds(x, n) <=> pc[x] \in Expanding /\ e[x].state = n)
          /\ (Holds(x, n)' <=> pc'[x] \in Expanding /\ e[x].state = n)
      BY <3>1 DEF Holds, Expanding, local
    <3>3. Stacked(x, n)' <=> Stacked(x, n)
      BY <3>1, StackedElement
    <3>4. CASE WorksOn(x, n)' <=> WorksOn(x, n)
      BY <1>4, <1>5, <3>1, <3>4
    <3>5. CASE ~(WorksOn(x, n)' <=> WorksOn(x, n)) /\ x[1] # p
      BY <1>4, <1>5, <3>1, <3>5
    <3>6. CASE ~(WorksOn(x, n)' <=> WorksOn(x, n)) /\ x[1] = p
      <4>1. x \in Builders(p)
        BY <3>1, <3>6, BuilderProperties
      <4>2. Drops(x, n) /\ WorksOn(x, n)
        BY <2>1, <3>1, <3>2, <3>3, <3>6 DEF WorksOn, Drops
      <4>3. QED
        BY <4>1, <4>2
    <3>7. QED
      BY <3>4, <3>5, <3>6
  <2>2. CASE Pop(x) /\ m_st[x] # <<>>
    <3>1. /\ pc[x] = "pop" /\ Moves(x, "fire") /\ TakesState(x, e'[x])
          /\ \A y \in Thread \ {x} : e'[y] = e[y]
          /\ UNCHANGED <<pos, fresh>>
      BY <2>2, PopEffect
    <3>2. \A w \in Thread \ {x} : WorksOn(w, n)' <=> WorksOn(w, n)
      BY <3>1, SameWork DEF Moves, TakesState
    <3>3. Stacked(x, n) <=> Stacked(x, n)' \/ e'[x].state = n
      BY <3>1, StackedElement DEF TakesState
    <3>4. ~Holds(x, n) /\ (Holds(x, n)' <=> e'[x].state = n)
      BY <3>1 DEF Holds, Moves
    <3>5. QED
      BY <1>4, <3>2, <3>3, <3>4 DEF WorksOn
  <2>3. CASE Fire(x) /\ e[x].fire # {}
    <3>1. PICK a : /\ pc[x] \in {"fire", "collect"} /\ Moves(x, "link") /\ FindsOrAdds(x, a)
                   /\ \A y \in Thread \ {x} : e'[y] = e[y]
                   /\ e'[x].state = e[x].state
                   /\ UNCHANGED m_st
      BY <2>3, FireEffect DEF stacks
    <3>2. \A w \in Thread \ {x} : WorksOn(w, n)' <=> WorksOn(w, n)
      BY <3>1, SameWork DEF Moves, FindsOrAdds
    <3>3. Stacked(x, n) <=> Stacked(x, n)'
      BY <3>1, StackedElement
    <3>4. x[1] = p => ~(fresh'[x] /\ pos'[x] = n)
      BY <3>1 DEF FindsOrAdds, AddsNode
    <3>5. x[1] = p => (Holds(x, n)' <=> Holds(x, n))
      BY <3>1, <3>4 DEF Holds, Moves
    <3>6. QED
      BY <1>4, <3>2, <3>3, <3>5 DEF WorksOn
  <2>4. CASE Link(x)
    <3>1. /\ pc[x] = "link" /\ Moves(x, "fire") /\ UNCHANGED local
          /\ \/ ~fresh[x] /\ UNCHANGED m_st
             \/ fresh[x] /\ \E y \in Builders(x[1]) : \E F : PushesState(y, pos[x], F)
             \/ fresh[x] /\ Virtual(x[1], pos[x]) /\ UNCHANGED m_st
      BY <2>4, LinkEffect DEF stacks
    <3>2. CASE fresh[x] /\ \E y \in Builders(x[1]) : \E F : PushesState(y, pos[x], F)
      <4>1. x \in Builders(x[1])
        BY <3>1, BuilderProperties DEF BuilderLabel
      <4>2. \A k : Holds(x, k) <=> k = pos[x] \/ ("fire" = "fire" /\ e[x].state = k)
        BY <3>1, <3>2 DEF Holds
      <4>3. QED
        BY <3>1, <3>2, <4>1, <4>2, PushedWork
    <3>3. CASE UNCHANGED m_st /\ (~fresh[x] \/ Virtual(x[1], pos[x]))
      <4>1. x[1] = p => ~(fresh[x] /\ pos[x] = n)
        BY <3>3
      <4>2. x[1] = p => (Holds(x, n)' <=> Holds(x, n))
        BY <3>1, <4>1 DEF Holds, Moves, local
      <4>3. Stacked(x, n) <=> Stacked(x, n)'
        BY <3>3, StackedElement
      <4>4. QED
        BY <1>4, <1>5, <3>1, <3>3, <4>2, <4>3 DEF WorksOn
    <3>4. QED
      BY <3>1, <3>2, <3>3
  <2>5. CASE Receive(x) /\ m_msg[x] # <<>>
    <3>1. PICK a : /\ pc[x] = "receive" /\ Moves(x, IF fresh'[x] THEN "store" ELSE Out(x))
                   /\ FindsOrAdds(x, a) /\ UNCHANGED <<e, m_st>>
      BY <2>5, ReceiveEffect
    <3>2. \A w \in Thread \ {x} : WorksOn(w, n)' <=> WorksOn(w, n)
      BY <3>1, SameWork DEF Moves, FindsOrAdds
    <3>3. Stacked(x, n) <=> Stacked(x, n)'
      BY <3>1, StackedElement
    <3>4. x[1] = p => ~(fresh'[x] /\ pos'[x] = n)
      BY <3>1 DEF FindsOrAdds, AddsNode
    <3>5. pc'[x] \in {"store", "leave", "idle"}
      BY <3>1 DEF Moves, Out
    <3>6. x[1] = p => ~Holds(x, n)' /\ ~Holds(x, n)
      BY <3>1, <3>4, <3>5 DEF Holds
    <3>7. QED
      BY <1>4, <3>2, <3>3, <3>6 DEF WorksOn
  <2>6. CASE Store(x)
    <3>1. /\ pc[x] = "store" /\ Moves(x, Out(x)) /\ fresh[x] /\ UNCHANGED local
          /\ \E y \in Builders(x[1]) : \E F : PushesState(y, pos[x], F)
      BY <2>6, StoreEffect
    <3>2. x \in Builders(x[1])
      BY <3>1, BuilderProperties DEF BuilderLabel
    <3>3. Out(x) \in {"leave", "idle"}
      BY DEF Out
    <3>4. \A k : Holds(x, k) <=> k = pos[x] \/ (Out(x) = "fire" /\ e[x].state = k)
      BY <3>1, <3>3 DEF Holds
    <3>5. QED
      BY <3>1, <3>2, <3>3, <3>4, PushedWork
  <2>7. QED
    BY <1>7, <2>1, <2>2, <2>3, <2>4, <2>5, <2>6 DEF BuilderCases
<1>8. ASSUME NEW r \in Process, CommCases(r)
      PROVE  W <=> V
  <2>1. UNCHANGED <<m_st, local>>
    BY <1>8, PopMessageEffect, SendStateEffect DEF CommCases, CommWalks, ReadsState, stacks
  <2>2. \A w \in Thread \ {Comm(r)} : pc'[w] = pc[w]
    BY <1>8, PopMessageEffect, SendStateEffect DEF CommCases, CommWalks, ReadsState, Moves
  <2>3. QED
    BY <1>2, <1>3, <2>1, <2>2, SameWork DEF local
<1>9. UNCHANGED <<Core, pc>> => (W <=> V)
  BY <1>3, SameWork DEF Core, stacks, local
<1>10. QED
  BY <1>1, <1>6, <1>7, <1>8, <1>9, StepCases

(* A node that appears is in the hands of the builder that inserted it.    *)
LEMMA NewIsWorkedOn ==
  ASSUME TypeInv, [Next]_vars, NEW p \in Process, NEW n \in DOMAIN m_graph'[p],
         n \notin NodesOf(p), ~Virtual(p, n)'
  PROVE  ~Finished(p, n)'
<1>1. TypeInv' /\ UNCHANGED destination /\ Builders(p)' = Builders(p)
  BY NextTyped, BuildersKept
<1>2. ~UNCHANGED m_graph
  BY DEF NodesOf
<1>3. ASSUME NEW x \in Thread, NEW a, FindsOrAdds(x, a)
      PROVE  x[1] = p /\ pos'[x] = n /\ fresh'[x]
  <2>1. AddsNode(x[1], pos'[x], a) /\ fresh'[x]
    BY <1>2, <1>3 DEF FindsOrAdds
  <2>2. QED
    BY <2>1 DEF AddsNode, NodesOf
<1>4. ASSUME NEW x \in Thread, Start(x)
      PROVE  ~Finished(p, n)'
  <2>1. Begins
    BY <1>2, <1>4, StartEffect
  <2>2. p = 0 /\ n = 1
    BY <2>1 DEF Begins, AddsNode, NodesOf
  <2>3. m_graph'[0][1].m_virtual <=> destination[InitialAggregate] # 0
    BY <2>1, AddedNode DEF Begins
  <2>4. PushesState(<<0, 1>>, 1, FirableObs[InitialAggregate])
    BY <2>1, <2>2, <2>3 DEF Begins, Virtual
  <2>5. PICK z : z = Pair(1, FirableObs[InitialAggregate])
    OBVIOUS
  <2>6. z.state = 1 /\ z \in Elements(m_st'[<<0, 1>>])
    <3>1. z.state = 1
      BY <2>5 DEF Pair
    <3>2. z \in Elements(m_st'[<<0, 1>>])
      BY <2>4, <2>5 DEF PushesState
    <3>3. QED
      BY <3>1, <3>2
  <2>7. Stacked(<<0, 1>>, n)'
    BY <2>2, <2>6, StackedElement
  <2>8. <<0, 1>> \in Builders(0)
    <3>1. m_nb_thread[0] \in 2 .. MaxThread /\ MaxThread \in Nat
      BY <2>2, HybridSOGAssumption DEF TypeInv, TypeOK
    <3>2. 1 \in 1 .. m_nb_thread[0] - 1
      BY <3>1
    <3>3. QED
      BY <3>2 DEF Builders
  <2>9. QED
    BY <1>1, <2>2, <2>7, <2>8, FinishedMeaning DEF WorksOn
<1>5. ASSUME NEW x \in Thread, x \in Builders(p), pos'[x] = n, fresh'[x],
             pc'[x] \in {"link", "store"}
      PROVE  ~Finished(p, n)'
  <2>1. WorksOn(x, n)'
    BY <1>5 DEF WorksOn, Holds
  <2>2. QED
    BY <1>1, <1>5, <2>1, FinishedMeaning
<1>6. ASSUME NEW x \in Thread, BuilderCases(x)
      PROVE  ~Finished(p, n)'
  <2>1. CASE Walks(x) \/ (Pop(x) /\ m_st[x] # <<>>) \/ Store(x)
    BY <1>2, <2>1, PopEffect, StoreEffect DEF Walks, Core
  <2>2. CASE Fire(x) /\ e[x].fire # {}
    <3>1. x[1] = p /\ pos'[x] = n /\ fresh'[x]
      BY <1>3, <2>2, FireEffect
    <3>2. pc'[x] = "link" /\ pc[x] \in {"fire", "collect"}
      BY <2>2, FireEffect DEF Moves
    <3>3. QED
      BY <1>5, <3>1, <3>2, BuilderProperties DEF BuilderLabel
  <2>3. CASE Link(x)
    <3>1. x[1] \in Process /\ AddsEdge(x[1], e[x].state, pos[x], t[x])
      BY <2>3, LinkEffect, ThreadProperties
    <3>2. QED
      BY <3>1 DEF AddsEdge, NodesOf
  <2>4. CASE Receive(x) /\ m_msg[x] # <<>>
    <3>1. PICK a : /\ pc[x] = "receive" /\ FindsOrAdds(x, a)
                   /\ Moves(x, IF fresh'[x] THEN "store" ELSE Out(x))
      BY <2>4, ReceiveEffect
    <3>2. x[1] = p /\ pos'[x] = n /\ fresh'[x]
      BY <1>3, <3>1
    <3>3. pc'[x] = "store"
      BY <3>1, <3>2 DEF Moves
    <3>4. QED
      BY <1>5, <3>1, <3>2, <3>3, BuilderProperties DEF BuilderLabel
  <2>5. QED
    BY <1>6, <2>1, <2>2, <2>3, <2>4 DEF BuilderCases
<1>7. ASSUME NEW r \in Process, CommCases(r)
      PROVE  FALSE
  BY <1>2, <1>7, PopMessageEffect, SendStateEffect DEF CommCases, CommWalks, ReadsState
<1>8. ~UNCHANGED <<Core, pc>>
  BY <1>2 DEF Core
<1>9. QED
  BY <1>4, <1>6, <1>7, <1>8, StepCases

-----------------------------------------------------------------------------
(* What is linked, in hand and to fire of a node makes its transitions.    *)

(* The transitions fired from a node only grow. *)
LEMMA FiredGrows ==
  ASSUME TypeInv, [Next]_vars, NEW p \in Process, NEW n \in NodesOf(p)
  PROVE  Fired(p, n) \subseteq Fired(p, n)'
<1>1. Links(m_graph[p][n]) \subseteq Links(m_graph'[p][n])
  <2>1. CASE UNCHANGED m_graph
    BY <2>1
  <2>2. ASSUME NEW q \in Process, NEW k, NEW m, NEW v, AddsEdge(q, k, m, v)
        PROVE  Links(m_graph[p][n]) \subseteq Links(m_graph'[p][n])
    BY <2>2 DEF AddsEdge
  <2>3. ASSUME NEW q \in Process, NEW k, NEW a \in Aggregate, AddsNode(q, k, a)
        PROVE  Links(m_graph[p][n]) \subseteq Links(m_graph'[p][n])
    BY <2>3 DEF AddsNode
  <2>4. QED
    BY <2>1, <2>2, <2>3, GraphCases
<1>2. QED
  BY <1>1 DEF Fired

(* A builder at work after a step has nothing else to its node. *)
LEMMA ExpandsAgain ==
  ASSUME TypeInv, GraphInv, WorkInv, [Next]_vars, NEW x \in Thread, pc'[x] \in Expanding
  PROVE  FirableObs[Agg(x[1], e[x].state)]' \subseteq
           (Fired(x[1], e[x].state) \cup InHand(x) \cup e[x].fire)'
<1> DEFINE Goal == FirableObs[Agg(x[1], e[x].state)]' \subseteq
                     (Fired(x[1], e[x].state) \cup InHand(x) \cup e[x].fire)'
<1>1. x[1] \in Process /\ TypeOK
  BY ThreadProperties DEF TypeInv
<1>2. ASSUME pc[x] \in Expanding, e'[x].state = e[x].state,
             InHand(x) \cup e[x].fire \subseteq Fired(x[1], e[x].state)' \cup InHand(x)' \cup e'[x].fire
      PROVE  Goal
  <2>1. PICK p, n : p = x[1] /\ n = e[x].state
    OBVIOUS
  <2>2. n \in NodesOf(p) /\ p \in Process
    BY <1>1, <1>2, <2>1 DEF TypeInv, ThreadOK
  <2>3. Fired(p, n) \cup InHand(x) \cup e[x].fire = FirableObs[Agg(p, n)]
    BY <1>2, <2>1 DEF WorkInv
  <2>4. Fired(p, n) \subseteq Fired(p, n)' /\ Agg(p, n)' = Agg(p, n)
    BY <2>2, FiredGrows, NextGrows DEF Grows, Agg
  <2>5. Fired(x[1], e[x].state)' = Fired(p, n)' /\ Agg(x[1], e[x].state)' = Agg(p, n)'
    BY <1>2, <2>1 DEF Fired, Agg
  <2>6. QED
    BY <1>2, <2>3, <2>4, <2>5
<1>3. ASSUME pc'[x] = pc[x], e'[x] = e[x], t'[x] = t[x]
      PROVE  Goal
  BY <1>2, <1>3 DEF InHand
<1>4. ASSUME NEW y \in Thread, y # x, Start(y) \/ BuilderCases(y)
      PROVE  Goal
  <2>1. pc'[x] = pc[x] /\ e'[x] = e[x] /\ t'[x] = t[x]
    BY <1>4, StartEffect, PopEffect, FireEffect, LinkEffect, ReceiveEffect, StoreEffect
       DEF BuilderCases, Walks, Core, local, Moves
  <2>2. QED
    BY <1>3, <2>1
<1>5. CASE Start(x)
  BY <1>5, StartEffect DEF Moves, Expanding
<1>6. CASE Walks(x)
  <2>1. /\ pc[x] \in Expanding /\ UNCHANGED e
        /\ pc[x] # "link" /\ pc'[x] # "link"
    BY <1>6 DEF Walks, Core, local
  <2>2. InHand(x) = {}
    BY <2>1 DEF InHand
  <2>3. QED
    BY <1>2, <2>1, <2>2
<1>7. CASE Pop(x) /\ m_st[x] # <<>>
  <2>1. TakesState(x, e'[x]) /\ UNCHANGED m_graph
    BY <1>7, PopEffect
  <2>2. PICK z : z = e'[x]
    OBVIOUS
  <2>3. PairOK(x[1], z)
    BY <2>1, <2>2 DEF TakesState, TypeInv, StacksOK
  <2>4. FirableObs[Agg(x[1], e[x].state)]' = e'[x].fire
    BY <2>1, <2>2, <2>3 DEF PairOK, Agg
  <2>5. QED
    BY <2>4
<1>8. CASE Fire(x) /\ e[x].fire # {}
  <2>1. /\ pc[x] \in {"fire", "collect"} /\ pc'[x] = "link"
        /\ e'[x].state = e[x].state /\ e'[x].fire = e[x].fire \ {t'[x]}
    BY <1>8, FireEffect DEF Moves
  <2>2. InHand(x) = {} /\ InHand(x)' = {t'[x]}
    BY <2>1 DEF InHand
  <2>3. QED
    BY <1>2, <2>1, <2>2 DEF Expanding
<1>9. CASE Link(x)
  <2>1. /\ pc[x] = "link" /\ UNCHANGED e
        /\ AddsEdge(x[1], e[x].state, pos[x], t[x])
    BY <1>9, LinkEffect DEF local
  <2>2. InHand(x) = {t[x]}
    BY <2>1 DEF InHand
  <2>3. t[x] \in Fired(x[1], e[x].state)'
    <3>1. PICK u : u = [to |-> pos[x], t |-> t[x]]
      OBVIOUS
    <3>2. u.t = t[x] /\ u \in Links(m_graph'[x[1]][e[x].state])
      BY <2>1, <3>1 DEF AddsEdge
    <3>3. QED
      BY <2>1, <3>2 DEF Fired
  <2>4. QED
    BY <1>2, <2>1, <2>2, <2>3 DEF Expanding
<1>10. CASE Receive(x) /\ m_msg[x] # <<>>
  BY <1>10, ReceiveEffect DEF Moves, Out, Expanding
<1>11. CASE Store(x)
  BY <1>11, StoreEffect DEF Moves, Out, Expanding
<1>12. ASSUME NEW r \in Process, CommCases(r)
       PROVE  Goal
  <2>1. UNCHANGED local
    BY <1>12, PopMessageEffect, SendStateEffect DEF CommCases, CommWalks, ReadsState
  <2>2. x # Comm(r) => pc'[x] = pc[x]
    BY <1>12, PopMessageEffect, SendStateEffect DEF CommCases, CommWalks, ReadsState, Moves
  <2>3. x # Comm(r)
    <3>1. TypeInv'
      BY NextTyped
    <3>2. x[2] # 0
      BY <3>1 DEF TypeInv, LabelsOK, CommLabel, Expanding
    <3>3. QED
      BY <3>2, CommProperties
  <2>4. QED
    BY <1>3, <2>1, <2>2, <2>3 DEF local
<1>13. UNCHANGED <<Core, pc>> => Goal
  BY <1>3 DEF Core, local
<1>14. QED
  BY <1>4, <1>5, <1>6, <1>7, <1>8, <1>9, <1>10, <1>11, <1>12, <1>13, StepCases DEF BuilderCases

LEMMA NextWork ==
  ASSUME TypeInv, GraphInv, WorkInv, [Next]_vars
  PROVE  WorkInv'
<1>1. TypeInv'
  BY NextTyped
<1>2. ASSUME NEW x \in Thread, pc'[x] \in Expanding
      PROVE  (Fired(x[1], e[x].state) \cup InHand(x) \cup e[x].fire)'
               = FirableObs[Agg(x[1], e[x].state)]'
  <2>1. PICK p, n : p = x[1] /\ n = e'[x].state
    OBVIOUS
  <2>2. p \in Process /\ n \in DOMAIN m_graph'[p]
        /\ e'[x].fire \subseteq FirableObs[m_graph'[p][n].m_lddstate]
        /\ (pc'[x] = "link" => t'[x] \in FirableObs[m_graph'[p][n].m_lddstate])
    BY <1>1, <1>2, <2>1, ThreadProperties DEF TypeInv, ThreadOK, NodesOf, Agg
  <2>3. {u.t : u \in Links(m_graph'[p][n])} \subseteq FirableObs[m_graph'[p][n].m_lddstate]
    BY <2>2, LinksKept
  <2>4. FirableObs[Agg(x[1], e[x].state)]' \subseteq
          (Fired(x[1], e[x].state) \cup InHand(x) \cup e[x].fire)'
    BY <1>2, ExpandsAgain
  <2>5. QED
    BY <2>1, <2>2, <2>3, <2>4 DEF Fired, InHand, Agg
<1>3. ASSUME NEW p \in Process, NEW n \in DOMAIN m_graph'[p], ~Virtual(p, n)', Finished(p, n)'
      PROVE  Fired(p, n)' = FirableObs[Agg(p, n)]'
  <2>1. n \in NodesOf(p)
    BY <1>3, NewIsWorkedOn
  <2>2. ~Virtual(p, n) /\ Agg(p, n)' = Agg(p, n)
    BY <1>3, <2>1, NextGrows DEF Grows, Virtual, Agg
  <2>3. Fired(p, n)' \subseteq FirableObs[Agg(p, n)]'
    BY <1>3, LinksKept DEF Agg, Fired
  <2>4. Fired(p, n) \subseteq Fired(p, n)'
    BY <2>1, FiredGrows
  <2>5. Fired(p, n) = FirableObs[Agg(p, n)]
    <3>1. CASE Finished(p, n)
      BY <2>1, <2>2, <3>1 DEF WorkInv
    <3>2. ASSUME NEW x \in Builders(p), Drops(x, n)
          PROVE  Fired(p, n) = FirableObs[Agg(p, n)]
      <4>1. x \in Thread /\ x[1] = p
        BY BuildersProperties DEF TypeInv
      <4>2. InHand(x) = {} /\ e[x].fire = {} /\ e[x].state = n /\ pc[x] \in Expanding
        BY <3>2 DEF Drops, InHand
      <4>3. QED
        BY <4>1, <4>2 DEF WorkInv
    <3>3. QED
      BY <1>3, <2>1, <2>2, <3>1, <3>2, FinishedStep
  <2>6. QED
    BY <2>2, <2>3, <2>4, <2>5
<1>4. QED
  BY <1>2, <1>3 DEF WorkInv, NodesOf

-----------------------------------------------------------------------------
(* The processes together build the SOG.                                   *)

Edges == UNION {EdgesOf(pn[1], pn[2]) : pn \in Nodes}
Closed == AggregatesOf({pn \in Nodes : ~m_graph[pn[1]][pn[2]].m_virtual
                                       /\ Finished(pn[1], pn[2])})

LEMMA NodesAre ==
  /\ \A pn \in Nodes : pn[1] \in Process /\ pn[2] \in NodesOf(pn[1])
  /\ \A p \in Process : \A n \in NodesOf(p) : \E pn \in Nodes : pn[1] = p /\ pn[2] = n
  /\ \A pn \in Nodes' : pn[1] \in Process /\ pn[2] \in DOMAIN m_graph'[pn[1]]
  /\ \A p \in Process : \A n \in DOMAIN m_graph'[p] : \E pn \in Nodes' : pn[1] = p /\ pn[2] = n
<1>1. \A pn : pn \in Nodes <=> \E p \in Process : \E n \in NodesOf(p) : pn = <<p, n>>
  BY DEF Nodes, NodesOf
<1>2. \A pn : pn \in Nodes' <=> \E p \in Process : \E n \in DOMAIN m_graph'[p] : pn = <<p, n>>
  BY DEF Nodes
<1>3. \A pn \in Nodes : pn[1] \in Process /\ pn[2] \in NodesOf(pn[1])
  BY <1>1
<1>4. \A pn \in Nodes' : pn[1] \in Process /\ pn[2] \in DOMAIN m_graph'[pn[1]]
  BY <1>2
<1>5. ASSUME NEW p \in Process, NEW n \in NodesOf(p)
      PROVE  \E pn \in Nodes : pn[1] = p /\ pn[2] = n
  <2>1. <<p, n>> \in Nodes
    BY <1>1
  <2>2. QED
    BY <2>1
<1>6. ASSUME NEW p \in Process, NEW n \in DOMAIN m_graph'[p]
      PROVE  \E pn \in Nodes' : pn[1] = p /\ pn[2] = n
  <2>1. <<p, n>> \in Nodes'
    BY <1>2
  <2>2. QED
    BY <2>1
<1>7. QED
  BY <1>3, <1>4, <1>5, <1>6

LEMMA EdgesAre ==
  \A d : d \in Edges <=>
    \E p \in Process : \E n \in NodesOf(p) : \E u \in Links(m_graph[p][n]) :
      d = <<Agg(p, n), u.t, Agg(p, u.to)>>
<1>1. \A p, n, d : d \in EdgesOf(p, n) <=>
        \E u \in Links(m_graph[p][n]) : d = <<Agg(p, n), u.t, Agg(p, u.to)>>
  BY DEF EdgesOf, Links, Agg
<1>2. \A d : d \in Edges <=> \E pn \in Nodes : d \in EdgesOf(pn[1], pn[2])
  BY DEF Edges
<1>3. \A d : d \in Edges <=> \E p \in Process : \E n \in NodesOf(p) : d \in EdgesOf(p, n)
  BY <1>2, NodesAre
<1>4. QED
  BY <1>1, <1>3

LEMMA NextEdgesAre ==
  \A d : d \in Edges' <=>
    \E p \in Process : \E n \in DOMAIN m_graph'[p] : \E u \in Links(m_graph'[p][n]) :
      d = <<m_graph'[p][n].m_lddstate, u.t, m_graph'[p][u.to].m_lddstate>>
<1>1. \A p, n, d : d \in EdgesOf(p, n)' <=>
        \E u \in Links(m_graph'[p][n]) :
          d = <<m_graph'[p][n].m_lddstate, u.t, m_graph'[p][u.to].m_lddstate>>
  BY DEF EdgesOf, Links
<1>2. \A d : d \in Edges' <=> \E pn \in Nodes' : d \in EdgesOf(pn[1], pn[2])'
  BY DEF Edges
<1>3. \A d : d \in Edges' <=> \E p \in Process : \E n \in DOMAIN m_graph'[p] : d \in EdgesOf(p, n)'
  BY <1>2, NodesAre
<1>4. QED
  BY <1>1, <1>3

LEMMA ClosedAre ==
  /\ \A a : a \in Closed <=>
       \E p \in Process : \E n \in NodesOf(p) :
         ~Virtual(p, n) /\ Finished(p, n) /\ a = Agg(p, n)
  /\ \A a : a \in Closed' <=>
       \E p \in Process : \E n \in DOMAIN m_graph'[p] :
         ~Virtual(p, n)' /\ Finished(p, n)' /\ a = m_graph'[p][n].m_lddstate
<1>1. \A a : a \in Closed <=>
        \E pn \in Nodes : ~Virtual(pn[1], pn[2]) /\ Finished(pn[1], pn[2])
                          /\ a = m_graph[pn[1]][pn[2]].m_lddstate
  BY DEF Closed, AggregatesOf, Virtual
<1>2. \A a : a \in Closed' <=>
        \E pn \in Nodes' : ~Virtual(pn[1], pn[2])' /\ Finished(pn[1], pn[2])'
                           /\ a = m_graph'[pn[1]][pn[2]].m_lddstate
  BY DEF Closed, AggregatesOf, Virtual
<1>3. QED
  BY <1>1, <1>2, NodesAre DEF Agg

(* The edges after a step. *)
LEMMA NoNewEdge ==
  ASSUME TypeInv, GraphInv, [Next]_vars,
         \/ UNCHANGED m_graph
         \/ \E q \in Process : \E k : \E a \in Aggregate : AddsNode(q, k, a)
  PROVE  Edges' = Edges
<1>1. \A p \in Process : \A n \in NodesOf(p) :
        n \in DOMAIN m_graph'[p] /\ m_graph'[p][n].m_lddstate = Agg(p, n)
  BY NextGrows DEF Grows
<1>2. ASSUME NEW p \in Process, NEW n \in NodesOf(p)
      PROVE  Links(m_graph'[p][n]) = Links(m_graph[p][n])
  BY DEF AddsNode
<1>3. ASSUME NEW p \in Process, NEW n \in DOMAIN m_graph'[p], NEW u \in Links(m_graph'[p][n])
      PROVE  n \in NodesOf(p)
  <2>1. CASE UNCHANGED m_graph
    BY <2>1 DEF NodesOf
  <2>2. ASSUME NEW q \in Process, NEW k, NEW a, AddsNode(q, k, a)
        PROVE  n \in NodesOf(p)
    <3>1. p = q /\ n = k => Links(m_graph'[p][n]) = {}
      BY <2>2, AddedNode
    <3>2. ~(p = q /\ n = k) => n \in NodesOf(p)
      BY <2>2 DEF AddsNode, NodesOf
    <3>3. QED
      BY <3>1, <3>2
  <2>3. QED
    BY <2>1, <2>2
<1>4. \A p \in Process : \A n \in NodesOf(p) : \A u \in Links(m_graph[p][n]) : u.to \in NodesOf(p)
  BY DEF GraphInv
<1>5. ASSUME NEW d
      PROVE  d \in Edges <=> d \in Edges'
  <2>1. ASSUME d \in Edges
        PROVE  d \in Edges'
    <3>1. PICK p, n, u :
            /\ p \in Process /\ n \in NodesOf(p) /\ u \in Links(m_graph[p][n])
            /\ d = <<Agg(p, n), u.t, Agg(p, u.to)>>
      BY <2>1, EdgesAre
    <3>2. /\ n \in DOMAIN m_graph'[p] /\ u \in Links(m_graph'[p][n])
          /\ d = <<m_graph'[p][n].m_lddstate, u.t, m_graph'[p][u.to].m_lddstate>>
      BY <1>1, <1>2, <1>4, <3>1
    <3>3. QED
      BY <3>1, <3>2, NextEdgesAre
  <2>2. ASSUME d \in Edges'
        PROVE  d \in Edges
    <3>1. PICK p, n, u :
            /\ p \in Process /\ n \in DOMAIN m_graph'[p] /\ u \in Links(m_graph'[p][n])
            /\ d = <<m_graph'[p][n].m_lddstate, u.t, m_graph'[p][u.to].m_lddstate>>
      BY <2>2, NextEdgesAre
    <3>2. /\ n \in NodesOf(p) /\ u \in Links(m_graph[p][n])
          /\ d = <<Agg(p, n), u.t, Agg(p, u.to)>>
      BY <1>1, <1>2, <1>3, <1>4, <3>1
    <3>3. QED
      BY <3>1, <3>2, EdgesAre
  <2>3. QED
    BY <2>1, <2>2
<1>6. QED
  BY <1>5

LEMMA OneMoreEdge ==
  ASSUME TypeInv, GraphInv, [Next]_vars, NEW q \in Process, NEW k \in NodesOf(q),
         NEW m \in NodesOf(q), NEW v, AddsEdge(q, k, m, v)
  PROVE  Edges' = Edges \cup {<<Agg(q, k), v, Agg(q, m)>>}
<1> DEFINE new == <<Agg(q, k), v, Agg(q, m)>>
<1>1. \A p \in Process : /\ DOMAIN m_graph'[p] = NodesOf(p)
                         /\ \A n \in NodesOf(p) : m_graph'[p][n].m_lddstate = Agg(p, n)
  BY DEF AddsEdge, NodesOf, Agg
<1>2. \A p \in Process : \A n \in NodesOf(p) :
        ~(p = q /\ n = k) => Links(m_graph'[p][n]) = Links(m_graph[p][n])
  BY DEF AddsEdge
<1>3. PICK w : w = [to |-> m, t |-> v]
  OBVIOUS
<1>4. w.to = m /\ w.t = v /\ Links(m_graph'[q][k]) = Links(m_graph[q][k]) \cup {w}
  BY <1>3 DEF AddsEdge
<1>5. \A p \in Process : \A n \in NodesOf(p) : \A u \in Links(m_graph[p][n]) : u.to \in NodesOf(p)
  BY DEF GraphInv
<1>6. ASSUME NEW d \in Edges
      PROVE  d \in Edges'
  <2>1. PICK p, n, u :
          /\ p \in Process /\ n \in NodesOf(p) /\ u \in Links(m_graph[p][n])
          /\ d = <<Agg(p, n), u.t, Agg(p, u.to)>>
    BY EdgesAre
  <2>2. /\ n \in DOMAIN m_graph'[p] /\ u \in Links(m_graph'[p][n])
        /\ d = <<m_graph'[p][n].m_lddstate, u.t, m_graph'[p][u.to].m_lddstate>>
    BY <1>1, <1>2, <1>4, <1>5, <2>1
  <2>3. QED
    BY <2>1, <2>2, NextEdgesAre
<1>7. new \in Edges'
  <2>1. /\ k \in DOMAIN m_graph'[q] /\ w \in Links(m_graph'[q][k])
        /\ new = <<m_graph'[q][k].m_lddstate, w.t, m_graph'[q][w.to].m_lddstate>>
    BY <1>1, <1>4
  <2>2. QED
    BY <2>1, NextEdgesAre
<1>8. ASSUME NEW d \in Edges', d # new
      PROVE  d \in Edges
  <2>1. PICK p, n, u :
          /\ p \in Process /\ n \in DOMAIN m_graph'[p] /\ u \in Links(m_graph'[p][n])
          /\ d = <<m_graph'[p][n].m_lddstate, u.t, m_graph'[p][u.to].m_lddstate>>
    BY NextEdgesAre
  <2>2. p \in Process /\ n \in NodesOf(p)
    BY <1>1, <2>1
  <2>3. u \in Links(m_graph[p][n])
    <3>1. CASE p = q /\ n = k
      <4>1. u # w
        BY <1>1, <1>4, <1>8, <2>1, <3>1
      <4>2. QED
        BY <1>4, <2>1, <3>1, <4>1
    <3>2. CASE ~(p = q /\ n = k)
      BY <1>2, <2>1, <2>2, <3>2
    <3>3. QED
      BY <3>1, <3>2
  <2>4. d = <<Agg(p, n), u.t, Agg(p, u.to)>>
    BY <1>1, <1>5, <2>1, <2>2, <2>3
  <2>5. QED
    BY <2>2, <2>3, <2>4, EdgesAre
<1> HIDE DEF new
<1>9. Edges' = Edges \cup {new}
  BY <1>6, <1>7, <1>8
<1>10. QED
  BY <1>9 DEF new

(* The aggregates that are complete after a step. *)
LEMMA ClosedStep ==
  ASSUME TypeInv, [Next]_vars
  PROVE  \/ Closed' = Closed
         \/ \E x \in Thread :
              /\ Drops(x, e[x].state) /\ x \in Builders(x[1])
              /\ Closed' = Closed \cup {Agg(x[1], e[x].state)}
<1>1. \A p \in Process : \A n \in NodesOf(p) :
        n \in DOMAIN m_graph'[p] /\ m_graph'[p][n].m_lddstate = Agg(p, n)
        /\ (Virtual(p, n)' <=> Virtual(p, n))
  BY NextGrows DEF Grows, Virtual
<1>2. \A p \in Process : \A n \in DOMAIN m_graph'[p] :
        ~Virtual(p, n)' /\ Finished(p, n)' => n \in NodesOf(p)
  BY NewIsWorkedOn
<1>3. \A a : a \in Closed' <=>
        \E p \in Process : \E n \in NodesOf(p) :
          ~Virtual(p, n) /\ Finished(p, n)' /\ a = Agg(p, n)
  BY <1>1, <1>2, ClosedAre
<1>4. \A p \in Process : \A n \in NodesOf(p) :
        ~Virtual(p, n) /\ ~(Finished(p, n)' <=> Finished(p, n))
          => ~Finished(p, n) /\ \E x \in Builders(p) : Drops(x, n)
  BY FinishedStep
<1>5. CASE \A p \in Process : \A n \in NodesOf(p) :
             ~Virtual(p, n) => (Finished(p, n)' <=> Finished(p, n))
  <2>1. \A a : a \in Closed' <=> a \in Closed
    BY <1>3, <1>5, ClosedAre
  <2>2. QED
    BY <2>1
<1>6. ASSUME NEW p \in Process, NEW n \in NodesOf(p), ~Virtual(p, n),
             ~(Finished(p, n)' <=> Finished(p, n))
      PROVE  \E x \in Thread :
               /\ Drops(x, e[x].state) /\ x \in Builders(x[1])
               /\ Closed' = Closed \cup {Agg(x[1], e[x].state)}
  <2>1. ~Finished(p, n) /\ Finished(p, n)'
    BY <1>4, <1>6
  <2>2. PICK x \in Builders(p) : Drops(x, n)
    BY <1>4, <1>6
  <2>3. x \in Thread /\ x[1] = p /\ n = e[x].state
    BY <2>2, BuildersProperties DEF TypeInv, Drops
  <2>4. ASSUME NEW q \in Process, NEW m \in NodesOf(q), ~Virtual(q, m), ~(q = p /\ m = n)
        PROVE  Finished(q, m)' <=> Finished(q, m)
    <3>1. SUFFICES ASSUME NEW y \in Builders(q), Drops(y, m) PROVE FALSE
      BY <1>4, <2>4
    <3>2. y \in Thread /\ y[1] = q /\ m = e[y].state
      BY <3>1, BuildersProperties DEF TypeInv, Drops
    <3>3. y # x
      BY <2>3, <2>4, <3>2
    <3>4. pc'[y] = pc[y]
      BY <2>2, <3>2, <3>3 DEF Drops, Walks, Moves
    <3>5. QED
      BY <3>1, <3>4 DEF Drops
  <2>5. \A a : a \in Closed' <=> a \in Closed \/ a = Agg(p, n)
    <3>1. ASSUME NEW a \in Closed'
          PROVE  a \in Closed \/ a = Agg(p, n)
      <4>1. PICK q \in Process : \E m \in NodesOf(q) :
              ~Virtual(q, m) /\ Finished(q, m)' /\ a = Agg(q, m)
        BY <1>3
      <4>2. PICK m \in NodesOf(q) : ~Virtual(q, m) /\ Finished(q, m)' /\ a = Agg(q, m)
        BY <4>1
      <4>3. QED
        BY <2>4, <4>2, ClosedAre
    <3>2. ASSUME NEW a \in Closed
          PROVE  a \in Closed'
      <4>1. PICK q \in Process : \E m \in NodesOf(q) :
              ~Virtual(q, m) /\ Finished(q, m) /\ a = Agg(q, m)
        BY ClosedAre
      <4>2. PICK m \in NodesOf(q) : ~Virtual(q, m) /\ Finished(q, m) /\ a = Agg(q, m)
        BY <4>1
      <4>3. Finished(q, m)'
        BY <2>1, <2>4, <4>2
      <4>4. QED
        BY <1>3, <4>2, <4>3
    <3>3. Agg(p, n) \in Closed'
      BY <1>3, <1>6, <2>1
    <3>4. QED
      BY <3>1, <3>2, <3>3
  <2>6. Closed' = Closed \cup {Agg(p, n)}
    BY <2>5
  <2>7. QED
    BY <2>2, <2>3, <2>6
<1>7. QED
  BY <1>5, <1>6

(* The aggregate of the node a builder expands is not complete: no other   *)
(* node to expand has it, in this process or in another one.               *)
LEMMA ExpandedIsOpen ==
  ASSUME TypeInv, OnceInv, NEW x \in Thread, pc[x] \in Expanding
  PROVE  /\ Agg(x[1], e[x].state) \in Known \ Closed
         /\ Agg(x[1], e[x].state) \in Aggregate
<1>1. PICK p, n, a : p = x[1] /\ n = e[x].state /\ a = Agg(p, n)
  OBVIOUS
<1>2. /\ x \in Builders(p) /\ p \in Process /\ TypeOK
      /\ n \in NodesOf(p) /\ ~Virtual(p, n)
  BY <1>1, BuilderProperties DEF TypeInv, ThreadOK, Expanding, BuilderLabel
<1>3. a \in Known /\ a \in Aggregate
  BY <1>1, <1>2, KnownAre, NodesDomain
<1>4. ASSUME NEW q \in Process, NEW m \in NodesOf(q), ~Virtual(q, m), Finished(q, m), a = Agg(q, m)
      PROVE  FALSE
  <2>1. q = p
    BY <1>1, <1>2, <1>4 DEF TypeInv, NodesOK
  <2>2. m = n
    BY <1>1, <1>2, <1>4, <2>1 DEF OnceInv, Dangling, Virtual
  <2>3. WorksOn(x, n)
    BY <1>1 DEF WorksOn, Holds, Expanding
  <2>4. QED
    BY <1>2, <1>4, <2>1, <2>2, <2>3, FinishedMeaning
<1>5. a \notin Closed
  BY <1>4, ClosedAre
<1>6. QED
  BY <1>1, <1>3, <1>5

LEMMA PromiseMapping ==
  /\ Known = AggregatesOf(Nodes) /\ Known' = AggregatesOf(Nodes)'
  /\ Edges = UNION {EdgesOf(pn[1], pn[2]) : pn \in Nodes}
  /\ Edges' = (UNION {EdgesOf(pn[1], pn[2]) : pn \in Nodes})'
  /\ Closed = AggregatesOf({pn \in Nodes : ~m_graph[pn[1]][pn[2]].m_virtual
                                           /\ Finished(pn[1], pn[2])})
  /\ Closed' = AggregatesOf({pn \in Nodes : ~m_graph[pn[1]][pn[2]].m_virtual
                                            /\ Finished(pn[1], pn[2])})'
BY DEF Known, Edges, Closed

LEMMA FiresEdge ==
  ASSUME NEW a \in Aggregate, NEW u \in FirableObs[a]
  PROVE  <<a, u, Successor[<<a, u>>]>> \in Promise!Edge
<1>1. <<a, u>> \in Arc
  BY FirableProperties DEF Arc
<1>2. <<a, u, Successor[<<a, u>>]>> \in Edge
  BY <1>1 DEF Edge
<1>3. QED
  BY <1>2 DEF Promise!Edge, Edge, Promise!Arc, Arc

LEMMA KeepsPromise ==
  ASSUME Known' = Known, Edges' = Edges, Closed' = Closed
  PROVE  UNCHANGED Promise!vars
BY PromiseMapping DEF Promise!vars

LEMMA AddedKnown ==
  ASSUME TypeInv, NEW p \in Process, NEW n, NEW a, AddsNode(p, n, a)
  PROVE  Known' = Known \cup {a}
<1>1. m_graph'[p][n].m_lddstate = a /\ n \in DOMAIN m_graph'[p]
  <2>1. m_graph'[p][n].m_lddstate = a
    BY AddedNode
  <2>2. n \in DOMAIN m_graph'[p]
    BY DEF AddsNode
  <2>3. QED
    BY <2>1, <2>2
<1>2. ASSUME NEW q \in Process, NEW k \in NodesOf(q)
      PROVE  k \in DOMAIN m_graph'[q] /\ m_graph'[q][k].m_lddstate = Agg(q, k)
  BY DEF AddsNode, NodesOf, Agg
<1>3. ASSUME NEW q \in Process, NEW k \in DOMAIN m_graph'[q], ~(q = p /\ k = n)
      PROVE  k \in NodesOf(q)
  BY <1>3 DEF AddsNode, NodesOf
<1>4. \A b : b \in Known' <=> b \in Known \/ b = a
  <2>1. ASSUME NEW b \in Known'
        PROVE  b \in Known \/ b = a
    <3>1. PICK q \in Process : \E k \in DOMAIN m_graph'[q] : b = m_graph'[q][k].m_lddstate
      BY KnownAre
    <3>2. PICK k \in DOMAIN m_graph'[q] : b = m_graph'[q][k].m_lddstate
      BY <3>1
    <3>3. QED
      BY <1>1, <1>2, <1>3, <3>2, KnownAre
  <2>2. ASSUME NEW b \in Known
        PROVE  b \in Known'
    <3>1. PICK q \in Process : \E k \in NodesOf(q) : b = Agg(q, k)
      BY KnownAre
    <3>2. PICK k \in NodesOf(q) : b = Agg(q, k)
      BY <3>1
    <3>3. QED
      BY <1>2, <3>2, KnownAre
  <2>3. QED
    BY <1>1, <2>1, <2>2, KnownAre
<1>5. QED
  BY <1>4

(* A builder inserts the target of a transition of the node it expands. *)
LEMMA FirePromise ==
  ASSUME TypeInv, OnceInv, GraphInv, [Next]_vars, NEW x \in Thread, Fire(x), e[x].fire # {},
         Closed' = Closed
  PROVE  [Promise!Next]_(Promise!vars)
<1>1. PICK p, b, u, a : p = x[1] /\ b = Agg(p, e[x].state) /\ u = t'[x] /\ a = Successor[<<b, u>>]
  OBVIOUS
<1>2. /\ pc[x] \in Expanding /\ u \in FirableObs[b] /\ FindsOrAdds(x, a) /\ p \in Process
      /\ e[x].state \in NodesOf(p)
  BY <1>1, FireEffect, ThreadProperties DEF Expanding
<1>3. b \in Known \ Closed /\ b \in Aggregate
  BY <1>1, <1>2, ExpandedIsOpen
<1>4. a \in Aggregate
  BY <1>1, <1>2, <1>3, FirableProperties
<1>5. Edges' = Edges
  BY <1>1, <1>2, <1>4, NoNewEdge DEF FindsOrAdds
<1>6. CASE UNCHANGED m_graph
  <2>1. Known' = Known
    BY <1>6 DEF Known, AggregatesOf, Nodes
  <2>2. QED
    BY <1>5, <2>1, KeepsPromise
<1>7. ASSUME NEW n, AddsNode(p, n, a)
      PROVE  [Promise!Next]_(Promise!vars)
  <2>1. Known' = Known \cup {a}
    BY <1>2, <1>7, AddedKnown
  <2>2. CASE a \in Known
    BY <1>5, <2>1, <2>2, KeepsPromise
  <2>3. CASE a \notin Known
    <3>1. PICK new : new = <<b, u, a>>
      OBVIOUS
    <3>2. new \in Promise!Edge /\ new[1] = b /\ new[3] = a
      BY <1>1, <1>2, <1>3, <3>1, FiresEdge
    <3>3. Promise!Discover(new)
      BY <1>3, <1>5, <2>1, <2>3, <3>2, PromiseMapping DEF Promise!Discover
    <3>4. QED
      BY <3>2, <3>3 DEF Promise!Next
  <2>4. QED
    BY <2>2, <2>3
<1>8. QED
  BY <1>1, <1>2, <1>6, <1>7 DEF FindsOrAdds

(* ... and links it. *)
LEMMA LinkPromise ==
  ASSUME TypeInv, OnceInv, GraphInv, [Next]_vars, NEW x \in Thread, Link(x), Closed' = Closed
  PROVE  [Promise!Next]_(Promise!vars)
<1>1. PICK p, n, b, u, a : p = x[1] /\ n = e[x].state /\ b = Agg(p, n) /\ u = t[x]
                           /\ a = Agg(p, pos[x])
  OBVIOUS
<1>2. /\ pc[x] \in Expanding /\ p \in Process /\ n \in NodesOf(p) /\ pos[x] \in NodesOf(p)
      /\ u \in FirableObs[b] /\ AddsEdge(p, n, pos[x], u)
  BY <1>1, LinkEffect, ThreadProperties DEF Expanding
<1>3. b \in Known \ Closed /\ b \in Aggregate
  BY <1>1, <1>2, ExpandedIsOpen
<1>4. a = Successor[<<b, u>>] /\ a \in Known
  <2>1. a = Successor[<<b, u>>]
    BY <1>1, LinkEffect DEF TypeInv, ThreadOK
  <2>2. a \in Known
    BY <1>1, <1>2, KnownAre
  <2>3. QED
    BY <2>1, <2>2
<1>5. Known' = Known
  <2>1. \A q \in Process : DOMAIN m_graph'[q] = NodesOf(q)
                           /\ \A k \in NodesOf(q) : m_graph'[q][k].m_lddstate = Agg(q, k)
    BY <1>2 DEF AddsEdge, NodesOf, Agg
  <2>2. \A c : c \in Known' <=> c \in Known
    BY <2>1, KnownAre
  <2>3. QED
    BY <2>2
<1>6. PICK d : d = <<b, u, a>>
  OBVIOUS
<1>7. d \in Promise!Edge /\ d[1] = b /\ d[3] = a
  BY <1>2, <1>3, <1>4, <1>6, FiresEdge
<1>8. Edges' = Edges \cup {d}
  BY <1>1, <1>2, <1>6, OneMoreEdge
<1>9. CASE d \in Edges
  BY <1>5, <1>8, <1>9, KeepsPromise
<1>10. CASE d \notin Edges
  <2>1. Promise!Link(d)
    BY <1>3, <1>4, <1>5, <1>7, <1>8, <1>10, PromiseMapping DEF Promise!Link
  <2>2. QED
    BY <1>7, <2>1 DEF Promise!Next
<1>11. QED
  BY <1>9, <1>10

(* What a message announces is already part of what is promised. *)
LEMMA ReceivePromise ==
  ASSUME TypeInv, GraphInv, [Next]_vars, NEW x \in Thread, Receive(x), m_msg[x] # <<>>,
         Closed' = Closed
  PROVE  [Promise!Next]_(Promise!vars)
<1>1. PICK a \in Aggregate : TakesMessage(x, a) /\ FindsOrAdds(x, a)
  BY ReceiveEffect
<1>2. a \in Known /\ x[1] \in Process
  BY <1>1, ThreadProperties DEF TakesMessage, GraphInv
<1>3. Known' = Known
  <2>1. CASE UNCHANGED m_graph
    BY <2>1 DEF Known, AggregatesOf, Nodes
  <2>2. ASSUME NEW n, AddsNode(x[1], n, a)
        PROVE  Known' = Known
    BY <1>2, <2>2, AddedKnown
  <2>3. QED
    BY <1>1, <2>1, <2>2 DEF FindsOrAdds
<1>4. Edges' = Edges
  BY <1>1, <1>2, NoNewEdge DEF FindsOrAdds
<1>5. QED
  BY <1>3, <1>4, KeepsPromise

LEMMA SamePromise ==
  ASSUME TypeInv, GraphInv, [Next]_vars, UNCHANGED m_graph, Closed' = Closed
  PROVE  UNCHANGED Promise!vars
<1>1. Known' = Known
  BY DEF Known, AggregatesOf, Nodes
<1>2. Edges' = Edges
  BY NoNewEdge
<1>3. QED
  BY <1>1, <1>2, KeepsPromise

(* Process 0 inserts the initial aggregate in a graph that is empty. *)
LEMMA StartPromise ==
  ASSUME TypeInv, GraphInv, [Next]_vars, NEW x \in Thread, Start(x), Closed' = Closed
  PROVE  [Promise!Next]_(Promise!vars)
<1>1. CASE x # Comm(0)
  BY <1>1, StartEffect, SamePromise
<1>2. CASE x = Comm(0)
  <2>1. Begins /\ pc[Comm(0)] = "start" /\ 0 \in Process /\ InitialAggregate \in Aggregate
    BY <1>2, StartEffect, SOGAssumption, HybridSOGAssumption DEF Process
  <2>2. AddsNode(0, 1, InitialAggregate)
    BY <2>1 DEF Begins
  <2>3. Known = {}
    BY <2>1, KnownAre DEF GraphInv
  <2>4. Known' = {InitialAggregate}
    BY <2>1, <2>2, <2>3, AddedKnown
  <2>5. Edges' = Edges
    BY <2>1, <2>2, NoNewEdge
  <2>6. Promise!Start
    BY <2>3, <2>4, <2>5, PromiseMapping DEF Promise!Start
  <2>7. QED
    BY <2>6 DEF Promise!Next
<1>3. QED
  BY <1>1, <1>2

(* A builder that drops its node has linked all its transitions. *)
LEMMA DropPromise ==
  ASSUME TypeInv, OnceInv, GraphInv, WorkInv, [Next]_vars, NEW x \in Thread,
         Drops(x, e[x].state), Closed' = Closed \cup {Agg(x[1], e[x].state)}
  PROVE  [Promise!Next]_(Promise!vars)
<1>1. PICK p, n, b : p = x[1] /\ n = e[x].state /\ b = Agg(p, n)
  OBVIOUS
<1>2. /\ pc[x] \in Expanding /\ pc[x] # "link" /\ e[x].fire = {} /\ UNCHANGED m_graph
  BY DEF Drops, Walks, Core
<1>3. b \in Known \ Closed /\ b \in Aggregate
  BY <1>1, <1>2, ExpandedIsOpen
<1>4. p \in Process /\ n \in NodesOf(p)
  BY <1>1, <1>2, ThreadProperties DEF TypeInv, ThreadOK
<1>5. Fired(p, n) = FirableObs[b]
  BY <1>1, <1>2 DEF WorkInv, InHand
<1>6. ASSUME NEW d \in Promise!EdgesFrom(b)
      PROVE  d \in Edges
  <2>1. d \in Promise!Edge /\ d[1] = b
    BY DEF Promise!EdgesFrom
  <2>2. PICK y \in Arc : d = <<y[1], y[2], Successor[y]>>
    BY <2>1 DEF Promise!Edge, Edge, Promise!Arc, Arc
  <2>3. y \in Aggregate \X Transition /\ y[1] = b /\ y[2] \in FirableObs[b] /\ y = <<b, y[2]>>
    BY <2>1, <2>2 DEF Arc
  <2>4. PICK u \in Links(m_graph[p][n]) : u.t = y[2]
    BY <1>5, <2>3 DEF Fired
  <2>5. Agg(p, u.to) = Successor[<<b, u.t>>]
    BY <1>1, <1>4, <2>4 DEF GraphInv
  <2>6. d = <<Agg(p, n), u.t, Agg(p, u.to)>>
    BY <1>1, <2>2, <2>3, <2>4, <2>5
  <2>7. QED
    BY <1>4, <2>4, <2>6, EdgesAre
<1>7. Known' = Known /\ Edges' = Edges
  <2>1. Known' = Known
    BY <1>2 DEF Known, AggregatesOf, Nodes
  <2>2. Edges' = Edges
    BY <1>2, NoNewEdge
  <2>3. QED
    BY <2>1, <2>2
<1>8. Promise!Finalize(b)
  <2>1. Promise!EdgesFrom(b) \subseteq Edges
    BY <1>6
  <2>2. QED
    BY <1>1, <1>3, <1>7, <2>1, PromiseMapping DEF Promise!Finalize
<1>9. QED
  BY <1>3, <1>8 DEF Promise!Next

LEMMA PromiseStep ==
  ASSUME TypeInv, OnceInv, GraphInv, WorkInv, [Next]_vars
  PROVE  [Promise!Next]_(Promise!vars)
<1>1. CASE Closed' = Closed
  <2>1. ASSUME NEW x \in Thread, BuilderCases(x)
        PROVE  [Promise!Next]_(Promise!vars)
    <3>1. CASE Walks(x) \/ (Pop(x) /\ m_st[x] # <<>>) \/ Store(x)
      <4>1. UNCHANGED m_graph
        BY <3>1, PopEffect, StoreEffect DEF Walks, Core
      <4>2. QED
        BY <1>1, <4>1, SamePromise
    <3>2. CASE Fire(x) /\ e[x].fire # {}
      BY <1>1, <3>2, FirePromise
    <3>3. CASE Link(x)
      BY <1>1, <3>3, LinkPromise
    <3>4. CASE Receive(x) /\ m_msg[x] # <<>>
      BY <1>1, <3>4, ReceivePromise
    <3>5. QED
      BY <2>1, <3>1, <3>2, <3>3, <3>4 DEF BuilderCases
  <2>2. ASSUME NEW p \in Process, CommCases(p)
        PROVE  UNCHANGED m_graph
    BY <2>2, PopMessageEffect, SendStateEffect DEF CommCases, CommWalks, ReadsState
  <2>3. UNCHANGED <<Core, pc>> => UNCHANGED m_graph
    BY DEF Core
  <2>4. QED
    BY <1>1, <2>1, <2>2, <2>3, StartPromise, SamePromise, StepCases
<1>2. ASSUME NEW x \in Thread, Drops(x, e[x].state),
             Closed' = Closed \cup {Agg(x[1], e[x].state)}
      PROVE  [Promise!Next]_(Promise!vars)
  BY <1>2, DropPromise
<1>3. QED
  BY <1>1, <1>2, ClosedStep

LEMMA PromiseInit == Init => Promise!Init
<1> SUFFICES ASSUME Init PROVE Promise!Init
  OBVIOUS
<1>1. \A p \in Process : NodesOf(p) = {}
  BY DEF Init, NodesOf
<1>2. Known = {} /\ Edges = {} /\ Closed = {}
  BY <1>1, KnownAre, EdgesAre, ClosedAre
<1>3. QED
  BY <1>2, PromiseMapping DEF Promise!Init

LEMMA InitGraph ==
  ASSUME Init
  PROVE  GraphInv
<1>1. \A p \in Process : NodesOf(p) = {} /\ s[p] = {}
  BY DEF Init, NodesOf
<1>2. \A x \in Thread : Msgs(x) = {}
  BY DEF Init, Msgs, Elements
<1>3. \A p, q \in Process : Travel(p, q) = {}
  BY DEF Init, Travel, StatesIn, Elements
<1>4. QED
  BY <1>1, <1>2, <1>3 DEF GraphInv

LEMMA InitWork ==
  ASSUME Init
  PROVE  WorkInv
<1>1. \A p \in Process : NodesOf(p) = {}
  BY DEF Init, NodesOf
<1>2. \A x \in Thread : pc[x] \notin Expanding
  BY DEF Init, Expanding
<1>3. QED
  BY <1>1, <1>2 DEF WorkInv

(* However the aggregates are shared out between the processes, and their  *)
(* messages delayed, the processes together build the SOG and nothing      *)
(* else: an aggregate only appears as the target of an edge of one that is *)
(* not complete yet, and the one process that expands an aggregate has     *)
(* given it all its edges when no builder works on it any more.            *)
THEOREM DistributionRefinesSOG == Spec => ImplementsSOGOnTheFly
<1>1. Init => OnceInv /\ GraphInv /\ WorkInv
  BY InitOnce, InitGraph, InitWork
<1>2. TypeInv /\ OnceInv /\ GraphInv /\ WorkInv /\ [Next]_vars => OnceInv' /\ GraphInv' /\ WorkInv'
  BY NextOnce, NextGraph, NextWork
<1>3. TypeInv /\ OnceInv /\ GraphInv /\ WorkInv /\ [Next]_vars
        => [Promise!Next]_(Promise!vars)
  BY PromiseStep
<1>4. QED
  BY <1>1, <1>2, <1>3, PromiseInit, TypeCorrect,
     PTL DEF Spec, ImplementsSOGOnTheFly, Promise!Spec
=============================================================================
