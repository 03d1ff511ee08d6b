------------------------- MODULE MCHybridSOGProofs -------------------------
(***************************************************************************)
(* What holds of the MPI model checker for every number of processes and   *)
(* threads, every owner of every aggregate and every Symbolic Observation  *)
(* Graph.  The argument goes in layers, each an invariant relative to the  *)
(* ones before it:                                                         *)
(*   TypeInv      types, and positions that designate nodes of the graph   *)
(*                of the process, with edges that are those of the SOG; a  *)
(*                node that has its identifier has the rest already;       *)
(*   EndInv       nobody hears of the end before the checker has decided;  *)
(*   DeliveryInv  every virtual node has a message that travels or a node  *)
(*                at its owner;                                            *)
(*   UniqueInv    no aggregate has two nodes in a process;                 *)
(*   WorkInv      what is linked, in hand and still to fire of a node      *)
(*                makes its observable transitions;                        *)
(*   TurnInv      the checker's question is in one place, as a question,   *)
(*                awaited or answered, and what answers it is right;       *)
(*   ObtainedInv  so what the checker is told and keeps is right;          *)
(*   OnceInv      a node is assigned its members by one builder, queued    *)
(*                once, expanded once;                                     *)
(*   KnownInv     what travels is known to one of the processes;           *)
(*   ReadInv      what the checker has by identifiers is reached from the  *)
(*                initial state.                                           *)
(* With the last three every step is a step of SOGOnTheFly or a stutter.   *)
(***************************************************************************)
EXTENDS MCHybridSOG, LDDGraphProofs

-----------------------------------------------------------------------------
(* Types.                                                                  *)

GraphNode ==
  [m_lddstate : Aggregate, Successors : Seq([to : Nat, t : Transition]), m_SHA2 : Bytes,
   m_process : Process, m_virtual : BOOLEAN, m_completed : BOOLEAN, m_boucle : BOOLEAN,
   m_blocage : BOOLEAN]

(* What the messages of each direction are. *)
SuccType == [id : Bytes, process : Process, t : Transition]
StateMessage == [tag : {"STATE"}, v : Aggregate]
Question ==
  [tag : {"INITIAL", "FINISH"}, v : {0}] \cup [tag : {"ASK_STATE", "ASK_SUCC"}, v : Bytes]
Answer ==
  [tag : {"ACK_INITIAL"}, v : [id : Bytes, process : Process]]
    \cup [tag : {"ACK_STATE"}, v : [pos : Nat, div : BOOLEAN, dead : BOOLEAN]]
    \cup [tag : {"ACK_SUCC"}, v : Seq(SuccType)]

Channel == ((0 .. Checker) \X Process) \cup (Process \X {Checker})
MessagesOf(c) ==
  IF c[1] = Checker THEN Question ELSE IF c[2] = Checker THEN Answer ELSE StateMessage

ChannelsOK(ch) ==
  /\ ch = [c \in Channel |-> ch[c]]
  /\ \A c \in Channel : ch[c] \in Seq(MessagesOf(c))

StateType ==
  [id : Bytes, m_container : Process, m_hashid : Nat \X Process, m_div : BOOLEAN,
   m_deadlock : BOOLEAN, named : BOOLEAN]
KripkeType ==
  [id : Bytes, m_container : Process, m_hashid : Nat \X Process, m_div : BOOLEAN,
   m_deadlock : BOOLEAN, m_succ : SUBSET SuccType, named : BOOLEAN]

(* The aggregates of the state messages from p to q. *)
Travel(p, q) == {m.v : m \in Elements(chan[<<p, q>>])}

NodesOf(p) == DOMAIN m_graph[p]
Agg(p, n) == m_graph[p][n].m_lddstate
Virtual(p, n) == m_graph[p][n].m_virtual

(* The labels of thread 0 and those of a builder: while it assigns what a  *)
(* new or a received state has; while it has a new state to link, or a     *)
(* received one; while it has a state in its e; and where it has nothing   *)
(* that matters to the others.                                             *)
CommLabel == {"start", "send", "held", "read", "done"}
NewLabel == {"setProcess", "setDiv", "setDeadLock", "setSHA2"}
ReceivedLabel == {"storeDiv", "storeDeadLock", "storeProcess", "storeSHA2"}
Assigning == NewLabel \cup ReceivedLabel
Linking == NewLabel \cup {"assign", "link"}
Storing == ReceivedLabel \cup {"store"}
Expanding == {"fire"} \cup Linking
Neutral == {"start", "loop", "sleep", "waiting", "pop", "receive", "done"}
BuilderLabel == Neutral \cup Expanding \cup Storing

LaunchOK ==
  /\ m_nb_thread \in [Process -> Nat]
  /\ \A p \in Process : m_nb_thread[p] <= MaxThread
  /\ destination \in [Aggregate -> Process]

CoreOK ==
  /\ m_graph \in [Process -> Seq(GraphNode)]
  /\ m_common_stack \in [Process -> Seq(StackedPair)]
  /\ m_received_msg \in [Process -> Seq(Aggregate)]
  /\ m_tosend_msg \in [Process -> Seq(Aggregate)]
  /\ pc \in [Thread -> CommLabel \cup BuilderLabel]
  /\ e \in [Thread -> StackedPair]
  /\ t \in [Thread -> Transition \cup {NoTransition}]
  /\ pos \in [Thread -> Nat]
  /\ s \in [Process -> SUBSET Aggregate]

ProtocolOK ==
  /\ m_Terminated \subseteq Process
  /\ m_waitingAgregate \subseteq Process
  /\ m_waitingBuildSucc \in [Process -> {"waitInitial", "waitingBuild", "waitingSucc"}]
  /\ m_id_md5 \in [Process -> Bytes]
  /\ m_aggWaiting \in [Process -> Nat]
  /\ \A p \in Process : m_aggWaiting[p] \in NodesOf(p) \cup {NoState}
  /\ crashed \in BOOLEAN
  /\ answer \in [Process -> Seq(Answer)]
  /\ mcPc \in {"initial", "ackInitial", "ackState", "ackSucc", "explore", "end"}
  /\ asked \in [id : Bytes, process : Process, named : BOOLEAN]
  /\ state \subseteq StateType
  /\ kripke \subseteq KripkeType

-----------------------------------------------------------------------------
(* Which threads exist, and what they do. *)
LabelsOK ==
  \A x \in Thread :
    /\ pc[x] \in IF x[2] = 0 THEN CommLabel ELSE BuilderLabel
    /\ pc[x] # "done" => x[2] < m_nb_thread[x[1]]

(* A node is virtual where its aggregate does not belong.  Its identifier  *)
(* is the last thing it gets: before it, its process may be assigned and   *)
(* its flags may be anything; with it, its process and flags are right.    *)
FlagsRight(a, div, dead) ==
  HasFlags(a) => div = (a \in Divergent) /\ dead = (a \in Deadlocked)

NodeOK(p, nd) ==
  LET a == nd.m_lddstate
  IN  /\ nd.m_virtual <=> destination[a] # p
      /\ nd.m_virtual => nd.m_SHA2 = a /\ ~nd.m_completed
      /\ nd.m_SHA2 \in Garbage \cup {a} /\ nd.m_process \in {0, destination[a]}
      /\ nd.m_SHA2 = a => nd.m_process = destination[a]
      /\ nd.m_SHA2 = a /\ ~nd.m_virtual => FlagsRight(a, nd.m_boucle, nd.m_blocage)

NodesOK == \A p \in Process : \A n \in NodesOf(p) : NodeOK(p, m_graph[p][n])

(* Every edge is one of the SOG, between nodes of the same process. *)
EdgesOK ==
  \A p \in Process : \A n \in NodesOf(p) : \A u \in Links(m_graph[p][n]) :
    /\ u.to \in NodesOf(p) /\ u.t \in FirableObs[Agg(p, n)]
    /\ Agg(p, u.to) = Successor[<<Agg(p, n), u.t>>]

(* A node of process p to expand, with all its observable transitions.     *)
PairOK(p, z) ==
  /\ z.state \in NodesOf(p) /\ ~Virtual(p, z.state)
  /\ z.fire = FirableObs[Agg(p, z.state)]

StacksOK == \A p \in Process : \A z \in Elements(m_common_stack[p]) : PairOK(p, z)

(* Where a thread is in the assignments, what it has assigned is right.    *)
StageOK(label, p, nd) ==
  /\ label \in {"setDiv", "setDeadLock", "setSHA2", "storeSHA2"} => nd.m_process = p
  /\ label \in {"setDeadLock", "setSHA2", "storeDeadLock", "storeProcess", "storeSHA2"} =>
       nd.m_boucle = (nd.m_lddstate \in Divergent)
  /\ label \in {"setSHA2", "storeProcess", "storeSHA2"} =>
       nd.m_blocage = (nd.m_lddstate \in Deadlocked)

ThreadOK(x) ==
  /\ pc[x] \in Expanding =>
       /\ e[x].state \in NodesOf(x[1]) /\ ~Virtual(x[1], e[x].state)
       /\ e[x].fire \subseteq FirableObs[Agg(x[1], e[x].state)]
  /\ pc[x] \in Linking =>
       /\ t[x] \in FirableObs[Agg(x[1], e[x].state)]
       /\ pos[x] \in NodesOf(x[1])
       /\ Agg(x[1], pos[x]) = Successor[<<Agg(x[1], e[x].state), t[x]>>]
       /\ Virtual(x[1], pos[x]) <=> pc[x] = "link"
  /\ pc[x] \in Storing => pos[x] \in NodesOf(x[1]) /\ ~Virtual(x[1], pos[x])
  /\ pc[x] \in Assigning => StageOK(pc[x], x[1], Inserted(x))

ThreadsOK == \A x \in Thread : ThreadOK(x)

(* A state message goes to the owner of its aggregate. *)
MessagesOK ==
  /\ \A p, q \in Process : \A a \in Travel(p, q) : destination[a] = q
  /\ \A p \in Process :
       /\ \A a \in Elements(m_received_msg[p]) : destination[a] = p
       /\ \A a, b \in s[p] : a = b
       /\ pc[Comm(p)] # "held" => s[p] = {}

(* There is nothing anywhere before thread 0 of process 0 starts, and its  *)
(* first node is the initial aggregate's.                                  *)
NothingIn(p) ==
  /\ NodesOf(p) = {} /\ m_common_stack[p] = <<>>
  /\ m_received_msg[p] = <<>> /\ m_tosend_msg[p] = <<>>
  /\ s[p] = {}

StartOK ==
  IF pc[Comm(0)] = "start" \/ m_nb_thread[0] = 0
  THEN /\ \A p \in Process : NothingIn(p)
       /\ \A p, q \in Process : Travel(p, q) = {}
  ELSE 1 \in NodesOf(0) /\ Agg(0, 1) = InitialAggregate /\ m_graph[0][1].m_SHA2 = InitialAggregate

(* Only process 0 is asked for the initial state, and nobody answers       *)
(* before it starts.                                                       *)
AskedOK ==
  /\ \A p \in Process : \A m \in Elements(chan[<<Checker, p>>]) : m.tag = "INITIAL" => p = 0
  /\ \A p \in Process : answer[p] # <<>> => pc[Comm(p)] # "start" /\ m_nb_thread[p] > 0

TypeInv ==
  /\ LaunchOK /\ CoreOK /\ ProtocolOK /\ ChannelsOK(chan)
  /\ LabelsOK
  /\ NodesOK
  /\ EdgesOK
  /\ MessagesOK
  /\ StacksOK
  /\ ThreadsOK
  /\ StartOK
  /\ AskedOK

-----------------------------------------------------------------------------
(* Threads, processes and channels.                                        *)

LEMMA ProcessProperties ==
  /\ 0 \in Process /\ Checker \notin Process /\ Checker \in Nat
  /\ Process \subseteq Nat
  /\ 0 .. Checker = Process \cup {Checker}
<1>1. MaxTask \in Nat \ {0}
  BY MCHybridSOGAssumption
<1>2. QED
  BY <1>1 DEF Process, Checker

LEMMA CommProperties ==
  ASSUME NEW p \in Process
  PROVE  Comm(p) \in Thread /\ Comm(p)[1] = p /\ Comm(p)[2] = 0
BY MCHybridSOGAssumption DEF Comm, Thread

LEMMA ThreadProperties ==
  ASSUME NEW x \in Thread
  PROVE  /\ x[1] \in Process /\ x[2] \in 0 .. MaxThread - 1 /\ x = <<x[1], x[2]>>
         /\ x[2] = 0 <=> x = Comm(x[1])
BY DEF Comm, Thread

LEMMA BuildersProperties ==
  ASSUME LaunchOK, NEW p \in Process, NEW y \in Builders(p)
  PROVE  y \in Thread /\ y[1] = p /\ y[2] # 0
<1>1. m_nb_thread[p] \in Nat /\ m_nb_thread[p] <= MaxThread /\ MaxThread \in Nat
  BY MCHybridSOGAssumption DEF LaunchOK
<1>2. QED
  BY <1>1 DEF Builders, Thread

LEMMA LabelProperties ==
  /\ BuilderLabel \cap CommLabel = {"start", "done"}
  /\ "store" \in Storing /\ "storeDiv" \in Storing \cap Assigning /\ "assign" \in Linking
  /\ "setProcess" \in Linking \cap Assigning /\ "link" \in Linking /\ "fire" \in Expanding
  /\ Linking \subseteq Expanding /\ Expanding \cup Storing \cup Neutral = BuilderLabel
  /\ Expanding \cap Storing = {} /\ Neutral \cap (Expanding \cup Storing) = {}
  /\ Assigning \subseteq Linking \cup Storing
  /\ Assigning \cap {"link", "assign", "store", "fire"} = {} /\ "fire" \notin Linking
BY DEF BuilderLabel, CommLabel, Neutral, Expanding, Linking, Storing, Assigning, NewLabel, ReceivedLabel

(* A thread at a label of a builder is one. *)
LEMMA BuilderProperties ==
  ASSUME LaunchOK, LabelsOK, NEW x \in Thread, pc[x] \in BuilderLabel \ {"start", "done"}
  PROVE  /\ x \in Builders(x[1]) /\ x[1] \in Process
         /\ x[2] # 0 /\ x # Comm(x[1])
<1>1. x[2] # 0 /\ x[2] < m_nb_thread[x[1]]
  BY LabelProperties DEF LabelsOK
<1>2. x[1] \in Process /\ x[2] \in 0 .. MaxThread - 1 /\ x = <<x[1], x[2]>> /\ x # Comm(x[1])
  BY <1>1, ThreadProperties
<1>3. m_nb_thread[x[1]] \in Nat
  BY <1>2 DEF LaunchOK
<1>4. x[2] \in 1 .. m_nb_thread[x[1]] - 1
  BY <1>1, <1>2, <1>3
<1>5. x \in Builders(x[1])
  BY <1>2, <1>4 DEF Builders
<1>6. QED
  BY <1>1, <1>2, <1>5

LEMMA ChannelProperties ==
  /\ \A p, q \in Process :
       /\ <<p, q>> \in Channel /\ MessagesOf(<<p, q>>) = StateMessage
       /\ <<p, q>> # <<Checker, p>> /\ <<p, q>> # <<q, Checker>>
  /\ \A p \in Process :
       /\ <<Checker, p>> \in Channel /\ MessagesOf(<<Checker, p>>) = Question
       /\ <<p, Checker>> \in Channel /\ MessagesOf(<<p, Checker>>) = Answer
       /\ <<p, Checker>> # <<Checker, p>>
<1>1. Checker \notin Process /\ 0 .. Checker = Process \cup {Checker}
  BY ProcessProperties
<1>2. QED
  BY <1>1 DEF Channel, MessagesOf

LEMMA ChannelTypes ==
  ASSUME NEW ch, ChannelsOK(ch)
  PROVE  /\ \A p, q \in Process : ch[<<p, q>>] \in Seq(StateMessage)
         /\ \A p \in Process : ch[<<Checker, p>>] \in Seq(Question)
         /\ \A p \in Process : ch[<<p, Checker>>] \in Seq(Answer)
BY ChannelProperties DEF ChannelsOK

(* One channel changes. *)
LEMMA ChannelChanged ==
  ASSUME NEW ch, ChannelsOK(ch), NEW c \in Channel, NEW l \in Seq(MessagesOf(c))
  PROVE  /\ ChannelsOK([ch EXCEPT ![c] = l])
         /\ [ch EXCEPT ![c] = l][c] = l
         /\ \A d \in Channel \ {c} : [ch EXCEPT ![c] = l][d] = ch[d]
<1>1. ch = [d \in Channel |-> ch[d]] /\ \A d \in Channel : ch[d] \in Seq(MessagesOf(d))
  BY DEF ChannelsOK
<1> DEFINE dh == [d \in Channel |-> IF d = c THEN l ELSE ch[d]]
<1>2. [ch EXCEPT ![c] = l] = dh
  BY <1>1
<1>3. dh = [d \in Channel |-> dh[d]] /\ \A d \in Channel : dh[d] \in Seq(MessagesOf(d))
  BY <1>1
<1>4. dh[c] = l /\ \A d \in Channel \ {c} : dh[d] = ch[d]
  OBVIOUS
<1>5. QED
  BY <1>2, <1>3, <1>4 DEF ChannelsOK

(* A message is sent where it may go; it is added to what waits there.    *)
Sends(ch, dh, p, q, m) ==
  /\ ChannelsOK(ch) /\ dh = MpiSend(ch, p, q, m)
  /\ <<p, q>> \in Channel /\ m \in MessagesOf(<<p, q>>)

Gains(ch, dh, p, q, m) ==
  /\ ChannelsOK(dh)
  /\ ch[<<p, q>>] = <<>> => dh[<<p, q>>] = <<m>>
  /\ Elements(dh[<<p, q>>]) = Elements(ch[<<p, q>>]) \cup {m}
  /\ \A d \in Channel \ {<<p, q>>} : dh[d] = ch[d]

LEMMA Sent ==
  ASSUME NEW ch, NEW dh, NEW p, NEW q, NEW m, Sends(ch, dh, p, q, m)
  PROVE  Gains(ch, dh, p, q, m)
<1>. /\ ChannelsOK(ch) /\ dh = MpiSend(ch, p, q, m)
     /\ <<p, q>> \in Channel /\ m \in MessagesOf(<<p, q>>)
  BY DEF Sends
<1>1. ch[<<p, q>>] \in Seq(MessagesOf(<<p, q>>))
  BY DEF ChannelsOK
<1> DEFINE l == Append(ch[<<p, q>>], m)
<1>2. l \in Seq(MessagesOf(<<p, q>>)) /\ Elements(l) = Elements(ch[<<p, q>>]) \cup {m}
  BY <1>1, AppendElements
<1>3. dh = [ch EXCEPT ![<<p, q>>] = l]
  BY DEF MpiSend
<1> HIDE DEF l
<1>4. /\ ChannelsOK([ch EXCEPT ![<<p, q>>] = l])
      /\ [ch EXCEPT ![<<p, q>>] = l][<<p, q>>] = l
      /\ \A d \in Channel \ {<<p, q>>} : [ch EXCEPT ![<<p, q>>] = l][d] = ch[d]
  BY <1>2, ChannelChanged
<1>5. ch[<<p, q>>] = <<>> => l = <<m>>
  BY DEF l
<1>6. QED
  BY <1>2, <1>3, <1>4, <1>5 DEF Gains

LEMMA Taken ==
  ASSUME NEW ch, ChannelsOK(ch), NEW p, NEW q, <<p, q>> \in Channel, ch[<<p, q>>] # <<>>
  PROVE  LET dh == MpiRecv(ch, p, q)
             m == Head(ch[<<p, q>>])
         IN  /\ ChannelsOK(dh)
             /\ m \in MessagesOf(<<p, q>>)
             /\ dh[<<p, q>>] = Tail(ch[<<p, q>>])
             /\ Elements(ch[<<p, q>>]) = Elements(dh[<<p, q>>]) \cup {m}
             /\ \A d \in Channel \ {<<p, q>>} : dh[d] = ch[d]
<1>1. ch[<<p, q>>] \in Seq(MessagesOf(<<p, q>>))
  BY DEF ChannelsOK
<1> DEFINE l == Tail(ch[<<p, q>>])
<1> DEFINE m == Head(ch[<<p, q>>])
<1>2. l \in Seq(MessagesOf(<<p, q>>)) /\ m \in MessagesOf(<<p, q>>)
      /\ Elements(ch[<<p, q>>]) = {m} \cup Elements(l)
  BY <1>1, PopElements
<1>3. MpiRecv(ch, p, q) = [ch EXCEPT ![<<p, q>>] = l]
  BY DEF MpiRecv
<1> HIDE DEF l, m
<1>4. /\ ChannelsOK([ch EXCEPT ![<<p, q>>] = l])
      /\ [ch EXCEPT ![<<p, q>>] = l][<<p, q>>] = l
      /\ \A d \in Channel \ {<<p, q>>} : [ch EXCEPT ![<<p, q>>] = l][d] = ch[d]
  BY <1>2, ChannelChanged
<1>5. QED
  BY <1>2, <1>3, <1>4 DEF l, m

-----------------------------------------------------------------------------
(* What happens to the graph of a process.                                 *)

(* A node nd for aggregate a is added at place n. *)
AddsNode(p, n, nd, a) ==
  /\ m_graph' \in [Process -> Seq(GraphNode)]
  /\ n \in Nat /\ n \notin NodesOf(p)
  /\ n = Len(m_graph[p]) + 1
  /\ DOMAIN m_graph'[p] = NodesOf(p) \cup {n}
  /\ m_graph'[p][n] = nd
  /\ nd.m_lddstate = a /\ NodeOK(p, nd) /\ Links(nd) = {} /\ ~nd.m_completed
  /\ \A k \in NodesOf(p) : m_graph'[p][k] = m_graph[p][k]
  /\ \A q \in Process \ {p} : m_graph'[q] = m_graph[q]

(* Something of the nodes in N is assigned, those in C are declared        *)
(* complete, and node n gets the edges L.                                  *)
SameName(nd, md) ==
  /\ md.m_SHA2 = nd.m_SHA2 /\ md.m_process = nd.m_process
  /\ md.m_boucle = nd.m_boucle /\ md.m_blocage = nd.m_blocage

Improves(p, nd, md) ==
  /\ md.m_SHA2 = nd.m_SHA2 \/ md.m_SHA2 = nd.m_lddstate
  /\ md.m_process = nd.m_process \/ md.m_process = p
  /\ md.m_boucle = nd.m_boucle \/ md.m_boucle = (nd.m_lddstate \in Divergent)
  /\ md.m_blocage = nd.m_blocage \/ md.m_blocage = (nd.m_lddstate \in Deadlocked)
  /\ NodeOK(p, md)

EditsGraph(p, g, h, N, C, n, L) ==
  /\ h \in Seq(GraphNode) /\ DOMAIN h = DOMAIN g
  /\ \A k \in DOMAIN g :
       /\ h[k].m_lddstate = g[k].m_lddstate
       /\ h[k].m_virtual = g[k].m_virtual
       /\ IF k \in N THEN Improves(p, g[k], h[k]) ELSE SameName(g[k], h[k])
       /\ h[k].m_completed <=> g[k].m_completed \/ k \in C
       /\ k # n => Links(h[k]) = Links(g[k])
       /\ k = n => Links(h[k]) = Links(g[k]) \cup L

Edits(p, N, C, n, L) ==
  /\ m_graph' \in [Process -> Seq(GraphNode)]
  /\ EditsGraph(p, m_graph[p], m_graph'[p], N, C, n, L)
  /\ \A q \in Process \ {p} : m_graph'[q] = m_graph[q]

LEMMA NodesDomain ==
  ASSUME CoreOK, NEW p \in Process
  PROVE  /\ NodesOf(p) = 1 .. Len(m_graph[p]) /\ Len(m_graph[p]) \in Nat
         /\ \A n \in NodesOf(p) : n \in Nat /\ m_graph[p][n] \in GraphNode
                                  /\ Agg(p, n) \in Aggregate
<1>1. m_graph[p] \in Seq(GraphNode)
  BY DEF CoreOK
<1>2. /\ NodesOf(p) = 1 .. Len(m_graph[p]) /\ Len(m_graph[p]) \in Nat
      /\ \A n \in NodesOf(p) : n \in Nat /\ m_graph[p][n] \in GraphNode
  BY <1>1, LenProperties, ElementOfSeq DEF NodesOf
<1>3. QED
  BY <1>2 DEF GraphNode, Agg

LEMMA BytesAre == Garbage \subseteq Bytes /\ Aggregate \subseteq Bytes /\ SomeGarbage \in Garbage
<1>1. Garbage # {}
  BY MCHybridSOGAssumption
<1>2. SomeGarbage \in Garbage
  BY <1>1 DEF SomeGarbage
<1>3. QED
  BY <1>2 DEF Bytes

LEMMA BlankNode ==
  ASSUME NEW a \in Aggregate, NEW g \in Bytes
  PROVE  /\ Node(a, g) \in GraphNode
         /\ Node(a, g).m_lddstate = a /\ Node(a, g).Successors = <<>> /\ Node(a, g).m_SHA2 = g
         /\ Node(a, g).m_process = 0 /\ ~Node(a, g).m_virtual /\ ~Node(a, g).m_completed
<1>1. 0 \in Process
  BY ProcessProperties
<1>2. QED
  BY <1>1 DEF Node, GraphNode

LEMMA NamedNode ==
  ASSUME NEW a \in Aggregate, NEW p \in Process
  PROVE  LET md == Identified(a, p)
         IN  /\ md \in GraphNode
             /\ md.m_lddstate = a /\ md.Successors = <<>>
             /\ ~md.m_virtual /\ ~md.m_completed
             /\ md.m_SHA2 = a /\ md.m_process = p
<1> DEFINE nd == Node(a, a)
<1>1. /\ nd \in GraphNode
      /\ nd.m_lddstate = a /\ nd.Successors = <<>> /\ ~nd.m_virtual /\ ~nd.m_completed
      /\ nd.m_SHA2 = a
  BY BlankNode, BytesAre
<1> HIDE DEF nd
<1>2. LET md == [nd EXCEPT !.m_process = p]
      IN  /\ md \in GraphNode
          /\ md.m_lddstate = a /\ md.Successors = <<>>
          /\ ~md.m_virtual /\ ~md.m_completed
          /\ md.m_SHA2 = a /\ md.m_process = p
  BY <1>1 DEF GraphNode
<1>3. QED
  BY <1>2 DEF Identified, nd

LEMMA VirtualNodes ==
  ASSUME NEW a \in Aggregate, NEW p \in Process
  PROVE  LET md == VirtualNode(a, p)
         IN  /\ md \in GraphNode
             /\ md.m_lddstate = a /\ md.Successors = <<>>
             /\ md.m_virtual /\ ~md.m_completed
             /\ md.m_SHA2 = a /\ md.m_process = p
<1> DEFINE nd == Identified(a, p)
<1>1. /\ nd \in GraphNode
      /\ nd.m_lddstate = a /\ nd.Successors = <<>> /\ ~nd.m_completed
      /\ nd.m_SHA2 = a /\ nd.m_process = p
  BY NamedNode
<1> HIDE DEF nd
<1>2. LET md == [nd EXCEPT !.m_virtual = TRUE]
      IN  /\ md \in GraphNode
          /\ md.m_lddstate = a /\ md.Successors = <<>>
          /\ md.m_virtual /\ ~md.m_completed
          /\ md.m_SHA2 = a /\ md.m_process = p
  BY <1>1 DEF GraphNode
<1>3. QED
  BY <1>2 DEF VirtualNode, nd

(* The three kinds of new node. *)
LEMMA NewNodes ==
  ASSUME LaunchOK, NEW p \in Process, NEW a \in Aggregate, NEW g \in Garbage
  PROVE  /\ Node(a, g) \in GraphNode /\ VirtualNode(a, destination[a]) \in GraphNode
         /\ Identified(a, p) \in GraphNode
         /\ \A nd \in {Node(a, g), VirtualNode(a, destination[a]), Identified(a, p)} :
              nd.m_lddstate = a /\ Links(nd) = {} /\ ~nd.m_completed
         /\ ~Node(a, g).m_virtual /\ VirtualNode(a, destination[a]).m_virtual
         /\ destination[a] = p => NodeOK(p, Node(a, g))
         /\ destination[a] # p => NodeOK(p, VirtualNode(a, destination[a]))
         /\ destination[a] = p /\ ~HasFlags(a) => NodeOK(p, Identified(a, p))
<1>1. destination[a] \in Process /\ g \in Bytes /\ g # a
  BY BytesAre, MCHybridSOGAssumption DEF LaunchOK
<1> DEFINE new == Node(a, g)
<1> DEFINE virtual == VirtualNode(a, destination[a])
<1> DEFINE named == Identified(a, p)
<1>2. /\ new \in GraphNode
      /\ new.m_lddstate = a /\ new.Successors = <<>> /\ new.m_SHA2 = g /\ new.m_process = 0
      /\ ~new.m_virtual /\ ~new.m_completed
  BY <1>1, BlankNode
<1>3. /\ virtual \in GraphNode
      /\ virtual.m_lddstate = a /\ virtual.Successors = <<>>
      /\ virtual.m_SHA2 = a /\ virtual.m_process = destination[a]
      /\ virtual.m_virtual /\ ~virtual.m_completed
  BY <1>1, VirtualNodes
<1>4. /\ named \in GraphNode
      /\ named.m_lddstate = a /\ named.Successors = <<>>
      /\ named.m_SHA2 = a /\ named.m_process = p
      /\ ~named.m_virtual /\ ~named.m_completed
  BY NamedNode
<1> HIDE DEF new, virtual, named
<1>5. Links(new) = {} /\ Links(virtual) = {} /\ Links(named) = {}
  BY <1>2, <1>3, <1>4 DEF Links
<1>6. destination[a] = p => NodeOK(p, new)
  BY <1>1, <1>2 DEF NodeOK
<1>7. destination[a] # p => NodeOK(p, virtual)
  BY <1>3 DEF NodeOK
<1>8. destination[a] = p /\ ~HasFlags(a) => NodeOK(p, named)
  BY <1>4 DEF NodeOK, FlagsRight
<1>9. \A nd \in {new, virtual, named} : nd.m_lddstate = a /\ Links(nd) = {} /\ ~nd.m_completed
  BY <1>2, <1>3, <1>4, <1>5
<1>10. QED
  BY <1>2, <1>3, <1>4, <1>6, <1>7, <1>8, <1>9 DEF new, virtual, named

LEMMA InsertAdds ==
  ASSUME CoreOK, NEW p \in Process, NEW nd \in GraphNode, NEW a,
         nd.m_lddstate = a, NodeOK(p, nd), Links(nd) = {}, ~nd.m_completed,
         m_graph' = [m_graph EXCEPT ![p] = insert(@, nd)]
  PROVE  AddsNode(p, Len(m_graph[p]) + 1, nd, a)
<1> DEFINE g == m_graph[p]
<1>1. g \in Seq(GraphNode) /\ m_graph \in [Process -> Seq(GraphNode)]
  BY DEF CoreOK
<1>2. /\ insert(g, nd) \in Seq(GraphNode)
      /\ Len(insert(g, nd)) = Len(g) + 1
      /\ \A k \in 1 .. Len(g) : insert(g, nd)[k] = g[k]
      /\ insert(g, nd)[Len(g) + 1] = nd
  BY <1>1, AppendProperties DEF insert
<1>3. Len(g) \in Nat /\ DOMAIN g = 1 .. Len(g) /\ DOMAIN insert(g, nd) = 1 .. Len(g) + 1
  BY <1>1, <1>2, LenProperties
<1>4. /\ m_graph' \in [Process -> Seq(GraphNode)]
      /\ m_graph'[p] = insert(g, nd)
      /\ \A q \in Process \ {p} : m_graph'[q] = m_graph[q]
  BY <1>1, <1>2
<1>5. DOMAIN insert(g, nd) = DOMAIN g \cup {Len(g) + 1} /\ Len(g) + 1 \notin DOMAIN g
  BY <1>3
<1>6. QED
  BY <1>2, <1>3, <1>4, <1>5 DEF AddsNode, NodesOf

(* One node is replaced. *)
LEMMA NodeReplaced ==
  ASSUME NEW g \in Seq(GraphNode), NEW n \in DOMAIN g, NEW nd \in GraphNode
  PROVE  LET h == [g EXCEPT ![n] = nd]
         IN  /\ h \in Seq(GraphNode) /\ DOMAIN h = DOMAIN g
             /\ \A k \in DOMAIN g : h[k] = IF k = n THEN nd ELSE g[k]
BY ExceptSeq, LenProperties

LEMMA EdgeEdits ==
  ASSUME NEW p, NEW g \in Seq(GraphNode), NEW n \in DOMAIN g, NEW m \in Nat, NEW u \in Transition
  PROVE  EditsGraph(p, g, AddSuccessor(g, n, m, u), {}, {}, n, {[to |-> m, t |-> u]})
<1> DEFINE S == [to : Nat, t : Transition]
<1> DEFINE x == [to |-> m, t |-> u]
<1> DEFINE l == <<x>> \o g[n].Successors
<1> DEFINE nd == [g[n] EXCEPT !.Successors = l]
<1>1. g[n] \in GraphNode
  BY ElementOfSeq, LenProperties
<1>2. x \in S /\ g[n].Successors \in Seq(S)
  BY <1>1 DEF GraphNode
<1>3. l \in Seq(S) /\ Elements(l) = {x} \cup Elements(g[n].Successors)
  <2> HIDE DEF x, S
  <2>1. QED
    BY <1>2, FrontElements
<1>4. AddSuccessor(g, n, m, u) = [g EXCEPT ![n] = nd]
  BY DEF AddSuccessor
<1> HIDE DEF l, x
<1>5. /\ nd \in GraphNode
      /\ nd.m_lddstate = g[n].m_lddstate /\ nd.m_virtual = g[n].m_virtual
      /\ SameName(g[n], nd) /\ nd.m_completed = g[n].m_completed
      /\ nd.Successors = l
  BY <1>1, <1>3 DEF GraphNode, SameName
<1> HIDE DEF nd
<1> DEFINE h == [g EXCEPT ![n] = nd]
<1>6. /\ h \in Seq(GraphNode) /\ DOMAIN h = DOMAIN g
      /\ \A k \in DOMAIN g : h[k] = IF k = n THEN nd ELSE g[k]
  BY <1>5, NodeReplaced
<1>7. Links(nd) = Links(g[n]) \cup {x}
  BY <1>3, <1>5 DEF Links, Elements
<1>8. \A k \in DOMAIN g : SameName(g[k], g[k])
  BY DEF SameName
<1> HIDE DEF h
<1>9. EditsGraph(p, g, h, {}, {}, n, {x})
  BY <1>5, <1>6, <1>7, <1>8 DEF EditsGraph
<1>10. QED
  BY <1>4, <1>9 DEF x, h

(* One of the four things a state gets is assigned.                        *)
KeepsPlace(nd, md) ==
  /\ md.m_lddstate = nd.m_lddstate /\ md.Successors = nd.Successors
  /\ md.m_virtual = nd.m_virtual /\ md.m_completed = nd.m_completed

LEMMA ProcessAssigned ==
  ASSUME NEW p \in Process, NEW nd \in GraphNode, ~nd.m_virtual, NodeOK(p, nd),
         NEW md, md = [nd EXCEPT !.m_process = p]
  PROVE  /\ md \in GraphNode /\ KeepsPlace(nd, md) /\ Improves(p, nd, md)
         /\ md.m_process = p
         /\ md.m_SHA2 = nd.m_SHA2 /\ md.m_boucle = nd.m_boucle /\ md.m_blocage = nd.m_blocage
<1>1. /\ md \in GraphNode /\ KeepsPlace(nd, md) /\ md.m_process = p
      /\ md.m_SHA2 = nd.m_SHA2 /\ md.m_boucle = nd.m_boucle /\ md.m_blocage = nd.m_blocage
  BY DEF GraphNode, KeepsPlace
<1>2. destination[nd.m_lddstate] = p
  BY DEF NodeOK
<1>3. NodeOK(p, md)
  BY <1>1, <1>2 DEF NodeOK, KeepsPlace
<1>4. QED
  BY <1>1, <1>3 DEF Improves

(* A membership is a Boolean that can be assigned.                         *)
LEMMA DivAssigned ==
  ASSUME NEW p \in Process, NEW nd \in GraphNode, ~nd.m_virtual, NodeOK(p, nd),
         NEW md, md = [nd EXCEPT !.m_boucle = nd.m_lddstate \in Divergent]
  PROVE  /\ md \in GraphNode /\ KeepsPlace(nd, md) /\ Improves(p, nd, md)
         /\ md.m_boucle = (md.m_lddstate \in Divergent)
         /\ md.m_SHA2 = nd.m_SHA2 /\ md.m_process = nd.m_process /\ md.m_blocage = nd.m_blocage
<1>1. PICK b \in BOOLEAN : b = (nd.m_lddstate \in Divergent)
  <2>1. (nd.m_lddstate \in Divergent) \in BOOLEAN
    OBVIOUS
  <2>2. WITNESS (nd.m_lddstate \in Divergent) \in BOOLEAN
  <2>3. QED
    OBVIOUS
<1>2. md = [nd EXCEPT !.m_boucle = b]
  BY <1>1, Zenon
<1>3. /\ md \in GraphNode /\ KeepsPlace(nd, md) /\ md.m_boucle = b
      /\ md.m_SHA2 = nd.m_SHA2 /\ md.m_process = nd.m_process /\ md.m_blocage = nd.m_blocage
  BY <1>2 DEF GraphNode, KeepsPlace
<1>4. md.m_boucle = (md.m_lddstate \in Divergent) /\ md.m_boucle = (nd.m_lddstate \in Divergent)
  BY <1>1, <1>3, Zenon DEF KeepsPlace
<1>5. FlagsRight(nd.m_lddstate, nd.m_boucle, nd.m_blocage) =>
        FlagsRight(md.m_lddstate, md.m_boucle, md.m_blocage)
  BY <1>3, <1>4, Zenon DEF KeepsPlace, FlagsRight
<1>6. NodeOK(p, md)
  BY <1>3, <1>5 DEF NodeOK, KeepsPlace
<1>7. QED
  BY <1>3, <1>4, <1>6, Zenon DEF Improves

LEMMA DeadLockAssigned ==
  ASSUME NEW p \in Process, NEW nd \in GraphNode, ~nd.m_virtual, NodeOK(p, nd),
         NEW md, md = [nd EXCEPT !.m_blocage = nd.m_lddstate \in Deadlocked]
  PROVE  /\ md \in GraphNode /\ KeepsPlace(nd, md) /\ Improves(p, nd, md)
         /\ md.m_blocage = (md.m_lddstate \in Deadlocked)
         /\ md.m_SHA2 = nd.m_SHA2 /\ md.m_process = nd.m_process /\ md.m_boucle = nd.m_boucle
<1>1. PICK b \in BOOLEAN : b = (nd.m_lddstate \in Deadlocked)
  <2>1. (nd.m_lddstate \in Deadlocked) \in BOOLEAN
    OBVIOUS
  <2>2. WITNESS (nd.m_lddstate \in Deadlocked) \in BOOLEAN
  <2>3. QED
    OBVIOUS
<1>2. md = [nd EXCEPT !.m_blocage = b]
  BY <1>1, Zenon
<1>3. /\ md \in GraphNode /\ KeepsPlace(nd, md) /\ md.m_blocage = b
      /\ md.m_SHA2 = nd.m_SHA2 /\ md.m_process = nd.m_process /\ md.m_boucle = nd.m_boucle
  BY <1>2 DEF GraphNode, KeepsPlace
<1>4. md.m_blocage = (md.m_lddstate \in Deadlocked) /\ md.m_blocage = (nd.m_lddstate \in Deadlocked)
  BY <1>1, <1>3, Zenon DEF KeepsPlace
<1>5. FlagsRight(nd.m_lddstate, nd.m_boucle, nd.m_blocage) =>
        FlagsRight(md.m_lddstate, md.m_boucle, md.m_blocage)
  BY <1>3, <1>4, Zenon DEF KeepsPlace, FlagsRight
<1>6. NodeOK(p, md)
  BY <1>3, <1>5 DEF NodeOK, KeepsPlace
<1>7. QED
  BY <1>3, <1>4, <1>6, Zenon DEF Improves

(* The identifier is assigned when the rest is.                            *)
LEMMA SHA2Assigned ==
  ASSUME NEW p \in Process, NEW nd \in GraphNode, ~nd.m_virtual, NodeOK(p, nd),
         nd.m_process = p, nd.m_boucle = (nd.m_lddstate \in Divergent),
         nd.m_blocage = (nd.m_lddstate \in Deadlocked),
         NEW md, md = [nd EXCEPT !.m_SHA2 = nd.m_lddstate]
  PROVE  md \in GraphNode /\ KeepsPlace(nd, md) /\ Improves(p, nd, md)
<1> DEFINE a == nd.m_lddstate
<1>1. a \in Bytes
  BY BytesAre DEF GraphNode
<1>2. /\ md \in GraphNode /\ KeepsPlace(nd, md) /\ md.m_SHA2 = a
      /\ md.m_process = nd.m_process /\ md.m_boucle = nd.m_boucle /\ md.m_blocage = nd.m_blocage
  BY <1>1 DEF GraphNode, KeepsPlace
<1>3. FlagsRight(md.m_lddstate, md.m_boucle, md.m_blocage)
  BY <1>2, Zenon DEF KeepsPlace, FlagsRight
<1>4. NodeOK(p, md)
  BY <1>2, <1>3 DEF NodeOK, KeepsPlace
<1>5. QED
  BY <1>2, <1>4 DEF Improves

LEMMA NodeEdits ==
  ASSUME NEW p \in Process, NEW g \in Seq(GraphNode), NEW n \in DOMAIN g, NEW md \in GraphNode,
         KeepsPlace(g[n], md), Improves(p, g[n], md)
  PROVE  EditsGraph(p, g, [g EXCEPT ![n] = md], {n}, {}, n, {}) /\ [g EXCEPT ![n] = md][n] = md
<1> DEFINE h == [g EXCEPT ![n] = md]
<1>1. /\ h \in Seq(GraphNode) /\ DOMAIN h = DOMAIN g
      /\ \A k \in DOMAIN g : h[k] = IF k = n THEN md ELSE g[k]
  BY NodeReplaced
<1>2. Links(md) = Links(g[n])
  BY DEF KeepsPlace, Links
<1>3. \A k \in DOMAIN g : SameName(g[k], g[k])
  BY DEF SameName
<1> HIDE DEF h
<1>4. EditsGraph(p, g, h, {n}, {}, n, {})
  BY <1>1, <1>2, <1>3 DEF EditsGraph, KeepsPlace
<1>5. h[n] = md
  BY <1>1
<1>6. QED
  BY <1>4, <1>5 DEF h

LEMMA CompleteEdits ==
  ASSUME NEW p, NEW g \in Seq(GraphNode), NEW n \in DOMAIN g
  PROVE  EditsGraph(p, g, [g EXCEPT ![n].m_completed = TRUE], {}, {n}, n, {})
<1> DEFINE nd == [g[n] EXCEPT !.m_completed = TRUE]
<1>1. g[n] \in GraphNode
  BY ElementOfSeq, LenProperties
<1>2. /\ nd \in GraphNode
      /\ nd.m_lddstate = g[n].m_lddstate /\ nd.m_virtual = g[n].m_virtual
      /\ SameName(g[n], nd) /\ nd.m_completed
      /\ nd.Successors = g[n].Successors
  BY <1>1 DEF GraphNode, SameName
<1> HIDE DEF nd
<1> DEFINE h == [g EXCEPT ![n] = nd]
<1>3. /\ h \in Seq(GraphNode) /\ DOMAIN h = DOMAIN g
      /\ \A k \in DOMAIN g : h[k] = IF k = n THEN nd ELSE g[k]
  BY <1>2, NodeReplaced
<1>4. \A k \in DOMAIN g : SameName(g[k], g[k])
  BY DEF SameName
<1>5. Links(nd) = Links(g[n])
  BY <1>2 DEF Links
<1> HIDE DEF h
<1>6. EditsGraph(p, g, h, {}, {n}, n, {})
  BY <1>2, <1>3, <1>4, <1>5 DEF EditsGraph
<1>7. QED
  BY <1>6 DEF h, nd

LEMMA GraphEdits ==
  ASSUME CoreOK, NEW p \in Process, NEW h, NEW N, NEW C, NEW n, NEW L,
         EditsGraph(p, m_graph[p], h, N, C, n, L), m_graph' = [m_graph EXCEPT ![p] = h]
  PROVE  Edits(p, N, C, n, L)
<1>1. m_graph \in [Process -> Seq(GraphNode)] /\ h \in Seq(GraphNode)
  BY DEF CoreOK, EditsGraph
<1>2. m_graph' \in [Process -> Seq(GraphNode)] /\ m_graph'[p] = h
      /\ \A q \in Process \ {p} : m_graph'[q] = m_graph[q]
  BY <1>1
<1>3. QED
  BY <1>2 DEF Edits

-----------------------------------------------------------------------------
(* What the steps do to the threads and to the queues.                     *)

(* A thread that stays where it is, or moves where nothing matters.        *)
Idles(y) ==
  \/ pc'[y] = pc[y]
  \/ y[2] # 0 /\ pc[y] \in Neutral \ {"start", "done"} /\ pc'[y] \in Neutral \ {"start"}
  \/ y[2] = 0 /\ pc[y] \in {"send", "read"} /\ pc'[y] \in {"send", "read", "done"}

AllIdle ==
  /\ pc' \in [Thread -> CommLabel \cup BuilderLabel]
  /\ \A y \in Thread : Idles(y)

(* Thread x goes to a label, and nobody else moves but to idle. *)
Moves(x, label) ==
  /\ pc' \in [Thread -> CommLabel \cup BuilderLabel]
  /\ pc'[x] = label
  /\ \A y \in Thread \ {x} : Idles(y)

LEMMA GotoMoves ==
  ASSUME CoreOK, NEW x \in Thread, NEW label \in CommLabel \cup BuilderLabel, Goto(x, label)
  PROVE  Moves(x, label)
BY DEF CoreOK, Goto, Moves, Idles

(* A notification wakes a builder up. *)
LEMMA NotifyMoves ==
  ASSUME LaunchOK, CoreOK, NEW p \in Process, NEW x \in Thread, pc[x] # "waiting",
         NEW label \in CommLabel \cup BuilderLabel, pc' \in NotifyOne(p, [pc EXCEPT ![x] = label])
  PROVE  Moves(x, label)
<1> DEFINE f == [pc EXCEPT ![x] = label]
<1>1. pc \in [Thread -> CommLabel \cup BuilderLabel]
  BY DEF CoreOK
<1>2. f \in [Thread -> CommLabel \cup BuilderLabel] /\ f[x] = label
      /\ \A y \in Thread \ {x} : f[y] = pc[y]
  BY <1>1
<1>3. \A w \in Waiting(p) : w \in Thread \ {x} /\ w[2] # 0 /\ pc[w] = "waiting"
  BY BuildersProperties DEF Waiting
<1> HIDE DEF f
<1>4. CASE pc' = f
  BY <1>2, <1>4 DEF Moves, Idles
<1>5. ASSUME NEW w \in Waiting(p), pc' = [f EXCEPT ![w] = "loop"]
      PROVE  Moves(x, label)
  BY <1>2, <1>3, <1>5 DEF Moves, Idles, Neutral, BuilderLabel
<1>6. pc' = f \/ \E w \in Waiting(p) : pc' = [f EXCEPT ![w] = "loop"]
  BY DEF NotifyOne, f
<1>7. QED
  BY <1>4, <1>5, <1>6

(* A value is appended to the queue of process p, or taken from it. *)
Grown(S, f, g, p, v) ==
  /\ g \in [Process -> Seq(S)] /\ v \in S
  /\ g[p] = Append(f[p], v)
  /\ Elements(g[p]) = Elements(f[p]) \cup {v}
  /\ \A q \in Process \ {p} : g[q] = f[q]

Shrunk(S, f, g, p, v) ==
  /\ g \in [Process -> Seq(S)] /\ v \in S
  /\ f[p] # <<>> /\ v = Head(f[p]) /\ g[p] = Tail(f[p])
  /\ Elements(f[p]) = Elements(g[p]) \cup {v}
  /\ \A q \in Process \ {p} : g[q] = f[q]

LEMMA Appended ==
  ASSUME NEW S, NEW f \in [Process -> Seq(S)], NEW p \in Process, NEW v \in S
  PROVE  Grown(S, f, [f EXCEPT ![p] = Append(@, v)], p, v)
<1> DEFINE l == Append(f[p], v)
<1>1. l \in Seq(S) /\ Elements(l) = Elements(f[p]) \cup {v}
  BY AppendElements
<1> HIDE DEF l
<1>2. [f EXCEPT ![p] = l] \in [Process -> Seq(S)] /\ [f EXCEPT ![p] = l][p] = l
      /\ \A q \in Process \ {p} : [f EXCEPT ![p] = l][q] = f[q]
  BY <1>1
<1>3. QED
  BY <1>1, <1>2 DEF Grown, l

LEMMA Tailed ==
  ASSUME NEW S, NEW f \in [Process -> Seq(S)], NEW p \in Process, f[p] # <<>>
  PROVE  Shrunk(S, f, [f EXCEPT ![p] = Tail(@)], p, Head(f[p]))
<1> DEFINE l == Tail(f[p])
<1>1. l \in Seq(S) /\ Head(f[p]) \in S /\ Elements(f[p]) = {Head(f[p])} \cup Elements(l)
  BY PopElements
<1> HIDE DEF l
<1>2. [f EXCEPT ![p] = l] \in [Process -> Seq(S)] /\ [f EXCEPT ![p] = l][p] = l
      /\ \A q \in Process \ {p} : [f EXCEPT ![p] = l][q] = f[q]
  BY <1>1
<1>3. QED
  BY <1>1, <1>2 DEF Shrunk, l

-----------------------------------------------------------------------------
(* What each step of a builder does.                                       *)

Outside == <<launch, m_Terminated, comm, checker>>

(* The variables of x alone change, among the locals of the builders. *)
OnlyLocals(x) ==
  /\ e' \in [Thread -> StackedPair]
  /\ t' \in [Thread -> Transition \cup {NoTransition}]
  /\ pos' \in [Thread -> Nat]
  /\ \A y \in Thread \ {x} : e'[y] = e[y] /\ t'[y] = t[y] /\ pos'[y] = pos[y]

(* The search for the aggregate of a node. *)
Missing(p, a) == \A n \in NodesOf(p) : Agg(p, n) # a

Wanders(x) ==
  /\ pc[x] \in BuilderLabel \ {"start", "done"}
  /\ AllIdle
  /\ UNCHANGED <<m_graph, queues, local>>

TakesWork(x) ==
  /\ pc[x] = "pop" /\ Moves(x, "fire") /\ x[1] \notin m_Terminated
  /\ Shrunk(StackedPair, m_common_stack, m_common_stack', x[1], e'[x])
  /\ OnlyLocals(x) /\ t'[x] = t[x] /\ pos'[x] = pos[x]
  /\ UNCHANGED <<m_graph, m_received_msg, m_tosend_msg>>

(* What fires a transition of the state of x. *)
Fires(x) ==
  /\ pc[x] = "fire" /\ x[1] \notin m_Terminated
  /\ e[x].state \in NodesOf(x[1]) /\ ~Virtual(x[1], e[x].state)
  /\ t'[x] \in e[x].fire /\ t'[x] \in FirableObs[Agg(x[1], e[x].state)]
  /\ e'[x].state = e[x].state /\ e'[x].fire = e[x].fire \ {t'[x]}
  /\ OnlyLocals(x)
  /\ UNCHANGED queues

Target(x) == Successor[<<Agg(x[1], e[x].state), t'[x]>>]

FiresKnown(x) ==
  /\ Fires(x) /\ Moves(x, "fire") /\ pos'[x] = pos[x]
  /\ \E n \in NodesOf(x[1]) :
       /\ Agg(x[1], n) = Target(x)
       /\ Edits(x[1], {}, {}, e[x].state, {[to |-> n, t |-> t'[x]]})

FiresNew(x) ==
  /\ Fires(x)
  /\ Moves(x, IF destination[Target(x)] = x[1] THEN "setProcess" ELSE "link")
  /\ Target(x) \in Aggregate /\ Missing(x[1], Target(x))
  /\ \E nd \in GraphNode : AddsNode(x[1], pos'[x], nd, Target(x))

(* A new state of this process is queued. *)
Queues(x) ==
  /\ pos[x] \in NodesOf(x[1]) /\ ~Virtual(x[1], pos[x])
  /\ Grown(StackedPair, m_common_stack, m_common_stack', x[1],
           Pair(pos[x], FirableObs[Agg(x[1], pos[x])]))
  /\ UNCHANGED <<m_received_msg, m_tosend_msg, local>>

(* One of the assignments. *)
Assigns(x) ==
  /\ pos[x] \in NodesOf(x[1]) /\ ~Virtual(x[1], pos[x])
  /\ \E label \in BuilderLabel :
       /\ \/ pc[x] \in NewLabel /\ label \in NewLabel \cup {"assign"}
          \/ pc[x] \in ReceivedLabel /\ label \in ReceivedLabel \cup {"store"}
       /\ Moves(x, label)
       /\ StageOK(label, x[1], m_graph'[x[1]][pos[x]])
  /\ Edits(x[1], {pos[x]}, {}, pos[x], {})
  /\ UNCHANGED <<queues, local>>

(* The edge to a new state. *)
AddsEdge(x) ==
  /\ e[x].state \in NodesOf(x[1]) /\ ~Virtual(x[1], e[x].state)
  /\ pos[x] \in NodesOf(x[1]) /\ t[x] \in FirableObs[Agg(x[1], e[x].state)]
  /\ Agg(x[1], pos[x]) = Successor[<<Agg(x[1], e[x].state), t[x]>>]
  /\ Edits(x[1], {}, {}, e[x].state, {[to |-> pos[x], t |-> t[x]]})

QueuesNew(x) ==
  /\ pc[x] = "assign" /\ Moves(x, "fire") /\ Queues(x) /\ AddsEdge(x)

SendsLink(x) ==
  /\ pc[x] = "link" /\ Moves(x, "fire") /\ AddsEdge(x)
  /\ Virtual(x[1], pos[x])
  /\ Grown(Aggregate, m_tosend_msg, m_tosend_msg', x[1], Agg(x[1], pos[x]))
  /\ UNCHANGED <<m_common_stack, m_received_msg, local>>

Completes(x) ==
  /\ pc[x] = "fire" /\ Moves(x, "receive")
  /\ e[x].fire = {} \/ x[1] \in m_Terminated
  /\ e[x].state \in NodesOf(x[1]) /\ ~Virtual(x[1], e[x].state)
  /\ Edits(x[1], {}, {e[x].state}, e[x].state, {})
  /\ UNCHANGED <<queues, local>>

ReceivesKnown(x) ==
  /\ pc[x] = "receive" /\ Moves(x, "loop")
  /\ \E n \in NodesOf(x[1]) :
       Shrunk(Aggregate, m_received_msg, m_received_msg', x[1], Agg(x[1], n))
  /\ UNCHANGED <<m_graph, m_common_stack, m_tosend_msg, local>>

ReceivesNew(x) ==
  /\ pc[x] = "receive" /\ Moves(x, "storeDiv")
  /\ \E a \in Aggregate : \E nd \in GraphNode :
       /\ Shrunk(Aggregate, m_received_msg, m_received_msg', x[1], a)
       /\ destination[a] = x[1] /\ Missing(x[1], a)
       /\ AddsNode(x[1], pos'[x], nd, a)
  /\ OnlyLocals(x) /\ UNCHANGED <<m_common_stack, m_tosend_msg, e, t>>

QueuesReceived(x) ==
  /\ pc[x] = "store" /\ Moves(x, "loop") /\ Queues(x)
  /\ UNCHANGED m_graph

BuilderCases(x) ==
  \/ Wanders(x) \/ TakesWork(x) \/ FiresKnown(x) \/ FiresNew(x) \/ Assigns(x) \/ QueuesNew(x)
  \/ SendsLink(x) \/ Completes(x) \/ ReceivesKnown(x) \/ ReceivesNew(x) \/ QueuesReceived(x)

LEMMA WanderSteps ==
  ASSUME TypeInv, NEW x \in Thread,
         \/ Loop(x) \/ Sleep(x) \/ SpuriousWakeUp(x)
         \/ Pop(x) /\ ~(x[1] \notin m_Terminated /\ m_common_stack[x[1]] # <<>>)
         \/ Receive(x) /\ m_received_msg[x[1]] = <<>>
  PROVE  Wanders(x) /\ UNCHANGED Outside
<1> USE DEF Outside, local, queues
<1>1. CoreOK /\ LaunchOK /\ LabelsOK
  BY DEF TypeInv
<1>2. ASSUME NEW label \in Neutral \ {"start"}, Goto(x, label),
             pc[x] \in (BuilderLabel \cap Neutral) \ {"start", "done"},
             UNCHANGED <<m_graph, queues, local, Outside>>
      PROVE  Wanders(x) /\ UNCHANGED Outside
  <2>1. x[2] # 0
    BY <1>1, <1>2, BuilderProperties
  <2>2. Moves(x, label)
    BY <1>1, <1>2, GotoMoves DEF Neutral, BuilderLabel
  <2>3. QED
    BY <1>2, <2>1, <2>2 DEF Wanders, AllIdle, Moves, Idles
<1> USE DEF Neutral, BuilderLabel
<1>3. CASE Loop(x)
  <2>1. \E label \in {"done", "pop", "sleep"} : Goto(x, label)
    BY <1>3 DEF Loop
  <2>2. QED
    BY <1>2, <1>3, <2>1 DEF Loop
<1>4. CASE Sleep(x)
  BY <1>2, <1>4 DEF Sleep
<1>5. CASE SpuriousWakeUp(x)
  BY <1>2, <1>5 DEF SpuriousWakeUp
<1>6. CASE Pop(x) /\ ~(x[1] \notin m_Terminated /\ m_common_stack[x[1]] # <<>>)
  <2>1. \E label \in {"loop", "receive"} : Goto(x, label)
    BY <1>6 DEF Pop
  <2>2. QED
    BY <1>2, <1>6, <2>1 DEF Pop
<1>7. CASE Receive(x) /\ m_received_msg[x[1]] = <<>>
  BY <1>2, <1>7 DEF Receive
<1>8. QED
  BY <1>3, <1>4, <1>5, <1>6, <1>7

LEMMA TakeStep ==
  ASSUME TypeInv, NEW x \in Thread, Pop(x), x[1] \notin m_Terminated, m_common_stack[x[1]] # <<>>
  PROVE  TakesWork(x) /\ UNCHANGED Outside
<1> DEFINE p == x[1]
<1>1. CoreOK /\ p \in Process
  BY ThreadProperties DEF TypeInv
<1>2. /\ pc[x] = "pop" /\ Goto(x, "fire")
      /\ e' = [e EXCEPT ![x] = Head(m_common_stack[p])]
      /\ m_common_stack' = [m_common_stack EXCEPT ![p] = Tail(@)]
      /\ UNCHANGED <<m_graph, m_received_msg, m_tosend_msg, t, pos, Outside>>
  BY DEF Pop, Outside
<1>3. Moves(x, "fire")
  BY <1>1, <1>2, GotoMoves DEF BuilderLabel, Expanding
<1>4. m_common_stack \in [Process -> Seq(StackedPair)] /\ e \in [Thread -> StackedPair]
  BY <1>1 DEF CoreOK
<1>5. Shrunk(StackedPair, m_common_stack, m_common_stack', p, Head(m_common_stack[p]))
  BY <1>1, <1>2, <1>4, Tailed
<1>6. Head(m_common_stack[p]) \in StackedPair
  BY <1>5 DEF Shrunk
<1>7. e'[x] = Head(m_common_stack[p]) /\ e' \in [Thread -> StackedPair]
      /\ \A y \in Thread \ {x} : e'[y] = e[y]
  BY <1>2, <1>4, <1>6
<1>8. OnlyLocals(x)
  BY <1>1, <1>2, <1>7 DEF OnlyLocals, CoreOK
<1>9. QED
  BY <1>2, <1>3, <1>5, <1>7, <1>8 DEF TakesWork

(* The two searches find the node of an aggregate where it may be. *)
LEMMA SearchMeaning ==
  ASSUME LaunchOK, NodesOK, NEW p \in Process, NEW a \in Aggregate
  PROVE  LET found == IF destination[a] = p THEN insertFindByMDD(p, a) ELSE insertFindSha(p, a)
         IN  \A n : n \in found <=> n \in NodesOf(p) /\ Agg(p, n) = a
<1>1. \A n \in NodesOf(p) : NodeOK(p, m_graph[p][n])
  BY DEF NodesOK
<1>2. CASE destination[a] = p
  BY <1>2 DEF insertFindByMDD, StatesOf, NodesOf, Agg
<1>3. CASE destination[a] # p
  BY <1>1, <1>3 DEF insertFindSha, NodesOf, Agg, NodeOK
<1>4. QED
  BY <1>2, <1>3

LEMMA ExpandedState ==
  ASSUME TypeInv, NEW x \in Thread, pc[x] \in Expanding
  PROVE  /\ e[x].state \in NodesOf(x[1]) /\ ~Virtual(x[1], e[x].state)
         /\ e[x].fire \subseteq FirableObs[Agg(x[1], e[x].state)]
         /\ Agg(x[1], e[x].state) \in Aggregate
         /\ \A u \in FirableObs[Agg(x[1], e[x].state)] :
              u \in Transition /\ Successor[<<Agg(x[1], e[x].state), u>>] \in Aggregate
<1>1. CoreOK /\ ThreadOK(x) /\ x[1] \in Process
  BY ThreadProperties DEF TypeInv, ThreadsOK
<1>2. /\ e[x].state \in NodesOf(x[1]) /\ ~Virtual(x[1], e[x].state)
      /\ e[x].fire \subseteq FirableObs[Agg(x[1], e[x].state)]
  BY <1>1 DEF ThreadOK
<1>3. Agg(x[1], e[x].state) \in Aggregate
  BY <1>1, <1>2, NodesDomain
<1>4. QED
  BY <1>2, <1>3, FirableProperties

LEMMA FireStep ==
  ASSUME TypeInv, NEW x \in Thread, Fire(x)
  PROVE  (FiresKnown(x) \/ FiresNew(x)) /\ UNCHANGED Outside
<1> DEFINE p == x[1]
<1> DEFINE i == e[x].state
<1>1. CoreOK /\ LaunchOK /\ NodesOK /\ p \in Process /\ pc[x] = "fire"
  <2>1. CoreOK /\ LaunchOK /\ NodesOK /\ p \in Process
    BY ThreadProperties, Zenon DEF TypeInv
  <2>2. pc[x] = "fire"
    BY Zenon DEF Fire
  <2>3. QED
    BY <2>1, <2>2
<1>2. /\ i \in NodesOf(p) /\ ~Virtual(p, i)
      /\ e[x].fire \subseteq FirableObs[Agg(p, i)]
      /\ \A u \in FirableObs[Agg(p, i)] :
           u \in Transition /\ Successor[<<Agg(p, i), u>>] \in Aggregate
  <2>1. pc[x] \in Expanding
    BY <1>1 DEF Expanding
  <2>2. QED
    BY <2>1, ExpandedState, Zenon
<1>3. PICK u \in e[x].fire :
        LET a == Successor[<<Agg(p, i), u>>]
            here == destination[a] = p
            found == IF here THEN insertFindByMDD(p, a) ELSE insertFindSha(p, a)
        IN  /\ e' = [e EXCEPT ![x].fire = @ \ {u}]
            /\ t' = [t EXCEPT ![x] = u]
            /\ \/ \E n \in found :
                    /\ m_graph' = [m_graph EXCEPT ![p] = AddSuccessor(@, i, n, u)]
                    /\ UNCHANGED <<pos, pc>>
               \/ /\ found = {}
                  /\ \E n \in {VirtualNode(a, destination[a])} \cup {Node(a, g) : g \in Garbage} :
                       n.m_virtual = ~here /\ m_graph' = [m_graph EXCEPT ![p] = insert(@, n)]
                  /\ pos' = [pos EXCEPT ![x] = Len(m_graph[p]) + 1]
                  /\ Goto(x, IF here THEN "setProcess" ELSE "link")
  BY Zenon DEF Fire, Agg
<1> DEFINE a == Successor[<<Agg(p, i), u>>]
<1> DEFINE here == destination[a] = p
<1> DEFINE found == IF here THEN insertFindByMDD(p, a) ELSE insertFindSha(p, a)
<1>4. u \in Transition /\ u \in FirableObs[Agg(p, i)] /\ a \in Aggregate
  BY <1>2
<1>5. \A n : n \in found <=> n \in NodesOf(p) /\ Agg(p, n) = a
  BY <1>1, <1>4, SearchMeaning
<1>6. e \in [Thread -> StackedPair] /\ t \in [Thread -> Transition \cup {NoTransition}]
      /\ pos \in [Thread -> Nat]
  BY <1>1 DEF CoreOK
<1>7. /\ e' \in [Thread -> StackedPair] /\ t' \in [Thread -> Transition \cup {NoTransition}]
      /\ t'[x] = u /\ e'[x].state = i /\ e'[x].fire = e[x].fire \ {u}
      /\ \A y \in Thread \ {x} : e'[y] = e[y] /\ t'[y] = t[y]
  <2>1. e[x] \in StackedPair
    BY <1>6
  <2>2. [e[x] EXCEPT !.fire = @ \ {u}] \in StackedPair
    BY <2>1 DEF StackedPair
  <2>3. e' = [e EXCEPT ![x] = [e[x] EXCEPT !.fire = @ \ {u}]] /\ t' = [t EXCEPT ![x] = u]
    BY <1>3
  <2>4. /\ e' \in [Thread -> StackedPair] /\ e'[x] = [e[x] EXCEPT !.fire = @ \ {u}]
        /\ \A y \in Thread \ {x} : e'[y] = e[y]
    BY <1>6, <2>2, <2>3
  <2>5. /\ t' \in [Thread -> Transition \cup {NoTransition}] /\ t'[x] = u
        /\ \A y \in Thread \ {x} : t'[y] = t[y]
    BY <1>4, <1>6, <2>3
  <2>6. [e[x] EXCEPT !.fire = @ \ {u}].state = i /\ [e[x] EXCEPT !.fire = @ \ {u}].fire = e[x].fire \ {u}
    BY <2>1 DEF StackedPair
  <2>7. QED
    BY <2>4, <2>5, <2>6
<1>8. Target(x) = a
  BY <1>7, Zenon DEF Target
<1>9. UNCHANGED <<queues, Outside>> /\ p \notin m_Terminated
  BY DEF Fire, Outside
<1>10. ASSUME OnlyLocals(x)
       PROVE  Fires(x)
  BY <1>1, <1>2, <1>4, <1>7, <1>9, <1>10 DEF Fires
<1>11. ASSUME NEW n \in found, m_graph' = [m_graph EXCEPT ![p] = AddSuccessor(@, i, n, u)],
              UNCHANGED <<pos, pc>>
       PROVE  FiresKnown(x)
  <2>1. n \in NodesOf(p) /\ Agg(p, n) = a /\ n \in Nat
    BY <1>1, <1>5, <1>11, NodesDomain
  <2>2. m_graph[p] \in Seq(GraphNode) /\ i \in DOMAIN m_graph[p]
    BY <1>1, <1>2 DEF CoreOK, NodesOf
  <2>3. EditsGraph(p, m_graph[p], AddSuccessor(m_graph[p], i, n, u), {}, {}, i,
                   {[to |-> n, t |-> u]})
    BY <1>4, <2>1, <2>2, EdgeEdits
  <2>4. Edits(p, {}, {}, i, {[to |-> n, t |-> u]})
    BY <1>1, <1>11, <2>3, GraphEdits
  <2>5. Moves(x, "fire")
    BY <1>1, <1>11 DEF Moves, Idles, CoreOK
  <2>6. OnlyLocals(x)
    BY <1>6, <1>7, <1>11 DEF OnlyLocals
  <2>7. Fires(x)
    BY <1>10, <2>6
  <2>8. QED
    BY <1>7, <1>8, <1>11, <2>1, <2>4, <2>5, <2>7 DEF FiresKnown
<1>12. ASSUME found = {},
              NEW nd \in {VirtualNode(a, destination[a])} \cup {Node(a, g) : g \in Garbage},
              nd.m_virtual = ~here, m_graph' = [m_graph EXCEPT ![p] = insert(@, nd)],
              pos' = [pos EXCEPT ![x] = Len(m_graph[p]) + 1],
              Goto(x, IF here THEN "setProcess" ELSE "link")
       PROVE  FiresNew(x)
  <2>1. Missing(p, a)
    BY <1>5, <1>12 DEF Missing
  <2>2. /\ nd \in GraphNode
        /\ nd.m_lddstate = a /\ Links(nd) = {} /\ ~nd.m_completed /\ NodeOK(p, nd)
    <3> DEFINE virtual == VirtualNode(a, destination[a])
    <3>1. ASSUME NEW g \in Garbage, nd = virtual \/ nd = Node(a, g)
          PROVE  /\ nd \in GraphNode
                 /\ nd.m_lddstate = a /\ Links(nd) = {} /\ ~nd.m_completed /\ NodeOK(p, nd)
      <4> DEFINE new == Node(a, g)
      <4>1. /\ new \in GraphNode /\ virtual \in GraphNode
            /\ new.m_lddstate = a /\ Links(new) = {} /\ ~new.m_completed /\ ~new.m_virtual
            /\ virtual.m_lddstate = a /\ Links(virtual) = {} /\ ~virtual.m_completed
            /\ virtual.m_virtual
            /\ here => NodeOK(p, new)
            /\ ~here => NodeOK(p, virtual)
        BY <1>1, <1>4, NewNodes
      <4> HIDE DEF here, virtual, new
      <4>2. QED
        BY <1>12, <3>1, <4>1 DEF new
    <3>2. nd = virtual \/ \E g \in Garbage : nd = Node(a, g)
      BY <1>12
    <3> HIDE DEF virtual
    <3>3. SomeGarbage \in Garbage
      BY BytesAre
    <3>4. QED
      BY <3>1, <3>2, <3>3
  <2>4. AddsNode(p, Len(m_graph[p]) + 1, nd, a)
    BY <1>1, <1>12, <2>2, InsertAdds
  <2>5. Len(m_graph[p]) + 1 \in Nat
    BY <2>4 DEF AddsNode
  <2>6. pos'[x] = Len(m_graph[p]) + 1 /\ OnlyLocals(x)
    BY <1>6, <1>7, <1>12, <2>5 DEF OnlyLocals
  <2>7. Moves(x, IF here THEN "setProcess" ELSE "link")
    <3>1. (IF here THEN "setProcess" ELSE "link") \in CommLabel \cup BuilderLabel
      BY DEF BuilderLabel, Expanding, Linking, NewLabel
    <3>2. QED
      BY <1>1, <1>12, <3>1, GotoMoves, Zenon
  <2>8. Fires(x)
    BY <1>10, <2>6
  <2>9. QED
    BY <1>4, <1>8, <2>1, <2>2, <2>4, <2>6, <2>7, <2>8 DEF FiresNew
<1>13. QED
  BY <1>3, <1>9, <1>11, <1>12

LEMMA QueueEffect ==
  ASSUME LaunchOK, CoreOK, NEW x \in Thread, x[1] \in Process, pc[x] # "waiting",
         NEW label \in BuilderLabel, Queue(x, [pc EXCEPT ![x] = label]),
         pos[x] \in NodesOf(x[1]), ~Virtual(x[1], pos[x]),
         UNCHANGED <<m_received_msg, m_tosend_msg, local>>
  PROVE  Moves(x, label) /\ Queues(x)
<1> DEFINE p == x[1]
<1>1. Agg(p, pos[x]) \in Aggregate /\ pos[x] \in Nat
  BY NodesDomain
<1> DEFINE z == Pair(pos[x], FirableObs[Agg(p, pos[x])])
<1>2. z \in StackedPair
  BY <1>1, SOGAssumption DEF Pair, StackedPair
<1>3. m_common_stack' = [m_common_stack EXCEPT ![p] = Append(@, z)]
  BY DEF Queue, Inserted, Agg
<1>4. m_common_stack \in [Process -> Seq(StackedPair)]
  BY DEF CoreOK
<1> HIDE DEF z
<1>5. Grown(StackedPair, m_common_stack, m_common_stack', p, z)
  BY <1>2, <1>3, <1>4, Appended
<1>6. pc' \in NotifyOne(p, [pc EXCEPT ![x] = label])
  BY DEF Queue
<1>7. Moves(x, label)
  BY <1>6, NotifyMoves
<1>8. QED
  BY <1>5, <1>7 DEF Queues, z

LEMMA HeldState ==
  ASSUME TypeInv, NEW x \in Thread, pc[x] \in Linking \cup Storing
  PROVE  /\ CoreOK /\ LaunchOK /\ x[1] \in Process /\ m_graph[x[1]] \in Seq(GraphNode)
         /\ pos[x] \in NodesOf(x[1]) /\ pos[x] \in Nat
         /\ Virtual(x[1], pos[x]) <=> pc[x] = "link"
         /\ Inserted(x) \in GraphNode /\ NodeOK(x[1], Inserted(x))
         /\ Inserted(x).m_lddstate = Agg(x[1], pos[x]) /\ Inserted(x).m_virtual = Virtual(x[1], pos[x])
<1>1. CoreOK /\ LaunchOK /\ ThreadOK(x) /\ x[1] \in Process
  BY ThreadProperties DEF TypeInv, ThreadsOK
<1>2. pos[x] \in NodesOf(x[1]) /\ (Virtual(x[1], pos[x]) <=> pc[x] = "link")
  <2>1. "link" \notin Storing
    BY DEF Storing, ReceivedLabel
  <2>2. QED
    BY <1>1, <2>1 DEF ThreadOK
<1>3. NodeOK(x[1], m_graph[x[1]][pos[x]])
  BY <1>1, <1>2 DEF TypeInv, NodesOK
<1>4. QED
  BY <1>1, <1>2, <1>3, NodesDomain DEF CoreOK, Inserted, Agg, Virtual

(* Any of the assignments. *)
LEMMA AssignEffect ==
  ASSUME TypeInv, NEW x \in Thread, NEW from \in Assigning, NEW label \in BuilderLabel, NEW nd,
         Assign(x, from, label, nd), nd \in GraphNode, KeepsPlace(Inserted(x), nd),
         Improves(x[1], Inserted(x), nd), StageOK(label, x[1], nd),
         \/ pc[x] \in NewLabel /\ label \in NewLabel \cup {"assign"}
         \/ pc[x] \in ReceivedLabel /\ label \in ReceivedLabel \cup {"store"}
  PROVE  Assigns(x) /\ UNCHANGED Outside
<1> DEFINE p == x[1]
<1> DEFINE h == [m_graph[p] EXCEPT ![pos[x]] = nd]
<1>1. /\ pc[x] = from /\ Goto(x, label)
      /\ m_graph' = [m_graph EXCEPT ![p] = h]
      /\ UNCHANGED <<queues, local, Outside>>
  BY DEF Assign, Outside
<1>2. pc[x] \in Linking \cup Storing /\ pc[x] # "link"
  BY <1>1 DEF Assigning, Linking, Storing, NewLabel, ReceivedLabel
<1>3. /\ CoreOK /\ p \in Process /\ m_graph[p] \in Seq(GraphNode)
      /\ pos[x] \in NodesOf(p) /\ ~Virtual(p, pos[x])
  BY <1>2, HeldState
<1>4. EditsGraph(p, m_graph[p], h, {pos[x]}, {}, pos[x], {}) /\ h[pos[x]] = nd
  BY <1>3, NodeEdits DEF NodesOf, Inserted
<1> HIDE DEF h
<1>5. Edits(p, {pos[x]}, {}, pos[x], {})
  BY <1>1, <1>3, <1>4, GraphEdits
<1>6. m_graph'[p][pos[x]] = nd
  BY <1>1, <1>3, <1>4 DEF CoreOK
<1>7. Moves(x, label)
  BY <1>1, <1>3, GotoMoves
<1>8. QED
  BY <1>1, <1>3, <1>5, <1>6, <1>7 DEF Assigns

LEMMA AssignSteps ==
  ASSUME TypeInv, NEW x \in Thread, AssignNew(x) \/ AssignReceived(x)
  PROVE  Assigns(x) /\ UNCHANGED Outside
<1> DEFINE p == x[1]
<1> DEFINE nd == Inserted(x)
<1>1. pc[x] \in Assigning
  BY DEF AssignNew, AssignReceived, SetProcess, SetDiv, SetDeadLock, SetSHA2, Assign, Assigning, NewLabel,
         ReceivedLabel
<1>2. pc[x] \in Linking \cup Storing /\ pc[x] # "link"
  BY <1>1 DEF Assigning, Linking, Storing, NewLabel, ReceivedLabel
<1>3. p \in Process /\ nd \in GraphNode /\ NodeOK(p, nd) /\ ~nd.m_virtual
  BY <1>2, HeldState
<1>4. StageOK(pc[x], p, nd)
  BY <1>1 DEF TypeInv, ThreadsOK, ThreadOK
<1> HIDE DEF nd
<1> USE DEF Assigning, BuilderLabel, Expanding, Linking, Storing, NewLabel, ReceivedLabel
<1>5. ASSUME NEW from \in Assigning, NEW label \in BuilderLabel, SetProcess(x, from, label),
             \/ from = "setProcess" /\ label = "setDiv"
             \/ from = "storeProcess" /\ label = "storeSHA2"
      PROVE  Assigns(x) /\ UNCHANGED Outside
  <2> DEFINE md == [nd EXCEPT !.m_process = p]
  <2>1. /\ md \in GraphNode /\ KeepsPlace(nd, md) /\ Improves(p, nd, md) /\ md.m_process = p
        /\ md.m_boucle = nd.m_boucle /\ md.m_blocage = nd.m_blocage
    BY <1>3, ProcessAssigned
  <2>2. Assign(x, from, label, md) /\ pc[x] = from
    BY <1>5 DEF SetProcess, Assign, nd
  <2> HIDE DEF md
  <2>3. StageOK(label, p, md)
    BY <1>4, <1>5, <2>1, <2>2 DEF StageOK, KeepsPlace
  <2>4. QED
    BY <1>5, <2>1, <2>2, <2>3, AssignEffect DEF nd
<1>6. ASSUME NEW from \in Assigning, NEW label \in BuilderLabel, SetDiv(x, from, label),
             \/ from = "setDiv" /\ label = "setDeadLock"
             \/ from = "storeDiv" /\ label = "storeDeadLock"
      PROVE  Assigns(x) /\ UNCHANGED Outside
  <2> DEFINE md == [nd EXCEPT !.m_boucle = nd.m_lddstate \in Divergent]
  <2>1. /\ md \in GraphNode /\ KeepsPlace(nd, md) /\ Improves(p, nd, md)
        /\ md.m_boucle = (md.m_lddstate \in Divergent)
        /\ md.m_process = nd.m_process /\ md.m_blocage = nd.m_blocage
    BY <1>3, DivAssigned
  <2>2. Assign(x, from, label, md) /\ pc[x] = from
    BY <1>5, <1>6 DEF SetDiv, Assign, nd
  <2> HIDE DEF md
  <2>3. StageOK(label, p, md)
    BY <1>4, <1>6, <2>1, <2>2 DEF StageOK, KeepsPlace
  <2>4. QED
    BY <1>6, <2>1, <2>2, <2>3, AssignEffect DEF nd
<1>7. ASSUME NEW from \in Assigning, NEW label \in BuilderLabel, SetDeadLock(x, from, label),
             \/ from = "setDeadLock" /\ label = "setSHA2"
             \/ from = "storeDeadLock" /\ label = "storeProcess"
      PROVE  Assigns(x) /\ UNCHANGED Outside
  <2> DEFINE md == [nd EXCEPT !.m_blocage = nd.m_lddstate \in Deadlocked]
  <2>1. /\ md \in GraphNode /\ KeepsPlace(nd, md) /\ Improves(p, nd, md)
        /\ md.m_blocage = (md.m_lddstate \in Deadlocked)
        /\ md.m_process = nd.m_process /\ md.m_boucle = nd.m_boucle
    BY <1>3, DeadLockAssigned
  <2>2. Assign(x, from, label, md) /\ pc[x] = from
    BY <1>7 DEF SetDeadLock, Assign, nd
  <2> HIDE DEF md
  <2>3. StageOK(label, p, md)
    BY <1>4, <1>7, <2>1, <2>2 DEF StageOK, KeepsPlace
  <2>4. QED
    BY <1>7, <2>1, <2>2, <2>3, AssignEffect DEF nd
<1>8. ASSUME NEW from \in Assigning, NEW label \in BuilderLabel, SetSHA2(x, from, label),
             \/ from = "setSHA2" /\ label = "assign"
             \/ from = "storeSHA2" /\ label = "store"
      PROVE  Assigns(x) /\ UNCHANGED Outside
  <2> DEFINE md == [nd EXCEPT !.m_SHA2 = nd.m_lddstate]
  <2>1. Assign(x, from, label, md) /\ pc[x] = from
    BY <1>8 DEF SetSHA2, Assign, nd
  <2>2. /\ nd.m_process = p /\ nd.m_boucle = (nd.m_lddstate \in Divergent)
        /\ nd.m_blocage = (nd.m_lddstate \in Deadlocked)
    BY <1>4, <1>8, <2>1 DEF StageOK
  <2>3. md \in GraphNode /\ KeepsPlace(nd, md) /\ Improves(p, nd, md)
    BY <1>3, <2>2, SHA2Assigned
  <2> HIDE DEF md
  <2>4. StageOK(label, p, md)
    BY <1>8 DEF StageOK
  <2>5. QED
    BY <1>8, <2>1, <2>3, <2>4, AssignEffect DEF nd
<1>9. CASE AssignNew(x)
  BY <1>5, <1>6, <1>7, <1>8, <1>9 DEF AssignNew
<1>10. CASE AssignReceived(x)
  BY <1>5, <1>6, <1>7, <1>8, <1>10 DEF AssignReceived
<1>11. QED
  BY <1>9, <1>10

LEMMA QueueNewStep ==
  ASSUME TypeInv, NEW x \in Thread, QueueNew(x)
  PROVE  QueuesNew(x) /\ UNCHANGED Outside
<1> USE DEF Outside
<1> DEFINE p == x[1]
<1> DEFINE i == e[x].state
<1> DEFINE L == {[to |-> pos[x], t |-> t[x]]}
<1>1. /\ pc[x] = "assign" /\ Queue(x, [pc EXCEPT ![x] = "fire"])
      /\ m_graph' = [m_graph EXCEPT ![p] = AddSuccessor(@, i, pos[x], t[x])]
      /\ UNCHANGED <<m_received_msg, m_tosend_msg, local, Outside>>
  BY DEF QueueNew
<1>2. pc[x] \in Linking /\ pc[x] \in Expanding /\ "fire" \in BuilderLabel
  BY <1>1 DEF Linking, Expanding, BuilderLabel
<1>3. /\ CoreOK /\ LaunchOK /\ p \in Process /\ m_graph[p] \in Seq(GraphNode)
      /\ pos[x] \in NodesOf(p) /\ pos[x] \in Nat /\ ~Virtual(p, pos[x])
  BY <1>1, <1>2, HeldState
<1>4. /\ i \in NodesOf(p) /\ ~Virtual(p, i)
      /\ \A u \in FirableObs[Agg(p, i)] : u \in Transition
  BY <1>2, ExpandedState
<1>5. t[x] \in FirableObs[Agg(p, i)] /\ Agg(p, pos[x]) = Successor[<<Agg(p, i), t[x]>>]
  BY <1>2 DEF TypeInv, ThreadsOK, ThreadOK
<1>6. t[x] \in Transition
  BY <1>4, <1>5
<1>7. Moves(x, "fire") /\ Queues(x)
  BY <1>1, <1>2, <1>3, QueueEffect
<1>8. EditsGraph(p, m_graph[p], AddSuccessor(m_graph[p], i, pos[x], t[x]), {}, {}, i, L)
  BY <1>3, <1>4, <1>6, EdgeEdits DEF NodesOf
<1>9. Edits(p, {}, {}, i, L)
  BY <1>1, <1>3, <1>8, GraphEdits
<1>10. QED
  BY <1>1, <1>3, <1>4, <1>5, <1>7, <1>9 DEF QueuesNew, AddsEdge

LEMMA LinkStep ==
  ASSUME TypeInv, NEW x \in Thread, Link(x)
  PROVE  SendsLink(x) /\ UNCHANGED Outside
<1> USE DEF Outside
<1> DEFINE p == x[1]
<1> DEFINE i == e[x].state
<1> DEFINE L == {[to |-> pos[x], t |-> t[x]]}
<1>1. /\ pc[x] = "link" /\ Goto(x, "fire")
      /\ m_graph' = [m_graph EXCEPT ![p] = AddSuccessor(@, i, pos[x], t[x])]
      /\ m_tosend_msg' = [m_tosend_msg EXCEPT ![p] = Append(@, Agg(p, pos[x]))]
      /\ UNCHANGED <<m_common_stack, m_received_msg, local, Outside>>
  BY DEF Link, Agg
<1>2. /\ CoreOK /\ LaunchOK /\ p \in Process /\ m_graph[p] \in Seq(GraphNode)
      /\ pos[x] \in NodesOf(p) /\ pos[x] \in Nat /\ Virtual(p, pos[x])
  BY <1>1, HeldState DEF Linking
<1>3. /\ i \in NodesOf(p) /\ ~Virtual(p, i)
      /\ \A u \in FirableObs[Agg(p, i)] : u \in Transition
  BY <1>1, ExpandedState DEF Expanding, Linking
<1>4. t[x] \in FirableObs[Agg(p, i)] /\ Agg(p, pos[x]) = Successor[<<Agg(p, i), t[x]>>]
  BY <1>1 DEF TypeInv, ThreadsOK, ThreadOK, Linking
<1>5. t[x] \in Transition
  BY <1>3, <1>4
<1>6. Moves(x, "fire")
  BY <1>1, <1>2, GotoMoves DEF BuilderLabel, Expanding
<1>7. EditsGraph(p, m_graph[p], AddSuccessor(m_graph[p], i, pos[x], t[x]), {}, {}, i, L)
  BY <1>2, <1>3, <1>5, EdgeEdits DEF NodesOf
<1>8. Edits(p, {}, {}, i, L)
  BY <1>1, <1>2, <1>7, GraphEdits
<1>9. Agg(p, pos[x]) \in Aggregate /\ m_tosend_msg \in [Process -> Seq(Aggregate)]
  BY <1>2, NodesDomain DEF CoreOK
<1>10. Grown(Aggregate, m_tosend_msg, m_tosend_msg', p, Agg(p, pos[x]))
  BY <1>1, <1>2, <1>9, Appended
<1>11. QED
  BY <1>1, <1>2, <1>3, <1>4, <1>6, <1>8, <1>10 DEF SendsLink, AddsEdge

LEMMA CompleteStep ==
  ASSUME TypeInv, NEW x \in Thread, Complete(x)
  PROVE  Completes(x) /\ UNCHANGED Outside
<1> USE DEF Outside
<1> DEFINE p == x[1]
<1> DEFINE i == e[x].state
<1>1. /\ pc[x] = "fire" /\ Goto(x, "receive")
      /\ e[x].fire = {} \/ p \in m_Terminated
      /\ m_graph' = [m_graph EXCEPT ![p][i].m_completed = TRUE]
      /\ UNCHANGED <<queues, local, Outside>>
  BY DEF Complete
<1>2. CoreOK /\ p \in Process /\ m_graph[p] \in Seq(GraphNode)
  BY ThreadProperties DEF TypeInv, CoreOK
<1>3. i \in NodesOf(p) /\ ~Virtual(p, i)
  BY <1>1, ExpandedState DEF Expanding
<1>4. Moves(x, "receive")
  BY <1>1, <1>2, GotoMoves DEF BuilderLabel, Neutral
<1> DEFINE h == [m_graph[p] EXCEPT ![i].m_completed = TRUE]
<1>5. EditsGraph(p, m_graph[p], h, {}, {i}, i, {})
  BY <1>2, <1>3, CompleteEdits DEF NodesOf
<1>6. m_graph' = [m_graph EXCEPT ![p] = h]
  BY <1>1
<1> HIDE DEF h
<1>7. Edits(p, {}, {i}, i, {})
  BY <1>2, <1>5, <1>6, GraphEdits
<1>8. QED
  BY <1>1, <1>3, <1>4, <1>7 DEF Completes

LEMMA ReceiveStep ==
  ASSUME TypeInv, NEW x \in Thread, Receive(x), m_received_msg[x[1]] # <<>>
  PROVE  (ReceivesKnown(x) \/ ReceivesNew(x)) /\ UNCHANGED Outside
<1> USE DEF Outside
<1> DEFINE p == x[1]
<1> DEFINE a == Head(m_received_msg[p])
<1>1. CoreOK /\ LaunchOK /\ NodesOK /\ MessagesOK /\ p \in Process
  BY ThreadProperties DEF TypeInv
<1>2. /\ pc[x] = "receive" /\ m_received_msg' = [m_received_msg EXCEPT ![p] = Tail(@)]
      /\ UNCHANGED <<m_common_stack, m_tosend_msg, e, t, Outside>>
  BY DEF Receive
<1>3. m_received_msg \in [Process -> Seq(Aggregate)]
  BY <1>1 DEF CoreOK
<1>4. Shrunk(Aggregate, m_received_msg, m_received_msg', p, a)
  BY <1>1, <1>2, <1>3, Tailed
<1>5. a \in Aggregate /\ destination[a] = p
  BY <1>1, <1>4 DEF Shrunk, MessagesOK
<1>6. CASE insertFindByMDD(p, a) # {} /\ Goto(x, "loop") /\ UNCHANGED <<m_graph, pos>>
  <2>1. PICK n \in NodesOf(p) : Agg(p, n) = a
    BY <1>6 DEF insertFindByMDD, StatesOf, NodesOf, Agg
  <2>2. Moves(x, "loop")
    BY <1>1, <1>6, GotoMoves DEF BuilderLabel, Neutral
  <2>3. QED
    BY <1>2, <1>4, <1>6, <2>1, <2>2 DEF ReceivesKnown, local
<1>7. CASE /\ insertFindByMDD(p, a) = {}
           /\ \E g \in Garbage : m_graph' = [m_graph EXCEPT ![p] = insert(@, Node(a, g))]
           /\ pos' = [pos EXCEPT ![x] = Len(m_graph[p]) + 1]
           /\ Goto(x, "storeDiv")
  <2>1. Missing(p, a)
    BY <1>7 DEF insertFindByMDD, StatesOf, NodesOf, Agg, Missing
  <2>2. PICK g \in Garbage : m_graph' = [m_graph EXCEPT ![p] = insert(@, Node(a, g))]
    BY <1>7
  <2> DEFINE nd == Node(a, g)
  <2>3. /\ nd \in GraphNode
        /\ nd.m_lddstate = a /\ Links(nd) = {} /\ ~nd.m_completed /\ NodeOK(p, nd)
    BY <1>1, <1>5, NewNodes
  <2> HIDE DEF nd
  <2>4. AddsNode(p, Len(m_graph[p]) + 1, nd, a)
    BY <1>1, <2>2, <2>3, InsertAdds DEF nd
  <2>5. Len(m_graph[p]) + 1 \in Nat
    BY <2>4 DEF AddsNode
  <2>6. pos \in [Thread -> Nat] /\ e \in [Thread -> StackedPair]
        /\ t \in [Thread -> Transition \cup {NoTransition}]
    BY <1>1 DEF CoreOK
  <2>7. pos'[x] = Len(m_graph[p]) + 1 /\ OnlyLocals(x)
    BY <1>2, <1>7, <2>5, <2>6 DEF OnlyLocals
  <2>8. Moves(x, "storeDiv")
    BY <1>1, <1>7, GotoMoves DEF BuilderLabel, Storing, ReceivedLabel
  <2>9. QED
    BY <1>2, <1>4, <1>5, <2>1, <2>4, <2>7, <2>8, <2>3 DEF ReceivesNew
<1>8. QED
  BY <1>2, <1>6, <1>7 DEF Receive

LEMMA QueueReceivedStep ==
  ASSUME TypeInv, NEW x \in Thread, QueueReceived(x)
  PROVE  QueuesReceived(x) /\ UNCHANGED Outside
<1>1. /\ pc[x] = "store" /\ Queue(x, [pc EXCEPT ![x] = "loop"])
      /\ UNCHANGED <<m_graph, m_received_msg, m_tosend_msg, local, Outside>>
  BY DEF QueueReceived, Outside
<1>2. pc[x] \in Storing /\ "loop" \in BuilderLabel
  BY <1>1 DEF Storing, BuilderLabel, Neutral
<1>3. /\ CoreOK /\ LaunchOK /\ x[1] \in Process
      /\ pos[x] \in NodesOf(x[1]) /\ ~Virtual(x[1], pos[x])
  BY <1>1, <1>2, HeldState
<1>4. Moves(x, "loop") /\ Queues(x)
  BY <1>1, <1>2, <1>3, QueueEffect
<1>5. QED
  BY <1>1, <1>4 DEF QueuesReceived

LEMMA BuilderSteps ==
  ASSUME TypeInv, NEW x \in Thread, BuilderStep(x) \/ SpuriousWakeUp(x)
  PROVE  BuilderCases(x) /\ UNCHANGED Outside
BY WanderSteps, TakeStep, FireStep, AssignSteps, QueueNewStep, LinkStep, CompleteStep, ReceiveStep,
   QueueReceivedStep
   DEF BuilderStep, BuilderCases

(* The start of a thread; that of thread 0 of process 0 brings the initial *)
(* aggregate.                                                              *)
Starts(x) ==
  /\ pc[x] = "start" /\ Moves(x, IF x[2] = 0 THEN "send" ELSE "loop")
  /\ \/ x # Comm(0) /\ UNCHANGED <<m_graph, queues>>
     \/ /\ x = Comm(0) /\ destination[InitialAggregate] = 0
        /\ \E nd \in GraphNode : nd.m_SHA2 = InitialAggregate /\ AddsNode(0, 1, nd, InitialAggregate)
        /\ Grown(StackedPair, m_common_stack, m_common_stack', 0,
                 Pair(1, FirableObs[InitialAggregate]))
        /\ UNCHANGED <<m_received_msg, m_tosend_msg>>
     \/ /\ x = Comm(0) /\ destination[InitialAggregate] # 0
        /\ \E nd \in GraphNode : nd.m_SHA2 = InitialAggregate /\ AddsNode(0, 1, nd, InitialAggregate)
        /\ Grown(Aggregate, m_tosend_msg, m_tosend_msg', 0, InitialAggregate)
        /\ UNCHANGED <<m_common_stack, m_received_msg>>
  /\ x = Comm(0) => /\ \A p \in Process : NothingIn(p)
                    /\ \A p, q \in Process : Travel(p, q) = {}
                    /\ m_nb_thread[0] > 0
  /\ UNCHANGED local

LEMMA StartStep ==
  ASSUME TypeInv, NEW x \in Thread, Start(x)
  PROVE  /\ Starts(x) /\ m_Terminated' \subseteq m_Terminated
         /\ UNCHANGED <<launch, comm, checker>>
<1> DEFINE a == InitialAggregate
<1> DEFINE f == [pc EXCEPT ![x] = IF x[2] = 0 THEN "send" ELSE "loop"]
<1>1. /\ CoreOK /\ LaunchOK /\ NodesOK /\ LabelsOK /\ StartOK
      /\ a \in Aggregate /\ 0 \in Process
  BY ProcessProperties, SOGAssumption DEF TypeInv
<1>2. (x = Comm(x[1]) <=> x[2] = 0) /\ x[1] \in Process /\ Comm(0)[1] = 0 /\ Comm(0)[2] = 0
  BY <1>1, ThreadProperties, CommProperties
<1>3. /\ pc[x] = "start" /\ m_Terminated' \subseteq m_Terminated
      /\ UNCHANGED <<launch, comm, local, checker>>
  BY DEF Start
<1>4. \/ x # Comm(0) /\ pc' = f /\ UNCHANGED <<m_graph, queues>>
      \/ /\ x = Comm(0) /\ destination[a] = 0
         /\ m_graph' = [m_graph EXCEPT ![0] = insert(@, Identified(a, 0))]
         /\ m_common_stack' = [m_common_stack EXCEPT ![0] = <<Pair(1, FirableObs[a])>>]
         /\ pc' \in NotifyOne(0, f)
         /\ UNCHANGED <<m_received_msg, m_tosend_msg>>
      \/ /\ x = Comm(0) /\ destination[a] # 0
         /\ m_graph' = [m_graph EXCEPT ![0] = insert(@, VirtualNode(a, destination[a]))]
         /\ m_tosend_msg' = [m_tosend_msg EXCEPT ![0] = <<a>>]
         /\ pc' = f
         /\ UNCHANGED <<m_common_stack, m_received_msg>>
  BY <1>2 DEF Start
<1>5. ASSUME pc' = f \/ pc' \in NotifyOne(0, f)
      PROVE  Moves(x, IF x[2] = 0 THEN "send" ELSE "loop")
  <2>1. PICK label \in CommLabel \cup BuilderLabel : label = IF x[2] = 0 THEN "send" ELSE "loop"
    BY DEF CommLabel, BuilderLabel, Neutral
  <2>2. CASE pc' = f
    BY <1>1, <2>1, <2>2, GotoMoves DEF Goto
  <2>3. CASE pc' \in NotifyOne(0, f)
    BY <1>1, <1>3, <2>1, <2>3, NotifyMoves
  <2>4. QED
    BY <1>5, <2>2, <2>3
<1>6. x = Comm(0) => /\ \A p \in Process : NothingIn(p)
                     /\ \A p, q \in Process : Travel(p, q) = {}
                     /\ m_nb_thread[0] > 0
  <2>1. ASSUME x = Comm(0)
        PROVE  m_nb_thread[0] > 0
    <3>1. pc[Comm(0)] # "done" /\ Comm(0) \in Thread
      BY <1>3, <2>1
    <3>2. Comm(0)[2] < m_nb_thread[Comm(0)[1]]
      BY <1>1, <3>1 DEF LabelsOK
    <3>3. m_nb_thread[0] \in Nat
      BY <1>1 DEF LaunchOK
    <3>4. QED
      BY <1>2, <3>2, <3>3
  <2>2. QED
    BY <1>1, <1>3, <2>1 DEF StartOK
<1>7. ASSUME x = Comm(0)
      PROVE  /\ Len(m_graph[0]) + 1 = 1
             /\ m_common_stack[0] = <<>> /\ m_tosend_msg[0] = <<>>
  <2>1. NothingIn(0)
    BY <1>1, <1>6, <1>7
  <2>2. NodesOf(0) = 1 .. Len(m_graph[0]) /\ Len(m_graph[0]) \in Nat
    BY <1>1, NodesDomain
  <2>3. ASSUME NEW l \in Nat, 1 .. l = {}
        PROVE  l + 1 = 1
    BY <2>3
  <2>4. Len(m_graph[0]) + 1 = 1
    BY <2>1, <2>2, <2>3 DEF NothingIn
  <2>5. QED
    BY <2>1, <2>4 DEF NothingIn
<1>8. CASE x # Comm(0) /\ pc' = f /\ UNCHANGED <<m_graph, queues>>
  BY <1>3, <1>5, <1>8 DEF Starts
<1>9. CASE /\ x = Comm(0) /\ destination[a] = 0
           /\ m_graph' = [m_graph EXCEPT ![0] = insert(@, Identified(a, 0))]
           /\ m_common_stack' = [m_common_stack EXCEPT ![0] = <<Pair(1, FirableObs[a])>>]
           /\ pc' \in NotifyOne(0, f)
           /\ UNCHANGED <<m_received_msg, m_tosend_msg>>
  <2>1. PICK nd \in GraphNode :
          /\ nd = Identified(a, 0) /\ nd.m_SHA2 = a
          /\ nd.m_lddstate = a /\ Links(nd) = {} /\ ~nd.m_completed /\ NodeOK(0, nd)
    <3> DEFINE md == Identified(a, 0)
    <3>1. ~HasFlags(a) /\ SomeGarbage \in Garbage
      BY <1>9, BytesAre DEF HasFlags
    <3>2. md \in GraphNode /\ md.m_SHA2 = a
      BY <1>1, NamedNode
    <3>3. md.m_lddstate = a /\ Links(md) = {} /\ ~md.m_completed /\ NodeOK(0, md)
      BY <1>1, <1>9, <3>1, NewNodes
    <3>4. QED
      BY <3>2, <3>3
  <2>2. AddsNode(0, Len(m_graph[0]) + 1, nd, a)
    BY <1>1, <1>9, <2>1, InsertAdds
  <2>3. AddsNode(0, 1, nd, a)
    BY <1>7, <1>9, <2>2
  <2>4. FirableObs[a] \in SUBSET Transition
    BY SOGAssumption
  <2>5. PICK z \in StackedPair : z = Pair(1, FirableObs[a])
    BY <2>4 DEF Pair, StackedPair
  <2>6. <<z>> = Append(m_common_stack[0], z)
    BY <1>7, <1>9
  <2>7. m_common_stack' = [m_common_stack EXCEPT ![0] = Append(@, z)]
    BY <1>9, <2>5, <2>6
  <2>8. m_common_stack \in [Process -> Seq(StackedPair)]
    BY <1>1 DEF CoreOK
  <2>9. Grown(StackedPair, m_common_stack, m_common_stack', 0, z)
    BY <1>1, <2>7, <2>8, Appended
  <2>10. QED
    BY <1>3, <1>5, <1>6, <1>9, <2>1, <2>3, <2>5, <2>9 DEF Starts
<1>10. CASE /\ x = Comm(0) /\ destination[a] # 0
            /\ m_graph' = [m_graph EXCEPT ![0] = insert(@, VirtualNode(a, destination[a]))]
            /\ m_tosend_msg' = [m_tosend_msg EXCEPT ![0] = <<a>>]
            /\ pc' = f
            /\ UNCHANGED <<m_common_stack, m_received_msg>>
  <2>1. destination[a] \in Process
    BY <1>1 DEF LaunchOK
  <2>2. PICK nd \in GraphNode :
          /\ nd = VirtualNode(a, destination[a]) /\ nd.m_SHA2 = a
          /\ nd.m_lddstate = a /\ Links(nd) = {} /\ ~nd.m_completed /\ NodeOK(0, nd)
    <3> DEFINE md == VirtualNode(a, destination[a])
    <3>1. md \in GraphNode /\ md.m_SHA2 = a /\ SomeGarbage \in Garbage
      BY <1>1, <2>1, VirtualNodes, BytesAre
    <3>2. md.m_lddstate = a /\ Links(md) = {} /\ ~md.m_completed /\ NodeOK(0, md)
      BY <1>1, <1>10, <3>1, NewNodes
    <3>3. QED
      BY <3>1, <3>2
  <2>3. AddsNode(0, Len(m_graph[0]) + 1, nd, a)
    BY <1>1, <1>10, <2>2, InsertAdds
  <2>4. AddsNode(0, 1, nd, a)
    BY <1>7, <1>10, <2>3
  <2>5. m_tosend_msg' = [m_tosend_msg EXCEPT ![0] = Append(@, a)]
    <3>1. PICK b : b = a
      OBVIOUS
    <3>2. <<b>> = Append(m_tosend_msg[0], b)
      BY <1>7, <1>10
    <3>3. m_tosend_msg' = [m_tosend_msg EXCEPT ![0] = <<b>>]
      BY <1>10, <3>1
    <3>4. QED
      BY <3>1, <3>2, <3>3
  <2>6. m_tosend_msg \in [Process -> Seq(Aggregate)]
    BY <1>1 DEF CoreOK
  <2>7. Grown(Aggregate, m_tosend_msg, m_tosend_msg', 0, a)
    BY <1>1, <2>5, <2>6, Appended
  <2>8. QED
    BY <1>3, <1>5, <1>6, <1>10, <2>2, <2>4, <2>7 DEF Starts
<1>11. QED
  BY <1>3, <1>4, <1>8, <1>9, <1>10

-----------------------------------------------------------------------------
(* What each step of thread 0 that concerns the construction does.         *)

SameTravel == \A p, q \in Process : chan'[<<p, q>>] = chan[<<p, q>>]
SameTalk ==
  \A p \in Process : /\ chan'[<<Checker, p>>] = chan[<<Checker, p>>]
                     /\ chan'[<<p, Checker>>] = chan[<<p, Checker>>]

(* Nothing happens to the protocol; nothing happens to the construction. *)
Mute ==
  /\ UNCHANGED <<launch, waits, answer, crashed, checker>>
  /\ m_Terminated' \subseteq m_Terminated
  /\ SameTalk /\ ChannelsOK(chan')

Rests ==
  /\ AllIdle /\ SameTravel
  /\ UNCHANGED <<launch, m_graph, queues, s, local>>

(* The aggregate thread 0 of p holds changes. *)
Holds(p, S) ==
  /\ s' \in [Process -> SUBSET Aggregate] /\ s'[p] = S
  /\ \A q \in Process \ {p} : s'[q] = s[q]

TakesMessage(p) ==
  /\ pc[Comm(p)] = "send" /\ Moves(Comm(p), "held") /\ p \notin m_Terminated
  /\ \E a \in Aggregate : /\ Shrunk(Aggregate, m_tosend_msg, m_tosend_msg', p, a)
                          /\ Holds(p, {a})
  /\ s[p] = {}
  /\ SameTravel
  /\ UNCHANGED <<m_graph, m_common_stack, m_received_msg, local>>

DropsMessage(p) ==
  /\ pc[Comm(p)] = "send" /\ Moves(Comm(p), "read") /\ p \in m_Terminated
  /\ \E a \in Aggregate : Shrunk(Aggregate, m_tosend_msg, m_tosend_msg', p, a)
  /\ SameTravel
  /\ UNCHANGED <<m_graph, m_common_stack, m_received_msg, s, local>>

SendsState(p) ==
  /\ pc[Comm(p)] = "held" /\ Moves(Comm(p), "send") /\ Holds(p, {})
  /\ \E a \in s[p] :
       /\ destination[a] \in Process
       /\ \A q, r \in Process :
            Travel(q, r)' = IF q = p /\ r = destination[a] THEN Travel(q, r) \cup {a}
                                                           ELSE Travel(q, r)
  /\ UNCHANGED <<m_graph, queues, local>>

ReadsState(p, q) ==
  /\ AllIdle
  /\ \E a \in Travel(q, p) :
       /\ Grown(Aggregate, m_received_msg, m_received_msg', p, a)
       /\ Travel(q, p) = Travel(q, p)' \cup {a}
       /\ \A r, v \in Process : <<r, v>> # <<q, p>> => Travel(r, v)' = Travel(r, v)
  /\ UNCHANGED <<m_graph, m_common_stack, m_tosend_msg, s, local>>

LEMMA SameTravelled ==
  ASSUME SameTravel
  PROVE  \A p, q \in Process : Travel(p, q)' = Travel(p, q)
BY DEF SameTravel, Travel

(* Thread 0 alone moves. *)
LEMMA CommGoes ==
  ASSUME CoreOK, NEW p \in Process, NEW label \in {"send", "read", "done"}, Goto(Comm(p), label),
         pc[Comm(p)] \in {"send", "read"}
  PROVE  AllIdle
<1>1. Comm(p) \in Thread /\ Comm(p)[2] = 0
  BY CommProperties
<1>2. Moves(Comm(p), label)
  BY <1>1, GotoMoves DEF CommLabel
<1>3. QED
  BY <1>1, <1>2 DEF AllIdle, Moves, Idles

LEMMA NobodyGoes ==
  ASSUME CoreOK, UNCHANGED pc
  PROVE  AllIdle
BY DEF CoreOK, AllIdle, Idles

LEMMA PopMessageStep ==
  ASSUME TypeInv, NEW p \in Process, PopMessage(p)
  PROVE  Mute /\ (Rests \/ TakesMessage(p) \/ DropsMessage(p))
<1> DEFINE c == Comm(p)
<1> DEFINE a == Head(m_tosend_msg[p])
<1>1. CoreOK /\ c \in Thread /\ ChannelsOK(chan) /\ MessagesOK
  BY CommProperties DEF TypeInv
<1>2. /\ pc[c] = "send"
      /\ UNCHANGED <<launch, m_graph, m_common_stack, m_received_msg, m_Terminated, waits, chan,
                     answer, crashed, local, checker>>
  BY DEF PopMessage
<1>3. Mute /\ SameTravel
  BY <1>1, <1>2 DEF Mute, SameTravel, SameTalk
<1>4. s[p] = {} /\ s \in [Process -> SUBSET Aggregate]
      /\ m_tosend_msg \in [Process -> Seq(Aggregate)]
  BY <1>1, <1>2 DEF MessagesOK, CoreOK
<1>5. CASE m_tosend_msg[p] = <<>> /\ Goto(c, "read") /\ UNCHANGED <<m_tosend_msg, s>>
  BY <1>1, <1>2, <1>3, <1>5, CommGoes DEF Rests, queues
<1>6. CASE m_tosend_msg[p] # <<>> /\ m_tosend_msg' = [m_tosend_msg EXCEPT ![p] = Tail(@)]
  <2>1. Shrunk(Aggregate, m_tosend_msg, m_tosend_msg', p, a) /\ a \in Aggregate
    BY <1>4, <1>6, Tailed DEF Shrunk
  <2>2. CASE p \in m_Terminated /\ Goto(c, "read") /\ UNCHANGED s
    <3>1. Moves(c, "read")
      BY <1>1, <2>2, GotoMoves DEF CommLabel
    <3>2. QED
      BY <1>2, <1>3, <2>1, <2>2, <3>1 DEF DropsMessage
  <2>3. CASE p \notin m_Terminated /\ s' = [s EXCEPT ![p] = {a}] /\ Goto(c, "held")
    <3>1. Moves(c, "held")
      BY <1>1, <2>3, GotoMoves DEF CommLabel
    <3>2. Holds(p, {a})
      BY <1>4, <2>1, <2>3 DEF Holds
    <3>3. QED
      BY <1>2, <1>3, <1>4, <2>1, <2>3, <3>1, <3>2 DEF TakesMessage
  <2>4. QED
    BY <1>6, <2>2, <2>3 DEF PopMessage
<1>7. QED
  BY <1>5, <1>6 DEF PopMessage

LEMMA StateMessages ==
  /\ \A a \in Aggregate : Message("STATE", a) \in StateMessage /\ Message("STATE", a).v = a
  /\ \A m \in StateMessage : m.v \in Aggregate /\ m = Message("STATE", m.v) /\ m.tag = "STATE"
BY DEF StateMessage, Message

LEMMA SendStateStep ==
  ASSUME TypeInv, NEW p \in Process, SendState(p)
  PROVE  Mute /\ SendsState(p)
<1> DEFINE c == Comm(p)
<1>1. CoreOK /\ LaunchOK /\ c \in Thread /\ ChannelsOK(chan)
  BY CommProperties DEF TypeInv
<1>2. /\ pc[c] = "held" /\ Goto(c, "send") /\ s' = [s EXCEPT ![p] = {}]
      /\ UNCHANGED <<launch, m_graph, queues, m_Terminated, waits, answer, crashed, local, checker>>
  BY DEF SendState
<1>3. PICK a \in s[p] : chan' = MpiSend(chan, p, destination[a], Message("STATE", a))
  BY DEF SendState
<1>4. s \in [Process -> SUBSET Aggregate] /\ a \in Aggregate
  BY <1>1 DEF CoreOK
<1>5. destination[a] \in Process
  BY <1>1, <1>4 DEF LaunchOK
<1> DEFINE q == destination[a]
<1> DEFINE m == Message("STATE", a)
<1>6. m \in MessagesOf(<<p, q>>) /\ <<p, q>> \in Channel /\ m.v = a
  BY <1>4, <1>5, ChannelProperties, StateMessages
<1> HIDE DEF m, q
<1>7. /\ ChannelsOK(chan')
      /\ Elements(chan'[<<p, q>>]) = Elements(chan[<<p, q>>]) \cup {m}
      /\ \A d \in Channel \ {<<p, q>>} : chan'[d] = chan[d]
  <2>1. chan' = MpiSend(chan, p, q, m)
    BY <1>3 DEF q, m
  <2>2. QED
    <3>1. Sends(chan, chan', p, q, m)
      BY <1>1, <1>6, <2>1 DEF Sends
    <3>2. Gains(chan, chan', p, q, m)
      BY <3>1, Sent
    <3>3. QED
      BY <3>2 DEF Gains
<1> USE DEF q
<1>8. SameTalk
  BY <1>5, <1>7, ChannelProperties DEF SameTalk
<1>9. ASSUME NEW r \in Process, NEW v \in Process
      PROVE  Travel(r, v)' = IF r = p /\ v = q THEN Travel(r, v) \cup {a} ELSE Travel(r, v)
  <2>1. CASE r = p /\ v = q
    BY <1>6, <1>7, <2>1 DEF Travel
  <2>2. CASE ~(r = p /\ v = q)
    <3>1. <<r, v>> \in Channel \ {<<p, q>>}
      BY <2>2, ChannelProperties
    <3>2. QED
      BY <1>7, <2>2, <3>1 DEF Travel
  <2>3. QED
    BY <2>1, <2>2
<1>10. Moves(c, "send")
  BY <1>1, <1>2, GotoMoves DEF CommLabel
<1>11. Holds(p, {})
  BY <1>2, <1>4 DEF Holds
<1>12. Mute
  BY <1>2, <1>7, <1>8 DEF Mute
<1>13. QED
  BY <1>2, <1>5, <1>9, <1>10, <1>11, <1>12 DEF SendsState

LEMMA ReadStateStep ==
  ASSUME TypeInv, NEW p \in Process, NEW q \in Process, chan[<<q, p>>] # <<>>,
         chan' = MpiRecv(chan, q, p), ReadState(p, Head(chan[<<q, p>>]).v),
         UNCHANGED <<launch, m_graph, m_common_stack, m_tosend_msg, s, local, checker>>
  PROVE  Mute /\ ReadsState(p, q)
<1> DEFINE m == Head(chan[<<q, p>>])
<1>1. CoreOK /\ LaunchOK /\ ChannelsOK(chan) /\ Comm(p) \in Thread
  BY CommProperties DEF TypeInv
<1>2. /\ ChannelsOK(chan') /\ m \in MessagesOf(<<q, p>>)
      /\ Elements(chan[<<q, p>>]) = Elements(chan'[<<q, p>>]) \cup {m}
      /\ \A d \in Channel \ {<<q, p>>} : chan'[d] = chan[d]
  BY <1>1, ChannelProperties, Taken
<1> HIDE DEF m
<1>3. m.v \in Aggregate
  BY <1>2, ChannelProperties, StateMessages
<1>4. SameTalk
  BY <1>2, ChannelProperties DEF SameTalk
<1>5. m_received_msg' = [m_received_msg EXCEPT ![p] = Append(@, m.v)] /\ pc' \in NotifyOne(p, pc)
      /\ UNCHANGED <<m_Terminated, waits, answer, crashed>>
  BY DEF ReadState, m
<1>6. m_received_msg \in [Process -> Seq(Aggregate)]
  BY <1>1 DEF CoreOK
<1>7. Grown(Aggregate, m_received_msg, m_received_msg', p, m.v)
  BY <1>3, <1>5, <1>6, Appended
<1>8. m.v \in Travel(q, p) /\ Travel(q, p) = Travel(q, p)' \cup {m.v}
  BY <1>2 DEF Travel
<1>9. ASSUME NEW r \in Process, NEW v \in Process, <<r, v>> # <<q, p>>
      PROVE  Travel(r, v)' = Travel(r, v)
  <2>1. <<r, v>> \in Channel \ {<<q, p>>}
    BY <1>9, ChannelProperties
  <2>2. QED
    BY <1>2, <2>1 DEF Travel
<1>10. AllIdle
  <2>1. pc \in [Thread -> CommLabel \cup BuilderLabel]
    BY <1>1 DEF CoreOK
  <2>2. \A w \in Waiting(p) : w \in Thread /\ w[2] # 0 /\ pc[w] = "waiting"
    BY <1>1, BuildersProperties DEF Waiting
  <2>3. pc' = pc \/ \E w \in Waiting(p) : pc' = [pc EXCEPT ![w] = "loop"]
    BY <1>5 DEF NotifyOne
  <2>4. QED
    BY <2>1, <2>2, <2>3 DEF AllIdle, Idles, Neutral, BuilderLabel
<1>11. Mute
  BY <1>2, <1>4, <1>5 DEF Mute
<1>12. QED
  BY <1>7, <1>8, <1>9, <1>10, <1>11 DEF ReadsState

-----------------------------------------------------------------------------
(* What the steps of the protocol do to the channels.                      *)

(* A message is sent on channel c; one is received from it; the others     *)
(* than those of C stay as they are.                                       *)
Put(c, m) ==
  /\ chan[c] = <<>> => chan'[c] = <<m>>
  /\ Elements(chan'[c]) = Elements(chan[c]) \cup {m}

Get(c, m) ==
  /\ m \in Elements(chan[c])
  /\ Elements(chan'[c]) \subseteq Elements(chan[c])
  /\ chan[c] = <<m>> => chan'[c] = <<>>

Others(C) ==
  /\ ChannelsOK(chan')
  /\ \A d \in Channel \ C : chan'[d] = chan[d]

LEMMA PutStep ==
  ASSUME NEW p, NEW q, NEW m, ChannelsOK(chan), <<p, q>> \in Channel, m \in MessagesOf(<<p, q>>),
         chan' = MpiSend(chan, p, q, m)
  PROVE  Put(<<p, q>>, m) /\ Others({<<p, q>>})
<1>1. Sends(chan, chan', p, q, m)
  BY DEF Sends
<1>2. Gains(chan, chan', p, q, m)
  BY <1>1, Sent
<1>3. QED
  BY <1>2 DEF Gains, Put, Others

LEMMA GetStep ==
  ASSUME NEW p, NEW q, ChannelsOK(chan), <<p, q>> \in Channel, chan[<<p, q>>] # <<>>,
         NEW m, m = Head(chan[<<p, q>>]), chan' = MpiRecv(chan, p, q)
  PROVE  Get(<<p, q>>, m) /\ Others({<<p, q>>}) /\ m \in MessagesOf(<<p, q>>)
<1>1. /\ ChannelsOK(chan')
      /\ m \in MessagesOf(<<p, q>>)
      /\ chan'[<<p, q>>] = Tail(chan[<<p, q>>])
      /\ Elements(chan[<<p, q>>]) = Elements(chan'[<<p, q>>]) \cup {m}
      /\ \A d \in Channel \ {<<p, q>>} : chan'[d] = chan[d]
  BY Taken
<1>2. chan[<<p, q>>] = <<m>> => chan'[<<p, q>>] = <<>>
  BY <1>1
<1>3. QED
  BY <1>1, <1>2 DEF Get, Others

(* One message in the middle of a sequence is taken away. *)
LEMMA RemovedElements ==
  ASSUME NEW S, NEW l \in Seq(S), NEW k \in DOMAIN l
  PROVE  LET h == SubSeq(l, 1, k - 1) \o SubSeq(l, k + 1, Len(l))
         IN  /\ h \in Seq(S) /\ Elements(h) \subseteq Elements(l) /\ l[k] \in S
             /\ l[k] \in Elements(l)
             /\ Len(l) = 1 => h = <<>>
<1>1. Len(l) \in Nat /\ DOMAIN l = 1 .. Len(l) /\ k \in 1 .. Len(l)
      /\ \A i \in 1 .. Len(l) : l[i] \in S
  BY LenProperties, ElementOfSeq
<1> DEFINE f == SubSeq(l, 1, k - 1)
<1> DEFINE g == SubSeq(l, k + 1, Len(l))
<1>2. \A i \in 1 .. k - 1 : l[i] \in S
  BY <1>1
<1>3. \A i \in k + 1 .. Len(l) : l[i] \in S
  BY <1>1
<1>4. f \in Seq(S) /\ Len(f) = (IF 1 <= k - 1 THEN k - 1 - 1 + 1 ELSE 0)
      /\ \A i \in 1 .. k - 1 - 1 + 1 : f[i] = l[1 + i - 1]
  <2>1. 1 \in Int /\ k - 1 \in Int
    BY <1>1
  <2>2. QED
    BY <1>2, <2>1, SubSeqProperties
<1>5. g \in Seq(S) /\ Len(g) = (IF k + 1 <= Len(l) THEN Len(l) - (k + 1) + 1 ELSE 0)
      /\ \A i \in 1 .. Len(l) - (k + 1) + 1 : g[i] = l[k + 1 + i - 1]
  <2>1. k + 1 \in Int /\ Len(l) \in Int
    BY <1>1
  <2>2. QED
    BY <1>3, <2>1, SubSeqProperties
<1> HIDE DEF f, g
<1>6. Len(f) = k - 1 /\ Len(g) = Len(l) - k
  BY <1>1, <1>4, <1>5
<1>7. \A i \in 1 .. Len(f) : f[i] = l[i] /\ i \in 1 .. Len(l)
  BY <1>1, <1>4, <1>6
<1>8. \A i \in 1 .. Len(g) : g[i] = l[k + i] /\ k + i \in 1 .. Len(l)
  <2>1. ASSUME NEW i \in 1 .. Len(g)
        PROVE  g[i] = l[k + i] /\ k + i \in 1 .. Len(l)
    <3>1. /\ i \in 1 .. Len(l) - (k + 1) + 1 /\ k + 1 + i - 1 = k + i
          /\ k + i \in 1 .. Len(l)
      BY <1>1, <1>6, SMTT(30)
    <3>2. g[i] = l[k + 1 + i - 1]
      BY <1>5, <3>1, Zenon
    <3>3. QED
      BY <3>1, <3>2
  <2>2. QED
    BY <2>1
<1> DEFINE h == f \o g
<1>9. /\ h \in Seq(S) /\ Len(h) = Len(f) + Len(g)
      /\ \A i \in 1 .. Len(f) + Len(g) : h[i] = IF i <= Len(f) THEN f[i] ELSE g[i - Len(f)]
  BY <1>4, <1>5, ConcatProperties
<1> HIDE DEF h
<1>10. DOMAIN h = 1 .. Len(f) + Len(g)
  BY <1>9, LenProperties
<1>11. ASSUME NEW i \in DOMAIN h
       PROVE  h[i] \in Elements(l)
  <2>1. CASE i <= Len(f)
    <3>1. i \in 1 .. Len(f) /\ i \in 1 .. Len(f) + Len(g)
      BY <1>1, <1>6, <1>10, <2>1
    <3>2. h[i] = f[i]
      BY <1>9, <2>1, <3>1
    <3>3. QED
      BY <1>1, <1>7, <3>1, <3>2 DEF Elements
  <2>2. CASE ~(i <= Len(f))
    <3>1. i - Len(f) \in 1 .. Len(g) /\ i \in 1 .. Len(f) + Len(g)
      BY <1>1, <1>6, <1>10, <2>2
    <3>2. h[i] = g[i - Len(f)]
      BY <1>9, <2>2, <3>1
    <3>3. QED
      BY <1>1, <1>8, <3>1, <3>2 DEF Elements
  <2>3. QED
    BY <2>1, <2>2
<1>12. Elements(h) \subseteq Elements(l)
  BY <1>11 DEF Elements
<1>13. ASSUME Len(l) = 1
       PROVE  h = <<>>
  <2>1. Len(h) = 0
    BY <1>1, <1>6, <1>9, <1>13
  <2>2. QED
    BY <1>9, <2>1, EmptySeq
<1>14. QED
  BY <1>1, <1>9, <1>12, <1>13 DEF h, f, g, Elements

(* A message to the checker is received; ch is then the channels. *)
LEMMA ReceivedMessage ==
  ASSUME ChannelsOK(chan), NEW q \in Process, NEW k \in DOMAIN chan[<<q, Checker>>],
         NEW ch, ch = Received(q, k), NEW m, m = chan[<<q, Checker>>][k]
  PROVE  /\ ChannelsOK(ch) /\ m \in Answer
         /\ m \in Elements(chan[<<q, Checker>>])
         /\ Elements(ch[<<q, Checker>>]) \subseteq Elements(chan[<<q, Checker>>])
         /\ chan[<<q, Checker>>] = <<m>> => ch[<<q, Checker>>] = <<>>
         /\ \A d \in Channel \ {<<q, Checker>>} : ch[d] = chan[d]
<1> DEFINE c == <<q, Checker>>
<1> DEFINE l == chan[c]
<1> DEFINE h == SubSeq(l, 1, k - 1) \o SubSeq(l, k + 1, Len(l))
<1>1. c \in Channel /\ MessagesOf(c) = Answer
  BY ChannelProperties
<1>2. l \in Seq(Answer)
  BY <1>1 DEF ChannelsOK
<1>3. /\ h \in Seq(Answer) /\ Elements(h) \subseteq Elements(l) /\ l[k] \in Answer
      /\ l[k] \in Elements(l)
      /\ Len(l) = 1 => h = <<>>
  BY <1>2, RemovedElements
<1>4. ch = [chan EXCEPT ![c] = h]
  BY DEF Received
<1>5. l = <<m>> => Len(l) = 1
  OBVIOUS
<1> HIDE DEF h, c
<1>6. /\ ChannelsOK([chan EXCEPT ![c] = h])
      /\ [chan EXCEPT ![c] = h][c] = h
      /\ \A d \in Channel \ {c} : [chan EXCEPT ![c] = h][d] = chan[d]
  BY <1>1, <1>3, ChannelChanged
<1>7. QED
  BY <1>3, <1>4, <1>5, <1>6 DEF c

-----------------------------------------------------------------------------
(* What the answers are.                                                   *)

(* The identifier, the process and the transition of an edge. *)
SuccOf(p, u) == [id |-> m_graph[p][u.to].m_SHA2, process |-> m_graph[p][u.to].m_process, t |-> u.t]

LEMMA AnswerTags ==
  /\ \A m \in Answer : m.tag \in {"ACK_INITIAL", "ACK_STATE", "ACK_SUCC"}
  /\ \A m \in Answer : m.tag = "ACK_INITIAL" => m.v \in [id : Bytes, process : Process]
  /\ \A m \in Answer : m.tag = "ACK_STATE" => m.v \in [pos : Nat, div : BOOLEAN, dead : BOOLEAN]
  /\ \A m \in Answer : m.tag = "ACK_SUCC" => m.v \in Seq(SuccType)
BY DEF Answer

LEMMA QuestionTags ==
  /\ \A m \in Question : m.tag \in {"INITIAL", "FINISH", "ASK_STATE", "ASK_SUCC"}
  /\ \A m \in Question : m.tag \in {"ASK_STATE", "ASK_SUCC"} => m.v \in Bytes
  /\ \A m \in Question : m.tag \in {"INITIAL", "FINISH"} => m = Message(m.tag, 0)
  /\ \A m \in Question : m = Message(m.tag, m.v)
  /\ Message("INITIAL", 0) \in Question /\ Message("FINISH", 0) \in Question
  /\ \A S \in Bytes :
       Message("ASK_STATE", S) \in Question /\ Message("ASK_SUCC", S) \in Question
BY DEF Question, Message

LEMMA PropType ==
  ASSUME CoreOK, NEW p \in Process, NEW n \in NodesOf(p)
  PROVE  /\ PropMessage(p, n) \in Answer /\ PropMessage(p, n).tag = "ACK_STATE"
         /\ PropMessage(p, n).v.div = m_graph[p][n].m_boucle
         /\ PropMessage(p, n).v.dead = m_graph[p][n].m_blocage
<1>1. n \in Nat /\ m_graph[p][n] \in GraphNode
  BY NodesDomain
<1>2. m_graph[p][n].m_boucle \in BOOLEAN /\ m_graph[p][n].m_blocage \in BOOLEAN
  BY <1>1 DEF GraphNode
<1>3. QED
  BY <1>1, <1>2 DEF PropMessage, Message, Answer

LEMMA AckType ==
  ASSUME CoreOK, NEW p \in Process, 1 \in NodesOf(p)
  PROVE  /\ AckInitial(p) \in Answer /\ AckInitial(p).tag = "ACK_INITIAL"
         /\ AckInitial(p).v.id = m_graph[p][1].m_SHA2
         /\ AckInitial(p).v.process = m_graph[p][1].m_process
<1>1. m_graph[p][1] \in GraphNode
  BY NodesDomain
<1>2. m_graph[p][1].m_SHA2 \in Bytes /\ m_graph[p][1].m_process \in Process
  BY <1>1 DEF GraphNode
<1>3. QED
  BY <1>2 DEF AckInitial, Message, Answer

LEMMA SuccTyped ==
  ASSUME CoreOK, EdgesOK, NEW p \in Process, NEW n \in NodesOf(p)
  PROVE  /\ SuccMessage(p, n) \in Answer /\ SuccMessage(p, n).tag = "ACK_SUCC"
         /\ Elements(SuccMessage(p, n).v) = {SuccOf(p, u) : u \in Links(m_graph[p][n])}
<1> DEFINE l == m_graph[p][n].Successors
<1> DEFINE h == [k \in DOMAIN l |-> SuccOf(p, l[k])]
<1>1. m_graph[p][n] \in GraphNode
  BY NodesDomain
<1>2. l \in Seq([to : Nat, t : Transition])
  BY <1>1 DEF GraphNode
<1>3. Len(l) \in Nat /\ DOMAIN l = 1 .. Len(l)
      /\ \A k \in DOMAIN l : l[k] \in [to : Nat, t : Transition]
  BY <1>2, LenProperties, ElementOfSeq
<1>4. ASSUME NEW k \in DOMAIN l
      PROVE  SuccOf(p, l[k]) \in SuccType
  <2>1. l[k] \in Links(m_graph[p][n])
    BY <1>4 DEF Links, Elements
  <2>2. l[k].to \in NodesOf(p)
    BY <2>1 DEF EdgesOK
  <2>3. m_graph[p][l[k].to] \in GraphNode
    BY <2>2, NodesDomain
  <2>4. m_graph[p][l[k].to].m_SHA2 \in Bytes
        /\ m_graph[p][l[k].to].m_process \in Process
    BY <2>3 DEF GraphNode
  <2>5. l[k].t \in Transition
    BY <1>3, <1>4
  <2>6. QED
    BY <2>4, <2>5 DEF SuccOf, SuccType
<1>5. h \in [1 .. Len(l) -> SuccType]
  BY <1>3, <1>4
<1>6. h \in Seq(SuccType)
  <2> HIDE DEF h
  <2>1. QED
    BY <1>3, <1>5, SeqDef
<1>7. SuccMessage(p, n) = Message("ACK_SUCC", h)
  BY DEF SuccMessage, SuccOf
<1>8. Elements(h) = {SuccOf(p, u) : u \in Links(m_graph[p][n])}
  BY DEF Elements, Links
<1> HIDE DEF h
<1>9. Message("ACK_SUCC", h) \in Answer /\ Message("ACK_SUCC", h).tag = "ACK_SUCC"
      /\ Message("ACK_SUCC", h).v = h
  BY <1>6 DEF Message, Answer
<1>10. QED
  BY <1>7, <1>8, <1>9

-----------------------------------------------------------------------------

(* What each step of the checker does.                                     *)

(* Nothing happens in the processes. *)
Listens == Rests /\ UNCHANGED <<m_Terminated, waits, answer, crashed>>

(* The checker asks for a state; C are the channels it received from. *)
AsksFor(id, p, named, C) ==
  /\ id \in Bytes /\ p \in Process
  /\ asked' = [id |-> id, process |-> p, named |-> named /\ id \in Aggregate] /\ mcPc' = "ackState"
  /\ Put(<<Checker, p>>, Message("ASK_STATE", id))
  /\ Others(C \cup {<<Checker, p>>})

Begins ==
  /\ mcPc = "initial" /\ mcPc' = "ackInitial"
  /\ Put(<<Checker, 0>>, Message("INITIAL", 0)) /\ Others({<<Checker, 0>>})
  /\ UNCHANGED <<asked, state, kripke>>

HearsInitial ==
  /\ mcPc = "ackInitial"
  /\ \E q \in Process, m \in Answer :
       /\ m.tag = "ACK_INITIAL" /\ Get(<<q, Checker>>, m)
       /\ AsksFor(m.v.id, m.v.process, TRUE, {<<q, Checker>>})
  /\ UNCHANGED <<state, kripke>>

StateOf(m) ==
  [id |-> asked.id, m_container |-> asked.process, m_hashid |-> Hash(m.v.pos, asked.process),
   m_div |-> m.v.div, m_deadlock |-> m.v.dead, named |-> asked.named]

HearsState ==
  /\ mcPc = "ackState" /\ mcPc' = "ackSucc"
  /\ \E q \in Process, m \in Answer :
       /\ m.tag = "ACK_STATE" /\ Get(<<q, Checker>>, m)
       /\ state' = {StateOf(m)}
       /\ Put(<<Checker, asked.process>>, Message("ASK_SUCC", asked.id))
       /\ Others({<<q, Checker>>, <<Checker, asked.process>>})
  /\ UNCHANGED <<asked, kripke>>

KripkeOf(x, m) ==
  [id |-> x.id, m_container |-> x.m_container, m_hashid |-> x.m_hashid, m_div |-> x.m_div,
   m_deadlock |-> x.m_deadlock, m_succ |-> Elements(m.v), named |-> x.named]

HearsSucc ==
  /\ mcPc = "ackSucc" /\ mcPc' = "explore"
  /\ \E q \in Process, m \in Answer :
       /\ m.tag = "ACK_SUCC" /\ Get(<<q, Checker>>, m) /\ Others({<<q, Checker>>})
       /\ kripke' = kripke \cup {KripkeOf(x, m) : x \in state}
  /\ state' = {}
  /\ UNCHANGED asked

Explores ==
  /\ mcPc = "explore"
  /\ \E x \in kripke :
       \/ \E u \in x.m_succ : AsksFor(u.id, u.process, x.named, {})
       \/ x.m_div /\ AsksFor(x.id, x.m_container, x.named, {})
  /\ UNCHANGED <<state, kripke>>

Ends ==
  /\ mcPc = "explore" /\ mcPc' = "end"
  /\ ChannelsOK(chan')
  /\ \A p \in Process :
       /\ m_nb_thread[p] > 0 => Put(<<Checker, p>>, Message("FINISH", 0))
       /\ m_nb_thread[p] = 0 => chan'[<<Checker, p>>] = chan[<<Checker, p>>]
       /\ chan'[<<p, Checker>>] = chan[<<p, Checker>>]
  /\ UNCHANGED <<asked, state, kripke>>

CheckerCases == Begins \/ HearsInitial \/ HearsState \/ HearsSucc \/ Explores \/ Ends

LEMMA CheckerRests ==
  ASSUME CoreOK, SameTravel, CheckerOnly
  PROVE  Listens
<1>1. AllIdle
  BY NobodyGoes DEF CheckerOnly
<1>2. QED
  BY <1>1 DEF CheckerOnly, Listens, Rests

LEMMA OthersTravel ==
  ASSUME NEW p \in Process, NEW q \in Process, Others({<<p, Checker>>, <<Checker, q>>})
  PROVE  SameTravel
<1>1. \A r, v \in Process : <<r, v>> \in Channel \ {<<p, Checker>>, <<Checker, q>>}
  BY ChannelProperties
<1>2. QED
  BY <1>1 DEF Others, SameTravel

(* An answer is received and a question is sent. *)
LEMMA ReplyStep ==
  ASSUME ChannelsOK(chan), NEW q \in Process, NEW k \in DOMAIN chan[<<q, Checker>>],
         NEW m, m = chan[<<q, Checker>>][k], NEW p \in Process, NEW n \in Question,
         chan' = MpiSend(Received(q, k), Checker, p, n)
  PROVE  /\ m \in Answer /\ Get(<<q, Checker>>, m) /\ Put(<<Checker, p>>, n)
         /\ Others({<<q, Checker>>, <<Checker, p>>})
<1>1. PICK ch : ch = Received(q, k)
  OBVIOUS
<1>2. /\ ChannelsOK(ch) /\ m \in Answer
      /\ m \in Elements(chan[<<q, Checker>>])
      /\ Elements(ch[<<q, Checker>>]) \subseteq Elements(chan[<<q, Checker>>])
      /\ chan[<<q, Checker>>] = <<m>> => ch[<<q, Checker>>] = <<>>
      /\ \A d \in Channel \ {<<q, Checker>>} : ch[d] = chan[d]
  BY <1>1, ReceivedMessage
<1>3. <<Checker, p>> \in Channel /\ n \in MessagesOf(<<Checker, p>>) /\ <<q, Checker>> \in Channel
      /\ <<q, Checker>> # <<Checker, p>>
  BY ProcessProperties, ChannelProperties
<1>4. chan' = MpiSend(ch, Checker, p, n)
  BY <1>1
<1>5. PICK dh : dh = chan'
  OBVIOUS
<1>6. /\ ChannelsOK(dh)
      /\ ch[<<Checker, p>>] = <<>> => dh[<<Checker, p>>] = <<n>>
      /\ Elements(dh[<<Checker, p>>]) = Elements(ch[<<Checker, p>>]) \cup {n}
      /\ \A d \in Channel \ {<<Checker, p>>} : dh[d] = ch[d]
  <2>1. PICK c : c = Checker
    OBVIOUS
  <2>2. dh = MpiSend(ch, c, p, n) /\ ChannelsOK(ch)
    BY <1>2, <1>4, <1>5, <2>1
  <2>3. <<c, p>> \in Channel /\ n \in MessagesOf(<<c, p>>)
    BY <1>3, <2>1
  <2>4. Sends(ch, dh, c, p, n)
    BY <2>2, <2>3 DEF Sends
  <2>5. Gains(ch, dh, c, p, n)
    BY <2>4, Sent
  <2>6. QED
    BY <2>1, <2>5 DEF Gains
<1>7. Put(<<Checker, p>>, n)
  BY <1>2, <1>3, <1>5, <1>6 DEF Put
<1>8. Get(<<q, Checker>>, m)
  BY <1>2, <1>3, <1>5, <1>6 DEF Get
<1>9. Others({<<q, Checker>>, <<Checker, p>>})
  BY <1>2, <1>5, <1>6 DEF Others
<1>10. QED
  BY <1>2, <1>7, <1>8, <1>9

LEMMA AskStep ==
  ASSUME ChannelsOK(chan), NEW p \in Process, NEW n \in Question, chan' = MpiSend(chan, Checker, p, n)
  PROVE  Put(<<Checker, p>>, n) /\ Others({<<Checker, p>>}) /\ SameTravel
<1>1. <<Checker, p>> \in Channel /\ n \in MessagesOf(<<Checker, p>>)
  BY ChannelProperties
<1>2. Put(<<Checker, p>>, n) /\ Others({<<Checker, p>>})
  BY <1>1, PutStep
<1>3. Others({<<p, Checker>>, <<Checker, p>>})
  BY <1>2 DEF Others
<1>4. QED
  BY <1>2, <1>3, OthersTravel

LEMMA GetInitStep ==
  ASSUME TypeInv, GetInitState
  PROVE  Listens /\ Begins
<1>1. CoreOK /\ ChannelsOK(chan) /\ 0 \in Process
  BY ProcessProperties DEF TypeInv
<1>2. /\ mcPc = "initial" /\ mcPc' = "ackInitial"
      /\ chan' = MpiSend(chan, Checker, 0, Message("INITIAL", 0))
      /\ CheckerOnly /\ UNCHANGED <<asked, state, kripke>>
  BY DEF GetInitState
<1>3. PICK p \in Process, n \in Question : p = 0 /\ n = Message("INITIAL", 0)
  BY <1>1, QuestionTags
<1>4. chan' = MpiSend(chan, Checker, p, n)
  BY <1>2, <1>3
<1>5. Put(<<Checker, p>>, n) /\ Others({<<Checker, p>>}) /\ SameTravel
  BY <1>1, <1>4, AskStep
<1>6. Listens
  BY <1>1, <1>2, <1>5, CheckerRests
<1>7. QED
  BY <1>2, <1>3, <1>5, <1>6 DEF Begins

LEMMA ReceiveInitialStep ==
  ASSUME TypeInv, ReceiveInitial
  PROVE  Listens /\ HearsInitial
<1>1. CoreOK /\ ChannelsOK(chan)
  BY DEF TypeInv
<1>2. mcPc = "ackInitial" /\ CheckerOnly /\ UNCHANGED <<state, kripke>>
  BY DEF ReceiveInitial
<1>3. PICK q \in Process : \E k \in Oldest(q, "ACK_INITIAL") :
        LET v == chan[<<q, Checker>>][k].v IN AskState(v.id, v.process, TRUE, Received(q, k))
  BY DEF ReceiveInitial
<1>4. PICK k \in Oldest(q, "ACK_INITIAL") : \E m :
        /\ m = chan[<<q, Checker>>][k]
        /\ AskState(m.v.id, m.v.process, TRUE, Received(q, k))
  BY <1>3
<1>5. PICK m : /\ m = chan[<<q, Checker>>][k]
               /\ AskState(m.v.id, m.v.process, TRUE, Received(q, k))
  BY <1>4
<1>6. k \in DOMAIN chan[<<q, Checker>>] /\ m.tag = "ACK_INITIAL"
  BY <1>4, <1>5 DEF Oldest
<1>7. m \in Answer
  BY <1>1, <1>5, <1>6, ReceivedMessage
<1>8. m.v.id \in Bytes /\ m.v.process \in Process
  BY <1>6, <1>7, AnswerTags
<1>9. PICK p \in Process, n \in Question : p = m.v.process /\ n = Message("ASK_STATE", m.v.id)
  BY <1>8, QuestionTags
<1>10. /\ asked' = [id |-> m.v.id, process |-> p, named |-> TRUE /\ m.v.id \in Aggregate] /\ mcPc' = "ackState"
      /\ chan' = MpiSend(Received(q, k), Checker, p, n)
  BY <1>5, <1>9 DEF AskState
<1>11. Get(<<q, Checker>>, m) /\ Put(<<Checker, p>>, n) /\ Others({<<q, Checker>>, <<Checker, p>>})
  BY <1>1, <1>5, <1>6, <1>10, ReplyStep
<1>12. AsksFor(m.v.id, m.v.process, TRUE, {<<q, Checker>>})
  <2>1. Others({<<q, Checker>>} \cup {<<Checker, p>>})
    BY <1>11 DEF Others
  <2>2. QED
    BY <1>8, <1>9, <1>10, <1>11, <2>1 DEF AsksFor
<1>13. Listens
  BY <1>1, <1>2, <1>11, OthersTravel, CheckerRests
<1>14. QED
  BY <1>2, <1>6, <1>7, <1>11, <1>12, <1>13 DEF HearsInitial

LEMMA ReceiveStateStep ==
  ASSUME TypeInv, ReceiveState
  PROVE  Listens /\ HearsState
<1>1. CoreOK /\ ChannelsOK(chan) /\ asked.id \in Bytes /\ asked.process \in Process
  BY DEF TypeInv, ProtocolOK
<1>2. mcPc = "ackState" /\ mcPc' = "ackSucc" /\ CheckerOnly /\ UNCHANGED <<asked, kripke>>
  BY DEF ReceiveState
<1>3. PICK q \in Process : \E k \in Oldest(q, "ACK_STATE") :
        /\ state' = {StateOf(chan[<<q, Checker>>][k])}
        /\ chan' = MpiSend(Received(q, k), Checker, asked.process, Message("ASK_SUCC", asked.id))
  BY DEF ReceiveState, StateOf
<1>4. PICK k \in Oldest(q, "ACK_STATE") :
        /\ state' = {StateOf(chan[<<q, Checker>>][k])}
        /\ chan' = MpiSend(Received(q, k), Checker, asked.process, Message("ASK_SUCC", asked.id))
  BY <1>3
<1>5. PICK m : m = chan[<<q, Checker>>][k]
  OBVIOUS
<1>6. k \in DOMAIN chan[<<q, Checker>>] /\ m.tag = "ACK_STATE"
  BY <1>4, <1>5 DEF Oldest
<1>7. PICK p \in Process, n \in Question : p = asked.process /\ n = Message("ASK_SUCC", asked.id)
  BY <1>1, QuestionTags
<1>8. chan' = MpiSend(Received(q, k), Checker, p, n)
  BY <1>4, <1>7
<1>9. /\ m \in Answer /\ Get(<<q, Checker>>, m) /\ Put(<<Checker, p>>, n)
      /\ Others({<<q, Checker>>, <<Checker, p>>})
  BY <1>1, <1>5, <1>6, <1>8, ReplyStep
<1>10. Listens
  BY <1>1, <1>2, <1>9, OthersTravel, CheckerRests
<1>11. QED
  BY <1>2, <1>4, <1>5, <1>6, <1>7, <1>9, <1>10 DEF HearsState

LEMMA ReceiveSuccStep ==
  ASSUME TypeInv, ReceiveSucc
  PROVE  Listens /\ HearsSucc
<1>1. CoreOK /\ ChannelsOK(chan)
  BY DEF TypeInv
<1>2. mcPc = "ackSucc" /\ mcPc' = "explore" /\ state' = {} /\ CheckerOnly /\ UNCHANGED asked
  BY DEF ReceiveSucc
<1>3. PICK q \in Process : \E k \in Oldest(q, "ACK_SUCC") :
        /\ kripke' = kripke \cup {KripkeOf(x, chan[<<q, Checker>>][k]) : x \in state}
        /\ chan' = Received(q, k)
  BY DEF ReceiveSucc, KripkeOf, Elements, Range
<1>4. PICK k \in Oldest(q, "ACK_SUCC") :
        /\ kripke' = kripke \cup {KripkeOf(x, chan[<<q, Checker>>][k]) : x \in state}
        /\ chan' = Received(q, k)
  BY <1>3
<1>5. PICK m : m = chan[<<q, Checker>>][k]
  OBVIOUS
<1>6. k \in DOMAIN chan[<<q, Checker>>] /\ m.tag = "ACK_SUCC"
  BY <1>4, <1>5 DEF Oldest
<1>7. PICK ch : ch = chan'
  OBVIOUS
<1>8. ch = Received(q, k)
  BY <1>4, <1>7
<1>9. /\ ChannelsOK(ch) /\ m \in Answer
      /\ m \in Elements(chan[<<q, Checker>>])
      /\ Elements(ch[<<q, Checker>>]) \subseteq Elements(chan[<<q, Checker>>])
      /\ chan[<<q, Checker>>] = <<m>> => ch[<<q, Checker>>] = <<>>
      /\ \A d \in Channel \ {<<q, Checker>>} : ch[d] = chan[d]
  BY <1>1, <1>5, <1>6, <1>8, ReceivedMessage
<1>10. Get(<<q, Checker>>, m) /\ Others({<<q, Checker>>})
  BY <1>7, <1>9 DEF Get, Others
<1>11. SameTravel
  <2>1. Others({<<q, Checker>>, <<Checker, q>>})
    BY <1>10 DEF Others
  <2>2. QED
    BY <2>1, OthersTravel
<1>12. Listens
  BY <1>1, <1>2, <1>11, CheckerRests
<1>13. kripke' = kripke \cup {KripkeOf(x, m) : x \in state}
  BY <1>4, <1>5
<1>14. QED
  BY <1>2, <1>6, <1>9, <1>10, <1>12, <1>13 DEF HearsSucc

LEMMA DstStep ==
  ASSUME TypeInv, Dst
  PROVE  Listens /\ Explores
<1>1. CoreOK /\ ChannelsOK(chan) /\ kripke \subseteq KripkeType
  BY DEF TypeInv, ProtocolOK
<1>2. mcPc = "explore" /\ CheckerOnly /\ UNCHANGED <<state, kripke>>
  BY DEF Dst
<1>3. ASSUME NEW id \in Bytes, NEW p \in Process, NEW named, AskState(id, p, named, chan)
      PROVE  AsksFor(id, p, named, {}) /\ Listens
  <2>1. PICK n \in Question : n = Message("ASK_STATE", id)
    BY QuestionTags
  <2>2. chan' = MpiSend(chan, Checker, p, n)
    BY <1>3, <2>1 DEF AskState
  <2>3. Put(<<Checker, p>>, n) /\ Others({<<Checker, p>>}) /\ SameTravel
    BY <1>1, <2>2, AskStep
  <2>4. Others({} \cup {<<Checker, p>>})
    BY <2>3 DEF Others
  <2>5. AsksFor(id, p, named, {})
    BY <1>3, <2>1, <2>3, <2>4 DEF AsksFor, AskState
  <2>6. QED
    BY <1>1, <1>2, <2>3, <2>5, CheckerRests
<1>4. PICK x \in kripke : (\E u \in x.m_succ : AskState(u.id, u.process, x.named, chan))
                          \/ (x.m_div /\ AskState(x.id, x.m_container, x.named, chan))
  BY DEF Dst
<1>5. x.id \in Bytes /\ x.m_container \in Process /\ x.m_succ \in SUBSET SuccType
  BY <1>1 DEF KripkeType
<1>6. CASE \E u \in x.m_succ : AskState(u.id, u.process, x.named, chan)
  <2>1. PICK u \in x.m_succ : AskState(u.id, u.process, x.named, chan)
    BY <1>6
  <2>2. u.id \in Bytes /\ u.process \in Process
    BY <1>5 DEF SuccType
  <2>3. AsksFor(u.id, u.process, x.named, {}) /\ Listens
    BY <1>3, <2>1, <2>2
  <2>4. QED
    BY <1>2, <2>3 DEF Explores
<1>7. CASE x.m_div /\ AskState(x.id, x.m_container, x.named, chan)
  BY <1>2, <1>3, <1>5, <1>7 DEF Explores
<1>8. QED
  BY <1>4, <1>6, <1>7

LEMMA FinishStep ==
  ASSUME TypeInv, Finish
  PROVE  Listens /\ Ends
<1>1. CoreOK /\ ChannelsOK(chan) /\ LaunchOK
  BY DEF TypeInv
<1> DEFINE m == Message("FINISH", 0)
<1>2. /\ mcPc = "explore" /\ mcPc' = "end" /\ CheckerOnly /\ UNCHANGED <<asked, state, kripke>>
      /\ chan' = [c \in DOMAIN chan |-> IF c[1] = Checker /\ m_nb_thread[c[2]] > 0
                                        THEN Append(chan[c], m) ELSE chan[c]]
  BY DEF Finish
<1>3. m \in Question
  BY QuestionTags
<1> HIDE DEF m
<1>4. chan = [c \in Channel |-> chan[c]] /\ \A c \in Channel : chan[c] \in Seq(MessagesOf(c))
  BY <1>1 DEF ChannelsOK
<1>5. DOMAIN chan = Channel
  BY <1>4
<1>6. ASSUME NEW p \in Process
      PROVE  /\ m_nb_thread[p] > 0 => Put(<<Checker, p>>, m)
             /\ m_nb_thread[p] = 0 => chan'[<<Checker, p>>] = chan[<<Checker, p>>]
             /\ chan'[<<p, Checker>>] = chan[<<p, Checker>>]
  <2>1. /\ <<Checker, p>> \in Channel /\ MessagesOf(<<Checker, p>>) = Question
        /\ <<p, Checker>> \in Channel /\ p # Checker
    BY ChannelProperties, ProcessProperties
  <2>2. chan'[<<Checker, p>>] = IF m_nb_thread[p] > 0 THEN Append(chan[<<Checker, p>>], m)
                                                     ELSE chan[<<Checker, p>>]
    BY <1>2, <1>5, <2>1
  <2>3. chan'[<<p, Checker>>] = chan[<<p, Checker>>]
    BY <1>2, <1>5, <2>1
  <2>4. chan[<<Checker, p>>] \in Seq(Question)
    BY <1>4, <2>1
  <2>5. Elements(Append(chan[<<Checker, p>>], m)) = Elements(chan[<<Checker, p>>]) \cup {m}
    BY <1>3, <2>4, AppendElements
  <2>6. Append(<<>>, m) = <<m>>
    OBVIOUS
  <2>7. m_nb_thread[p] > 0 => Put(<<Checker, p>>, m)
    BY <2>2, <2>5, <2>6 DEF Put
  <2>8. ~(m_nb_thread[p] = 0 /\ m_nb_thread[p] > 0)
    OBVIOUS
  <2>9. QED
    BY <2>2, <2>3, <2>7, <2>8
<1>7. ChannelsOK(chan')
  <2>1. ASSUME NEW c \in Channel
        PROVE  chan'[c] \in Seq(MessagesOf(c))
    <3>1. CASE c[1] = Checker /\ m_nb_thread[c[2]] > 0
      <4>1. MessagesOf(c) = Question /\ chan[c] \in Seq(Question)
        BY <1>4, <3>1 DEF MessagesOf
      <4>2. Append(chan[c], m) \in Seq(Question)
        BY <1>3, <4>1
      <4>3. QED
        BY <1>2, <1>5, <3>1, <4>1, <4>2
    <3>2. CASE ~(c[1] = Checker /\ m_nb_thread[c[2]] > 0)
      BY <1>2, <1>4, <1>5, <3>2
    <3>3. QED
      BY <3>1, <3>2
  <2>2. chan' = [c \in Channel |-> chan'[c]]
    BY <1>2, <1>5
  <2>3. QED
    BY <2>1, <2>2 DEF ChannelsOK
<1>8. SameTravel
  <2>1. ASSUME NEW p \in Process, NEW q \in Process
        PROVE  chan'[<<p, q>>] = chan[<<p, q>>]
    <3>1. <<p, q>> \in Channel /\ p # Checker
      BY ChannelProperties, ProcessProperties
    <3>2. QED
      BY <1>2, <1>5, <3>1
  <2>2. QED
    BY <2>1 DEF SameTravel
<1>9. Listens
  BY <1>1, <1>2, <1>8, CheckerRests
<1>10. QED
  BY <1>2, <1>6, <1>7, <1>9 DEF Ends, m

LEMMA CheckerSteps ==
  ASSUME TypeInv, CheckerStep
  PROVE  Listens /\ CheckerCases
BY GetInitStep, ReceiveInitialStep, ReceiveStateStep, ReceiveSuccStep, DstStep, FinishStep
   DEF CheckerStep, CheckerCases

-----------------------------------------------------------------------------

(* What each step of thread 0 that concerns the protocol does.             *)

(* Nothing happens in the checker. *)
Serves == Rests /\ ChannelsOK(chan') /\ UNCHANGED checker

(* An answer of process p is written. *)
Replies(p, m) ==
  /\ m \in Answer /\ answer' \in [Process -> Seq(Answer)]
  /\ answer[p] = <<>> => answer'[p] = <<m>>
  /\ Elements(answer'[p]) = Elements(answer[p]) \cup {m}
  /\ \A q \in Process \ {p} : answer'[q] = answer[q]

Answers(p) ==
  /\ answer[p] # <<>>
  /\ \E m \in Answer :
       Shrunk(Answer, answer, answer', p, m) /\ Put(<<p, Checker>>, m) /\ Others({<<p, Checker>>})
  /\ UNCHANGED <<m_Terminated, waits, crashed>>

(* Thread 0 of p receives a question. *)
Reads(p, m) ==
  /\ m \in Question /\ Get(<<Checker, p>>, m)
  /\ pc[Comm(p)] \in {"held", "read"} \/ answer[p] # <<>>

ReadsAskState(p) ==
  /\ \E m \in Question :
       /\ m.tag = "ASK_STATE" /\ Reads(p, m)
       /\ \/ /\ findSHAPos(p, m.v) = {}
             /\ m_waitingAgregate' = m_waitingAgregate \cup {p}
             /\ m_id_md5' = [m_id_md5 EXCEPT ![p] = m.v]
             /\ UNCHANGED answer
          \/ /\ \E n \in findSHAPos(p, m.v) : Replies(p, PropMessage(p, n))
             /\ m_waitingAgregate' = m_waitingAgregate \ {p}
             /\ UNCHANGED m_id_md5
  /\ Others({<<Checker, p>>})
  /\ UNCHANGED <<m_Terminated, m_waitingBuildSucc, m_aggWaiting, crashed>>

FindsSucc(p, id) ==
  /\ \E n \in findSHAPos(p, id) :
       /\ m_aggWaiting' = [m_aggWaiting EXCEPT ![p] = n]
       /\ \/ /\ m_graph[p][n].m_completed
             /\ m_waitingBuildSucc' = [m_waitingBuildSucc EXCEPT ![p] = "waitInitial"]
             /\ Replies(p, SuccMessage(p, n))
          \/ /\ m_waitingBuildSucc' = [m_waitingBuildSucc EXCEPT ![p] = "waitingSucc"]
             /\ UNCHANGED answer
  /\ UNCHANGED m_id_md5

ReadsAskSucc(p) ==
  /\ \E m \in Question :
       /\ m.tag = "ASK_SUCC" /\ Reads(p, m)
       /\ SuccNotFound(p, m.v) \/ FindsSucc(p, m.v)
  /\ Others({<<Checker, p>>})
  /\ UNCHANGED <<m_Terminated, m_waitingAgregate, crashed>>

ReadsFinish(p) ==
  /\ \E m \in Question : m.tag = "FINISH" /\ Reads(p, m)
  /\ Others({<<Checker, p>>})
  /\ m_Terminated' = m_Terminated \cup {p}
  /\ UNCHANGED <<waits, answer, crashed>>

ReadsInitial(p) ==
  /\ p = 0 /\ 1 \in NodesOf(0) /\ Agg(0, 1) = InitialAggregate /\ m_graph[0][1].m_SHA2 = InitialAggregate
  /\ \E m \in Question : m.tag = "INITIAL" /\ Reads(p, m)
  /\ Put(<<0, Checker>>, AckInitial(0))
  /\ Others({<<0, Checker>>, <<Checker, 0>>})
  /\ UNCHANGED <<m_Terminated, waits, answer, crashed>>

AnswersSucc(p) ==
  /\ answer[p] = <<>> /\ pc[Comm(p)] = "read"
  /\ \E n \in NodesOf(p) :
       /\ n \in AwaitedSucc(p)
       /\ m_aggWaiting' = [m_aggWaiting EXCEPT ![p] = n]
       /\ \/ /\ m_graph[p][n].m_completed
             /\ m_waitingBuildSucc' = [m_waitingBuildSucc EXCEPT ![p] = "waitInitial"]
             /\ Replies(p, SuccMessage(p, n))
          \/ /\ m_waitingBuildSucc[p] = "waitingBuild"
             /\ m_waitingBuildSucc' = [m_waitingBuildSucc EXCEPT ![p] = "waitingSucc"]
             /\ UNCHANGED answer
  /\ UNCHANGED <<m_Terminated, m_waitingAgregate, m_id_md5, chan, crashed>>

AnswersState(p) ==
  /\ answer[p] = <<>> /\ pc[Comm(p)] = "read" /\ p \in m_waitingAgregate
  /\ \E n \in findSHAPos(p, m_id_md5[p]) : Replies(p, PropMessage(p, n))
  /\ m_waitingAgregate' = m_waitingAgregate \ {p}
  /\ UNCHANGED <<m_Terminated, m_waitingBuildSucc, m_id_md5, m_aggWaiting, chan, crashed>>

(* A turn with nothing to do, or the end of it all. *)
Turns(p) ==
  /\ crashed' \in BOOLEAN
  /\ UNCHANGED <<m_Terminated, waits, answer, chan>>

CommCases(p) ==
  \/ Answers(p) \/ ReadsAskState(p) \/ ReadsAskSucc(p) \/ ReadsFinish(p) \/ ReadsInitial(p)
  \/ AnswersSucc(p) \/ AnswersState(p) \/ Turns(p)

LEMMA FoundNodes ==
  ASSUME NEW p, NEW id, NEW n \in findSHAPos(p, id)
  PROVE  n \in NodesOf(p) /\ m_graph[p][n].m_SHA2 = id
BY DEF findSHAPos, NodesOf

LEMMA ReplyGrown ==
  ASSUME NEW p \in Process, NEW m \in Answer, answer \in [Process -> Seq(Answer)],
         \/ answer' = [answer EXCEPT ![p] = <<m>> \o @]
         \/ answer[p] = <<>> /\ answer' = [answer EXCEPT ![p] = <<m>>]
  PROVE  Replies(p, m)
<1>1. PICK l : l = answer[p]
  OBVIOUS
<1>2. l \in Seq(Answer)
  BY <1>1
<1>3. l = <<>> => <<m>> \o l = <<m>>
  BY <1>2
<1>4. answer' = [answer EXCEPT ![p] = <<m>> \o l]
  BY <1>1, <1>3
<1>5. <<m>> \o l \in Seq(Answer) /\ Elements(<<m>> \o l) = Elements(l) \cup {m}
  BY <1>2, FrontElements
<1>6. PICK h : h = <<m>> \o l
  OBVIOUS
<1>7. /\ answer' \in [Process -> Seq(Answer)] /\ answer'[p] = h
      /\ \A q \in Process \ {p} : answer'[q] = answer[q]
  BY <1>4, <1>5, <1>6
<1>8. QED
  BY <1>1, <1>3, <1>5, <1>6, <1>7 DEF Replies

LEMMA SendAnswerStep ==
  ASSUME TypeInv, NEW p \in Process, SendAnswer(p)
  PROVE  Serves /\ Answers(p)
<1>1. CoreOK /\ ChannelsOK(chan) /\ answer \in [Process -> Seq(Answer)]
  BY DEF TypeInv, ProtocolOK
<1>2. /\ answer[p] # <<>> /\ chan' = MpiSend(chan, p, Checker, Head(answer[p]))
      /\ answer' = [answer EXCEPT ![p] = Tail(@)]
      /\ UNCHANGED <<launch, m_graph, queues, m_Terminated, waits, s, crashed, pc, local, checker>>
  BY DEF SendAnswer
<1>3. PICK m : m = Head(answer[p])
  OBVIOUS
<1>4. Shrunk(Answer, answer, answer', p, m)
  BY <1>1, <1>2, <1>3, Tailed
<1>5. PICK c : c = Checker
  OBVIOUS
<1>6. m \in MessagesOf(<<p, c>>) /\ <<p, c>> \in Channel
  BY <1>4, <1>5, ChannelProperties DEF Shrunk
<1>7. chan' = MpiSend(chan, p, c, m)
  BY <1>2, <1>3, <1>5
<1>8. Put(<<p, c>>, m) /\ Others({<<p, c>>})
  BY <1>1, <1>6, <1>7, PutStep
<1>9. Put(<<p, Checker>>, m) /\ Others({<<p, Checker>>}) /\ ChannelsOK(chan')
  BY <1>5, <1>8 DEF Others
<1>10. SameTravel
  <2>1. Others({<<p, Checker>>, <<Checker, p>>})
    BY <1>9 DEF Others
  <2>2. QED
    BY <2>1, OthersTravel
<1>11. AllIdle
  BY <1>1, <1>2, NobodyGoes
<1>12. m \in Answer
  BY <1>4 DEF Shrunk
<1>13. QED
  BY <1>2, <1>4, <1>9, <1>10, <1>11, <1>12 DEF Serves, Rests, Answers

(* What thread 0 reads from the checker is a question, and what it reads   *)
(* from a process is a state.                                              *)
LEMMA QuestionRead ==
  ASSUME TypeInv, NEW p \in Process, ReadMessage(p),
         ~\E q \in Process : /\ chan[<<q, p>>] # <<>> /\ chan' = MpiRecv(chan, q, p)
                             /\ ReadState(p, Head(chan[<<q, p>>]).v)
  PROVE  \E m \in Question :
           /\ m = Head(chan[<<Checker, p>>]) /\ chan[<<Checker, p>>] # <<>>
           /\ chan' = IF m.tag = "INITIAL" THEN MpiSend(MpiRecv(chan, Checker, p), p, Checker, AckInitial(p))
                                           ELSE MpiRecv(chan, Checker, p)
           /\ \/ m.tag = "ASK_STATE" /\ ReadAskState(p, m.v)
              \/ m.tag = "ASK_SUCC" /\ ReadAskSucc(p, m.v)
              \/ m.tag = "FINISH" /\ ReadFinish(p)
              \/ m.tag = "INITIAL" /\ ReadInitial(p)
<1>1. ChannelsOK(chan) /\ 0 .. Checker = Process \cup {Checker}
  BY ProcessProperties DEF TypeInv
<1>2. PICK q \in Process \cup {Checker} : \E m :
        /\ m = Head(chan[<<q, p>>]) /\ chan[<<q, p>>] # <<>>
        /\ chan' = IF m.tag = "INITIAL" THEN MpiSend(MpiRecv(chan, q, p), p, q, AckInitial(p))
                                        ELSE MpiRecv(chan, q, p)
        /\ \/ m.tag = "STATE" /\ ReadState(p, m.v)
           \/ m.tag = "ASK_STATE" /\ ReadAskState(p, m.v)
           \/ m.tag = "ASK_SUCC" /\ ReadAskSucc(p, m.v)
           \/ m.tag = "FINISH" /\ ReadFinish(p)
           \/ m.tag = "INITIAL" /\ ReadInitial(p)
  BY <1>1 DEF ReadMessage
<1>3. PICK m :
        /\ m = Head(chan[<<q, p>>]) /\ chan[<<q, p>>] # <<>>
        /\ chan' = IF m.tag = "INITIAL" THEN MpiSend(MpiRecv(chan, q, p), p, q, AckInitial(p))
                                        ELSE MpiRecv(chan, q, p)
        /\ \/ m.tag = "STATE" /\ ReadState(p, m.v)
           \/ m.tag = "ASK_STATE" /\ ReadAskState(p, m.v)
           \/ m.tag = "ASK_SUCC" /\ ReadAskSucc(p, m.v)
           \/ m.tag = "FINISH" /\ ReadFinish(p)
           \/ m.tag = "INITIAL" /\ ReadInitial(p)
  BY <1>2
<1>4. <<q, p>> \in Channel
  BY ChannelProperties
<1>5. m \in MessagesOf(<<q, p>>)
  BY <1>1, <1>3, <1>4, Taken
<1>6. CASE q \in Process
  <2>1. m.tag = "STATE"
    BY <1>5, <1>6, ChannelProperties, StateMessages
  <2>2. ReadState(p, m.v) /\ chan' = MpiRecv(chan, q, p)
    BY <1>3, <2>1
  <2>3. QED
    BY <1>3, <1>6, <2>2
<1>7. CASE q = Checker
  <2>1. m \in Question
    BY <1>5, <1>7, ChannelProperties
  <2>2. m.tag # "STATE"
    BY <2>1, QuestionTags
  <2>3. QED
    BY <1>3, <1>7, <2>1, <2>2
<1>8. QED
  BY <1>6, <1>7

(* Any question but the first is only received. *)
LEMMA QuestionTaken ==
  ASSUME TypeInv, NEW p \in Process, NEW m \in Question,
         m = Head(chan[<<Checker, p>>]), chan[<<Checker, p>>] # <<>>,
         chan' = MpiRecv(chan, Checker, p),
         pc[Comm(p)] \in {"held", "read"} \/ answer[p] # <<>>
  PROVE  Reads(p, m) /\ Others({<<Checker, p>>}) /\ SameTravel /\ ChannelsOK(chan')
<1>1. ChannelsOK(chan) /\ <<Checker, p>> \in Channel
  BY ChannelProperties DEF TypeInv
<1>2. PICK c : c = Checker
  OBVIOUS
<1>3. /\ <<c, p>> \in Channel /\ chan[<<c, p>>] # <<>> /\ m = Head(chan[<<c, p>>])
      /\ chan' = MpiRecv(chan, c, p)
  BY <1>1, <1>2
<1>4. Get(<<c, p>>, m) /\ Others({<<c, p>>})
  BY <1>1, <1>3, GetStep
<1>5. Others({<<p, Checker>>, <<Checker, p>>})
  BY <1>2, <1>4 DEF Others
<1>6. SameTravel
  BY <1>5, OthersTravel
<1>7. QED
  BY <1>2, <1>4, <1>6 DEF Reads, Others

LEMMA ReadRests ==
  ASSUME TypeInv, NEW p \in Process, ReadMessage(p), UNCHANGED <<m_received_msg, pc>>, SameTravel,
         ChannelsOK(chan')
  PROVE  Serves
<1>1. AllIdle
  BY NobodyGoes DEF TypeInv
<1>2. UNCHANGED <<launch, m_graph, m_common_stack, m_tosend_msg, s, local, checker>>
  BY DEF ReadMessage
<1>3. QED
  BY <1>1, <1>2 DEF Serves, Rests, queues

LEMMA ReadAskStateStep ==
  ASSUME TypeInv, NEW p \in Process, NEW m \in Question, ReadMessage(p), m.tag = "ASK_STATE",
         ReadAskState(p, m.v),
         Reads(p, m), Others({<<Checker, p>>}), SameTravel, ChannelsOK(chan')
  PROVE  Serves /\ ReadsAskState(p)
<1>1. CoreOK /\ answer \in [Process -> Seq(Answer)]
  BY DEF TypeInv, ProtocolOK
<1>2. UNCHANGED <<m_received_msg, m_Terminated, m_waitingBuildSucc, m_aggWaiting, crashed, pc>>
  BY DEF ReadAskState
<1>3. Serves
  BY <1>2, ReadRests
<1>4. CASE findSHAPos(p, m.v) = {}
  BY <1>2, <1>3, <1>4 DEF ReadAskState, ReadsAskState
<1>5. ASSUME NEW n \in findSHAPos(p, m.v), answer' = [answer EXCEPT ![p] = <<PropMessage(p, n)>> \o @]
      PROVE  Replies(p, PropMessage(p, n))
  <2>1. PICK r : r = PropMessage(p, n)
    OBVIOUS
  <2>2. r \in Answer
    BY <1>1, <2>1, FoundNodes, PropType
  <2>3. answer' = [answer EXCEPT ![p] = <<r>> \o @]
    BY <1>5, <2>1
  <2>4. Replies(p, r)
    BY <1>1, <2>2, <2>3, ReplyGrown
  <2>5. QED
    BY <2>1, <2>4
<1>6. CASE findSHAPos(p, m.v) # {}
  <2>1. \E n \in findSHAPos(p, m.v) : Replies(p, PropMessage(p, n))
    BY <1>5, <1>6 DEF ReadAskState
  <2>2. m_waitingAgregate' = m_waitingAgregate \ {p} /\ UNCHANGED m_id_md5
    BY <1>6 DEF ReadAskState
  <2>3. QED
    BY <1>2, <1>3, <2>1, <2>2 DEF ReadsAskState
<1>7. QED
  BY <1>4, <1>6

LEMMA ReadAskSuccStep ==
  ASSUME TypeInv, NEW p \in Process, NEW m \in Question, ReadMessage(p), m.tag = "ASK_SUCC",
         ReadAskSucc(p, m.v),
         Reads(p, m), Others({<<Checker, p>>}), SameTravel, ChannelsOK(chan')
  PROVE  Serves /\ ReadsAskSucc(p)
<1>1. CoreOK /\ EdgesOK /\ NodesOK /\ answer \in [Process -> Seq(Answer)]
  BY DEF TypeInv, ProtocolOK
<1>2. UNCHANGED <<m_received_msg, m_Terminated, m_waitingAgregate, crashed, pc>>
  BY DEF ReadAskSucc
<1>3. Serves
  BY <1>2, ReadRests
<1>4. ASSUME NEW n \in findSHAPos(p, m.v), SuccFound(p, n, m_graph[p][n].m_completed, "waitingSucc")
      PROVE  FindsSucc(p, m.v)
  <2>1. /\ m_aggWaiting' = [m_aggWaiting EXCEPT ![p] = n] /\ UNCHANGED m_id_md5
        /\ \/ /\ m_graph[p][n].m_completed
              /\ m_waitingBuildSucc' = [m_waitingBuildSucc EXCEPT ![p] = "waitInitial"]
              /\ answer' = [answer EXCEPT ![p] = <<SuccMessage(p, n)>> \o @]
           \/ /\ m_waitingBuildSucc' = [m_waitingBuildSucc EXCEPT ![p] = "waitingSucc"]
              /\ UNCHANGED answer
    BY <1>4 DEF SuccFound
  <2>2. PICK r : r = SuccMessage(p, n)
    OBVIOUS
  <2>3. r \in Answer
    BY <1>1, <2>2, FoundNodes, SuccTyped
  <2>4. answer' = [answer EXCEPT ![p] = <<SuccMessage(p, n)>> \o @] => Replies(p, r)
    BY <1>1, <2>2, <2>3, ReplyGrown
  <2>5. QED
    BY <2>1, <2>2, <2>4 DEF FindsSucc
<1>5. SuccNotFound(p, m.v) \/ FindsSucc(p, m.v)
  BY <1>4 DEF ReadAskSucc
<1>6. QED
  BY <1>2, <1>3, <1>5 DEF ReadsAskSucc

LEMMA ReadFinishStep ==
  ASSUME TypeInv, NEW p \in Process, NEW m \in Question, ReadMessage(p), m.tag = "FINISH",
         ReadFinish(p),
         Reads(p, m), Others({<<Checker, p>>}), SameTravel, ChannelsOK(chan')
  PROVE  Serves /\ ReadsFinish(p)
<1>1. CoreOK /\ LaunchOK
  BY DEF TypeInv
<1>2. /\ m_Terminated' = m_Terminated \cup {p}
      /\ pc' = [x \in Thread |-> IF x \in Waiting(p) THEN "loop" ELSE pc[x]]
      /\ UNCHANGED <<m_received_msg, waits, answer, crashed>>
  BY DEF ReadFinish
<1>3. AllIdle
  <2>1. pc \in [Thread -> CommLabel \cup BuilderLabel] /\ "loop" \in Neutral /\ "waiting" \in Neutral
    BY <1>1 DEF CoreOK, Neutral
  <2>2. \A w \in Waiting(p) : w \in Thread /\ w[2] # 0 /\ pc[w] = "waiting"
    BY <1>1, BuildersProperties DEF Waiting
  <2>3. "loop" \in CommLabel \cup BuilderLabel
    BY DEF BuilderLabel, Neutral
  <2>4. QED
    BY <1>2, <2>1, <2>2, <2>3 DEF AllIdle, Idles
<1>4. UNCHANGED <<launch, m_graph, m_common_stack, m_tosend_msg, s, local, checker>>
  BY DEF ReadMessage
<1>5. Serves
  BY <1>2, <1>3, <1>4 DEF Serves, Rests, queues
<1>6. QED
  BY <1>2, <1>5 DEF ReadsFinish

LEMMA ReadInitialStep ==
  ASSUME TypeInv, NEW p \in Process, NEW m \in Question, ReadMessage(p), m.tag = "INITIAL",
         ReadInitial(p), m = Head(chan[<<Checker, p>>]), chan[<<Checker, p>>] # <<>>,
         chan' = MpiSend(MpiRecv(chan, Checker, p), p, Checker, AckInitial(p))
  PROVE  Serves /\ ReadsInitial(p)
<1>1. CoreOK /\ LaunchOK /\ LabelsOK /\ ChannelsOK(chan) /\ StartOK /\ AskedOK
  BY DEF TypeInv
<1>2. /\ UNCHANGED <<m_received_msg, m_Terminated, waits, answer, crashed, pc>>
      /\ pc[Comm(p)] \in {"held", "read"} \/ answer[p] # <<>>
  BY DEF ReadInitial, ReadMessage
<1>3. PICK c, ch : c = Checker /\ ch = MpiRecv(chan, c, p)
  OBVIOUS
<1>4. <<c, p>> \in Channel /\ <<p, c>> \in Channel /\ <<p, c>> # <<c, p>>
      /\ MessagesOf(<<p, c>>) = Answer
  BY <1>3, ProcessProperties, ChannelProperties
<1>5. /\ ChannelsOK(ch)
      /\ ch[<<c, p>>] = Tail(chan[<<c, p>>])
      /\ Elements(chan[<<c, p>>]) = Elements(ch[<<c, p>>]) \cup {m}
      /\ \A d \in Channel \ {<<c, p>>} : ch[d] = chan[d]
  <2>1. chan[<<c, p>>] # <<>> /\ m = Head(chan[<<c, p>>])
    BY <1>3
  <2>2. /\ ChannelsOK(MpiRecv(chan, c, p))
        /\ MpiRecv(chan, c, p)[<<c, p>>] = Tail(chan[<<c, p>>])
        /\ Elements(chan[<<c, p>>])
              = Elements(MpiRecv(chan, c, p)[<<c, p>>]) \cup {Head(chan[<<c, p>>])}
        /\ \A d \in Channel \ {<<c, p>>} : MpiRecv(chan, c, p)[d] = chan[d]
    BY <1>1, <1>4, <2>1, Taken
  <2>3. QED
    BY <1>3, <2>1, <2>2
<1>6. p = 0
  BY <1>1, <1>3, <1>5 DEF AskedOK
<1>7. pc[Comm(0)] # "start" /\ m_nb_thread[0] # 0
  <2>1. CASE answer[p] # <<>>
    BY <1>1, <1>6, <2>1 DEF AskedOK
  <2>2. CASE pc[Comm(p)] \in {"held", "read"}
    <3>1. Comm(p) \in Thread /\ Comm(p)[1] = p /\ Comm(p)[2] = 0
      BY CommProperties
    <3>2. 0 < m_nb_thread[p]
      BY <1>1, <2>2, <3>1 DEF LabelsOK
    <3>3. QED
      BY <1>6, <2>2, <3>2
  <2>3. QED
    BY <1>2, <2>1, <2>2
<1>8. 1 \in NodesOf(0) /\ Agg(0, 1) = InitialAggregate /\ m_graph[0][1].m_SHA2 = InitialAggregate
  BY <1>1, <1>7 DEF StartOK
<1>9. PICK n : n = AckInitial(p)
  OBVIOUS
<1>10. n \in MessagesOf(<<p, c>>)
  BY <1>1, <1>4, <1>6, <1>8, <1>9, AckType
<1>11. PICK dh : dh = chan'
  OBVIOUS
<1>12. dh = MpiSend(ch, p, c, n)
  BY <1>3, <1>9, <1>11
<1>13. ChannelsOK(ch) /\ <<p, c>> \in Channel
  BY <1>4, <1>5
<1>14. Sends(ch, dh, p, c, n)
  BY <1>10, <1>12, <1>13 DEF Sends
<1>15. Gains(ch, dh, p, c, n)
  BY <1>14, Sent
<1>16. /\ ChannelsOK(dh)
       /\ ch[<<p, c>>] = <<>> => dh[<<p, c>>] = <<n>>
       /\ \A v : v \in Elements(dh[<<p, c>>]) <=> v \in Elements(ch[<<p, c>>]) \/ v = n
  BY <1>15 DEF Gains
<1>17. \A d \in Channel \ {<<p, c>>} : dh[d] = ch[d]
  BY <1>15 DEF Gains
<1>18. Put(<<p, c>>, n)
  BY <1>4, <1>5, <1>11, <1>16 DEF Put
<1>19. dh[<<c, p>>] = Tail(chan[<<c, p>>])
  BY <1>4, <1>5, <1>17
<1>20. Tail(<<m>>) = <<>>
  OBVIOUS
<1>21. Get(<<c, p>>, m)
  BY <1>4, <1>5, <1>11, <1>17, <1>19, <1>20 DEF Get
<1>22. Others({<<p, c>>, <<c, p>>})
  BY <1>5, <1>11, <1>16, <1>17 DEF Others
<1>23. SameTravel
  BY <1>3, <1>22, OthersTravel
<1>24. Serves
  BY <1>2, <1>11, <1>16, <1>23, ReadRests
<1>25. Reads(p, m)
  BY <1>2, <1>3, <1>21 DEF Reads
<1>26. /\ p = 0 /\ Put(<<0, Checker>>, AckInitial(0))
       /\ Others({<<0, Checker>>, <<Checker, 0>>})
  BY <1>3, <1>6, <1>9, <1>18, <1>22
<1>27. QED
  BY <1>2, <1>8, <1>24, <1>25, <1>26 DEF ReadsInitial

LEMMA ReadStep ==
  ASSUME TypeInv, NEW p \in Process, ReadMessage(p)
  PROVE  \/ Mute /\ \E q \in Process : ReadsState(p, q)
         \/ Serves /\ CommCases(p)
<1>1. CASE \E q \in Process : /\ chan[<<q, p>>] # <<>> /\ chan' = MpiRecv(chan, q, p)
                              /\ ReadState(p, Head(chan[<<q, p>>]).v)
  <2>1. PICK q \in Process : /\ chan[<<q, p>>] # <<>> /\ chan' = MpiRecv(chan, q, p)
                             /\ ReadState(p, Head(chan[<<q, p>>]).v)
    BY <1>1
  <2>2. UNCHANGED <<launch, m_graph, m_common_stack, m_tosend_msg, s, local, checker>>
    BY DEF ReadMessage
  <2>3. QED
    BY <2>1, <2>2, ReadStateStep
<1>2. CASE ~\E q \in Process : /\ chan[<<q, p>>] # <<>> /\ chan' = MpiRecv(chan, q, p)
                               /\ ReadState(p, Head(chan[<<q, p>>]).v)
  <2>1. PICK m \in Question :
           /\ m = Head(chan[<<Checker, p>>]) /\ chan[<<Checker, p>>] # <<>>
           /\ chan' = IF m.tag = "INITIAL"
                      THEN MpiSend(MpiRecv(chan, Checker, p), p, Checker, AckInitial(p))
                      ELSE MpiRecv(chan, Checker, p)
           /\ \/ m.tag = "ASK_STATE" /\ ReadAskState(p, m.v)
              \/ m.tag = "ASK_SUCC" /\ ReadAskSucc(p, m.v)
              \/ m.tag = "FINISH" /\ ReadFinish(p)
              \/ m.tag = "INITIAL" /\ ReadInitial(p)
    BY <1>2, QuestionRead
  <2>2. CASE m.tag = "INITIAL"
    <3>1. ReadInitial(p)
      BY <2>1, <2>2
    <3>2. Serves /\ ReadsInitial(p)
      BY <2>1, <2>2, <3>1, ReadInitialStep
    <3>3. QED
      BY <3>2 DEF CommCases
  <2>3. CASE m.tag # "INITIAL"
    <3>1. pc[Comm(p)] \in {"held", "read"} \/ answer[p] # <<>>
      BY DEF ReadMessage
    <3>2. Reads(p, m) /\ Others({<<Checker, p>>}) /\ SameTravel /\ ChannelsOK(chan')
      BY <2>1, <2>3, <3>1, QuestionTaken
    <3>3. CASE m.tag = "ASK_STATE" /\ ReadAskState(p, m.v)
      BY <3>2, <3>3, ReadAskStateStep DEF CommCases
    <3>4. CASE m.tag = "ASK_SUCC" /\ ReadAskSucc(p, m.v)
      BY <3>2, <3>4, ReadAskSuccStep DEF CommCases
    <3>5. CASE m.tag = "FINISH" /\ ReadFinish(p)
      BY <3>2, <3>5, ReadFinishStep DEF CommCases
    <3>6. QED
      BY <2>1, <2>3, <3>3, <3>4, <3>5
  <2>4. QED
    BY <2>2, <2>3
<1>3. QED
  BY <1>1, <1>2

(* The turns of thread 0. *)
LEMMA TurnRests ==
  ASSUME TypeInv, NEW p \in Process, pc[Comm(p)] = "read",
         UNCHANGED pc \/ \E label \in {"send", "read", "done"} : Goto(Comm(p), label),
         UNCHANGED <<launch, m_graph, queues, chan, s, local, checker>>
  PROVE  Serves
<1>1. CoreOK /\ ChannelsOK(chan)
  BY DEF TypeInv
<1>2. AllIdle
  BY <1>1, NobodyGoes, CommGoes
<1>3. SameTravel
  BY DEF SameTravel
<1>4. QED
  BY <1>1, <1>2, <1>3 DEF Serves, Rests

LEMMA AnswerSuccStep ==
  ASSUME TypeInv, NEW p \in Process, AnswerSucc(p)
  PROVE  Serves /\ AnswersSucc(p)
<1>1. CoreOK /\ EdgesOK /\ ProtocolOK /\ answer \in [Process -> Seq(Answer)]
  BY DEF TypeInv, ProtocolOK
<1>2. /\ pc[Comm(p)] = "read" /\ answer[p] = <<>>
      /\ UNCHANGED <<launch, m_graph, queues, m_Terminated, m_waitingAgregate, m_id_md5, chan, s, crashed,
                     pc, local, checker>>
  BY DEF AnswerSucc, Polling
<1>3. Serves
  BY <1>2, TurnRests
<1>4. PICK n \in AwaitedSucc(p) \ {NoState} :
       /\ m_aggWaiting' = [m_aggWaiting EXCEPT ![p] = n]
       /\ \/ /\ m_graph[p][n].m_completed
             /\ m_waitingBuildSucc' = [m_waitingBuildSucc EXCEPT ![p] = "waitInitial"]
             /\ answer' = [answer EXCEPT ![p] = <<SuccMessage(p, n)>>]
          \/ /\ ~m_graph[p][n].m_completed /\ m_waitingBuildSucc[p] = "waitingBuild"
             /\ m_waitingBuildSucc' = [m_waitingBuildSucc EXCEPT ![p] = "waitingSucc"]
             /\ UNCHANGED answer
  BY DEF AnswerSucc
<1>5. n \in NodesOf(p)
  <2>1. /\ m_waitingBuildSucc[p] \in {"waitInitial", "waitingBuild", "waitingSucc"}
        /\ m_aggWaiting[p] \in NodesOf(p) \cup {NoState}
    BY <1>1 DEF ProtocolOK
  <2>2. CASE m_waitingBuildSucc[p] = "waitInitial"
    BY <1>4, <2>2 DEF AwaitedSucc
  <2>3. CASE m_waitingBuildSucc[p] = "waitingBuild"
    BY <1>4, <2>3, FoundNodes DEF AwaitedSucc
  <2>4. CASE m_waitingBuildSucc[p] = "waitingSucc"
    BY <1>4, <2>1, <2>4 DEF AwaitedSucc
  <2>5. QED
    BY <2>1, <2>2, <2>3, <2>4
<1>6. ASSUME answer' = [answer EXCEPT ![p] = <<SuccMessage(p, n)>>]
      PROVE  Replies(p, SuccMessage(p, n))
  <2>1. PICK r : r = SuccMessage(p, n)
    OBVIOUS
  <2>2. r \in Answer
    BY <1>1, <1>5, <2>1, SuccTyped
  <2>3. answer' = [answer EXCEPT ![p] = <<r>>]
    BY <1>6, <2>1
  <2>4. Replies(p, r)
    BY <1>1, <1>2, <2>2, <2>3, ReplyGrown
  <2>5. QED
    BY <2>1, <2>4
<1>7. QED
  BY <1>2, <1>3, <1>4, <1>5, <1>6 DEF AnswersSucc

LEMMA AnswerStateStep ==
  ASSUME TypeInv, NEW p \in Process, AnswerState(p)
  PROVE  Serves /\ AnswersState(p)
<1>1. CoreOK /\ answer \in [Process -> Seq(Answer)]
  BY DEF TypeInv, ProtocolOK
<1>2. /\ pc[Comm(p)] = "read" /\ answer[p] = <<>> /\ p \in m_waitingAgregate
      /\ m_waitingAgregate' = m_waitingAgregate \ {p}
      /\ UNCHANGED <<launch, m_graph, queues, m_Terminated, m_waitingBuildSucc, m_id_md5, m_aggWaiting,
                     chan, s, crashed, pc, local, checker>>
  BY DEF AnswerState, Polling
<1>3. Serves
  BY <1>2, TurnRests
<1>4. PICK n \in findSHAPos(p, m_id_md5[p]) : answer' = [answer EXCEPT ![p] = <<PropMessage(p, n)>>]
  BY DEF AnswerState
<1>5. PICK r : r = PropMessage(p, n)
  OBVIOUS
<1>6. r \in Answer
  BY <1>1, <1>4, <1>5, FoundNodes, PropType
<1>7. answer' = [answer EXCEPT ![p] = <<r>>]
  BY <1>4, <1>5
<1>8. Replies(p, r)
  BY <1>1, <1>2, <1>6, <1>7, ReplyGrown
<1>9. QED
  BY <1>2, <1>3, <1>4, <1>5, <1>8 DEF AnswersState

LEMMA TurnsStep ==
  ASSUME TypeInv, NEW p \in Process, NextTurn(p) \/ ReadNull(p)
  PROVE  Serves /\ Turns(p)
<1>1. /\ pc[Comm(p)] = "read"
      /\ UNCHANGED <<launch, m_graph, queues, m_Terminated, waits, chan, s, answer, local, checker>>
  BY DEF NextTurn, ReadNull, Polling, comm
<1>2. crashed' \in BOOLEAN
  BY DEF NextTurn, ReadNull, comm, TypeInv, ProtocolOK
<1>3. UNCHANGED pc \/ \E label \in {"send", "read", "done"} : Goto(Comm(p), label)
  BY DEF NextTurn, ReadNull
<1>5. Serves
  BY <1>1, <1>3, TurnRests
<1>4. QED
  BY <1>1, <1>2, <1>5 DEF Turns

LEMMA CommSteps ==
  ASSUME TypeInv, NEW p \in Process, CommStep(p) \/ ReadMessage(p)
  PROVE  \/ Mute /\ \/ Rests \/ TakesMessage(p) \/ DropsMessage(p) \/ SendsState(p)
                    \/ \E q \in Process : ReadsState(p, q)
         \/ Serves /\ CommCases(p)
BY PopMessageStep, SendStateStep, SendAnswerStep, AnswerSuccStep, TurnsStep, AnswerStateStep, ReadStep
   DEF CommStep, CommCases

-----------------------------------------------------------------------------
(* All steps: those of the construction, and those of the protocol, in     *)
(* which the construction rests.                                           *)

Builds(x) == (Starts(x) \/ BuilderCases(x)) /\ SameTravel /\ UNCHANGED s
Carries(p) ==
  TakesMessage(p) \/ DropsMessage(p) \/ SendsState(p) \/ \E q \in Process : ReadsState(p, q)
Constructs == (\E x \in Thread : Builds(x)) \/ \E p \in Process : Carries(p)
Talks ==
  \/ Serves /\ \E p \in Process : CommCases(p)
  \/ Listens /\ CheckerCases

LEMMA BuildSteps ==
  ASSUME TypeInv, NEW x \in Thread, Start(x) \/ BuilderStep(x) \/ SpuriousWakeUp(x)
  PROVE  Mute /\ Builds(x)
<1>1. ChannelsOK(chan) /\ (UNCHANGED chan => SameTravel /\ SameTalk)
  BY DEF TypeInv, SameTravel, SameTalk
<1>2. CASE Start(x)
  <2>1. Starts(x) /\ m_Terminated' \subseteq m_Terminated /\ UNCHANGED <<launch, comm, checker>>
    BY <1>2, StartStep
  <2>2. QED
    BY <1>1, <2>1 DEF Mute, Builds, comm
<1>3. CASE BuilderStep(x) \/ SpuriousWakeUp(x)
  <2>1. BuilderCases(x) /\ UNCHANGED Outside
    BY <1>3, BuilderSteps
  <2>2. QED
    BY <1>1, <2>1 DEF Mute, Builds, Outside, comm
<1>4. QED
  BY <1>2, <1>3

LEMMA Stutters ==
  ASSUME TypeInv, UNCHANGED vars
  PROVE  Mute /\ Rests
<1>1. AllIdle
  BY NobodyGoes DEF TypeInv, vars
<1>2. ChannelsOK(chan) /\ (UNCHANGED chan => SameTravel /\ SameTalk)
  BY DEF TypeInv, SameTravel, SameTalk
<1>3. QED
  BY <1>1, <1>2 DEF vars, Mute, Rests, comm

LEMMA StepCases ==
  ASSUME TypeInv, [Next]_vars
  PROVE  (Mute /\ (Constructs \/ Rests)) \/ Talks
<1>1. ASSUME NEW x \in Thread, Start(x) \/ BuilderStep(x) \/ SpuriousWakeUp(x)
      PROVE  Mute /\ Constructs
  BY <1>1, BuildSteps DEF Constructs
<1>2. ASSUME NEW p \in Process, CommStep(p) \/ ReadMessage(p)
      PROVE  (Mute /\ (Constructs \/ Rests)) \/ Talks
  BY <1>2, CommSteps DEF Constructs, Carries, Talks
<1>3. CASE CheckerStep
  BY <1>3, CheckerSteps DEF Talks
<1>4. CASE UNCHANGED vars
  BY <1>4, Stutters
<1>5. QED
  BY <1>1, <1>2, <1>3, <1>4 DEF Next

LEMMA TalkRests ==
  ASSUME Talks
  PROVE  Rests
BY DEF Talks, Serves, Listens

-----------------------------------------------------------------------------
(* The nodes of a process stay; what is known of them stays too.           *)

Grows ==
  \A p \in Process :
    /\ NodesOf(p) \subseteq NodesOf(p)'
    /\ \A n \in NodesOf(p) : Agg(p, n)' = Agg(p, n) /\ Virtual(p, n)' = Virtual(p, n)

LEMMA AddsGrows ==
  ASSUME NEW p \in Process, NEW n, NEW nd, NEW a, AddsNode(p, n, nd, a)
  PROVE  Grows
BY DEF AddsNode, Grows, NodesOf, Agg, Virtual

LEMMA EditsGrows ==
  ASSUME NEW p \in Process, NEW N, NEW C, NEW n, NEW L, Edits(p, N, C, n, L)
  PROVE  Grows /\ \A q \in Process : NodesOf(q)' = NodesOf(q)
BY DEF Edits, EditsGraph, Grows, NodesOf, Agg, Virtual

LEMMA UnchangedGrows ==
  ASSUME UNCHANGED m_graph
  PROVE  Grows
BY DEF Grows, NodesOf, Agg, Virtual

LEMMA BuildGrows ==
  ASSUME NEW x \in Thread, Builds(x)
  PROVE  Grows
<1>1. x[1] \in Process /\ 0 \in Process
  BY ThreadProperties, ProcessProperties
<1>2. CASE Starts(x)
  BY <1>1, <1>2, AddsGrows, UnchangedGrows DEF Starts
<1>3. CASE FiresNew(x) \/ ReceivesNew(x)
  BY <1>1, <1>3, AddsGrows DEF FiresNew, ReceivesNew
<1>4. CASE FiresKnown(x) \/ Assigns(x) \/ QueuesNew(x) \/ SendsLink(x) \/ Completes(x)
  BY <1>1, <1>4, EditsGrows DEF FiresKnown, Assigns, QueuesNew, SendsLink, AddsEdge, Completes
<1>5. CASE Wanders(x) \/ TakesWork(x) \/ ReceivesKnown(x) \/ QueuesReceived(x)
  BY <1>5, UnchangedGrows DEF Wanders, TakesWork, ReceivesKnown, QueuesReceived
<1>6. QED
  BY <1>2, <1>3, <1>4, <1>5 DEF Builds, BuilderCases

LEMMA StepGrows ==
  ASSUME Constructs \/ Rests
  PROVE  Grows
<1>1. CASE Rests
  BY <1>1, UnchangedGrows DEF Rests
<1>2. ASSUME NEW p \in Process, Carries(p)
      PROVE  Grows
  BY <1>2, UnchangedGrows DEF Carries, TakesMessage, DropsMessage, SendsState, ReadsState
<1>3. QED
  BY <1>1, <1>2, BuildGrows DEF Constructs

-----------------------------------------------------------------------------
(* Types and positions are kept by the steps of the construction.          *)

(* What the steps do to the graphs: a node is added, or nodes that are not *)
(* virtual get what is theirs, are declared complete or linked as the SOG  *)
(* says.                                                                   *)
RightEdits(p, N, C, n, L) ==
  /\ Edits(p, N, C, n, L)
  /\ n \in NodesOf(p)
  /\ \A k \in NodesOf(p) : k \in N \cup C => ~Virtual(p, k)
  /\ \A u \in L : /\ u.to \in NodesOf(p) /\ u.t \in FirableObs[Agg(p, n)]
                  /\ Agg(p, u.to) = Successor[<<Agg(p, n), u.t>>]

GraphCases(p) ==
  \/ UNCHANGED m_graph
  \/ \E n, nd, a : AddsNode(p, n, nd, a)
  \/ \E N, C, n, L : RightEdits(p, N, C, n, L)

LEMMA FireGraph ==
  ASSUME NEW x \in Thread, FiresKnown(x)
  PROVE  GraphCases(x[1])
<1>1. PICK n \in NodesOf(x[1]) : /\ Agg(x[1], n) = Target(x)
                                 /\ Edits(x[1], {}, {}, e[x].state, {[to |-> n, t |-> t'[x]]})
  BY DEF FiresKnown
<1>2. /\ e[x].state \in NodesOf(x[1]) /\ t'[x] \in FirableObs[Agg(x[1], e[x].state)]
      /\ Agg(x[1], n) = Successor[<<Agg(x[1], e[x].state), t'[x]>>]
  BY <1>1 DEF FiresKnown, Fires, Target
<1>3. RightEdits(x[1], {}, {}, e[x].state, {[to |-> n, t |-> t'[x]]})
  BY <1>1, <1>2 DEF RightEdits
<1>4. QED
  BY <1>3 DEF GraphCases

LEMMA BuildGraph ==
  ASSUME TypeInv, NEW x \in Thread, Builds(x)
  PROVE  GraphCases(x[1])
<1>1. CASE UNCHANGED m_graph
  BY <1>1 DEF GraphCases
<1>2. CASE Starts(x) /\ ~UNCHANGED m_graph
  <2>1. x = Comm(0) /\ \E nd \in GraphNode : AddsNode(0, 1, nd, InitialAggregate)
    BY <1>2 DEF Starts
  <2>2. x[1] = 0
    BY <2>1, ProcessProperties, CommProperties
  <2>3. QED
    BY <2>1, <2>2 DEF GraphCases
<1>3. CASE FiresKnown(x)
  BY <1>3, FireGraph
<1>4. CASE FiresNew(x) \/ ReceivesNew(x)
  BY <1>4 DEF FiresNew, ReceivesNew, GraphCases
<1>5. CASE AddsEdge(x)
  <2>1. RightEdits(x[1], {}, {}, e[x].state, {[to |-> pos[x], t |-> t[x]]})
    BY <1>5 DEF AddsEdge, RightEdits
  <2>2. QED
    BY <2>1 DEF GraphCases
<1>6. CASE Assigns(x)
  <2>1. RightEdits(x[1], {pos[x]}, {}, pos[x], {})
    BY <1>6 DEF Assigns, RightEdits
  <2>2. QED
    BY <2>1 DEF GraphCases
<1>7. CASE QueuesNew(x) \/ SendsLink(x)
  BY <1>5, <1>7 DEF QueuesNew, SendsLink
<1>8. CASE Completes(x)
  <2>1. RightEdits(x[1], {}, {e[x].state}, e[x].state, {})
    BY <1>8 DEF Completes, RightEdits
  <2>2. QED
    BY <2>1 DEF GraphCases
<1>9. QED
  BY <1>1, <1>2, <1>3, <1>4, <1>6, <1>7, <1>8
  DEF Builds, BuilderCases, Wanders, TakesWork, ReceivesKnown, QueuesReceived

LEMMA CarryGraph ==
  ASSUME NEW p \in Process, Carries(p)
  PROVE  UNCHANGED m_graph
BY DEF Carries, TakesMessage, DropsMessage, SendsState, ReadsState

LEMMA GraphSteps ==
  ASSUME TypeInv, Constructs \/ Rests
  PROVE  \E p \in Process : GraphCases(p)
<1>1. ASSUME NEW x \in Thread, Builds(x)
      PROVE  \E p \in Process : GraphCases(p)
  BY <1>1, BuildGraph, ThreadProperties
<1>2. CASE UNCHANGED m_graph
  <2>1. 0 \in Process
    BY ProcessProperties
  <2>2. QED
    BY <1>2, <2>1 DEF GraphCases
<1>3. ASSUME NEW p \in Process, Carries(p)
      PROVE  UNCHANGED m_graph
  BY <1>3, CarryGraph
<1>4. QED
  BY <1>1, <1>2, <1>3 DEF Constructs, Rests

LEMMA NodesKept ==
  ASSUME NodesOK, UNCHANGED destination, NEW p \in Process, GraphCases(p)
  PROVE  NodesOK'
<1>1. ASSUME NEW q \in Process, UNCHANGED m_graph
      PROVE  \A n \in NodesOf(q)' : NodeOK(q, m_graph[q][n])'
  BY <1>1 DEF NodesOK, NodesOf, NodeOK, FlagsRight, HasFlags
<1>2. ASSUME NEW q \in Process, m_graph'[q] = m_graph[q]
      PROVE  \A n \in NodesOf(q)' : NodeOK(q, m_graph[q][n])'
  BY <1>2 DEF NodesOK, NodesOf, NodeOK, FlagsRight, HasFlags
<1>3. ASSUME NEW n, NEW nd, NEW a, AddsNode(p, n, nd, a)
      PROVE  NodesOK'
  <2>1. ASSUME NEW k \in NodesOf(p)'
        PROVE  NodeOK(p, m_graph[p][k])'
    <3>1. CASE k = n
      BY <1>3, <3>1 DEF AddsNode, NodeOK, FlagsRight, HasFlags
    <3>2. CASE k # n
      BY <1>3, <3>2 DEF AddsNode, NodesOK, NodesOf, NodeOK, FlagsRight, HasFlags
    <3>3. QED
      BY <3>1, <3>2
  <2>2. \A q \in Process \ {p} : m_graph'[q] = m_graph[q]
    BY <1>3 DEF AddsNode
  <2>3. QED
    BY <1>2, <2>1, <2>2 DEF NodesOK
<1>4. ASSUME NEW N, NEW C, NEW n, NEW L, RightEdits(p, N, C, n, L)
      PROVE  NodesOK'
  <2>1. EditsGraph(p, m_graph[p], m_graph'[p], N, C, n, L)
        /\ \A q \in Process \ {p} : m_graph'[q] = m_graph[q]
    BY <1>4 DEF RightEdits, Edits
  <2>2. ASSUME NEW k \in NodesOf(p)'
        PROVE  NodeOK(p, m_graph[p][k])'
    <3>1. k \in NodesOf(p) /\ k \in DOMAIN m_graph[p]
      BY <2>1 DEF EditsGraph, NodesOf
    <3>2. NodeOK(p, m_graph[p][k])
      BY <3>1 DEF NodesOK
    <3>3. PICK nd, md : nd = m_graph[p][k] /\ md = m_graph'[p][k]
      OBVIOUS
    <3>4. /\ md.m_lddstate = nd.m_lddstate /\ md.m_virtual = nd.m_virtual
          /\ IF k \in N THEN Improves(p, nd, md) ELSE SameName(nd, md)
          /\ md.m_completed <=> nd.m_completed \/ k \in C
      BY <2>1, <3>1, <3>3 DEF EditsGraph
    <3>5. k \in N \cup C => ~nd.m_virtual
      BY <1>4, <3>1, <3>3 DEF RightEdits, Virtual
    <3>6. NodeOK(p, nd)
      BY <3>2, <3>3
    <3>7. ASSUME k \in N
          PROVE  NodeOK(p, md)
      BY <3>4, <3>7 DEF Improves
    <3>8. ASSUME k \notin N
          PROVE  NodeOK(p, md)
      BY <3>4, <3>5, <3>6, <3>8 DEF NodeOK, SameName
    <3>9. NodeOK(p, md)
      BY <3>7, <3>8
    <3>10. QED
      BY <3>3, <3>9 DEF NodeOK, FlagsRight, HasFlags
  <2>3. QED
    BY <1>2, <2>1, <2>2 DEF NodesOK
<1>5. QED
  BY <1>1, <1>3, <1>4 DEF GraphCases, NodesOK

LEMMA EdgesKept ==
  ASSUME EdgesOK, Grows, NEW p \in Process, GraphCases(p)
  PROVE  EdgesOK'
<1> DEFINE Right(q, n, u) == /\ u.to \in NodesOf(q) /\ u.t \in FirableObs[Agg(q, n)]
                             /\ Agg(q, u.to) = Successor[<<Agg(q, n), u.t>>]
<1>1. ASSUME NEW q \in Process, NEW n \in NodesOf(q), NEW u, Right(q, n, u)
      PROVE  Right(q, n, u)'
  BY <1>1 DEF Grows
<1>2. ASSUME NEW q \in Process, NEW n \in NodesOf(q), NEW u \in Links(m_graph[q][n])
      PROVE  Right(q, n, u)
  BY DEF EdgesOK
<1> HIDE DEF Right
<1>3. ASSUME NEW q \in Process, m_graph'[q] = m_graph[q]
      PROVE  \A n \in NodesOf(q)' : \A u \in Links(m_graph'[q][n]) : Right(q, n, u)'
  <2>1. NodesOf(q)' = NodesOf(q)
    BY <1>3 DEF NodesOf
  <2>2. QED
    BY <1>1, <1>2, <1>3, <2>1
<1>4. ASSUME NEW n, NEW nd, NEW a, AddsNode(p, n, nd, a), NEW k \in NodesOf(p)',
             NEW u \in Links(m_graph'[p][k])
      PROVE  Right(p, k, u)'
  <2>1. k # n
    BY <1>4 DEF AddsNode
  <2>2. k \in NodesOf(p) /\ m_graph'[p][k] = m_graph[p][k]
    BY <1>4, <2>1 DEF AddsNode, NodesOf
  <2>3. QED
    BY <1>1, <1>2, <1>4, <2>2
<1>5. ASSUME NEW N, NEW C, NEW n, NEW L, RightEdits(p, N, C, n, L), NEW k \in NodesOf(p)',
             NEW u \in Links(m_graph'[p][k])
      PROVE  Right(p, k, u)'
  <2>1. k \in NodesOf(p) /\ k \in DOMAIN m_graph[p]
    BY <1>5 DEF RightEdits, Edits, EditsGraph, NodesOf
  <2>2. u \in Links(m_graph[p][k]) \/ (k = n /\ u \in L)
    BY <1>5, <2>1 DEF RightEdits, Edits, EditsGraph
  <2>3. Right(p, k, u)
    BY <1>2, <1>5, <2>1, <2>2 DEF RightEdits, Right
  <2>4. QED
    BY <1>1, <2>1, <2>3
<1>6. \A q \in Process : \A n \in NodesOf(q)' : \A u \in Links(m_graph'[q][n]) : Right(q, n, u)'
  <2>1. ASSUME NEW q \in Process \ {p}
        PROVE  m_graph'[q] = m_graph[q]
    BY DEF GraphCases, AddsNode, RightEdits, Edits
  <2>2. CASE UNCHANGED m_graph
    BY <1>3, <2>2
  <2>3. CASE ~UNCHANGED m_graph
    BY <1>3, <1>4, <1>5, <2>1, <2>3 DEF GraphCases
  <2>4. QED
    BY <2>2, <2>3
<1>7. QED
  BY <1>6 DEF EdgesOK, Right

(* What the threads other than x keep, and what an idle one means. *)
KeepsLocals(y) == e'[y] = e[y] /\ t'[y] = t[y] /\ pos'[y] = pos[y]

LEMMA LocalsKept ==
  ASSUME CoreOK, NEW x \in Thread, Builds(x)
  PROVE  \A y \in Thread \ {x} : KeepsLocals(y)
BY DEF Builds, Starts, BuilderCases, Wanders, TakesWork, FiresKnown, FiresNew, Fires, Assigns, QueuesNew, SendsLink,
       Queues, Completes, ReceivesKnown, ReceivesNew, QueuesReceived, OnlyLocals, KeepsLocals, local

(* What is assigned right stays right. *)
StagesStay ==
  \A p \in Process : \A n \in NodesOf(p) : \A label \in Assigning :
    StageOK(label, p, m_graph[p][n]) => StageOK(label, p, m_graph'[p][n])

LEMMA StagesKept ==
  ASSUME NEW p \in Process, GraphCases(p)
  PROVE  StagesStay
<1>1. ASSUME NEW N, NEW C, NEW n, NEW L, EditsGraph(p, m_graph[p], m_graph'[p], N, C, n, L),
             NEW k \in NodesOf(p), NEW label \in Assigning, StageOK(label, p, m_graph[p][k])
      PROVE  StageOK(label, p, m_graph'[p][k])
  <2>1. PICK nd, md : nd = m_graph[p][k] /\ md = m_graph'[p][k]
    OBVIOUS
  <2>2. md.m_lddstate = nd.m_lddstate /\ (Improves(p, nd, md) \/ SameName(nd, md))
    BY <1>1, <2>1 DEF EditsGraph, NodesOf
  <2>3. StageOK(label, p, nd)
    BY <1>1, <2>1
  <2>4. md.m_process = nd.m_process \/ md.m_process = p
    BY <2>2 DEF Improves, SameName
  <2>5. md.m_boucle = nd.m_boucle \/ md.m_boucle = (md.m_lddstate \in Divergent)
    BY <2>2, Zenon DEF Improves, SameName
  <2>6. md.m_blocage = nd.m_blocage \/ md.m_blocage = (md.m_lddstate \in Deadlocked)
    BY <2>2, Zenon DEF Improves, SameName
  <2>7. StageOK(label, p, md)
    BY <2>2, <2>3, <2>4, <2>5, <2>6, Zenon DEF StageOK
  <2>8. QED
    BY <2>1, <2>7
<1>2. CASE UNCHANGED m_graph
  BY <1>2 DEF StagesStay
<1>3. ASSUME NEW n, NEW nd, NEW a, AddsNode(p, n, nd, a)
      PROVE  StagesStay
  BY <1>3 DEF AddsNode, StagesStay
<1>4. ASSUME NEW N, NEW C, NEW n, NEW L, RightEdits(p, N, C, n, L)
      PROVE  StagesStay
  <2>1. EditsGraph(p, m_graph[p], m_graph'[p], N, C, n, L)
        /\ \A q \in Process \ {p} : m_graph'[q] = m_graph[q]
    BY <1>4 DEF RightEdits, Edits
  <2>2. QED
    BY <1>1, <2>1 DEF StagesStay
<1>5. QED
  BY <1>2, <1>3, <1>4 DEF GraphCases

LEMMA ThreadKept ==
  ASSUME Grows, StagesStay, NEW y \in Thread, ThreadOK(y), Idles(y), KeepsLocals(y)
  PROVE  ThreadOK(y)'
<1>1. y[1] \in Process
  BY ThreadProperties
<1>2. CASE pc'[y] \notin Expanding \cup Storing
  BY <1>2, LabelProperties DEF ThreadOK
<1>3. CASE pc'[y] \in Expanding \cup Storing
  <2>1. pc'[y] = pc[y]
    BY <1>3, LabelProperties DEF Idles, Neutral, Expanding, Linking, Storing, NewLabel, ReceivedLabel
  <2>2. ASSUME NEW n \in NodesOf(y[1])
        PROVE  n \in NodesOf(y[1])' /\ Agg(y[1], n)' = Agg(y[1], n)
               /\ Virtual(y[1], n)' = Virtual(y[1], n)
    BY <1>1 DEF Grows
  <2>3. ASSUME pc[y] \in Expanding
        PROVE  (/\ e[y].state \in NodesOf(y[1]) /\ ~Virtual(y[1], e[y].state)
                /\ e[y].fire \subseteq FirableObs[Agg(y[1], e[y].state)])'
    <3>1. /\ e[y].state \in NodesOf(y[1]) /\ ~Virtual(y[1], e[y].state)
          /\ e[y].fire \subseteq FirableObs[Agg(y[1], e[y].state)]
      BY <2>3 DEF ThreadOK
    <3>2. QED
      BY <2>2, <3>1 DEF KeepsLocals
  <2>4. ASSUME pc[y] \in Linking
        PROVE  (/\ t[y] \in FirableObs[Agg(y[1], e[y].state)]
                /\ pos[y] \in NodesOf(y[1])
                /\ Agg(y[1], pos[y]) = Successor[<<Agg(y[1], e[y].state), t[y]>>]
                /\ Virtual(y[1], pos[y]) <=> pc[y] = "link")'
    <3>1. /\ t[y] \in FirableObs[Agg(y[1], e[y].state)]
          /\ pos[y] \in NodesOf(y[1]) /\ e[y].state \in NodesOf(y[1])
          /\ Agg(y[1], pos[y]) = Successor[<<Agg(y[1], e[y].state), t[y]>>]
          /\ Virtual(y[1], pos[y]) <=> pc[y] = "link"
      BY <2>4, LabelProperties DEF ThreadOK
    <3>2. (/\ t[y] \in FirableObs[Agg(y[1], e[y].state)]
           /\ pos[y] \in NodesOf(y[1])
           /\ Agg(y[1], pos[y]) = Successor[<<Agg(y[1], e[y].state), t[y]>>])'
      BY <2>2, <3>1 DEF KeepsLocals
    <3>3. (Virtual(y[1], pos[y]) <=> pc[y] = "link")'
      BY <2>1, <2>2, <3>1 DEF KeepsLocals
    <3>4. QED
      BY <3>2, <3>3
  <2>5. ASSUME pc[y] \in Storing
        PROVE  (pos[y] \in NodesOf(y[1]) /\ ~Virtual(y[1], pos[y]))'
    <3>1. pos[y] \in NodesOf(y[1]) /\ ~Virtual(y[1], pos[y])
      BY <2>5 DEF ThreadOK
    <3>2. QED
      BY <2>2, <3>1 DEF KeepsLocals
  <2>6. ASSUME pc[y] \in Assigning
        PROVE  StageOK(pc[y], y[1], Inserted(y)')
    <3>1. pos[y] \in NodesOf(y[1]) /\ StageOK(pc[y], y[1], m_graph[y[1]][pos[y]])
      BY <2>6, LabelProperties DEF ThreadOK, Inserted
    <3>2. StageOK(pc[y], y[1], m_graph'[y[1]][pos[y]])
      BY <1>1, <2>6, <3>1 DEF StagesStay
    <3>3. QED
      BY <3>2 DEF Inserted, KeepsLocals
  <2>7. QED
    BY <2>1, <2>3, <2>4, <2>5, <2>6 DEF ThreadOK
<1>4. QED
  BY <1>2, <1>3

(* What x itself holds after its step. *)
LEMMA ThreadBuilt ==
  ASSUME TypeInv, Grows, StagesStay, NEW x \in Thread, Builds(x)
  PROVE  ThreadOK(x)'
<1>1. x[1] \in Process /\ ThreadOK(x) /\ NodesOK /\ StacksOK
  BY ThreadProperties DEF TypeInv, ThreadsOK
<1> DEFINE p == x[1]
<1>2. \A n \in NodesOf(p) :
        n \in NodesOf(p)' /\ Agg(p, n)' = Agg(p, n) /\ Virtual(p, n)' = Virtual(p, n)
  BY <1>1 DEF Grows
<1> HIDE DEF p
<1>3. ASSUME pc'[x] \notin Expanding \cup Storing
      PROVE  ThreadOK(x)'
  BY <1>3, LabelProperties DEF ThreadOK
<1>4. ASSUME pc'[x] = "fire", e'[x].state \in NodesOf(p), ~Virtual(p, e'[x].state),
             e'[x].fire \subseteq FirableObs[Agg(p, e'[x].state)]
      PROVE  ThreadOK(x)'
  <2>1. (/\ e[x].state \in NodesOf(p) /\ ~Virtual(p, e[x].state)
         /\ e[x].fire \subseteq FirableObs[Agg(p, e[x].state)])'
    BY <1>2, <1>4 DEF p
  <2>2. QED
    BY <1>4, <2>1, LabelProperties DEF ThreadOK, p
<1>5. CASE Wanders(x)
  <2>1. Idles(x) /\ KeepsLocals(x)
    BY <1>5 DEF Wanders, AllIdle, KeepsLocals, local
  <2>2. QED
    BY <1>1, <2>1, ThreadKept
<1>6. CASE TakesWork(x)
  <2>1. e'[x] \in Elements(m_common_stack[p])
    BY <1>6 DEF TakesWork, Shrunk, p
  <2>2. PairOK(p, e'[x])
    BY <1>1, <2>1 DEF StacksOK, p
  <2>3. QED
    BY <1>4, <1>6, <2>2 DEF TakesWork, Moves, PairOK
<1>7. CASE FiresKnown(x)
  <2>1. e[x].fire \subseteq FirableObs[Agg(p, e[x].state)]
    BY <1>1, <1>7 DEF FiresKnown, Fires, ThreadOK, Expanding, p
  <2>2. QED
    BY <1>4, <1>7, <2>1 DEF FiresKnown, Fires, Moves, p
<1>8. CASE FiresNew(x)
  <2>1. PICK nd \in GraphNode : AddsNode(p, pos'[x], nd, Target(x))
    BY <1>8 DEF FiresNew, p
  <2>2. /\ e[x].fire \subseteq FirableObs[Agg(p, e[x].state)]
        /\ e[x].state \in NodesOf(p) /\ ~Virtual(p, e[x].state)
        /\ e'[x].state = e[x].state /\ e'[x].fire \subseteq e[x].fire
        /\ t'[x] \in FirableObs[Agg(p, e[x].state)]
    BY <1>1, <1>8 DEF FiresNew, Fires, ThreadOK, Expanding, p
  <2>3. (/\ e[x].state \in NodesOf(p) /\ ~Virtual(p, e[x].state)
         /\ e[x].fire \subseteq FirableObs[Agg(p, e[x].state)])'
    BY <1>2, <2>2 DEF p
  <2>4. pos'[x] \in NodesOf(p)' /\ Agg(p, pos[x])' = Target(x)
        /\ Virtual(p, pos[x])' = nd.m_virtual
    BY <2>1 DEF AddsNode, NodesOf, Agg, Virtual, p
  <2>5. nd.m_virtual <=> destination[Target(x)] # p
    BY <2>1 DEF AddsNode, NodeOK
  <2>6. pc'[x] = IF destination[Target(x)] = p THEN "setProcess" ELSE "link"
    BY <1>8 DEF FiresNew, Moves, p
  <2>7. (/\ t[x] \in FirableObs[Agg(p, e[x].state)]
         /\ pos[x] \in NodesOf(p)
         /\ Agg(p, pos[x]) = Successor[<<Agg(p, e[x].state), t[x]>>])'
    BY <1>2, <2>2, <2>4 DEF Target, p
  <2>8. (Virtual(p, pos[x]) <=> pc[x] = "link")'
    BY <2>4, <2>5, <2>6
  <2>9. pc'[x] \in Assigning => StageOK(pc'[x], p, Inserted(x)')
    BY <2>6, LabelProperties DEF StageOK
  <2>10. QED
    BY <2>3, <2>6, <2>7, <2>8, <2>9, LabelProperties DEF ThreadOK, p
<1>9. CASE QueuesNew(x) \/ SendsLink(x)
  <2>1. pc'[x] = "fire" /\ pc[x] \in Expanding /\ e'[x] = e[x]
    BY <1>9, LabelProperties DEF QueuesNew, SendsLink, Moves, Queues, local
  <2>2. QED
    BY <1>1, <1>4, <2>1 DEF ThreadOK, p
<1>a. CASE Assigns(x)
  <2>1. PICK label \in BuilderLabel :
          /\ \/ pc[x] \in NewLabel /\ label \in NewLabel \cup {"assign"}
             \/ pc[x] \in ReceivedLabel /\ label \in ReceivedLabel \cup {"store"}
          /\ pc'[x] = label /\ StageOK(label, p, m_graph'[p][pos[x]])
    BY <1>a DEF Assigns, Moves, p
  <2>2. e'[x] = e[x] /\ t'[x] = t[x] /\ pos'[x] = pos[x]
        /\ pos[x] \in NodesOf(p) /\ ~Virtual(p, pos[x])
    BY <1>a DEF Assigns, local, p
  <2>3. (pos[x] \in NodesOf(p) /\ ~Virtual(p, pos[x]))'
    BY <1>2, <2>2
  <2>4. pc'[x] \in Assigning => StageOK(pc'[x], p, Inserted(x)')
    BY <2>1, <2>2 DEF Inserted, p
  <2>5. CASE pc[x] \in NewLabel
    <3>1. pc[x] \in Expanding /\ pc[x] \in Linking /\ pc'[x] # "link" /\ pc'[x] \notin Storing
      BY <2>1, <2>5 DEF Expanding, Linking, Storing, NewLabel, ReceivedLabel
    <3>2. /\ e[x].state \in NodesOf(p) /\ ~Virtual(p, e[x].state)
          /\ e[x].fire \subseteq FirableObs[Agg(p, e[x].state)]
          /\ t[x] \in FirableObs[Agg(p, e[x].state)]
          /\ Agg(p, pos[x]) = Successor[<<Agg(p, e[x].state), t[x]>>]
      BY <1>1, <3>1 DEF ThreadOK, p
    <3>3. (/\ e[x].state \in NodesOf(p) /\ ~Virtual(p, e[x].state)
           /\ e[x].fire \subseteq FirableObs[Agg(p, e[x].state)])'
      BY <1>2, <2>2, <3>2 DEF p
    <3>4. (/\ t[x] \in FirableObs[Agg(p, e[x].state)]
           /\ Agg(p, pos[x]) = Successor[<<Agg(p, e[x].state), t[x]>>])'
      BY <1>2, <2>2, <3>2 DEF p
    <3>5. QED
      BY <2>3, <2>4, <3>1, <3>3, <3>4 DEF ThreadOK, p
  <2>6. CASE pc[x] \in ReceivedLabel
    <3>1. pc'[x] \in Storing /\ pc'[x] \notin Expanding /\ pc'[x] \notin Linking
      BY <2>1, <2>6 DEF Expanding, Linking, Storing, NewLabel, ReceivedLabel
    <3>2. QED
      BY <2>3, <2>4, <3>1 DEF ThreadOK, p
  <2>7. QED
    BY <2>1, <2>5, <2>6
<1>10. CASE Completes(x) \/ ReceivesKnown(x) \/ QueuesReceived(x)
  <2>1. pc'[x] \in Neutral
    BY <1>10 DEF Completes, ReceivesKnown, QueuesReceived, Moves, Neutral
  <2>2. QED
    BY <1>3, <2>1, LabelProperties
<1>11. CASE ReceivesNew(x)
  <2>1. PICK a \in Aggregate, nd \in GraphNode : destination[a] = p /\ AddsNode(p, pos'[x], nd, a)
    BY <1>11 DEF ReceivesNew, p
  <2>2. pos'[x] \in NodesOf(p)' /\ Virtual(p, pos[x])' = nd.m_virtual
    BY <2>1 DEF AddsNode, NodesOf, Virtual, p
  <2>3. ~nd.m_virtual
    BY <2>1 DEF AddsNode, NodeOK
  <2>4. pc'[x] = "storeDiv" /\ pc'[x] \in Storing /\ pc'[x] \notin Expanding \cup Linking
    BY <1>11, LabelProperties DEF ReceivesNew, Moves
  <2>5. (pos[x] \in NodesOf(p) /\ ~Virtual(p, pos[x]))'
    BY <2>2, <2>3
  <2>6. StageOK("storeDiv", p, Inserted(x)')
    BY DEF StageOK
  <2>7. QED
    BY <2>4, <2>5, <2>6 DEF ThreadOK, p
<1>12. CASE Starts(x)
  <2>1. pc'[x] \in {"send", "loop"}
    BY <1>12 DEF Starts, Moves
  <2>2. QED
    BY <1>3, <2>1 DEF Expanding, Linking, Storing, NewLabel, ReceivedLabel
<1>13. QED
  BY <1>5, <1>6, <1>7, <1>8, <1>9, <1>a, <1>10, <1>11, <1>12 DEF Builds, BuilderCases

LEMMA ThreadsKept ==
  ASSUME TypeInv, Grows, Constructs \/ Rests
  PROVE  ThreadsOK'
<1>s. StagesStay
  BY GraphSteps, StagesKept
<1>1. \A y \in Thread : ThreadOK(y)
  BY DEF TypeInv, ThreadsOK
<1>2. ASSUME NEW x \in Thread, Builds(x), NEW y \in Thread
      PROVE  ThreadOK(y)'
  <2>1. CASE y = x
    BY <1>s, <1>2, <2>1, ThreadBuilt
  <2>2. CASE y # x
    <3>1. Idles(y)
      BY <1>2, <2>2
      DEF Builds, Starts, BuilderCases, Wanders, TakesWork, FiresKnown, FiresNew, Assigns, QueuesNew, SendsLink,
          Completes, ReceivesKnown, ReceivesNew, QueuesReceived, AllIdle, Moves
    <3>2. KeepsLocals(y)
      BY <1>2, <2>2, LocalsKept DEF TypeInv
    <3>3. QED
      BY <1>s, <1>1, <3>1, <3>2, ThreadKept
  <2>3. QED
    BY <2>1, <2>2
<1>3. ASSUME NEW p \in Process, Carries(p), NEW y \in Thread
      PROVE  ThreadOK(y)'
  <2>1. KeepsLocals(y)
    BY <1>3 DEF Carries, TakesMessage, DropsMessage, SendsState, ReadsState, KeepsLocals, local
  <2>2. CASE Idles(y)
    BY <1>s, <1>1, <2>1, <2>2, ThreadKept
  <2>3. CASE ~Idles(y)
    <3>1. pc'[y] \in {"held", "read", "send"}
      BY <1>3, <2>3 DEF Carries, TakesMessage, DropsMessage, SendsState, ReadsState, AllIdle, Moves
    <3>2. QED
      BY <3>1 DEF ThreadOK, Expanding, Linking, Storing, Assigning, NewLabel, ReceivedLabel
  <2>4. QED
    BY <2>2, <2>3
<1>4. ASSUME Rests, NEW y \in Thread
      PROVE  ThreadOK(y)'
  <2>1. Idles(y) /\ KeepsLocals(y)
    BY <1>4 DEF Rests, AllIdle, KeepsLocals, local
  <2>2. QED
    BY <1>s, <1>1, <2>1, ThreadKept
<1>5. QED
  BY <1>2, <1>3, <1>4 DEF Constructs, ThreadsOK

LEMMA PairKept ==
  ASSUME Grows, NEW p \in Process, NEW z, PairOK(p, z)
  PROVE  PairOK(p, z)'
BY DEF PairOK, Grows

(* The queues of states hold what they held, and what x put there. *)
LEMMA StackSteps ==
  ASSUME TypeInv, Grows, NEW x \in Thread, Builds(x), NEW q \in Process,
         NEW z \in Elements(m_common_stack'[q])
  PROVE  z \in Elements(m_common_stack[q]) \/ PairOK(q, z)'
<1>1. x[1] \in Process
  BY ThreadProperties
<1>2. CASE Queues(x)
  <2>1. /\ pos[x] \in NodesOf(x[1]) /\ ~Virtual(x[1], pos[x])
        /\ \/ z \in Elements(m_common_stack[q])
           \/ q = x[1] /\ z = Pair(pos[x], FirableObs[Agg(x[1], pos[x])])
    BY <1>2 DEF Queues, Grown
  <2>2. PairOK(x[1], Pair(pos[x], FirableObs[Agg(x[1], pos[x])]))
    BY <2>1 DEF PairOK, Pair
  <2>3. QED
    BY <1>1, <2>1, <2>2, PairKept
<1>3. CASE Starts(x) /\ ~UNCHANGED m_common_stack
  <2>1. /\ destination[InitialAggregate] = 0
        /\ \E nd \in GraphNode : AddsNode(0, 1, nd, InitialAggregate)
        /\ Grown(StackedPair, m_common_stack, m_common_stack', 0, Pair(1, FirableObs[InitialAggregate]))
    BY <1>3, Zenon DEF Starts, queues
  <2>2. PICK nd \in GraphNode : AddsNode(0, 1, nd, InitialAggregate)
    BY <2>1
  <2>3. 1 \in NodesOf(0)' /\ Agg(0, 1)' = InitialAggregate /\ Virtual(0, 1)' = nd.m_virtual
    BY <2>2 DEF AddsNode, NodesOf, Agg, Virtual
  <2>4. ~nd.m_virtual
    BY <2>1, <2>2 DEF AddsNode, NodeOK
  <2>5. PairOK(0, Pair(1, FirableObs[InitialAggregate]))'
    BY <2>3, <2>4 DEF PairOK, Pair
  <2>6. z \in Elements(m_common_stack[q]) \/ (q = 0 /\ z = Pair(1, FirableObs[InitialAggregate]))
    BY <2>1 DEF Grown
  <2>7. QED
    BY <2>5, <2>6
<1>4. CASE UNCHANGED m_common_stack
  BY <1>4
<1>5. CASE TakesWork(x)
  BY <1>5 DEF TakesWork, Shrunk
<1>6. QED
  BY <1>2, <1>3, <1>4, <1>5
  DEF Builds, BuilderCases, Wanders, FiresKnown, FiresNew, Fires, Assigns, QueuesNew, SendsLink,
      Completes, ReceivesKnown, ReceivesNew, QueuesReceived, queues

LEMMA StacksKept ==
  ASSUME TypeInv, Grows, Constructs \/ Rests
  PROVE  StacksOK'
<1>1. ASSUME NEW q \in Process, NEW z \in Elements(m_common_stack'[q])
      PROVE  z \in Elements(m_common_stack[q]) \/ PairOK(q, z)'
  <2>1. CASE \E x \in Thread : Builds(x)
    BY <2>1, StackSteps
  <2>2. CASE UNCHANGED m_common_stack
    BY <2>2
  <2>3. QED
    BY <2>1, <2>2
    DEF Constructs, Rests, Carries, TakesMessage, DropsMessage, SendsState, ReadsState, queues
<1>2. ASSUME NEW q \in Process, NEW z \in Elements(m_common_stack[q])
      PROVE  PairOK(q, z)'
  BY PairKept DEF TypeInv, StacksOK
<1>3. QED
  BY <1>1, <1>2 DEF StacksOK, Elements

LEMMA BuilderMoving ==
  ASSUME TypeInv, NEW x \in Thread, BuilderCases(x)
  PROVE  /\ pc[x] \in BuilderLabel \ {"start", "done"} /\ x[2] # 0
         /\ AllIdle \/ \E label \in BuilderLabel \ {"start"} : Moves(x, label)
<1>1. pc[x] \in BuilderLabel \ {"start", "done"}
  BY DEF BuilderCases, Wanders, TakesWork, FiresKnown, FiresNew, Fires, Assigns, QueuesNew, SendsLink, Completes,
         ReceivesKnown, ReceivesNew, QueuesReceived, BuilderLabel, Neutral, Expanding, Linking, Storing,
         NewLabel, ReceivedLabel
<1>2. x[2] # 0
  BY <1>1, BuilderProperties DEF TypeInv
<1>3. AllIdle \/ \E label \in BuilderLabel \ {"start"} : Moves(x, label)
  <2>1. ASSUME Assigns(x)
        PROVE  \E label \in BuilderLabel \ {"start"} : Moves(x, label)
    BY <2>1 DEF Assigns, NewLabel, ReceivedLabel
  <2>2. {"fire", "setProcess", "link", "receive", "loop", "storeDiv"} \subseteq BuilderLabel \ {"start"}
    BY DEF BuilderLabel, Neutral, Expanding, Linking, Storing, NewLabel, ReceivedLabel
  <2>3. QED
    BY <2>1, <2>2
    DEF BuilderCases, Wanders, TakesWork, FiresKnown, FiresNew, QueuesNew, SendsLink, Completes,
        ReceivesKnown, ReceivesNew, QueuesReceived
<1>4. QED
  BY <1>1, <1>2, <1>3

(* Nobody passes from the labels of thread 0 to those of a builder. *)
LEMMA IdleLabels ==
  ASSUME LabelsOK, UNCHANGED launch, NEW y \in Thread, Idles(y)
  PROVE  /\ pc'[y] \in IF y[2] = 0 THEN CommLabel ELSE BuilderLabel
         /\ pc'[y] # "done" => y[2] < m_nb_thread'[y[1]]
<1>1. /\ pc[y] \in IF y[2] = 0 THEN CommLabel ELSE BuilderLabel
      /\ pc[y] # "done" => y[2] < m_nb_thread[y[1]]
  BY DEF LabelsOK
<1>2. m_nb_thread' = m_nb_thread
  BY DEF launch
<1>3. QED
  BY <1>1, <1>2, LabelProperties DEF Idles, CommLabel

LEMMA MoveLabels ==
  ASSUME LabelsOK, UNCHANGED launch, NEW x \in Thread, pc[x] # "done", NEW label, Moves(x, label),
         label \in IF x[2] = 0 THEN CommLabel ELSE BuilderLabel
  PROVE  LabelsOK'
<1>1. /\ pc'[x] \in IF x[2] = 0 THEN CommLabel ELSE BuilderLabel
      /\ pc'[x] # "done" => x[2] < m_nb_thread'[x[1]]
  BY DEF LabelsOK, Moves, launch
<1>2. \A y \in Thread \ {x} : /\ pc'[y] \in IF y[2] = 0 THEN CommLabel ELSE BuilderLabel
                              /\ pc'[y] # "done" => y[2] < m_nb_thread'[y[1]]
  BY IdleLabels DEF Moves
<1>3. QED
  BY <1>1, <1>2 DEF LabelsOK

LEMMA IdleAll ==
  ASSUME LabelsOK, UNCHANGED launch, AllIdle
  PROVE  LabelsOK'
BY IdleLabels DEF AllIdle, LabelsOK

LEMMA LabelsKept ==
  ASSUME TypeInv, UNCHANGED launch, Constructs \/ Rests
  PROVE  LabelsOK'
<1>1. LaunchOK /\ LabelsOK
  BY DEF TypeInv
<1>2. ASSUME NEW x \in Thread, Starts(x)
      PROVE  LabelsOK'
  BY <1>1, <1>2, MoveLabels DEF Starts, CommLabel, BuilderLabel, Neutral
<1>3. ASSUME NEW x \in Thread, BuilderCases(x), ~AllIdle
      PROVE  LabelsOK'
  BY <1>1, <1>3, BuilderMoving, MoveLabels
<1>4. ASSUME NEW p \in Process, Carries(p), ~AllIdle
      PROVE  LabelsOK'
  <2>1. pc[Comm(p)] \in {"send", "held"} /\ \E label \in {"send", "held", "read"} : Moves(Comm(p), label)
    BY <1>4 DEF Carries, TakesMessage, DropsMessage, SendsState, ReadsState
  <2>2. Comm(p) \in Thread /\ Comm(p)[2] = 0
    BY CommProperties
  <2>3. PICK c, label : c = Comm(p) /\ label \in {"send", "held", "read"} /\ Moves(c, label)
    BY <2>1
  <2>4. QED
    BY <1>1, <2>1, <2>2, <2>3, MoveLabels DEF CommLabel
<1>5. QED
  BY <1>1, <1>2, <1>3, <1>4, IdleAll DEF Constructs, Builds, Rests

(* Before thread 0 of process 0 has started nobody has anything to do, and *)
(* its first node stays.                                                   *)
LEMMA FirstKept ==
  ASSUME NEW p \in Process, GraphCases(p), 0 \in Process, 1 \in NodesOf(0),
         Agg(0, 1) = InitialAggregate, m_graph[0][1].m_SHA2 = InitialAggregate
  PROVE  m_graph'[0][1].m_SHA2 = InitialAggregate
<1>1. CASE UNCHANGED m_graph
  BY <1>1
<1>2. ASSUME NEW n, NEW nd, NEW a, AddsNode(p, n, nd, a)
      PROVE  m_graph'[0][1].m_SHA2 = InitialAggregate
  BY <1>2 DEF AddsNode
<1>3. ASSUME NEW N, NEW C, NEW n, NEW L, RightEdits(p, N, C, n, L)
      PROVE  m_graph'[0][1].m_SHA2 = InitialAggregate
  <2>1. CASE p # 0
    BY <1>3, <2>1 DEF RightEdits, Edits
  <2>2. CASE p = 0
    <3>1. EditsGraph(p, m_graph[0], m_graph'[0], N, C, n, L) /\ 1 \in DOMAIN m_graph[0]
      BY <1>3, <2>2 DEF RightEdits, Edits, NodesOf
    <3>2. Improves(p, m_graph[0][1], m_graph'[0][1]) \/ SameName(m_graph[0][1], m_graph'[0][1])
      BY <3>1 DEF EditsGraph
    <3>3. QED
      BY <3>2 DEF Improves, SameName, Agg
  <2>3. QED
    BY <2>1, <2>2
<1>4. QED
  BY <1>1, <1>2, <1>3 DEF GraphCases

LEMMA NothingBuilds ==
  ASSUME TypeInv, \A p \in Process : NothingIn(p), NEW x \in Thread, Builds(x), x # Comm(0)
  PROVE  UNCHANGED <<m_graph, queues>>
<1>1. x[1] \in Process /\ NothingIn(x[1])
  BY ThreadProperties
<1>2. CASE Starts(x)
  BY <1>2 DEF Starts
<1>3. CASE Wanders(x)
  BY <1>3 DEF Wanders
<1>4. QED
  BY <1>1, <1>2, <1>3
  DEF Builds, BuilderCases, TakesWork, Shrunk, FiresKnown, FiresNew, Fires, Assigns, QueuesNew, SendsLink, Queues, AddsEdge,
      Completes, ReceivesKnown, ReceivesNew, QueuesReceived, NothingIn

LEMMA NothingCarried ==
  ASSUME TypeInv, \A p \in Process : NothingIn(p), \A p, q \in Process : Travel(p, q) = {},
         NEW p \in Process, Carries(p)
  PROVE  FALSE
<1>1. NothingIn(p)
  OBVIOUS
<1>2. QED
  BY <1>1 DEF Carries, TakesMessage, DropsMessage, SendsState, ReadsState, Shrunk, NothingIn

LEMMA StartKept ==
  ASSUME TypeInv, UNCHANGED launch, Grows, Constructs \/ Rests
  PROVE  StartOK'
<1>1. StartOK /\ 0 \in Process /\ m_nb_thread' = m_nb_thread /\ Comm(0) \in Thread /\ Comm(0)[2] = 0
  BY ProcessProperties, CommProperties DEF TypeInv, launch
<1>2. CASE pc[Comm(0)] = "start" \/ m_nb_thread[0] = 0
  <2>1. (\A p \in Process : NothingIn(p)) /\ \A p, q \in Process : Travel(p, q) = {}
    BY <1>1, <1>2 DEF StartOK
  <2>2. CASE SameTravel /\ UNCHANGED <<m_graph, queues, s>>
    <3>1. \A p \in Process : NothingIn(p)'
      BY <2>1, <2>2 DEF NothingIn, NodesOf, queues
    <3>2. \A p, q \in Process : Travel(p, q)' = {}
      BY <2>1, <2>2, SameTravelled
    <3>3. CASE pc'[Comm(0)] = "start" \/ m_nb_thread[0] = 0
      BY <1>1, <3>1, <3>2, <3>3 DEF StartOK, Comm
    <3>4. CASE pc'[Comm(0)] # "start" /\ m_nb_thread[0] # 0
      <4>1. pc[Comm(0)] = "start" /\ pc'[Comm(0)] # pc[Comm(0)] /\ ~Idles(Comm(0))
        BY <1>1, <1>2, <3>4 DEF Idles
      <4>2. ~Rests
        BY <1>1, <4>1 DEF Rests, AllIdle
      <4>3. PICK x \in Thread : Builds(x)
        BY <2>1, <4>2, NothingCarried DEF Constructs
      <4>4. x = Comm(0)
        BY <1>1, <4>1, <4>3
        DEF Builds, Starts, BuilderCases, Wanders, TakesWork, FiresKnown, FiresNew, Assigns, QueuesNew, SendsLink,
            Completes, ReceivesKnown, ReceivesNew, QueuesReceived, AllIdle, Moves
      <4>5. \E nd : AddsNode(0, 1, nd, InitialAggregate)
        BY <4>1, <4>3, <4>4
        DEF Builds, Starts, BuilderCases, Wanders, TakesWork, FiresKnown, FiresNew, Fires, Assigns, QueuesNew, SendsLink,
            Completes, ReceivesKnown, ReceivesNew, QueuesReceived, BuilderLabel, NewLabel, ReceivedLabel
      <4>6. FALSE
        BY <2>1, <2>2, <4>5 DEF AddsNode, NothingIn, NodesOf
      <4>7. QED
        BY <4>6
    <3>5. QED
      BY <3>3, <3>4
  <2>3. CASE ~(SameTravel /\ UNCHANGED <<m_graph, queues, s>>)
    <3>1. ~Rests
      BY <2>3 DEF Rests
    <3>2. PICK x \in Thread : Builds(x)
      BY <2>1, <3>1, NothingCarried DEF Constructs
    <3>3. x = Comm(0)
      BY <2>1, <2>3, <3>2, NothingBuilds DEF Builds
    <3>4. Starts(x)
      BY <1>1, <3>2, <3>3, BuilderMoving DEF Builds
    <3>5. /\ pc'[Comm(0)] = "send" /\ m_nb_thread[0] > 0
          /\ \E nd \in GraphNode : nd.m_SHA2 = InitialAggregate /\ AddsNode(0, 1, nd, InitialAggregate)
      <4>1. pc'[Comm(0)] = "send" /\ m_nb_thread[0] > 0
        BY <1>1, <3>3, <3>4 DEF Starts, Moves
      <4>2. QED
        BY <3>3, <3>4, <4>1 DEF Starts
    <3>6. 1 \in NodesOf(0)' /\ Agg(0, 1)' = InitialAggregate /\ m_graph'[0][1].m_SHA2 = InitialAggregate
      BY <3>5 DEF AddsNode, NodesOf, Agg
    <3>7. m_nb_thread[0] # 0
      BY <1>1, <3>5 DEF TypeInv, LaunchOK
    <3>8. QED
      BY <1>1, <3>5, <3>6, <3>7 DEF StartOK, Comm
  <2>4. QED
    BY <2>2, <2>3
<1>3. CASE ~(pc[Comm(0)] = "start" \/ m_nb_thread[0] = 0)
  <2>1. 1 \in NodesOf(0) /\ Agg(0, 1) = InitialAggregate /\ m_graph[0][1].m_SHA2 = InitialAggregate
    BY <1>1, <1>3 DEF StartOK
  <2>2. 1 \in NodesOf(0)' /\ Agg(0, 1)' = InitialAggregate
    BY <1>1, <2>1 DEF Grows
  <2>3. m_graph'[0][1].m_SHA2 = InitialAggregate
    BY <1>1, <2>1, GraphSteps, FirstKept
  <2>4. pc'[Comm(0)] # "start"
    <3>1. CASE Idles(Comm(0))
      BY <1>3, <3>1 DEF Idles, Neutral
    <3>2. CASE ~Idles(Comm(0))
      <4>1. ~AllIdle /\ ~Rests
        BY <1>1, <3>2 DEF AllIdle, Rests
      <4>2. ASSUME NEW x \in Thread, Builds(x)
            PROVE  pc'[Comm(0)] # "start"
        <5>1. PICK label : Moves(x, label) /\ label # "start"
          BY <4>1, <4>2, BuilderMoving DEF Builds, Starts
        <5>2. QED
          BY <1>1, <3>2, <5>1 DEF Moves
      <4>3. ASSUME NEW p \in Process, Carries(p)
            PROVE  pc'[Comm(0)] # "start"
        BY <1>1, <3>2, <4>1, <4>3
        DEF Carries, TakesMessage, DropsMessage, SendsState, ReadsState, AllIdle, Moves
      <4>4. QED
        BY <4>1, <4>2, <4>3 DEF Constructs
    <3>3. QED
      BY <3>1, <3>2
  <2>5. QED
    BY <1>1, <1>3, <2>2, <2>3, <2>4 DEF StartOK, Comm
<1>4. QED
  BY <1>2, <1>3

(* A state message goes where its aggregate belongs, and the received      *)
(* aggregates come from those messages.                                    *)
LEMMA TravelKept ==
  ASSUME TypeInv, UNCHANGED launch, Constructs \/ Rests
  PROVE  \A p, q \in Process : \A a \in Travel(p, q)' : destination'[a] = q
<1>1. destination' = destination /\ \A p, q \in Process : \A a \in Travel(p, q) : destination[a] = q
  BY DEF TypeInv, MessagesOK, launch
<1>2. CASE SameTravel
  BY <1>1, <1>2, SameTravelled
<1>3. ASSUME NEW p \in Process, SendsState(p)
      PROVE  \A r, q \in Process : \A a \in Travel(r, q)' : destination[a] = q
  BY <1>1, <1>3 DEF SendsState
<1>4. ASSUME NEW p \in Process, NEW q \in Process, ReadsState(p, q)
      PROVE  \A r, v \in Process : \A a \in Travel(r, v)' : destination[a] = v
  <2>1. ASSUME NEW r \in Process, NEW v \in Process
        PROVE  Travel(r, v)' \subseteq Travel(r, v)
    BY <1>4 DEF ReadsState
  <2>2. QED
    BY <1>1, <2>1
<1>5. QED
  BY <1>1, <1>2, <1>3, <1>4
  DEF Constructs, Rests, Builds, Carries, TakesMessage, DropsMessage

LEMMA ReceivedKept ==
  ASSUME TypeInv, Constructs \/ Rests
  PROVE  \A q \in Process : \A a \in Elements(m_received_msg'[q]) : destination[a] = q
<1>1. /\ \A p, q \in Process : \A a \in Travel(p, q) : destination[a] = q
      /\ \A q \in Process : \A a \in Elements(m_received_msg[q]) : destination[a] = q
  BY DEF TypeInv, MessagesOK
<1>2. CASE UNCHANGED m_received_msg
  BY <1>1, <1>2
<1>3. ASSUME NEW x \in Thread, NEW v, Shrunk(Aggregate, m_received_msg, m_received_msg', x[1], v),
             NEW q \in Process
      PROVE  Elements(m_received_msg'[q]) \subseteq Elements(m_received_msg[q])
  BY <1>3 DEF Shrunk
<1>4. ASSUME NEW p \in Process, NEW q \in Process, ReadsState(p, q), NEW r \in Process,
             NEW a \in Elements(m_received_msg'[r])
      PROVE  destination[a] = r
  BY <1>1, <1>4 DEF ReadsState, Grown
<1>5. ASSUME NEW x \in Thread, Builds(x), ~UNCHANGED m_received_msg
      PROVE  \E v : Shrunk(Aggregate, m_received_msg, m_received_msg', x[1], v)
  BY <1>5 DEF Builds, Starts, BuilderCases, Wanders, TakesWork, FiresKnown, FiresNew, Fires, Assigns, QueuesNew, SendsLink,
              Queues, Completes, ReceivesKnown, ReceivesNew, QueuesReceived, queues
<1>6. ASSUME NEW p \in Process, Carries(p), ~UNCHANGED m_received_msg
      PROVE  \E q \in Process : ReadsState(p, q)
  BY <1>6 DEF Carries, TakesMessage, DropsMessage, SendsState, queues
<1>7. QED
  BY <1>1, <1>2, <1>3, <1>4, <1>5, <1>6 DEF Constructs, Rests, queues

(* Thread 0 holds one aggregate, where it says so. *)
LEMMA HeldKept ==
  ASSUME TypeInv, Constructs \/ Rests, NEW p \in Process
  PROVE  /\ \A a, b \in s'[p] : a = b
         /\ pc'[Comm(p)] # "held" => s'[p] = {}
<1>1. (\A a, b \in s[p] : a = b) /\ (pc[Comm(p)] # "held" => s[p] = {})
  BY DEF TypeInv, MessagesOK
<1>2. Comm(p) \in Thread /\ Comm(p)[1] = p /\ Comm(p)[2] = 0
  BY CommProperties
<1>3. CASE s'[p] = s[p] /\ Idles(Comm(p))
  BY <1>1, <1>3 DEF Idles, Neutral
<1>4. ASSUME NEW x \in Thread, Builds(x)
      PROVE  s'[p] = s[p] /\ (pc'[Comm(p)] # "held" => s[p] = {})
  <2>1. s'[p] = s[p]
    BY <1>4 DEF Builds
  <2>2. CASE Idles(Comm(p))
    BY <1>1, <2>1, <2>2 DEF Idles, Neutral
  <2>3. CASE ~Idles(Comm(p))
    <3>1. ~AllIdle
      BY <1>2, <2>3 DEF AllIdle
    <3>2. x = Comm(p)
      <4>1. \E label : Moves(x, label)
        BY <1>4, <3>1, BuilderMoving DEF Builds, Starts
      <4>2. QED
        BY <1>2, <2>3, <4>1 DEF Moves
    <3>3. pc[Comm(p)] = "start"
      BY <1>2, <1>4, <3>2, BuilderMoving DEF Builds, Starts
    <3>4. QED
      BY <1>1, <2>1, <3>3
  <2>4. QED
    BY <2>2, <2>3
<1>5. ASSUME NEW q \in Process, q # p, Carries(q)
      PROVE  s'[p] = s[p] /\ Idles(Comm(p))
  <2>1. Comm(q) \in Thread /\ Comm(q) # Comm(p)
    BY <1>2, <1>5, CommProperties
  <2>2. QED
    BY <1>2, <1>5, <2>1
    DEF Carries, TakesMessage, DropsMessage, SendsState, ReadsState, Holds, Moves, AllIdle
<1>6. CASE Carries(p)
  <2>1. CASE TakesMessage(p)
    BY <2>1 DEF TakesMessage, Holds, Moves
  <2>2. CASE DropsMessage(p)
    BY <1>1, <2>2 DEF DropsMessage
  <2>3. CASE SendsState(p)
    BY <2>3 DEF SendsState, Holds
  <2>4. CASE \E q \in Process : ReadsState(p, q)
    BY <1>2, <1>3, <2>4 DEF ReadsState, AllIdle
  <2>5. QED
    BY <1>6, <2>1, <2>2, <2>3, <2>4 DEF Carries
<1>7. CASE Rests
  BY <1>2, <1>3, <1>7 DEF Rests, AllIdle
<1>8. QED
  BY <1>1, <1>3, <1>4, <1>5, <1>6, <1>7 DEF Constructs

LEMMA MessagesKept ==
  ASSUME TypeInv, UNCHANGED launch, Constructs \/ Rests
  PROVE  MessagesOK'
<1>1. \A p, q \in Process : \A a \in Travel(p, q)' : destination'[a] = q
  BY TravelKept
<1>2. destination' = destination
  BY DEF launch
<1>3. \A q \in Process : \A a \in Elements(m_received_msg'[q]) : destination'[a] = q
  BY <1>2, ReceivedKept
<1>4. \A p \in Process : /\ \A a, b \in s'[p] : a = b
                         /\ pc'[Comm(p)] # "held" => s'[p] = {}
  BY HeldKept
<1>5. QED
  BY <1>1, <1>3, <1>4 DEF MessagesOK, Elements, Comm

(* The types. *)
LEMMA QueuesKept ==
  ASSUME CoreOK, Constructs \/ Rests
  PROVE  /\ m_common_stack' \in [Process -> Seq(StackedPair)]
         /\ m_received_msg' \in [Process -> Seq(Aggregate)]
         /\ m_tosend_msg' \in [Process -> Seq(Aggregate)]
<1>1. /\ m_common_stack \in [Process -> Seq(StackedPair)]
      /\ m_received_msg \in [Process -> Seq(Aggregate)]
      /\ m_tosend_msg \in [Process -> Seq(Aggregate)]
  BY Zenon DEF CoreOK
<1>2. m_common_stack' \in [Process -> Seq(StackedPair)]
  BY <1>1
  DEF Constructs, Rests, Builds, Starts, BuilderCases, Wanders, TakesWork, FiresKnown, FiresNew, Fires,
      Assigns, QueuesNew, SendsLink, Queues, Completes, ReceivesKnown, ReceivesNew, QueuesReceived, Carries, TakesMessage,
      DropsMessage, SendsState, ReadsState, Grown, Shrunk, queues
<1>3. m_received_msg' \in [Process -> Seq(Aggregate)]
  BY <1>1
  DEF Constructs, Rests, Builds, Starts, BuilderCases, Wanders, TakesWork, FiresKnown, FiresNew, Fires,
      Assigns, QueuesNew, SendsLink, Queues, Completes, ReceivesKnown, ReceivesNew, QueuesReceived, Carries, TakesMessage,
      DropsMessage, SendsState, ReadsState, Grown, Shrunk, queues
<1>4. m_tosend_msg' \in [Process -> Seq(Aggregate)]
  BY <1>1
  DEF Constructs, Rests, Builds, Starts, BuilderCases, Wanders, TakesWork, FiresKnown, FiresNew, Fires,
      Assigns, QueuesNew, SendsLink, Queues, Completes, ReceivesKnown, ReceivesNew, QueuesReceived, Carries, TakesMessage,
      DropsMessage, SendsState, ReadsState, Grown, Shrunk, queues
<1>5. QED
  BY <1>2, <1>3, <1>4

LEMMA CoreKept ==
  ASSUME TypeInv, Constructs \/ Rests
  PROVE  CoreOK'
<1>1. CoreOK
  BY DEF TypeInv
<1>2. m_graph' \in [Process -> Seq(GraphNode)]
  BY <1>1, GraphSteps DEF CoreOK, GraphCases, AddsNode, RightEdits, Edits
<1>3. pc' \in [Thread -> CommLabel \cup BuilderLabel]
  BY BuilderMoving
  DEF Constructs, Rests, Builds, Starts, Carries, TakesMessage, DropsMessage, SendsState, ReadsState,
      AllIdle, Moves
<1>4. /\ e' \in [Thread -> StackedPair]
      /\ t' \in [Thread -> Transition \cup {NoTransition}]
      /\ pos' \in [Thread -> Nat]
  <2>1. CASE UNCHANGED local
    BY <1>1, <2>1 DEF CoreOK, local
  <2>2. CASE \E x \in Thread : OnlyLocals(x)
    BY <2>2 DEF OnlyLocals
  <2>3. CASE \E x \in Thread : ReceivesNew(x)
    BY <2>3 DEF ReceivesNew, OnlyLocals
  <2>4. QED
    BY <2>1, <2>2, <2>3
    DEF Constructs, Rests, Builds, Starts, BuilderCases, Wanders, TakesWork, FiresKnown, FiresNew, Fires,
        Assigns, QueuesNew, SendsLink, Queues, Completes, ReceivesKnown, QueuesReceived, Carries, TakesMessage,
        DropsMessage, SendsState, ReadsState
<1>5. s' \in [Process -> SUBSET Aggregate]
  BY <1>1
  DEF CoreOK, Constructs, Rests, Builds, Carries, TakesMessage, DropsMessage, SendsState, ReadsState, Holds
<1>6. QED
  BY <1>1, <1>2, <1>3, <1>4, <1>5, QueuesKept DEF CoreOK

(* The variables of the protocol. *)
LEMMA AwaitedKept ==
  ASSUME Grows, \A p \in Process : m_aggWaiting[p] \in NodesOf(p) \cup {NoState}, NEW q \in Process,
         NEW n, m_aggWaiting' = m_aggWaiting \/ (n \in NodesOf(q) /\ m_aggWaiting' = [m_aggWaiting EXCEPT ![q] = n]),
         m_aggWaiting \in [Process -> Nat], CoreOK
  PROVE  /\ m_aggWaiting' \in [Process -> Nat]
         /\ \A p \in Process : m_aggWaiting'[p] \in NodesOf(p)' \cup {NoState}
<1>1. \A p \in Process : NodesOf(p) \subseteq NodesOf(p)'
  BY DEF Grows
<1>2. n \in NodesOf(q) => n \in Nat
  BY NodesDomain
<1>3. \A p \in Process : m_aggWaiting'[p] \in NodesOf(p) \cup {NoState}
  OBVIOUS
<1>4. QED
  BY <1>1, <1>2, <1>3

LEMMA MuteProtocol ==
  ASSUME TypeInv, Grows, Mute
  PROVE  ProtocolOK'
<1>1. ProtocolOK /\ \A p \in Process : NodesOf(p) \subseteq NodesOf(p)'
  BY DEF TypeInv, Grows
<1>2. UNCHANGED <<waits, answer, crashed, checker>> /\ m_Terminated' \subseteq m_Terminated
  BY DEF Mute
<1>3. \A p \in Process : m_aggWaiting'[p] \in NodesOf(p)' \cup {NoState}
  BY <1>1, <1>2 DEF ProtocolOK, waits
<1>4. QED
  BY <1>1, <1>2, <1>3 DEF ProtocolOK, waits, checker

LEMMA ServesProtocol ==
  ASSUME TypeInv, Grows, Serves, NEW p \in Process, CommCases(p)
  PROVE  ProtocolOK'
<1>1. ProtocolOK /\ CoreOK
  BY DEF TypeInv
<1>2. UNCHANGED checker
  BY DEF Serves
<1>3. m_Terminated' \subseteq Process /\ crashed' \in BOOLEAN
  BY <1>1
  DEF ProtocolOK, CommCases, Answers, ReadsAskState, ReadsAskSucc, ReadsFinish, ReadsInitial,
      AnswersSucc, AnswersState, Turns
<1>4. answer' \in [Process -> Seq(Answer)]
  BY <1>1
  DEF ProtocolOK, CommCases, Answers, ReadsAskState, ReadsAskSucc, ReadsFinish, ReadsInitial,
      AnswersSucc, AnswersState, Turns, Replies, Shrunk, FindsSucc, SuccNotFound
<1>5. m_waitingAgregate' \subseteq Process
  BY <1>1
  DEF ProtocolOK, CommCases, Answers, ReadsAskState, ReadsAskSucc, ReadsFinish, ReadsInitial,
      AnswersSucc, AnswersState, Turns, FindsSucc, SuccNotFound, waits
<1>6. m_waitingBuildSucc' \in [Process -> {"waitInitial", "waitingBuild", "waitingSucc"}]
  BY <1>1
  DEF ProtocolOK, CommCases, Answers, ReadsAskState, ReadsAskSucc, ReadsFinish, ReadsInitial,
      AnswersSucc, AnswersState, Turns, FindsSucc, SuccNotFound, waits
<1>7. m_id_md5' \in [Process -> Bytes]
  BY <1>1, QuestionTags
  DEF ProtocolOK, CommCases, Answers, ReadsAskState, ReadsAskSucc, ReadsFinish, ReadsInitial,
      AnswersSucc, AnswersState, Turns, FindsSucc, SuccNotFound, waits
<1>8. /\ m_aggWaiting' \in [Process -> Nat]
      /\ \A q \in Process : m_aggWaiting'[q] \in NodesOf(q)' \cup {NoState}
  <2>1. \/ m_aggWaiting' = m_aggWaiting
        \/ \E n \in NodesOf(p) : m_aggWaiting' = [m_aggWaiting EXCEPT ![p] = n]
    BY FoundNodes
    DEF CommCases, Answers, ReadsAskState, ReadsAskSucc, ReadsFinish, ReadsInitial,
        AnswersSucc, AnswersState, Turns, FindsSucc, SuccNotFound, waits
  <2>2. QED
    BY <1>1, <2>1, AwaitedKept DEF ProtocolOK
<1>9. QED
  BY <1>1, <1>2, <1>3, <1>4, <1>5, <1>6, <1>7, <1>8 DEF ProtocolOK, checker

LEMMA ListensProtocol ==
  ASSUME TypeInv, Grows, Listens, CheckerCases
  PROVE  ProtocolOK'
<1>1. ProtocolOK /\ CoreOK /\ 0 \in Process
  BY ProcessProperties DEF TypeInv
<1>2. UNCHANGED <<m_Terminated, waits, answer, crashed>>
  BY DEF Listens
<1>3. mcPc' \in {"initial", "ackInitial", "ackState", "ackSucc", "explore", "end"}
  BY DEF CheckerCases, Begins, HearsInitial, HearsState, HearsSucc, Explores, Ends, AsksFor
<1>4. asked' \in [id : Bytes, process : Process, named : BOOLEAN]
  <2>1. ASSUME NEW id, NEW p, NEW f, NEW C, AsksFor(id, p, f, C)
        PROVE  asked' \in [id : Bytes, process : Process, named : BOOLEAN]
    BY <2>1 DEF AsksFor
  <2>2. UNCHANGED asked \/ \E id, p, f, C : AsksFor(id, p, f, C)
    BY DEF CheckerCases, Begins, HearsInitial, HearsState, HearsSucc, Explores, Ends
  <2>3. QED
    BY <1>1, <2>1, <2>2 DEF ProtocolOK
<1>5. state' \subseteq StateType
  <2>1. ASSUME NEW m \in Answer, m.tag = "ACK_STATE"
        PROVE  StateOf(m) \in StateType
    <3>1. m.v \in [pos : Nat, div : BOOLEAN, dead : BOOLEAN]
      BY <2>1, AnswerTags
    <3>2. <<m.v.pos, asked.process>> \in Nat \X Process
      BY <1>1, <3>1 DEF ProtocolOK
    <3>3. asked.id \in Bytes /\ asked.process \in Process /\ asked.named \in BOOLEAN
      BY <1>1 DEF ProtocolOK
    <3>4. QED
      BY <3>1, <3>2, <3>3 DEF StateOf, StateType, Hash
  <2>2. CASE HearsState
    BY <2>1, <2>2 DEF HearsState
  <2>3. CASE UNCHANGED state \/ state' = {}
    BY <1>1, <2>3 DEF ProtocolOK
  <2>4. QED
    BY <2>2, <2>3 DEF CheckerCases, Begins, HearsInitial, HearsSucc, Explores, Ends
<1>6. kripke' \subseteq KripkeType
  <2>1. ASSUME NEW x \in StateType, NEW m \in Answer, m.tag = "ACK_SUCC"
        PROVE  KripkeOf(x, m) \in KripkeType
    <3>1. Elements(m.v) \in SUBSET SuccType
      BY <2>1, AnswerTags, ElementsType
    <3>2. PICK S \in SUBSET SuccType : S = Elements(m.v)
      BY <3>1
    <3>3. QED
      BY <3>2 DEF KripkeOf, KripkeType, StateType
  <2>2. \A x \in state : x \in StateType
    BY <1>1 DEF ProtocolOK
  <2>3. CASE HearsSucc
    BY <1>1, <2>1, <2>2, <2>3 DEF HearsSucc, ProtocolOK
  <2>4. CASE UNCHANGED kripke
    BY <1>1, <2>4 DEF ProtocolOK
  <2>5. QED
    BY <2>3, <2>4 DEF CheckerCases, Begins, HearsInitial, HearsState, Explores, Ends
<1>7. \A p \in Process : m_aggWaiting'[p] \in NodesOf(p)' \cup {NoState}
  BY <1>1, <1>2 DEF ProtocolOK, waits, Grows
<1>8. QED
  BY <1>1, <1>2, <1>3, <1>4, <1>5, <1>6, <1>7 DEF ProtocolOK, waits

LEMMA ProtocolKept ==
  ASSUME TypeInv, Grows, Mute \/ Talks
  PROVE  ProtocolOK'
BY MuteProtocol, ServesProtocol, ListensProtocol DEF Talks

LEMMA TalkChannels ==
  ASSUME Talks
  PROVE  ChannelsOK(chan')
BY DEF Talks, Serves, CheckerCases, Begins, HearsInitial, HearsState, HearsSucc, Explores, Ends, AsksFor, Others

(* What the step of a process does to the questions: they are only read.   *)
LEMMA QuestionsServed ==
  ASSUME NEW p \in Process, CommCases(p), NEW q \in Process
  PROVE  Elements(chan'[<<Checker, q>>]) \subseteq Elements(chan[<<Checker, q>>])
<1>1. /\ <<Checker, q>> \in Channel /\ <<Checker, q>> # <<p, Checker>> /\ <<Checker, q>> # <<0, Checker>>
      /\ q # p => <<Checker, q>> # <<Checker, p>>
      /\ 0 \in Process
  BY ChannelProperties, ProcessProperties
<1>2. CASE Answers(p)
  BY <1>1, <1>2 DEF Answers, Others
<1>3. CASE UNCHANGED chan
  BY <1>3
<1>4. ASSUME Others({<<Checker, p>>}) \/ (Others({<<0, Checker>>, <<Checker, 0>>}) /\ p = 0),
             \E m \in Question : Get(<<Checker, p>>, m)
      PROVE  Elements(chan'[<<Checker, q>>]) \subseteq Elements(chan[<<Checker, q>>])
  <2>1. CASE q = p
    BY <1>4, <2>1 DEF Get
  <2>2. CASE q # p
    BY <1>1, <1>4, <2>2 DEF Others
  <2>3. QED
    BY <2>1, <2>2
<1>5. CASE ReadsAskState(p) \/ ReadsAskSucc(p) \/ ReadsFinish(p) \/ ReadsInitial(p)
  <2>1. Others({<<Checker, p>>}) \/ (Others({<<0, Checker>>, <<Checker, 0>>}) /\ p = 0)
    BY <1>5 DEF ReadsAskState, ReadsAskSucc, ReadsFinish, ReadsInitial
  <2>2. \E m \in Question : Get(<<Checker, p>>, m)
    BY <1>5 DEF ReadsAskState, ReadsAskSucc, ReadsFinish, ReadsInitial, Reads
  <2>3. QED
    BY <1>4, <2>1, <2>2
<1>6. QED
  BY <1>2, <1>3, <1>5 DEF CommCases, AnswersSucc, AnswersState, Turns

(* What the checker's step does to them: one is asked. *)
LEMMA QuestionsAsked ==
  ASSUME LaunchOK, CheckerCases, NEW q \in Process, NEW m \in Elements(chan'[<<Checker, q>>])
  PROVE  \/ m \in Elements(chan[<<Checker, q>>])
         \/ Begins /\ q = 0 /\ m = Message("INITIAL", 0)
         \/ mcPc' = "ackState" /\ q = asked'.process /\ m = Message("ASK_STATE", asked'.id)
         \/ HearsState /\ q = asked.process /\ m = Message("ASK_SUCC", asked.id)
         \/ Ends /\ m = Message("FINISH", 0)
<1>1. /\ <<Checker, q>> \in Channel
      /\ \A p \in Process : <<Checker, q>> # <<p, Checker>>
      /\ \A p \in Process : q # p => <<Checker, q>> # <<Checker, p>>
      /\ 0 \in Process
  BY ChannelProperties, ProcessProperties
<1>2. CASE Begins
  BY <1>1, <1>2 DEF Begins, Put, Others
<1>3. ASSUME NEW id, NEW p, NEW f, NEW r \in Process, NEW C, C \in {{}, {<<r, Checker>>}}, AsksFor(id, p, f, C)
      PROVE  \/ m \in Elements(chan[<<Checker, q>>])
             \/ mcPc' = "ackState" /\ q = asked'.process /\ m = Message("ASK_STATE", asked'.id)
  <2>1. CASE q = p
    BY <1>1, <1>3, <2>1 DEF AsksFor, Put
  <2>2. CASE q # p
    <3>1. <<Checker, q>> \notin C \cup {<<Checker, p>>}
      BY <1>1, <1>3, <2>2 DEF AsksFor
    <3>2. QED
      BY <1>1, <1>3, <3>1 DEF AsksFor, Others
  <2>3. QED
    BY <2>1, <2>2
<1>4. CASE HearsInitial
  BY <1>3, <1>4 DEF HearsInitial
<1>5. CASE HearsState
  <2>1. PICK r \in Process : /\ Put(<<Checker, asked.process>>, Message("ASK_SUCC", asked.id))
                             /\ Others({<<r, Checker>>, <<Checker, asked.process>>})
    BY <1>5 DEF HearsState
  <2>2. CASE q = asked.process
    BY <1>5, <2>1, <2>2 DEF Put
  <2>3. CASE q # asked.process
    <3>1. <<Checker, q>> \notin {<<r, Checker>>, <<Checker, asked.process>>}
      BY <1>1, <2>3
    <3>2. QED
      BY <1>1, <2>1, <3>1 DEF Others
  <2>4. QED
    BY <2>2, <2>3
<1>6. CASE HearsSucc
  BY <1>1, <1>6 DEF HearsSucc, Others
<1>7. CASE Explores
  <2>1. \E id, p, f : AsksFor(id, p, f, {})
    BY <1>7 DEF Explores
  <2>2. QED
    BY <1>1, <1>3, <2>1
<1>8. CASE Ends
  <2>1. m_nb_thread[q] = 0 \/ m_nb_thread[q] > 0
    BY DEF LaunchOK
  <2>2. \/ chan'[<<Checker, q>>] = chan[<<Checker, q>>]
        \/ Put(<<Checker, q>>, Message("FINISH", 0))
    BY <1>8, <2>1 DEF Ends
  <2>3. QED
    BY <1>8, <2>2 DEF Put
<1>9. QED
  BY <1>2, <1>4, <1>5, <1>6, <1>7, <1>8 DEF CheckerCases

(* A thread that has started has. *)
LEMMA StaysStarted ==
  ASSUME TypeInv, Constructs \/ Rests, NEW y \in Thread, pc[y] # "start"
  PROVE  pc'[y] # "start"
<1>1. CASE Idles(y)
  BY <1>1 DEF Idles, Neutral
<1>2. ASSUME NEW x \in Thread, NEW label, label # "start", Moves(x, label), ~Idles(y)
      PROVE  pc'[y] # "start"
  BY <1>2 DEF Moves
<1>3. AllIdle \/ \E x \in Thread : \E label : label # "start" /\ Moves(x, label)
  <2>1. ASSUME NEW x \in Thread, Builds(x)
        PROVE  AllIdle \/ \E label : label # "start" /\ Moves(x, label)
    BY <2>1, BuilderMoving DEF Builds, Starts
  <2>2. ASSUME NEW p \in Process, Carries(p)
        PROVE  AllIdle \/ \E label : label # "start" /\ Moves(Comm(p), label)
    BY <2>2 DEF Carries, TakesMessage, DropsMessage, SendsState, ReadsState
  <2>3. QED
    BY <2>1, <2>2, CommProperties DEF Constructs, Rests
<1>4. QED
  BY <1>1, <1>2, <1>3 DEF AllIdle

LEMMA ServesAsked ==
  ASSUME TypeInv, NEW p \in Process, CommCases(p), NEW q \in Process, answer'[q] # <<>>
  PROVE  pc[Comm(q)] # "start" /\ m_nb_thread[q] > 0
<1>1. answer[q] # <<>> => pc[Comm(q)] # "start" /\ m_nb_thread[q] > 0
  BY DEF TypeInv, AskedOK
<1>2. ASSUME pc[Comm(q)] \in {"held", "read"}
      PROVE  pc[Comm(q)] # "start" /\ m_nb_thread[q] > 0
  <2>1. Comm(q) \in Thread /\ Comm(q)[1] = q /\ Comm(q)[2] = 0
    BY CommProperties
  <2>2. 0 < m_nb_thread[q] /\ m_nb_thread[q] \in Nat
    BY <1>2, <2>1 DEF TypeInv, LabelsOK, LaunchOK
  <2>3. QED
    BY <1>2, <2>2
<1>3. answer[q] # <<>> \/ (q = p /\ pc[Comm(p)] \in {"held", "read"})
  <2>1. CASE UNCHANGED answer
    BY <2>1
  <2>2. CASE Answers(p)
    BY <2>2 DEF Answers, Shrunk
  <2>3. ASSUME NEW m, Replies(p, m), pc[Comm(p)] \in {"held", "read"} \/ answer[p] # <<>>
        PROVE  answer[q] # <<>> \/ (q = p /\ pc[Comm(p)] \in {"held", "read"})
    BY <2>3 DEF Replies
  <2>4. CASE ReadsAskState(p) /\ ~UNCHANGED answer
    BY <2>3, <2>4 DEF ReadsAskState, Reads
  <2>5. CASE ReadsAskSucc(p) /\ ~UNCHANGED answer
    BY <2>3, <2>5 DEF ReadsAskSucc, FindsSucc, SuccNotFound, Reads
  <2>6. CASE (AnswersSucc(p) \/ AnswersState(p)) /\ ~UNCHANGED answer
    BY <2>3, <2>6 DEF AnswersSucc, AnswersState
  <2>7. QED
    BY <2>1, <2>2, <2>4, <2>5, <2>6 DEF CommCases, ReadsFinish, ReadsInitial, Turns
<1>4. QED
  BY <1>1, <1>2, <1>3

LEMMA AskedKept ==
  ASSUME TypeInv, UNCHANGED launch, Constructs \/ Rests, Mute \/ Talks
  PROVE  AskedOK'
<1>1. /\ \A p \in Process : \A m \in Elements(chan[<<Checker, p>>]) : m.tag = "INITIAL" => p = 0
      /\ \A p \in Process : answer[p] # <<>> => pc[Comm(p)] # "start" /\ m_nb_thread[p] > 0
      /\ m_nb_thread' = m_nb_thread
  BY DEF TypeInv, AskedOK, launch
<1>2. ASSUME NEW q \in Process, NEW m \in Elements(chan'[<<Checker, q>>]), m.tag = "INITIAL"
      PROVE  q = 0
  <2>1. CASE Mute
    BY <1>1, <1>2, <2>1 DEF Mute, SameTalk
  <2>2. ASSUME NEW p \in Process, CommCases(p)
        PROVE  q = 0
    <3>1. Elements(chan'[<<Checker, q>>]) \subseteq Elements(chan[<<Checker, q>>])
      BY <2>2, QuestionsServed
    <3>2. QED
      BY <1>1, <1>2, <3>1
  <2>3. CASE CheckerCases
    <3>1. \/ m \in Elements(chan[<<Checker, q>>]) \/ q = 0
          \/ \E v : m \in {Message("ASK_STATE", v), Message("ASK_SUCC", v), Message("FINISH", v)}
      <4>1. LaunchOK
        BY DEF TypeInv
      <4>2. \/ m \in Elements(chan[<<Checker, q>>])
            \/ Begins /\ q = 0 /\ m = Message("INITIAL", 0)
            \/ mcPc' = "ackState" /\ q = asked'.process /\ m = Message("ASK_STATE", asked'.id)
            \/ HearsState /\ q = asked.process /\ m = Message("ASK_SUCC", asked.id)
            \/ Ends /\ m = Message("FINISH", 0)
        BY <2>3, <4>1, QuestionsAsked
      <4>3. QED
        BY <4>2, Zenon
    <3>2. QED
      BY <1>1, <1>2, <3>1 DEF Message
  <2>4. QED
    BY <2>1, <2>2, <2>3 DEF Talks
<1>3. ASSUME NEW q \in Process, answer'[q] # <<>>
      PROVE  pc[Comm(q)] # "start" /\ m_nb_thread[q] > 0
  <2>1. CASE answer' = answer
    BY <1>1, <1>3, <2>1
  <2>2. ASSUME NEW p \in Process, CommCases(p)
        PROVE  pc[Comm(q)] # "start" /\ m_nb_thread[q] > 0
    BY <1>3, <2>2, ServesAsked
  <2>3. QED
    BY <2>1, <2>2 DEF Mute, Talks, Listens
<1>4. ASSUME NEW q \in Process, answer'[q] # <<>>
      PROVE  pc'[Comm(q)] # "start" /\ m_nb_thread'[q] > 0
  BY <1>1, <1>3, <1>4, StaysStarted, CommProperties
<1>5. QED
  BY <1>2, <1>4 DEF AskedOK, Elements, Comm

LEMMA InitTyped ==
  ASSUME Init
  PROVE  TypeInv
<1>1. PICK l \in Launches : m_nb_thread = l.nb_th /\ destination = l.destination /\ memory = l.memory
  BY DEF Init
<1>2. /\ MaxTask \in Nat \ {0} /\ MaxThread \in Nat \ {0, 1}
      /\ l.nb_th \in [Process -> {0} \cup 2 .. MaxThread]
      /\ l.destination \in [Aggregate -> Process]
      /\ l.memory \in [m_waitingBuildSucc : {"waitInitial", "waitingBuild", "waitingSucc"},
                        m_waitingAgregate : BOOLEAN]
  BY MCHybridSOGAssumption
<1>3. LaunchOK
  BY <1>1, <1>2 DEF LaunchOK
<1>4. NoTransition \notin Transition /\ NoState = 0 /\ 0 \in Process
  BY SOGAssumption, ProcessProperties DEF NoTransition, NoState
<1>5. CoreOK
  <2>1. m_graph \in [Process -> Seq(GraphNode)] /\ m_common_stack \in [Process -> Seq(StackedPair)]
    BY DEF Init
  <2>2. m_received_msg \in [Process -> Seq(Aggregate)] /\ m_tosend_msg \in [Process -> Seq(Aggregate)]
    BY DEF Init
  <2>3. pc \in [Thread -> CommLabel \cup BuilderLabel]
    BY DEF Init, CommLabel
  <2>4. e \in [Thread -> StackedPair]
    BY <1>4 DEF Init, Pair, StackedPair
  <2>5. t \in [Thread -> Transition \cup {NoTransition}] /\ pos \in [Thread -> Nat]
    BY <1>4 DEF Init
  <2>6. s \in [Process -> SUBSET Aggregate]
    BY DEF Init
  <2>7. QED
    BY <2>1, <2>2, <2>3, <2>4, <2>5, <2>6 DEF CoreOK
<1>6. ProtocolOK
  <2>1. m_waitingBuildSucc \in [Process -> {"waitInitial", "waitingBuild", "waitingSucc"}]
    BY <1>1, <1>2 DEF Init
  <2>2. m_aggWaiting \in [Process -> Nat] /\ \A p \in Process : m_aggWaiting[p] \in NodesOf(p) \cup {NoState}
    BY <1>4 DEF Init
  <2>3. m_id_md5 \in [Process -> Bytes] /\ answer \in [Process -> Seq(Answer)]
    BY BytesAre DEF Init
  <2>4. asked \in [id : Bytes, process : Process, named : BOOLEAN]
    BY <1>4, BytesAre DEF Init
  <2>5. QED
    BY <2>1, <2>2, <2>3, <2>4 DEF ProtocolOK, Init
<1>7. ChannelsOK(chan) /\ \A c \in Channel : chan[c] = <<>>
  BY DEF Init, ChannelsOK, Channel
<1>8. \A p \in Process : DOMAIN m_graph[p] = {}
  BY DEF Init
<1>9. LabelsOK
  BY DEF Init, LabelsOK, CommLabel, BuilderLabel, Neutral
<1>10. NodesOK /\ EdgesOK
  BY <1>8 DEF NodesOK, EdgesOK, NodesOf
<1>11. \A p \in Process : /\ Elements(m_common_stack[p]) = {} /\ Elements(m_received_msg[p]) = {}
                          /\ \A q \in Process : Travel(p, q) = {}
                          /\ Elements(chan[<<Checker, p>>]) = {}
  <2>1. \A p, q \in Process : <<p, q>> \in Channel /\ <<Checker, p>> \in Channel
    BY ChannelProperties
  <2>2. Elements(<<>>) = {}
    BY DEF Elements
  <2>3. QED
    BY <1>7, <2>1, <2>2 DEF Init, Travel
<1>12. MessagesOK /\ StacksOK
  BY <1>11 DEF Init, MessagesOK, StacksOK
<1>13. ThreadsOK
  <2>1. \A x \in Thread : pc[x] \notin Expanding \cup Storing \cup Linking \cup Assigning
    BY DEF Init, Expanding, Linking, Storing, Assigning, NewLabel, ReceivedLabel
  <2>2. QED
    BY <2>1 DEF ThreadsOK, ThreadOK
<1>14. StartOK
  <2>1. \A p \in Process : NothingIn(p)
    BY <1>8 DEF Init, NothingIn, NodesOf
  <2>2. Comm(0) \in Thread /\ Comm(0)[1] = 0 /\ Comm(0)[2] = 0
    BY <1>4, CommProperties
  <2>3. m_nb_thread[0] \in Nat
    BY <1>3, <1>4 DEF LaunchOK
  <2>4. pc[Comm(0)] = "start" \/ m_nb_thread[0] = 0
    BY <2>2, <2>3 DEF Init
  <2>5. QED
    BY <1>11, <2>1, <2>4 DEF StartOK
<1>15. AskedOK
  BY <1>11 DEF AskedOK, Init
<1>16. QED
  BY <1>3, <1>5, <1>6, <1>7, <1>9, <1>10, <1>12, <1>13, <1>14, <1>15 DEF TypeInv

LEMMA NextTyped ==
  ASSUME TypeInv, [Next]_vars
  PROVE  TypeInv'
<1>1. (Constructs \/ Rests) /\ (Mute \/ Talks)
  BY StepCases, TalkRests
<1>2. Grows
  BY <1>1, StepGrows
<1>3. UNCHANGED launch
  BY <1>1 DEF Mute, Talks, Serves, Listens, Rests
<1>4. PICK p \in Process : GraphCases(p)
  BY <1>1, GraphSteps
<1>5. NodesOK'
  BY <1>3, <1>4, NodesKept DEF TypeInv, launch
<1>6. EdgesOK'
  BY <1>2, <1>4, EdgesKept DEF TypeInv
<1>7. CoreOK' /\ ProtocolOK' /\ LabelsOK'
  BY <1>1, <1>2, <1>3, CoreKept, ProtocolKept, LabelsKept
<1>8. MessagesOK' /\ StacksOK' /\ ThreadsOK' /\ StartOK' /\ AskedOK'
  BY <1>1, <1>2, <1>3, MessagesKept, StacksKept, ThreadsKept, StartKept, AskedKept
<1>9. LaunchOK'
  BY <1>3 DEF TypeInv, LaunchOK, launch
<1>10. ChannelsOK(chan')
  BY <1>1, TalkChannels DEF Mute
<1>11. ChannelsOK(chan)'
  BY <1>10 DEF ChannelsOK
<1>12. QED
  BY <1>5, <1>6, <1>7, <1>8, <1>9, <1>11 DEF TypeInv

(* In every behaviour of the processes and of the checker the variables    *)
(* have their types, an edge joins nodes of one process as the SOG says,   *)
(* what waits in a queue, travels or is in hand is where it belongs, and a *)
(* node that has its identifier has its process and its flags, while one   *)
(* that others find before may have any bytes and no process.              *)
THEOREM TypeCorrect == Spec => []TypeInv
<1>1. Init => TypeInv
  BY InitTyped
<1>2. TypeInv /\ [Next]_vars => TypeInv'
  BY NextTyped
<1>3. QED
  BY <1>1, <1>2, PTL DEF Spec

-----------------------------------------------------------------------------

(* Until the check is over nobody hears that it is.                        *)

EndInv ==
  mcPc # "end" =>
    /\ m_Terminated = {}
    /\ \A p \in Process : \A m \in Elements(chan[<<Checker, p>>]) : m.tag # "FINISH"

LEMMA InitEnd ==
  ASSUME Init
  PROVE  EndInv
<1>1. \A p \in Process : chan[<<Checker, p>>] = <<>>
  BY ChannelProperties DEF Init, Channel
<1>2. Elements(<<>>) = {}
  BY DEF Elements
<1>3. QED
  BY <1>1, <1>2 DEF Init, EndInv

LEMMA NextEnd ==
  ASSUME TypeInv, EndInv, [Next]_vars
  PROVE  EndInv'
<1>1. SUFFICES ASSUME mcPc' # "end"
               PROVE  /\ m_Terminated' = {}
                      /\ \A p \in Process : \A m \in Elements(chan'[<<Checker, p>>]) : m.tag # "FINISH"
  BY DEF EndInv, Elements
<1>2. Mute \/ Talks
  BY StepCases
<1>3. CASE Mute
  BY <1>1, <1>3 DEF EndInv, Mute, SameTalk, checker
<1>4. ASSUME Serves, NEW p \in Process, CommCases(p)
      PROVE  /\ m_Terminated' = {}
             /\ \A q \in Process : \A m \in Elements(chan'[<<Checker, q>>]) : m.tag # "FINISH"
  <2>1. /\ m_Terminated = {}
        /\ \A q \in Process : \A m \in Elements(chan[<<Checker, q>>]) : m.tag # "FINISH"
    BY <1>1, <1>4 DEF EndInv, Serves, checker
  <2>2. ~ReadsFinish(p)
    BY <2>1 DEF ReadsFinish, Reads, Get
  <2>3. m_Terminated' = m_Terminated
    BY <1>4, <2>2
    DEF CommCases, Answers, ReadsAskState, ReadsAskSucc, ReadsInitial, AnswersSucc, AnswersState, Turns
  <2>4. \A q \in Process : Elements(chan'[<<Checker, q>>]) \subseteq Elements(chan[<<Checker, q>>])
    BY <1>4, QuestionsServed
  <2>5. QED
    BY <2>1, <2>3, <2>4
<1>5. CASE Listens /\ CheckerCases
  <2>1. /\ m_Terminated = {}
        /\ \A q \in Process : \A m \in Elements(chan[<<Checker, q>>]) : m.tag # "FINISH"
    BY <1>1, <1>5
    DEF EndInv, CheckerCases, Begins, HearsInitial, HearsState, HearsSucc, Explores, Ends
  <2>2. ASSUME NEW q \in Process, NEW m \in Elements(chan'[<<Checker, q>>])
        PROVE  m \in Elements(chan[<<Checker, q>>]) \/ m.tag \in {"INITIAL", "ASK_STATE", "ASK_SUCC"}
    <3>1. LaunchOK /\ ~Ends
      BY <1>1 DEF TypeInv, Ends
    <3>2. \/ m \in Elements(chan[<<Checker, q>>])
          \/ \E tag \in {"INITIAL", "ASK_STATE", "ASK_SUCC"} : \E v : m = Message(tag, v)
      BY <1>5, <2>2, <3>1, QuestionsAsked, Zenon
    <3>3. QED
      BY <3>2 DEF Message
  <2>3. QED
    BY <1>5, <2>1, <2>2 DEF Listens
<1>6. QED
  BY <1>2, <1>3, <1>4, <1>5 DEF Talks

-----------------------------------------------------------------------------
(* A virtual node has a message somewhere, or a node at its owner.         *)

Sending(p, n) == \E x \in Thread : x[1] = p /\ pc[x] = "link" /\ pos[x] = n
Delivered(q, a) == \E n \in NodesOf(q) : Agg(q, n) = a
OnItsWay(p, q, a) ==
  \/ a \in Elements(m_tosend_msg[p]) \/ a \in s[p] \/ a \in Travel(p, q)
  \/ a \in Elements(m_received_msg[q]) \/ Delivered(q, a)

DeliveryInv ==
  mcPc # "end" =>
    \A p \in Process : \A n \in NodesOf(p) :
      Virtual(p, n) => Sending(p, n) \/ OnItsWay(p, destination[Agg(p, n)], Agg(p, n))

LEMMA InitDelivery ==
  ASSUME Init
  PROVE  DeliveryInv
BY DEF Init, DeliveryInv, NodesOf

LEMMA DeliveredKept ==
  ASSUME Grows, NEW q \in Process, NEW a, Delivered(q, a)
  PROVE  Delivered(q, a)'
BY DEF Delivered, Grows

LEMMA DeliveredNew ==
  ASSUME NEW q \in Process, NEW n, NEW nd, NEW a, AddsNode(q, n, nd, a)
  PROVE  Delivered(q, a)'
BY DEF Delivered, AddsNode, NodesOf, Agg

(* A step of a builder or of the start. *)
LEMMA BuildDelivers ==
  ASSUME TypeInv, Grows, NEW x \in Thread, Builds(x), NEW p \in Process, NEW q \in Process, NEW a,
         OnItsWay(p, q, a)
  PROVE  OnItsWay(p, q, a)'
<1>1. s' = s /\ Travel(p, q)' = Travel(p, q)
  BY SameTravelled DEF Builds
<1>2. CASE Delivered(q, a)
  BY <1>2, DeliveredKept DEF OnItsWay
<1>3. a \in Elements(m_tosend_msg[p]) => a \in Elements(m_tosend_msg'[p])
  BY DEF Builds, Starts, BuilderCases, Wanders, TakesWork, FiresKnown, FiresNew, Fires, Assigns, QueuesNew, SendsLink,
         Queues, Completes, ReceivesKnown, ReceivesNew, QueuesReceived, Grown, queues
<1>4. CASE a \in Elements(m_received_msg[q])
  <2>1. CASE m_received_msg' = m_received_msg
    BY <1>4, <2>1 DEF OnItsWay, Elements
  <2>2. CASE ReceivesKnown(x) \/ ReceivesNew(x)
    <3>1. PICK v : /\ Shrunk(Aggregate, m_received_msg, m_received_msg', x[1], v)
                   /\ \/ \E n \in NodesOf(x[1]) : Agg(x[1], n) = v
                      \/ \E n, nd : AddsNode(x[1], n, nd, v)
      BY <2>2 DEF ReceivesKnown, ReceivesNew
    <3>2. a \in Elements(m_received_msg'[q]) \/ (q = x[1] /\ a = v)
      BY <1>4, <3>1 DEF Shrunk
    <3>3. x[1] \in Process
      BY ThreadProperties
    <3>4. Delivered(x[1], v)'
      BY <3>1, <3>3, DeliveredKept, DeliveredNew DEF Delivered
    <3>5. QED
      BY <3>2, <3>4 DEF OnItsWay, Elements
  <2>3. QED
    BY <2>1, <2>2
    DEF Builds, Starts, BuilderCases, Wanders, TakesWork, FiresKnown, FiresNew, Fires, Assigns, QueuesNew, SendsLink,
        Queues, Completes, QueuesReceived, queues
<1>5. QED
  BY <1>1, <1>2, <1>3, <1>4 DEF OnItsWay, Elements

(* A step of thread 0 carries the message one leg further. *)
LEMMA CarryDelivers ==
  ASSUME TypeInv, Grows, NEW r \in Process, Carries(r), m_Terminated = {}, NEW p \in Process, NEW a,
         NEW q \in Process, q = destination[a], OnItsWay(p, q, a)
  PROVE  OnItsWay(p, q, a)'
<1>1. CASE Delivered(q, a)
  BY <1>1, DeliveredKept DEF OnItsWay
<1>2. CASE TakesMessage(r)
  <2>1. PICK v : Shrunk(Aggregate, m_tosend_msg, m_tosend_msg', r, v) /\ Holds(r, {v})
    BY <1>2 DEF TakesMessage
  <2>2. a \in Elements(m_tosend_msg[p]) => a \in Elements(m_tosend_msg'[p]) \/ a \in s'[p]
    BY <2>1 DEF Shrunk, Holds
  <2>3. a \in s[p] => a \in s'[p]
    BY <1>2, <2>1 DEF TakesMessage, Holds
  <2>4. Travel(p, q)' = Travel(p, q) /\ m_received_msg' = m_received_msg
    BY <1>2, SameTravelled DEF TakesMessage
  <2>5. QED
    BY <1>1, <2>2, <2>3, <2>4 DEF OnItsWay, Elements
<1>3. CASE DropsMessage(r)
  BY <1>3 DEF DropsMessage
<1>4. CASE SendsState(r)
  <2>1. PICK v \in s[r] : \A u, w \in Process :
          Travel(u, w)' = IF u = r /\ w = destination[v] THEN Travel(u, w) \cup {v} ELSE Travel(u, w)
    BY <1>4 DEF SendsState
  <2>2. \A u \in s[r] : u = v
    BY DEF TypeInv, MessagesOK
  <2>3. a \in s[p] => a \in s'[p] \/ a \in Travel(p, q)'
    BY <1>4, <2>1, <2>2 DEF SendsState, Holds
  <2>4. a \in Travel(p, q) => a \in Travel(p, q)'
    BY <2>1
  <2>5. m_tosend_msg' = m_tosend_msg /\ m_received_msg' = m_received_msg
    BY <1>4 DEF SendsState, queues
  <2>6. QED
    BY <1>1, <2>3, <2>4, <2>5 DEF OnItsWay, Elements
<1>5. ASSUME NEW u \in Process, ReadsState(r, u)
      PROVE  OnItsWay(p, q, a)'
  <2>1. PICK v \in Travel(u, r) :
          /\ Grown(Aggregate, m_received_msg, m_received_msg', r, v)
          /\ Travel(u, r) = Travel(u, r)' \cup {v}
          /\ \A w, z \in Process : <<w, z>> # <<u, r>> => Travel(w, z)' = Travel(w, z)
    BY <1>5 DEF ReadsState
  <2>2. a \in Elements(m_received_msg[q]) => a \in Elements(m_received_msg'[q])
    BY <2>1 DEF Grown
  <2>3. a \in Travel(p, q) => a \in Travel(p, q)' \/ a \in Elements(m_received_msg'[q])
    BY <2>1 DEF Grown
  <2>4. m_tosend_msg' = m_tosend_msg /\ s' = s
    BY <1>5 DEF ReadsState
  <2>5. QED
    BY <1>1, <2>2, <2>3, <2>4 DEF OnItsWay, Elements
<1>6. QED
  BY <1>2, <1>3, <1>4, <1>5 DEF Carries

(* The node of a new virtual aggregate, and of one that is linked.         *)
LEMMA NewDelivers ==
  ASSUME TypeInv, Grows, NEW x \in Thread, Builds(x), NEW p \in Process, NEW n \in NodesOf(p)' \ NodesOf(p),
         Virtual(p, n)'
  PROVE  Sending(p, n)' \/ Agg(p, n)' \in Elements(m_tosend_msg'[p])
<1>1. x[1] \in Process /\ 0 \in Process /\ (x = Comm(0) => x[1] = 0)
  BY ThreadProperties, ProcessProperties, CommProperties
<1>2. ASSUME NEW k, NEW nd, NEW a, NEW r \in Process, AddsNode(r, k, nd, a)
      PROVE  p = r /\ n = k /\ Agg(p, n)' = a /\ destination[a] # p
  <2>1. p = r
    BY <1>2 DEF AddsNode, NodesOf
  <2>2. n = k
    BY <1>2, <2>1 DEF AddsNode, NodesOf
  <2>3. QED
    BY <1>2, <2>1, <2>2 DEF AddsNode, NodesOf, Agg, Virtual, NodeOK
<1>3. CASE FiresNew(x)
  <2>1. PICK nd : AddsNode(x[1], pos'[x], nd, Target(x))
    BY <1>3 DEF FiresNew
  <2>2. p = x[1] /\ n = pos'[x] /\ destination[Target(x)] # p
    BY <1>1, <1>2, <2>1
  <2>3. pc'[x] = "link"
    BY <1>3, <2>2 DEF FiresNew, Moves
  <2>4. QED
    BY <2>2, <2>3 DEF Sending
<1>4. CASE ReceivesNew(x)
  BY <1>1, <1>2, <1>4 DEF ReceivesNew
<1>5. CASE Starts(x) /\ ~UNCHANGED m_graph
  <2>1. PICK nd : AddsNode(0, 1, nd, InitialAggregate)
    BY <1>5 DEF Starts
  <2>2. p = 0 /\ Agg(p, n)' = InitialAggregate /\ destination[InitialAggregate] # 0
    BY <1>1, <1>2, <2>1
  <2>3. Grown(Aggregate, m_tosend_msg, m_tosend_msg', 0, InitialAggregate)
    BY <1>5, <2>2 DEF Starts
  <2>4. QED
    BY <2>2, <2>3 DEF Grown
<1>6. CASE UNCHANGED m_graph
  BY <1>6 DEF NodesOf
<1>7. ASSUME NEW N, NEW C, NEW k, NEW L, Edits(x[1], N, C, k, L)
      PROVE  FALSE
  BY <1>1, <1>7, EditsGrows
<1>8. QED
  BY <1>3, <1>4, <1>5, <1>6, <1>7
  DEF Builds, BuilderCases, Wanders, TakesWork, FiresKnown, Assigns, QueuesNew, SendsLink, AddsEdge,
      Completes, ReceivesKnown, QueuesReceived

LEMMA LinkDelivers ==
  ASSUME TypeInv, Constructs \/ Rests, NEW p \in Process, NEW n \in NodesOf(p), Sending(p, n)
  PROVE  Sending(p, n)' \/ Agg(p, n) \in Elements(m_tosend_msg'[p])
<1>1. PICK y \in Thread : y[1] = p /\ pc[y] = "link" /\ pos[y] = n
  BY DEF Sending
<1>2. CASE Idles(y) /\ KeepsLocals(y)
  <2>1. pc'[y] = "link" /\ pos'[y] = n
    BY <1>1, <1>2 DEF Idles, Neutral, KeepsLocals
  <2>2. QED
    BY <1>1, <2>1 DEF Sending
<1>3. CASE Rests
  BY <1>2, <1>3 DEF Rests, AllIdle, KeepsLocals, local
<1>4. ASSUME NEW r \in Process, Carries(r)
      PROVE  Idles(y) /\ KeepsLocals(y)
  <2>1. KeepsLocals(y)
    BY <1>4 DEF Carries, TakesMessage, DropsMessage, SendsState, ReadsState, KeepsLocals, local
  <2>2. y # Comm(r)
    BY <1>1, BuilderProperties, CommProperties, LabelProperties DEF TypeInv
  <2>3. Idles(y)
    BY <1>4, <2>2 DEF Carries, TakesMessage, DropsMessage, SendsState, ReadsState, Moves, AllIdle
  <2>4. QED
    BY <2>1, <2>3
<1>5. ASSUME NEW x \in Thread, Builds(x), x # y
      PROVE  Idles(y) /\ KeepsLocals(y)
  <2>1. KeepsLocals(y)
    BY <1>5, LocalsKept DEF TypeInv
  <2>2. AllIdle \/ \E label : Moves(x, label)
    BY <1>5, BuilderMoving DEF Builds, Starts
  <2>3. QED
    BY <1>5, <2>1, <2>2 DEF AllIdle, Moves
<1>6. CASE Builds(y)
  <2>1. CASE SendsLink(y)
    BY <1>1, <2>1 DEF SendsLink, Grown
  <2>2. CASE Wanders(y)
    BY <1>2, <2>2 DEF Wanders, AllIdle, KeepsLocals, local
  <2>3. QED
    BY <1>1, <1>6, <2>1, <2>2
    DEF Builds, Starts, BuilderCases, TakesWork, FiresKnown, FiresNew, Fires, Assigns, QueuesNew,
        Completes, ReceivesKnown, ReceivesNew, QueuesReceived, NewLabel, ReceivedLabel
<1>7. QED
  BY <1>2, <1>3, <1>4, <1>5, <1>6 DEF Constructs

LEMMA NextDelivery ==
  ASSUME TypeInv, EndInv, DeliveryInv, [Next]_vars
  PROVE  DeliveryInv'
<1>1. (Constructs \/ Rests) /\ UNCHANGED destination
  BY StepCases, TalkRests DEF Mute, Talks, Serves, Listens, Rests, launch
<1>2. Grows /\ CoreOK /\ \A q \in Process : \A k \in NodesOf(q) : destination[Agg(q, k)] \in Process
  BY <1>1, StepGrows, NodesDomain DEF TypeInv, LaunchOK
<1>3. SUFFICES ASSUME mcPc' # "end", NEW p \in Process, NEW n \in NodesOf(p)', Virtual(p, n)'
               PROVE  Sending(p, n)' \/ OnItsWay(p, destination[Agg(p, n)], Agg(p, n))'
  BY DEF DeliveryInv
<1>4. mcPc # "end" /\ m_Terminated = {}
  <2>1. mcPc # "end"
    BY <1>3, StepCases
    DEF Mute, Talks, Serves, Listens, CheckerCases, Begins, HearsInitial, HearsState, HearsSucc, Explores, Ends,
        checker
  <2>2. QED
    BY <2>1 DEF EndInv
<1>5. CASE n \in NodesOf(p)
  <2>1. Agg(p, n)' = Agg(p, n) /\ Virtual(p, n)
    BY <1>2, <1>3, <1>5 DEF Grows
  <2>2. PICK a, q : a = Agg(p, n) /\ q = destination[a] /\ q \in Process
    BY <1>2, <1>5
  <2>3. Sending(p, n) \/ OnItsWay(p, q, a)
    BY <1>4, <1>5, <2>1, <2>2 DEF DeliveryInv
  <2>4. CASE Sending(p, n)
    BY <1>1, <1>5, <2>1, <2>4, LinkDelivers DEF OnItsWay, Elements
  <2>5. CASE OnItsWay(p, q, a)
    <3>1. ASSUME NEW x \in Thread, Builds(x)
          PROVE  OnItsWay(p, q, a)'
      BY <1>2, <2>2, <2>5, <3>1, BuildDelivers
    <3>2. ASSUME NEW r \in Process, Carries(r)
          PROVE  OnItsWay(p, q, a)'
      BY <1>2, <1>4, <2>2, <2>5, <3>2, CarryDelivers
    <3>3. ASSUME Rests
          PROVE  OnItsWay(p, q, a)'
      <4>1. Travel(p, q)' = Travel(p, q) /\ UNCHANGED <<queues, s, m_graph>>
        BY <2>2, <3>3, SameTravelled DEF Rests
      <4>2. Delivered(q, a)' = Delivered(q, a)
        BY <4>1 DEF Delivered, NodesOf, Agg
      <4>3. QED
        BY <2>5, <4>1, <4>2 DEF OnItsWay, Elements, queues
    <3>4. OnItsWay(p, q, a)'
      BY <1>1, <3>1, <3>2, <3>3 DEF Constructs
    <3>5. QED
      BY <1>1, <2>1, <2>2, <3>4 DEF OnItsWay, Elements, Travel, Delivered
  <2>6. QED
    BY <2>3, <2>4, <2>5
<1>6. CASE n \notin NodesOf(p)
  <2>1. PICK x \in Thread : Builds(x)
    BY <1>1, <1>3, <1>6, CarryGraph DEF Constructs, Rests, NodesOf
  <2>2. QED
    BY <1>2, <1>3, <1>6, <2>1, NewDelivers DEF OnItsWay, Elements
<1>7. QED
  BY <1>5, <1>6

LEMMA Lost ==
  ASSUME TypeInv, DeliveryInv
  PROVE  NoAggregateLost
<1>1. SUFFICES ASSUME mcPc # "end", NEW p \in Process, NEW n \in NodesOf(p), Virtual(p, n),
                      NEW a, NEW q, a = Agg(p, n), q = destination[a]
               PROVE  \/ \E x \in Builders(p) : pc[x] = "link" /\ pos[x] = n
                      \/ Has(m_tosend_msg[p], a) \/ a \in s[p]
                      \/ Has(chan[<<p, q>>], Message("STATE", a)) \/ Has(m_received_msg[q], a)
                      \/ Real(q, a) # {}
  BY DEF NoAggregateLost, NodesOf, Virtual, Agg
<1>2. Sending(p, n) \/ OnItsWay(p, q, a)
  BY <1>1 DEF DeliveryInv
<1>3. a \in Aggregate /\ q \in Process
  BY <1>1, NodesDomain DEF TypeInv, LaunchOK
<1>4. CASE Sending(p, n)
  BY <1>4, BuilderProperties, LabelProperties DEF Sending, TypeInv
<1>5. CASE a \in Elements(m_tosend_msg[p]) \/ a \in Elements(m_received_msg[q])
  BY <1>5 DEF Elements, Has
<1>6. CASE a \in Travel(p, q)
  <2>1. PICK m \in Elements(chan[<<p, q>>]) : m.v = a
    BY <1>6 DEF Travel
  <2>2. m \in StateMessage
    <3>1. chan[<<p, q>>] \in Seq(StateMessage)
      BY <1>3, ChannelTypes DEF TypeInv
    <3>2. QED
      BY <3>1, ElementsType
  <2>3. m = Message("STATE", a)
    BY <2>1, <2>2, StateMessages
  <2>4. QED
    BY <2>1, <2>3 DEF Elements, Has
<1>7. CASE Delivered(q, a)
  <2>1. PICK k \in NodesOf(q) : Agg(q, k) = a
    BY <1>7 DEF Delivered
  <2>2. ~m_graph[q][k].m_virtual /\ k \in DOMAIN m_graph[q]
    BY <1>1, <1>3, <2>1 DEF TypeInv, NodesOK, NodeOK, Agg, NodesOf
  <2>3. k \in StatesOf(m_graph[q], a)
    BY <2>1, <2>2 DEF StatesOf, Agg
  <2>4. QED
    BY <2>2, <2>3 DEF Real
<1>8. QED
  BY <1>2, <1>4, <1>5, <1>6, <1>7 DEF OnItsWay

(* Until the check is over an aggregate met by a process it does not       *)
(* belong to waits there, travels, waits at its own process or is there:   *)
(* no step of the builders or of thread 0 loses it.                        *)
THEOREM NothingLost == Spec => []NoAggregateLost
<1>1. Init => TypeInv /\ EndInv /\ DeliveryInv
  BY InitTyped, InitEnd, InitDelivery
<1>2. TypeInv /\ EndInv /\ DeliveryInv /\ [Next]_vars => (TypeInv /\ EndInv /\ DeliveryInv)'
  BY NextTyped, NextEnd, NextDelivery
<1>3. TypeInv /\ EndInv /\ DeliveryInv => NoAggregateLost
  BY Lost
<1>4. QED
  BY <1>1, <1>2, <1>3, PTL DEF Spec

-----------------------------------------------------------------------------
(* No aggregate has two nodes in a process.                                *)

UniqueInv == \A p \in Process : \A n, m \in NodesOf(p) : Agg(p, n) = Agg(p, m) => n = m

LEMMA InitUnique ==
  ASSUME Init
  PROVE  UniqueInv
BY DEF Init, UniqueInv, NodesOf

LEMMA AddsUnique ==
  ASSUME UniqueInv, NEW p \in Process, NEW n, NEW nd, NEW a, AddsNode(p, n, nd, a), Missing(p, a)
  PROVE  UniqueInv'
<1>1. ASSUME NEW q \in Process, NEW k \in NodesOf(q)', NEW l \in NodesOf(q)', Agg(q, k)' = Agg(q, l)'
      PROVE  k = l
  <2>1. CASE q # p
    BY <1>1, <2>1 DEF AddsNode, UniqueInv, NodesOf, Agg
  <2>2. CASE q = p
    <3>1. \A i \in NodesOf(p) : Agg(p, i)' = Agg(p, i) /\ Agg(p, i) # a
      BY DEF AddsNode, Missing, NodesOf, Agg
    <3>2. Agg(p, n)' = a /\ NodesOf(p)' = NodesOf(p) \cup {n}
      BY DEF AddsNode, NodesOf, Agg
    <3>3. QED
      BY <1>1, <2>2, <3>1, <3>2 DEF UniqueInv
  <2>3. QED
    BY <2>1, <2>2
<1>2. QED
  BY <1>1 DEF UniqueInv

LEMMA EditsUnique ==
  ASSUME UniqueInv, NEW p \in Process, NEW N, NEW C, NEW n, NEW L, Edits(p, N, C, n, L)
  PROVE  UniqueInv'
<1>1. Grows /\ \A q \in Process : NodesOf(q)' = NodesOf(q)
  BY EditsGrows
<1>2. QED
  BY <1>1 DEF Grows, UniqueInv

LEMMA NextUnique ==
  ASSUME TypeInv, UniqueInv, [Next]_vars
  PROVE  UniqueInv'
<1>1. Constructs \/ Rests
  BY StepCases, TalkRests
<1>2. CASE UNCHANGED m_graph
  BY <1>2 DEF UniqueInv, NodesOf, Agg
<1>3. ASSUME NEW x \in Thread, Builds(x)
      PROVE  UniqueInv'
  <2>1. x[1] \in Process /\ 0 \in Process
    BY ThreadProperties, ProcessProperties
  <2>2. CASE FiresNew(x) \/ ReceivesNew(x)
    BY <2>1, <2>2, AddsUnique DEF FiresNew, ReceivesNew
  <2>3. CASE Starts(x) /\ ~UNCHANGED m_graph
    <3>1. Missing(0, InitialAggregate) /\ \E nd : AddsNode(0, 1, nd, InitialAggregate)
      BY <2>1, <2>3 DEF Starts, NothingIn, Missing
    <3>2. QED
      BY <2>1, <3>1, AddsUnique
  <2>4. ASSUME NEW N, NEW C, NEW n, NEW L, Edits(x[1], N, C, n, L)
        PROVE  UniqueInv'
    BY <2>1, <2>4, EditsUnique
  <2>5. QED
    BY <1>2, <1>3, <2>2, <2>3, <2>4
    DEF Builds, BuilderCases, Wanders, TakesWork, FiresKnown, Assigns, QueuesNew, SendsLink, AddsEdge, Completes,
        ReceivesKnown, QueuesReceived
<1>4. QED
  BY <1>1, <1>2, <1>3, CarryGraph DEF Constructs, Rests

-----------------------------------------------------------------------------

(* What is linked, in hand and still to fire of a node are its observable  *)
(* transitions; until the check is over a complete node has them all.      *)

Fired(p, n) == {u.t : u \in Links(m_graph[p][n])}
InHand(x) == IF pc[x] \in Linking THEN {t[x]} ELSE {}
Done(p, n) == m_graph[p][n].m_completed
Whole(p, n) == FirableObs[Agg(p, n)] \subseteq Fired(p, n)

HandInv ==
  \A x \in Thread : pc[x] \in Expanding =>
    FirableObs[Agg(x[1], e[x].state)] \subseteq Fired(x[1], e[x].state) \cup InHand(x) \cup e[x].fire

WholeInv == mcPc # "end" => \A p \in Process : \A n \in NodesOf(p) : Done(p, n) => Whole(p, n)

WorkInv == HandInv /\ WholeInv

LEMMA InitWork ==
  ASSUME Init
  PROVE  WorkInv
<1>1. \A x \in Thread : pc[x] \notin Expanding
  BY DEF Init, Expanding, Linking, NewLabel
<1>2. QED
  BY <1>1 DEF Init, WorkInv, HandInv, WholeInv, NodesOf

(* Edges stay. *)
LEMMA FiredKept ==
  ASSUME NEW p \in Process, GraphCases(p), NEW q \in Process, NEW n \in NodesOf(q)
  PROVE  /\ Fired(q, n) \subseteq Fired(q, n)'
         /\ Done(q, n) => Done(q, n)'
<1>1. CASE m_graph'[q] = m_graph[q]
  BY <1>1 DEF Fired, Done
<1>2. ASSUME NEW k, NEW nd, NEW a, AddsNode(p, k, nd, a)
      PROVE  Fired(q, n) \subseteq Fired(q, n)' /\ (Done(q, n) => Done(q, n)')
  <2>1. m_graph'[q][n] = m_graph[q][n]
    BY <1>2 DEF AddsNode
  <2>2. QED
    BY <2>1 DEF Fired, Done
<1>3. ASSUME NEW N, NEW C, NEW k, NEW L, RightEdits(p, N, C, k, L), q = p
      PROVE  Fired(q, n) \subseteq Fired(q, n)' /\ (Done(q, n) => Done(q, n)')
  <2>1. Links(m_graph[q][n]) \subseteq Links(m_graph'[q][n]) /\ (Done(q, n) => Done(q, n)')
    BY <1>3 DEF RightEdits, Edits, EditsGraph, NodesOf, Done
  <2>2. QED
    BY <2>1 DEF Fired
<1>4. QED
  BY <1>1, <1>2, <1>3 DEF GraphCases, RightEdits, Edits

(* The transition of a new edge. *)
LEMMA EdgeFired ==
  ASSUME NEW p \in Process, NEW N, NEW C, NEW n \in NodesOf(p), NEW m, NEW u,
         Edits(p, N, C, n, {[to |-> m, t |-> u]})
  PROVE  u \in Fired(p, n)'
<1>1. [to |-> m, t |-> u] \in Links(m_graph'[p][n])
  BY DEF Edits, EditsGraph, NodesOf
<1>2. [to |-> m, t |-> u].t = u
  OBVIOUS
<1>3. QED
  BY <1>1, <1>2 DEF Fired

LEMMA HandKept ==
  ASSUME TypeInv, HandInv, Grows, NEW y \in Thread, Idles(y), KeepsLocals(y), NEW p \in Process, GraphCases(p),
         pc'[y] \in Expanding
  PROVE  (FirableObs[Agg(y[1], e[y].state)] \subseteq Fired(y[1], e[y].state) \cup InHand(y) \cup e[y].fire)'
<1>1. pc'[y] = pc[y] /\ e'[y] = e[y] /\ t'[y] = t[y] /\ y[1] \in Process
  <2>1. pc'[y] \notin Neutral /\ pc'[y] \notin {"send", "read", "done"}
    BY DEF Expanding, Linking, NewLabel, Neutral
  <2>2. QED
    BY <2>1, ThreadProperties DEF Idles, KeepsLocals
<1>2. PICK n : n = e[y].state
  OBVIOUS
<1>3. n \in NodesOf(y[1]) /\ FirableObs[Agg(y[1], n)] \subseteq Fired(y[1], n) \cup InHand(y) \cup e[y].fire
  BY <1>1, <1>2 DEF TypeInv, ThreadsOK, ThreadOK, HandInv
<1>4. Fired(y[1], n) \subseteq Fired(y[1], n)' /\ Agg(y[1], n)' = Agg(y[1], n)
  BY <1>1, <1>3, FiredKept DEF Grows
<1>5. InHand(y)' = InHand(y)
  BY <1>1 DEF InHand
<1>6. (FirableObs[Agg(y[1], n)] \subseteq Fired(y[1], n) \cup InHand(y) \cup e[y].fire)'
  BY <1>1, <1>3, <1>4, <1>5
<1>7. QED
  BY <1>1, <1>2, <1>6

LEMMA HandBuilt ==
  ASSUME TypeInv, HandInv, Grows, NEW x \in Thread, Builds(x), pc'[x] \in Expanding
  PROVE  (FirableObs[Agg(x[1], e[x].state)] \subseteq Fired(x[1], e[x].state) \cup InHand(x) \cup e[x].fire)'
<1>1. x[1] \in Process /\ GraphCases(x[1])
  BY ThreadProperties, BuildGraph
<1> DEFINE p == x[1]
<1> HIDE DEF p
<1>2. ASSUME NEW n \in NodesOf(p), e'[x].state = n, NEW S, FirableObs[Agg(p, n)] \subseteq S,
             S \subseteq Fired(p, n)' \cup InHand(x)' \cup e'[x].fire
      PROVE  (FirableObs[Agg(p, e[x].state)] \subseteq Fired(p, e[x].state) \cup InHand(x) \cup e[x].fire)'
  <2>1. Agg(p, n)' = Agg(p, n)
    BY <1>1 DEF Grows, p
  <2>2. (FirableObs[Agg(p, n)] \subseteq Fired(p, n) \cup InHand(x) \cup e[x].fire)'
    BY <1>2, <2>1
  <2>3. QED
    BY <1>2, <2>2 DEF p
<1>3. CASE Wanders(x)
  <2>1. Idles(x) /\ KeepsLocals(x)
    BY <1>3 DEF Wanders, AllIdle, KeepsLocals, local
  <2>2. QED
    BY <1>1, <2>1, HandKept
<1>4. CASE TakesWork(x)
  <2>1. e'[x] \in Elements(m_common_stack[p])
    BY <1>4 DEF TakesWork, Shrunk, p
  <2>2. PairOK(p, e'[x])
    BY <1>1, <2>1 DEF TypeInv, StacksOK, p
  <2>3. PICK n \in NodesOf(p) : n = e'[x].state /\ e'[x].fire = FirableObs[Agg(p, n)]
    BY <2>2 DEF PairOK
  <2>4. QED
    BY <1>2, <2>3 DEF p
<1>5. ASSUME pc[x] \in Expanding, NEW n, n = e[x].state
      PROVE  /\ n \in NodesOf(p)
             /\ FirableObs[Agg(p, n)] \subseteq Fired(p, n) \cup InHand(x) \cup e[x].fire
             /\ Fired(p, n) \subseteq Fired(p, n)'
  <2>1. n \in NodesOf(p) /\ FirableObs[Agg(p, n)] \subseteq Fired(p, n) \cup InHand(x) \cup e[x].fire
    BY <1>5 DEF TypeInv, ThreadsOK, ThreadOK, HandInv, p
  <2>2. Fired(p, n) \subseteq Fired(p, n)'
    BY <1>1, <2>1, FiredKept DEF p
  <2>3. QED
    BY <2>1, <2>2
<1>6. CASE FiresKnown(x) \/ FiresNew(x)
  <2>1. PICK n : n = e[x].state
    OBVIOUS
  <2>2. /\ pc[x] = "fire" /\ e'[x].state = n /\ e'[x].fire = e[x].fire \ {t'[x]}
        /\ n \in NodesOf(p)
    BY <1>6, <2>1 DEF FiresKnown, FiresNew, Fires, p
  <2>3. FirableObs[Agg(p, n)] \subseteq Fired(p, n)' \cup e[x].fire
    BY <1>5, <2>1, <2>2, LabelProperties DEF InHand
  <2>4. t'[x] \in Fired(p, n)' \cup InHand(x)'
    <3>1. CASE FiresKnown(x)
      <4>1. PICK k : Edits(x[1], {}, {}, n, {[to |-> k, t |-> t'[x]]})
        BY <2>1, <3>1 DEF FiresKnown
      <4>2. QED
        BY <1>1, <2>2, <4>1, EdgeFired DEF p
    <3>2. CASE FiresNew(x)
      BY <3>2, LabelProperties DEF FiresNew, InHand, Moves
    <3>3. QED
      BY <1>6, <3>1, <3>2
  <2>5. e[x].fire \subseteq Fired(p, n)' \cup InHand(x)' \cup e'[x].fire
    BY <2>2, <2>4
  <2>6. QED
    BY <1>2, <2>2, <2>3, <2>5 DEF p
<1>7. CASE QueuesNew(x) \/ SendsLink(x)
  <2>1. PICK n : n = e[x].state
    OBVIOUS
  <2>2. /\ pc[x] \in {"assign", "link"} /\ e'[x] = e[x]
        /\ \E N, k : Edits(x[1], N, {}, n, {[to |-> k, t |-> t[x]]})
    BY <1>7, <2>1 DEF QueuesNew, SendsLink, AddsEdge, Queues, local
  <2>3. n \in NodesOf(p) /\ FirableObs[Agg(p, n)] \subseteq Fired(p, n)' \cup {t[x]} \cup e[x].fire
    BY <1>5, <2>1, <2>2, LabelProperties DEF InHand
  <2>4. t[x] \in Fired(p, n)'
    BY <1>1, <2>2, <2>3, EdgeFired DEF p
  <2>5. QED
    BY <1>2, <2>1, <2>2, <2>3, <2>4 DEF p
<1>8. CASE Assigns(x)
  <2>1. PICK n : n = e[x].state
    OBVIOUS
  <2>2. e'[x] = e[x] /\ t'[x] = t[x] /\ pc[x] \in Linking /\ pc'[x] \in Linking
    BY <1>8 DEF Assigns, Moves, local, Expanding, Linking, NewLabel, ReceivedLabel
  <2>3. InHand(x)' = InHand(x)
    BY <2>2 DEF InHand
  <2>4. n \in NodesOf(p) /\ FirableObs[Agg(p, n)] \subseteq Fired(p, n)' \cup InHand(x)' \cup e'[x].fire
    BY <1>5, <2>1, <2>2, <2>3, LabelProperties
  <2>5. QED
    BY <1>2, <2>1, <2>2, <2>4 DEF p
<1>9. ASSUME Starts(x) \/ Completes(x) \/ ReceivesKnown(x) \/ ReceivesNew(x) \/ QueuesReceived(x)
      PROVE  FALSE
  <2>1. pc'[x] \in {"send", "loop", "receive", "storeDiv"}
    BY <1>9 DEF Starts, Completes, ReceivesKnown, ReceivesNew, QueuesReceived, Moves
  <2>2. QED
    BY <2>1 DEF Expanding, Linking, NewLabel
<1>10. QED
  BY <1>3, <1>4, <1>6, <1>7, <1>8, <1>9 DEF Builds, BuilderCases

LEMMA NextHand ==
  ASSUME TypeInv, HandInv, [Next]_vars
  PROVE  HandInv'
<1>1. Constructs \/ Rests
  BY StepCases, TalkRests
<1>2. Grows /\ \E p \in Process : GraphCases(p)
  BY <1>1, StepGrows, GraphSteps
<1>3. SUFFICES ASSUME NEW y \in Thread, pc'[y] \in Expanding
               PROVE  (FirableObs[Agg(y[1], e[y].state)]
                         \subseteq Fired(y[1], e[y].state) \cup InHand(y) \cup e[y].fire)'
  BY DEF HandInv
<1>4. CASE Idles(y) /\ KeepsLocals(y)
  BY <1>2, <1>3, <1>4, HandKept
<1>5. ASSUME NEW x \in Thread, Builds(x), x # y
      PROVE  Idles(y) /\ KeepsLocals(y)
  <2>1. KeepsLocals(y)
    BY <1>5, LocalsKept DEF TypeInv
  <2>2. AllIdle \/ \E label : Moves(x, label)
    BY <1>5, BuilderMoving DEF Builds, Starts
  <2>3. QED
    BY <1>5, <2>1, <2>2 DEF AllIdle, Moves
<1>6. CASE Builds(y)
  BY <1>2, <1>3, <1>6, HandBuilt
<1>7. ASSUME NEW p \in Process, Carries(p)
      PROVE  Idles(y) /\ KeepsLocals(y)
  BY <1>3, <1>7
  DEF Carries, TakesMessage, DropsMessage, SendsState, ReadsState, KeepsLocals, local, AllIdle, Moves, Expanding,
      Linking, NewLabel
<1>8. CASE Rests
  BY <1>4, <1>8 DEF Rests, AllIdle, KeepsLocals, local
<1>9. QED
  BY <1>1, <1>4, <1>5, <1>6, <1>7, <1>8 DEF Constructs

(* Only Complete makes a node complete. *)
LEMMA Completed ==
  ASSUME NEW x \in Thread, Builds(x), NEW p \in Process, NEW n \in NodesOf(p)', Done(p, n)'
  PROVE  \/ n \in NodesOf(p) /\ Done(p, n)
         \/ Completes(x) /\ p = x[1] /\ n = e[x].state
<1>1. x[1] \in Process /\ 0 \in Process
  BY ThreadProperties, ProcessProperties
<1>2. CASE m_graph'[p] = m_graph[p]
  BY <1>2 DEF NodesOf, Done
<1>3. ASSUME NEW r \in Process, NEW k, NEW nd, NEW a, AddsNode(r, k, nd, a)
      PROVE  n \in NodesOf(p) /\ Done(p, n)
  BY <1>2, <1>3 DEF AddsNode, NodesOf, Done
<1>4. ASSUME NEW N, NEW C, NEW k, NEW L, Edits(x[1], N, C, k, L), C = {} \/ p # x[1] \/ n \notin C
      PROVE  n \in NodesOf(p) /\ Done(p, n)
  BY <1>2, <1>4 DEF Edits, EditsGraph, NodesOf, Done
<1>5. CASE Completes(x) /\ ~(p = x[1] /\ n = e[x].state)
  <2>1. Edits(x[1], {}, {e[x].state}, e[x].state, {})
    BY <1>5 DEF Completes
  <2>2. QED
    BY <1>4, <1>5, <2>1
<1>6. QED
  BY <1>1, <1>2, <1>3, <1>4, <1>5
  DEF Builds, BuilderCases, Wanders, TakesWork, FiresKnown, FiresNew, Assigns, QueuesNew, SendsLink, AddsEdge,
      ReceivesKnown, ReceivesNew, QueuesReceived, Starts

LEMMA NextWhole ==
  ASSUME TypeInv, EndInv, WorkInv, [Next]_vars
  PROVE  WholeInv'
<1>1. Constructs \/ Rests
  BY StepCases, TalkRests
<1>2. PICK p \in Process : GraphCases(p)
  BY <1>1, GraphSteps
<1>3. Grows
  BY <1>1, StepGrows
<1>4. SUFFICES ASSUME mcPc' # "end", NEW q \in Process, NEW n \in NodesOf(q)', Done(q, n)'
               PROVE  Whole(q, n)'
  BY DEF WholeInv
<1>5. mcPc # "end" /\ m_Terminated = {}
  <2>1. mcPc # "end"
    BY <1>4, StepCases
    DEF Mute, Talks, Serves, Listens, CheckerCases, Begins, HearsInitial, HearsState, HearsSucc, Explores, Ends,
        checker
  <2>2. QED
    BY <2>1 DEF EndInv
<1>6. ASSUME n \in NodesOf(q), Whole(q, n)
      PROVE  Whole(q, n)'
  <2>1. Fired(q, n) \subseteq Fired(q, n)' /\ Agg(q, n)' = Agg(q, n)
    BY <1>2, <1>3, <1>6, FiredKept DEF Grows
  <2>2. QED
    BY <1>6, <2>1 DEF Whole
<1>7. CASE n \in NodesOf(q) /\ Done(q, n)
  BY <1>5, <1>6, <1>7 DEF WorkInv, WholeInv
<1>8. ASSUME NEW x \in Thread, Completes(x), q = x[1], n = e[x].state
      PROVE  Whole(q, n)'
  <2>1. pc[x] = "fire" /\ e[x].fire = {} /\ n \in NodesOf(q)
    BY <1>5, <1>8 DEF Completes
  <2>2. FirableObs[Agg(q, n)] \subseteq Fired(q, n)
    BY <1>8, <2>1, LabelProperties DEF Completes, WorkInv, HandInv, InHand
  <2>3. QED
    BY <1>6, <2>1, <2>2 DEF Whole
<1>9. CASE UNCHANGED m_graph
  BY <1>4, <1>7, <1>9 DEF NodesOf, Done
<1>10. QED
  BY <1>1, <1>4, <1>7, <1>8, <1>9, Completed, CarryGraph DEF Constructs, Rests

LEMMA NextWork ==
  ASSUME TypeInv, EndInv, WorkInv, [Next]_vars
  PROVE  WorkInv'
BY NextHand, NextWhole DEF WorkInv

(* A node gets no identifier but its own, and keeps it. *)
LEMMA NamesKept ==
  ASSUME NEW p \in Process, GraphCases(p), NEW q \in Process, NEW n \in NodesOf(q)
  PROVE  m_graph'[q][n].m_SHA2 \in {m_graph[q][n].m_SHA2, Agg(q, n)}
<1>1. CASE UNCHANGED m_graph \/ q # p
  BY <1>1 DEF GraphCases, AddsNode, RightEdits, Edits
<1>2. ASSUME NEW k, NEW nd, NEW a, AddsNode(p, k, nd, a), q = p
      PROVE  m_graph'[q][n].m_SHA2 = m_graph[q][n].m_SHA2
  BY <1>2 DEF AddsNode
<1>3. ASSUME NEW N, NEW C, NEW k, NEW L, RightEdits(p, N, C, k, L), q = p
      PROVE  m_graph'[q][n].m_SHA2 \in {m_graph[q][n].m_SHA2, Agg(q, n)}
  <2>1. PICK nd, md : nd = m_graph[q][n] /\ md = m_graph'[q][n]
    OBVIOUS
  <2>2. IF n \in N THEN Improves(p, nd, md) ELSE SameName(nd, md)
    BY <1>3, <2>1 DEF RightEdits, Edits, EditsGraph, NodesOf
  <2>3. md.m_SHA2 \in {nd.m_SHA2, nd.m_lddstate}
    BY <2>2 DEF Improves, SameName
  <2>4. QED
    BY <2>1, <2>3 DEF Agg
<1>4. QED
  BY <1>1, <1>2, <1>3 DEF GraphCases

-----------------------------------------------------------------------------

(* The checker's question is in one place: sent, awaited, or answered by   *)
(* what is written, and then sent, to it; what is answered is right.       *)
(* Nothing else of the protocol is anywhere, except that the check is over. *)

Quiet(p) == p \notin m_waitingAgregate /\ m_waitingBuildSucc[p] = "waitInitial"
Says(p, q, a, r) == chan[<<Checker, p>>] = q /\ answer[p] = a /\ chan[<<p, Checker>>] = r

Silent(p) ==
  /\ Quiet(p)
  /\ \/ Says(p, <<>>, <<>>, <<>>)
     \/ mcPc = "end" /\ Says(p, <<Message("FINISH", 0)>>, <<>>, <<>>)

Addressee(p) ==
  \/ mcPc = "ackInitial" /\ p = 0
  \/ mcPc \in {"ackState", "ackSucc"} /\ p = asked.process

(* The process has identified a state it is asked for by its identifier;   *)
(* it has completed it.                                                    *)
Named(n) == n \in NodesOf(asked.process) /\ m_graph[asked.process][n].m_SHA2 = asked.id
Found == asked.id \in Aggregate => \E n : Named(n)
Settled == asked.id \in Aggregate => \E n : Named(n) /\ Done(asked.process, n)

Wanted ==
  IF mcPc = "ackInitial" THEN Message("INITIAL", 0)
  ELSE Message(IF mcPc = "ackState" THEN "ASK_STATE" ELSE "ASK_SUCC", asked.id)

RightAnswer(m) ==
  \/ /\ mcPc = "ackInitial" /\ m.tag = "ACK_INITIAL"
     /\ m.v.id = InitialAggregate /\ m.v.process = destination[InitialAggregate]
  \/ /\ mcPc = "ackState" /\ m.tag = "ACK_STATE" /\ Found
     /\ asked.id \in Aggregate => FlagsRight(asked.id, m.v.div, m.v.dead)
  \/ /\ mcPc = "ackSucc" /\ m.tag = "ACK_SUCC" /\ Settled
     /\ \E a \in Aggregate : SuccessorsOf(a, Elements(m.v))
     /\ asked.id \in Aggregate => SuccessorsOf(asked.id, Elements(m.v))

Asks(p) == Quiet(p) /\ Says(p, <<Wanted>>, <<>>, <<>>)
Writes(p, m) == Quiet(p) /\ RightAnswer(m) /\ Says(p, <<>>, <<m>>, <<>>)
Tells(p, m) == Quiet(p) /\ RightAnswer(m) /\ Says(p, <<>>, <<>>, <<m>>)
AwaitsState(p) ==
  /\ mcPc = "ackState" /\ Says(p, <<>>, <<>>, <<>>)
  /\ p \in m_waitingAgregate /\ m_id_md5[p] = asked.id /\ m_waitingBuildSucc[p] = "waitInitial"
AwaitsSucc(p) ==
  /\ mcPc = "ackSucc" /\ Says(p, <<>>, <<>>, <<>>)
  /\ p \notin m_waitingAgregate
  /\ \/ /\ m_waitingBuildSucc[p] = "waitingSucc" /\ m_aggWaiting[p] \in NodesOf(p)
        /\ asked.id \in {m_graph[p][m_aggWaiting[p]].m_SHA2} \cup Garbage
     \/ m_waitingBuildSucc[p] = "waitingBuild" /\ m_id_md5[p] = asked.id /\ asked.id \in Garbage

Turn(p) ==
  Asks(p) \/ (\E m \in Answer : Writes(p, m) \/ Tells(p, m)) \/ AwaitsState(p) \/ AwaitsSucc(p)

Part(p) == IF Addressee(p) THEN Turn(p) ELSE Silent(p)
TurnInv == Zeroed => (\A p \in Process : Part(p)) /\ (mcPc = "ackSucc" => Found)

LEMMA Singles ==
  /\ Elements(<<>>) = {}
  /\ \A m : Elements(<<m>>) = {m}
BY DEF Elements

LEMMA InitTurn ==
  ASSUME Init
  PROVE  TurnInv
<1>1. \A p \in Process : <<p, Checker>> \in Channel /\ <<Checker, p>> \in Channel
  BY ChannelProperties
<1>2. \A p \in Process : Says(p, <<>>, <<>>, <<>>)
  BY <1>1 DEF Init, Says, Channel
<1>3. Zeroed => \A p \in Process : Quiet(p)
  BY DEF Init, Quiet, Zeroed
<1>4. mcPc = "initial"
  BY DEF Init
<1>. QED  BY <1>2, <1>3, <1>4 DEF TurnInv, Part, Addressee, Silent

(* An identifier is the aggregate of the node that has it, and of one node. *)
LEMMA NodeNamed ==
  ASSUME NodesOK, NEW p \in Process, NEW n \in NodesOf(p), m_graph[p][n].m_SHA2 \in Aggregate
  PROVE  m_graph[p][n].m_SHA2 = Agg(p, n)
BY MCHybridSOGAssumption DEF NodesOK, NodeOK, Agg

LEMMA FoundByName ==
  ASSUME TypeInv, UniqueInv, NEW p \in Process, NEW id \in Aggregate, NEW n \in NodesOf(p),
         m_graph[p][n].m_SHA2 = id
  PROVE  n \in findSHAPos(p, id)
<1>1. ASSUME NEW m \in 1 .. n - 1, m_graph[p][m].m_SHA2 = id
      PROVE  FALSE
  <2>1. NodesOf(p) = 1 .. Len(m_graph[p]) /\ Len(m_graph[p]) \in Nat /\ n \in Nat
    BY NodesDomain DEF TypeInv
  <2>2. m \in NodesOf(p) /\ m # n
    BY <2>1
  <2>3. id = Agg(p, n) /\ id = Agg(p, m)
    BY <1>1, <2>2, NodeNamed DEF TypeInv
  <2>. QED  BY <2>2, <2>3 DEF UniqueInv
<1>. QED  BY <1>1 DEF findSHAPos, NodesOf

LEMMA SuccessorsRight ==
  ASSUME TypeInv, WorkInv, mcPc # "end", NEW p \in Process, NEW n \in NodesOf(p), Done(p, n)
  PROVE  Agg(p, n) \in Aggregate /\ SuccessorsOf(Agg(p, n), Elements(SuccMessage(p, n).v))
<1>. DEFINE S == Elements(SuccMessage(p, n).v)
            a == Agg(p, n)
<1>1. S = {SuccOf(p, u) : u \in Links(m_graph[p][n])}
  BY SuccTyped DEF TypeInv
<1>2. \A u \in Links(m_graph[p][n]) :
        /\ u.to \in NodesOf(p) /\ u.t \in FirableObs[a]
        /\ Agg(p, u.to) = Successor[<<a, u.t>>]
  BY DEF TypeInv, EdgesOK
<1>3. FirableObs[a] \subseteq Fired(p, n)
  BY DEF WorkInv, WholeInv, Whole
<1>4. {w.t : w \in S} = {u.t : u \in Links(m_graph[p][n])}
  <2>1. \A u : SuccOf(p, u).t = u.t
    BY DEF SuccOf
  <2>2. \A v : v \in {w.t : w \in S} => v \in {u.t : u \in Links(m_graph[p][n])}
    BY <1>1, <2>1
  <2>3. \A v : v \in {u.t : u \in Links(m_graph[p][n])} => v \in {w.t : w \in S}
    BY <1>1, <2>1
  <2>. HIDE DEF S
  <2>. QED  BY <2>2, <2>3
<1>5. {w.t : w \in S} = FirableObs[a]
  BY <1>2, <1>3, <1>4 DEF Fired
<1>6. ASSUME NEW w \in S
      PROVE  LET b == Successor[<<a, w.t>>]
             IN  \/ w.id = b /\ w.process = destination[b]
                 \/ w.id \in Garbage /\ w.process \in {0, destination[b]}
  <2>1. PICK u \in Links(m_graph[p][n]) : w = SuccOf(p, u)
    BY <1>1
  <2>2. w.id = m_graph[p][u.to].m_SHA2 /\ w.process = m_graph[p][u.to].m_process /\ w.t = u.t
    BY <2>1 DEF SuccOf
  <2>3. u.to \in NodesOf(p) /\ m_graph[p][u.to].m_lddstate = Successor[<<a, u.t>>]
    BY <1>2 DEF Agg
  <2>4. NodeOK(p, m_graph[p][u.to])
    BY <2>3 DEF TypeInv, NodesOK
  <2>. QED  BY <2>2, <2>3, <2>4 DEF NodeOK
<1>7. a \in Aggregate
  BY NodesDomain DEF TypeInv
<1>. QED  BY <1>5, <1>6, <1>7 DEF SuccessorsOf

(* What thread 0 writes of a node that it finds by what it is asked for. *)
LEMMA PropRight ==
  ASSUME TypeInv, mcPc = "ackState", NEW p \in Process, p = asked.process, NEW n \in NodesOf(p),
         m_graph[p][n].m_SHA2 = asked.id, asked.id \in Aggregate => ~Virtual(p, n)
  PROVE  RightAnswer(PropMessage(p, n))
<1>1. /\ PropMessage(p, n).tag = "ACK_STATE"
      /\ PropMessage(p, n).v.div = m_graph[p][n].m_boucle
      /\ PropMessage(p, n).v.dead = m_graph[p][n].m_blocage
  BY PropType DEF TypeInv
<1>2. Found
  BY DEF Found, Named
<1>3. NodeOK(p, m_graph[p][n])
  BY DEF TypeInv, NodesOK
<1>4. ASSUME asked.id \in Aggregate
      PROVE  FlagsRight(asked.id, m_graph[p][n].m_boucle, m_graph[p][n].m_blocage)
  <2>1. asked.id = m_graph[p][n].m_lddstate
    BY <1>4, NodeNamed DEF TypeInv, Agg
  <2>. QED  BY <1>3, <1>4, <2>1 DEF NodeOK, Virtual
<1>. QED  BY <1>1, <1>2, <1>4 DEF RightAnswer

LEMMA SuccWritten ==
  ASSUME TypeInv, WorkInv, mcPc = "ackSucc", NEW p \in Process, p = asked.process, NEW n \in NodesOf(p),
         asked.id \in {m_graph[p][n].m_SHA2} \cup Garbage, Done(p, n)
  PROVE  RightAnswer(SuccMessage(p, n))
<1>1. SuccMessage(p, n).tag = "ACK_SUCC"
  BY SuccTyped DEF TypeInv
<1>2. Agg(p, n) \in Aggregate /\ SuccessorsOf(Agg(p, n), Elements(SuccMessage(p, n).v))
  BY SuccessorsRight
<1>3. asked.id \in Aggregate => asked.id = m_graph[p][n].m_SHA2
  BY MCHybridSOGAssumption
<1>4. Settled
  BY <1>3 DEF Settled, Named
<1>5. asked.id \in Aggregate => asked.id = Agg(p, n)
  BY <1>3, NodeNamed DEF TypeInv
<1>. QED  BY <1>1, <1>2, <1>4, <1>5 DEF RightAnswer

(* What is said to p and by p, and what p waits for, stay. *)
TalkKept(p) ==
  /\ chan'[<<Checker, p>>] = chan[<<Checker, p>>] /\ chan'[<<p, Checker>>] = chan[<<p, Checker>>]
  /\ answer'[p] = answer[p]
  /\ p \in m_waitingAgregate' <=> p \in m_waitingAgregate
  /\ m_waitingBuildSucc'[p] = m_waitingBuildSucc[p]
  /\ m_id_md5'[p] = m_id_md5[p] /\ m_aggWaiting'[p] = m_aggWaiting[p]

LEMMA FoundKept ==
  ASSUME TypeInv, Grows, NEW r \in Process, GraphCases(r), UNCHANGED asked
  PROVE  /\ Found => Found'
         /\ Settled => Settled'
<1>. DEFINE p == asked.process
<1>1. p \in Process
  BY DEF TypeInv, ProtocolOK
<1>2. \A n \in NodesOf(p) : n \in NodesOf(p)'
  BY <1>1 DEF Grows
<1>3. ASSUME asked.id \in Aggregate, NEW n, Named(n)
      PROVE  Named(n)'
  <2>1. n \in NodesOf(p) /\ m_graph[p][n].m_SHA2 = asked.id
    BY <1>3 DEF Named
  <2>2. m_graph'[p][n].m_SHA2 = asked.id
    BY <1>1, <1>3, <2>1, NamesKept, NodeNamed DEF TypeInv
  <2>. QED  BY <1>2, <2>1, <2>2 DEF Named
<1>4. \A n \in NodesOf(p) : Done(p, n) => Done(p, n)'
  BY <1>1, FiredKept
<1>5. asked' = asked
  OBVIOUS
<1>6. Found => Found'
  BY <1>3, <1>5 DEF Found
<1>7. \A n : Named(n) => n \in NodesOf(p)
  BY DEF Named
<1>8. Settled => Settled'
  BY <1>3, <1>4, <1>5, <1>7 DEF Settled
<1>. QED  BY <1>6, <1>8

LEMMA RightKept ==
  ASSUME UNCHANGED <<destination, mcPc, asked>>, NEW m, RightAnswer(m), Found => Found', Settled => Settled'
  PROVE  RightAnswer(m)'
BY DEF RightAnswer, FlagsRight, HasFlags, SuccessorsOf

LEMMA TurnKept ==
  ASSUME TypeInv, Grows, NEW r \in Process, GraphCases(r), UNCHANGED <<destination, mcPc, asked>>,
         NEW p \in Process, TalkKept(p), Turn(p), Addressee(p)
  PROVE  Turn(p)'
<1>1. (Found => Found') /\ (Settled => Settled')
  BY FoundKept
<1>2. \A q, a, v : Says(p, q, a, v) => Says(p, q, a, v)'
  BY DEF Says, TalkKept
<1>3. Quiet(p) => Quiet(p)'
  BY DEF Quiet, TalkKept
<1>4. CASE Asks(p)
  <2>1. Wanted' = Wanted
    BY DEF Wanted
  <2>. QED  BY <1>2, <1>3, <1>4, <2>1 DEF Asks, Turn
<1>5. CASE \E m \in Answer : Writes(p, m) \/ Tells(p, m)
  <2>1. PICK m \in Answer : Writes(p, m) \/ Tells(p, m)
    BY <1>5
  <2>2. RightAnswer(m)'
    BY <1>1, <2>1, RightKept DEF Writes, Tells
  <2>. QED  BY <1>2, <1>3, <2>1, <2>2 DEF Writes, Tells, Turn, Answer
<1>6. CASE AwaitsState(p)
  BY <1>2, <1>6 DEF AwaitsState, Turn, TalkKept
<1>7. CASE AwaitsSucc(p)
  <2>1. ASSUME m_aggWaiting[p] \in NodesOf(p), asked.id \in {m_graph[p][m_aggWaiting[p]].m_SHA2} \cup Garbage
        PROVE  /\ m_aggWaiting'[p] \in NodesOf(p)'
               /\ asked.id \in {m_graph'[p][m_aggWaiting'[p]].m_SHA2} \cup Garbage
    <3>1. PICK n \in NodesOf(p) : n = m_aggWaiting[p]
      BY <2>1
    <3>2. n \in NodesOf(p)' /\ m_aggWaiting'[p] = n
      BY <3>1 DEF Grows, TalkKept
    <3>3. m_graph'[p][n].m_SHA2 \in {m_graph[p][n].m_SHA2, Agg(p, n)}
      BY NamesKept
    <3>4. asked.id \in Aggregate \cup Garbage
      BY DEF TypeInv, ProtocolOK, Bytes
    <3>5. m_graph[p][n].m_SHA2 \in Aggregate => m_graph[p][n].m_SHA2 = Agg(p, n)
      BY NodeNamed DEF TypeInv
    <3>. QED  BY <2>1, <3>1, <3>2, <3>3, <3>4, <3>5
  <2>2. AwaitsSucc(p)'
    BY <1>2, <1>7, <2>1 DEF AwaitsSucc, TalkKept
  <2>. QED  BY <2>2 DEF Turn
<1>. QED  BY <1>4, <1>5, <1>6, <1>7 DEF Turn

(* What is in each place says whose turn it is. *)
LEMMA Questioned ==
  ASSUME NEW p \in Process, Part(p), NEW m \in Elements(chan[<<Checker, p>>])
  PROVE  /\ Quiet(p) /\ Says(p, <<m>>, <<>>, <<>>)
         /\ \/ Addressee(p) /\ m = Wanted
            \/ ~Addressee(p) /\ mcPc = "end" /\ m = Message("FINISH", 0)
<1>1. chan[<<Checker, p>>] # <<>>
  BY Singles
<1>2. CASE Addressee(p)
  <2>1. Asks(p)
    BY <1>1, <1>2 DEF Part, Turn, Writes, Tells, AwaitsState, AwaitsSucc, Says
  <2>. QED  BY <1>2, <2>1, Singles DEF Asks, Says
<1>3. CASE ~Addressee(p)
  BY <1>1, <1>3, Singles DEF Part, Silent, Says
<1>. QED  BY <1>2, <1>3

LEMMA Told ==
  ASSUME NEW p \in Process, Part(p), NEW m \in Elements(chan[<<p, Checker>>])
  PROVE  Addressee(p) /\ Tells(p, m)
<1>1. chan[<<p, Checker>>] # <<>>
  BY Singles
<1>2. Addressee(p)
  BY <1>1 DEF Part, Silent, Says
<1>3. PICK v \in Answer : Tells(p, v)
  BY <1>1, <1>2 DEF Part, Turn, Asks, Writes, AwaitsState, AwaitsSucc, Says
<1>4. chan[<<p, Checker>>] = <<v>>
  BY <1>3 DEF Tells, Says
<1>5. m = v
  BY <1>4, Singles
<1>. QED  BY <1>2, <1>3, <1>5

LEMMA Written ==
  ASSUME NEW p \in Process, Part(p), answer[p] # <<>>
  PROVE  Addressee(p) /\ \E m \in Answer : Writes(p, m)
BY DEF Part, Turn, Silent, Asks, Tells, AwaitsState, AwaitsSucc, Says

LEMMA Awaiting ==
  ASSUME NEW p \in Process, Part(p), ~Quiet(p)
  PROVE  Addressee(p) /\ (AwaitsState(p) \/ AwaitsSucc(p))
BY DEF Part, Turn, Silent, Asks, Writes, Tells

(* Before the end nobody who is not asked has anything. *)
LEMMA NotAsked ==
  ASSUME NEW p \in Process, Part(p), ~Addressee(p), mcPc # "end"
  PROVE  Quiet(p) /\ Says(p, <<>>, <<>>, <<>>)
BY DEF Part, Silent

(* A step of thread 0 of p leaves the others alone. *)
LEMMA ServesOthers ==
  ASSUME ProtocolOK, NEW p \in Process, CommCases(p), NEW q \in Process, q # p
  PROVE  TalkKept(q)
<1>1. /\ <<Checker, q>> \in Channel /\ <<q, Checker>> \in Channel
      /\ <<Checker, q>> \notin {<<Checker, p>>, <<p, Checker>>}
      /\ <<q, Checker>> \notin {<<Checker, p>>, <<p, Checker>>}
  BY ChannelProperties, ProcessProperties
<1>2. ASSUME Others({<<Checker, p>>}) \/ Others({<<p, Checker>>}) \/ Others({<<p, Checker>>, <<Checker, p>>})
             \/ UNCHANGED chan
      PROVE  /\ chan'[<<Checker, q>>] = chan[<<Checker, q>>]
             /\ chan'[<<q, Checker>>] = chan[<<q, Checker>>]
  BY <1>1, <1>2 DEF Others
<1>. DEFINE W == /\ q \in m_waitingAgregate' <=> q \in m_waitingAgregate
                 /\ m_waitingBuildSucc'[q] = m_waitingBuildSucc[q]
                 /\ m_id_md5'[q] = m_id_md5[q] /\ m_aggWaiting'[q] = m_aggWaiting[q]
<1>3. UNCHANGED waits => W
  BY DEF waits
<1>4. \A m : Replies(p, m) => answer'[q] = answer[q]
  BY DEF Replies
<1>5. CASE Answers(p)
  BY <1>2, <1>3, <1>5 DEF Answers, Shrunk, TalkKept
<1>6. CASE ReadsAskState(p)
  <2>1. W
    BY <1>6 DEF ReadsAskState, ProtocolOK
  <2>. QED  BY <1>2, <1>4, <1>6, <2>1 DEF ReadsAskState, TalkKept
<1>7. CASE ReadsAskSucc(p)
  <2>1. W
    BY <1>7 DEF ReadsAskSucc, SuccNotFound, FindsSucc, ProtocolOK
  <2>2. answer'[q] = answer[q]
    BY <1>4, <1>7 DEF ReadsAskSucc, SuccNotFound, FindsSucc
  <2>. QED  BY <1>2, <1>7, <2>1, <2>2 DEF ReadsAskSucc, TalkKept
<1>8. CASE ReadsFinish(p)
  BY <1>2, <1>3, <1>8 DEF ReadsFinish, TalkKept
<1>9. CASE ReadsInitial(p)
  <2>1. Others({<<p, Checker>>, <<Checker, p>>})
    BY <1>9 DEF ReadsInitial
  <2>. QED  BY <1>2, <1>3, <1>9, <2>1 DEF ReadsInitial, TalkKept
<1>10. CASE AnswersSucc(p)
  <2>1. W
    BY <1>10 DEF AnswersSucc, ProtocolOK
  <2>. QED  BY <1>2, <1>4, <1>10, <2>1 DEF AnswersSucc, TalkKept
<1>11. CASE AnswersState(p)
  <2>1. W
    BY <1>11 DEF AnswersState, ProtocolOK
  <2>. QED  BY <1>2, <1>4, <1>11, <2>1 DEF AnswersState, TalkKept
<1>12. CASE Turns(p)
  BY <1>2, <1>3, <1>12 DEF Turns, TalkKept
<1>. QED  BY <1>5, <1>6, <1>7, <1>8, <1>9, <1>10, <1>11, <1>12 DEF CommCases

(* The checker asks a state of its own process, if it asks by a name. *)
AskedRight == asked.id \in Aggregate => asked.process = destination[asked.id]

LEMMA NotVirtual ==
  ASSUME NodesOK, AskedRight, NEW p \in Process, p = asked.process, NEW n \in NodesOf(p),
         m_graph[p][n].m_SHA2 = asked.id, asked.id \in Aggregate
  PROVE  ~Virtual(p, n)
<1>1. asked.id = Agg(p, n)
  BY NodeNamed
<1>2. destination[Agg(p, n)] = p
  BY <1>1 DEF AskedRight
<1>. QED  BY <1>2 DEF NodesOK, NodeOK, Agg, Virtual

(* A step of thread 0 leaves the checker and the graph alone. *)
LEMMA ServesSame ==
  ASSUME Serves
  PROVE  /\ UNCHANGED <<mcPc, asked, destination, m_graph>>
         /\ Wanted' = Wanted
         /\ \A p \in Process : Addressee(p)' <=> Addressee(p)
         /\ \A m : RightAnswer(m) => RightAnswer(m)'
         /\ Found => Found'
<1>1. UNCHANGED <<mcPc, asked, destination, m_graph>>
  BY DEF Serves, Rests, launch, checker
<1>2. (Found => Found') /\ (Settled => Settled')
  BY <1>1 DEF Found, Settled, Named, NodesOf, Done
<1>3. \A m : RightAnswer(m) => RightAnswer(m)'
  BY <1>1, <1>2, RightKept
<1>4. Wanted' = Wanted
  BY <1>1 DEF Wanted
<1>5. \A p \in Process : Addressee(p)' <=> Addressee(p)
  BY <1>1 DEF Addressee
<1>. QED  BY <1>1, <1>2, <1>3, <1>4, <1>5

LEMMA ServesUnmoved ==
  ASSUME Serves, NEW p \in Process, TalkKept(p), Part(p)
  PROVE  Part(p)'
<1>1. /\ UNCHANGED <<mcPc, asked, destination, m_graph>>
      /\ Wanted' = Wanted
      /\ Addressee(p)' <=> Addressee(p)
      /\ \A m : RightAnswer(m) => RightAnswer(m)'
  BY ServesSame
<1>2. \A q, a, v : Says(p, q, a, v) => Says(p, q, a, v)'
  BY DEF Says, TalkKept
<1>3. Quiet(p) => Quiet(p)'
  BY DEF Quiet, TalkKept
<1>4. Asks(p) => Asks(p)'
  BY <1>1, <1>2, <1>3 DEF Asks
<1>5. \A m \in Answer : Writes(p, m) \/ Tells(p, m) => Writes(p, m)' \/ Tells(p, m)'
  BY <1>1, <1>2, <1>3 DEF Writes, Tells
<1>6. AwaitsState(p) => AwaitsState(p)'
  BY <1>1, <1>2 DEF AwaitsState, TalkKept
<1>7. AwaitsSucc(p) => AwaitsSucc(p)'
  BY <1>1, <1>2 DEF AwaitsSucc, TalkKept, NodesOf
<1>8. Silent(p) => Silent(p)'
  BY <1>1, <1>2, <1>3 DEF Silent
<1>9. Turn(p) => Turn(p)'
  BY <1>4, <1>5, <1>6, <1>7 DEF Turn, Answer
<1>. QED  BY <1>1, <1>8, <1>9 DEF Part

(* An answer is written, and then sent. *)
LEMMA RepliesTurn ==
  ASSUME Serves, NEW p \in Process, Addressee(p), NEW m, RightAnswer(m), Replies(p, m),
         answer[p] = <<>>, chan'[<<Checker, p>>] = <<>>, chan'[<<p, Checker>>] = <<>>, Quiet(p)'
  PROVE  Part(p)'
<1>1. Addressee(p)' /\ RightAnswer(m)'
  BY ServesSame
<1>2. m \in Answer /\ answer'[p] = <<m>>
  BY DEF Replies
<1>3. Writes(p, m)'
  BY <1>1, <1>2 DEF Writes, Says
<1>. QED  BY <1>1, <1>2, <1>3 DEF Part, Turn, Answer

LEMMA AnswersTurn ==
  ASSUME TypeInv, Serves, NEW p \in Process, Part(p), Answers(p)
  PROVE  Part(p)'
<1>1. PICK m \in Answer : Addressee(p) /\ Writes(p, m)
  BY Written DEF Answers
<1>2. PICK v \in Answer :
        Shrunk(Answer, answer, answer', p, v) /\ Put(<<p, Checker>>, v) /\ Others({<<p, Checker>>})
  BY DEF Answers
<1>3. v = m /\ answer'[p] = <<>>
  BY <1>1, <1>2 DEF Writes, Says, Shrunk
<1>4. chan'[<<p, Checker>>] = <<m>>
  BY <1>1, <1>2, <1>3 DEF Writes, Says, Put
<1>5. chan'[<<Checker, p>>] = <<>>
  BY <1>1, <1>2, ChannelProperties DEF Writes, Says, Others
<1>6. Quiet(p)'
  BY <1>1 DEF Writes, Quiet, Answers, waits
<1>7. Addressee(p)' /\ RightAnswer(m)'
  BY <1>1, ServesSame DEF Writes
<1>8. Tells(p, m)'
  BY <1>3, <1>4, <1>5, <1>6, <1>7 DEF Tells, Says
<1>. QED  BY <1>7, <1>8 DEF Part, Turn, Answer

(* A question is read: what becomes of the channels of p. *)
LEMMA ReadsTurn ==
  ASSUME NEW p \in Process, Part(p), NEW m, Reads(p, m)
  PROVE  /\ Quiet(p) /\ Says(p, <<m>>, <<>>, <<>>) /\ chan'[<<Checker, p>>] = <<>>
         /\ \/ Addressee(p) /\ m = Wanted
            \/ ~Addressee(p) /\ m.tag = "FINISH"
         /\ Others({<<Checker, p>>}) => chan'[<<p, Checker>>] = <<>>
<1>1. m \in Elements(chan[<<Checker, p>>]) /\ (chan[<<Checker, p>>] = <<m>> => chan'[<<Checker, p>>] = <<>>)
  BY DEF Reads, Get
<1>2. Others({<<Checker, p>>}) => chan'[<<p, Checker>>] = chan[<<p, Checker>>]
  BY ChannelProperties DEF Others
<1>3. Message("FINISH", 0).tag = "FINISH"
  BY DEF Message
<1>. QED  BY <1>1, <1>2, <1>3, Questioned DEF Says

LEMMA WantedTag ==
  ASSUME NEW p, Addressee(p)
  PROVE  \/ mcPc = "ackInitial" /\ p = 0 /\ Wanted.tag = "INITIAL"
         \/ mcPc = "ackState" /\ p = asked.process /\ Wanted.tag = "ASK_STATE" /\ Wanted.v = asked.id
         \/ mcPc = "ackSucc" /\ p = asked.process /\ Wanted.tag = "ASK_SUCC" /\ Wanted.v = asked.id
BY DEF Addressee, Wanted, Message

LEMMA WantedRead ==
  ASSUME NEW p \in Process, Part(p), NEW m, Reads(p, m), m.tag # "FINISH"
  PROVE  Addressee(p) /\ m = Wanted
<1>1. \/ Addressee(p) /\ m = Wanted
      \/ ~Addressee(p) /\ m.tag = "FINISH"
  BY ReadsTurn
<1>. QED  BY <1>1

LEMMA AskStateTurn ==
  ASSUME TypeInv, AskedRight, Serves, NEW p \in Process, Part(p), ReadsAskState(p)
  PROVE  Part(p)'
<1>1. PICK m \in Question :
        /\ m.tag = "ASK_STATE" /\ Reads(p, m)
        /\ \/ /\ findSHAPos(p, m.v) = {}
              /\ m_waitingAgregate' = m_waitingAgregate \cup {p}
              /\ m_id_md5' = [m_id_md5 EXCEPT ![p] = m.v]
              /\ UNCHANGED answer
           \/ /\ \E n \in findSHAPos(p, m.v) : Replies(p, PropMessage(p, n))
              /\ m_waitingAgregate' = m_waitingAgregate \ {p}
              /\ UNCHANGED m_id_md5
  BY DEF ReadsAskState
<1>2. Others({<<Checker, p>>}) /\ UNCHANGED <<m_waitingBuildSucc, m_aggWaiting>>
  BY DEF ReadsAskState
<1>3. /\ Quiet(p) /\ Says(p, <<m>>, <<>>, <<>>)
      /\ chan'[<<Checker, p>>] = <<>> /\ chan'[<<p, Checker>>] = <<>>
  BY <1>1, <1>2, ReadsTurn
<1>4. Addressee(p) /\ m = Wanted
  <2>1. Reads(p, m) /\ m.tag # "FINISH"
    BY <1>1
  <2>. QED  BY <2>1, WantedRead
<1>5. mcPc = "ackState" /\ p = asked.process /\ m.v = asked.id
  BY <1>1, <1>4, WantedTag
<1>6. CASE \E n \in findSHAPos(p, m.v) : Replies(p, PropMessage(p, n))
  <2>1. PICK n \in findSHAPos(p, m.v) : Replies(p, PropMessage(p, n))
    BY <1>6
  <2>2. n \in NodesOf(p) /\ m_graph[p][n].m_SHA2 = asked.id
    BY <1>5, <2>1, FoundNodes
  <2>3. asked.id \in Aggregate => ~Virtual(p, n)
    BY <1>5, <2>2, NotVirtual DEF TypeInv
  <2>4. RightAnswer(PropMessage(p, n))
    BY <1>5, <2>2, <2>3, PropRight
  <2>5. Quiet(p)'
    BY <1>1, <1>2, <1>3, <2>1 DEF Quiet
  <2>6. answer[p] = <<>>
    BY <1>3 DEF Says
  <2>. QED  BY <1>3, <1>4, <2>1, <2>4, <2>5, <2>6, RepliesTurn
<1>7. CASE ~\E n \in findSHAPos(p, m.v) : Replies(p, PropMessage(p, n))
  <2>1. p \in m_waitingAgregate' /\ m_id_md5'[p] = asked.id /\ answer'[p] = <<>>
    BY <1>1, <1>3, <1>5, <1>7 DEF Says, TypeInv, ProtocolOK
  <2>2. m_waitingBuildSucc'[p] = "waitInitial"
    BY <1>2, <1>3 DEF Quiet
  <2>3. Addressee(p)' /\ mcPc' = "ackState" /\ asked' = asked
    BY <1>4, <1>5, ServesSame
  <2>4. AwaitsState(p)'
    BY <1>3, <2>1, <2>2, <2>3 DEF AwaitsState, Says
  <2>. QED  BY <2>3, <2>4 DEF Part, Turn
<1>. QED  BY <1>6, <1>7

LEMMA AskSuccTurn ==
  ASSUME TypeInv, UniqueInv, WorkInv, mcPc = "ackSucc" => Found, Serves, NEW p \in Process, Part(p),
         ReadsAskSucc(p)
  PROVE  Part(p)'
<1>1. PICK m \in Question :
        m.tag = "ASK_SUCC" /\ Reads(p, m) /\ (SuccNotFound(p, m.v) \/ FindsSucc(p, m.v))
  BY DEF ReadsAskSucc
<1>2. Others({<<Checker, p>>}) /\ UNCHANGED m_waitingAgregate
  BY DEF ReadsAskSucc
<1>3. /\ Quiet(p) /\ Says(p, <<m>>, <<>>, <<>>)
      /\ chan'[<<Checker, p>>] = <<>> /\ chan'[<<p, Checker>>] = <<>>
  BY <1>1, <1>2, ReadsTurn
<1>4. Addressee(p) /\ m = Wanted
  <2>1. Reads(p, m) /\ m.tag # "FINISH"
    BY <1>1
  <2>. QED  BY <2>1, WantedRead
<1>5. mcPc = "ackSucc" /\ p = asked.process /\ m.v = asked.id
  BY <1>1, <1>4, WantedTag
<1>6. Addressee(p)' /\ mcPc' = "ackSucc" /\ asked' = asked /\ m_graph' = m_graph
  BY <1>4, <1>5, ServesSame
<1>7. /\ m_waitingBuildSucc \in [Process -> {"waitInitial", "waitingBuild", "waitingSucc"}]
      /\ m_aggWaiting \in [Process -> Nat] /\ m_id_md5 \in [Process -> Bytes]
      /\ asked.id \in Aggregate \cup Garbage
  BY DEF TypeInv, ProtocolOK, Bytes
<1>8. CASE SuccNotFound(p, m.v)
  <2>1. asked.id \in Garbage
    <3>1. SUFFICES ASSUME asked.id \in Aggregate
                   PROVE  FALSE
      BY <1>7
    <3>2. PICK n \in NodesOf(p) : m_graph[p][n].m_SHA2 = asked.id
      BY <1>5, <3>1 DEF Found, Named
    <3>. QED  BY <1>5, <1>8, <3>1, <3>2, FoundByName DEF SuccNotFound
  <2>2. /\ m_waitingBuildSucc'[p] = "waitingBuild" /\ m_id_md5'[p] = asked.id /\ answer'[p] = <<>>
        /\ p \notin m_waitingAgregate'
    BY <1>2, <1>3, <1>5, <1>7, <1>8 DEF SuccNotFound, Says, Quiet
  <2>3. AwaitsSucc(p)'
    BY <1>3, <1>6, <2>1, <2>2 DEF AwaitsSucc, Says
  <2>. QED  BY <1>6, <2>3 DEF Part, Turn
<1>9. CASE FindsSucc(p, m.v)
  <2>1. PICK n \in findSHAPos(p, m.v) :
          /\ m_aggWaiting' = [m_aggWaiting EXCEPT ![p] = n]
          /\ \/ /\ m_graph[p][n].m_completed
                /\ m_waitingBuildSucc' = [m_waitingBuildSucc EXCEPT ![p] = "waitInitial"]
                /\ Replies(p, SuccMessage(p, n))
             \/ /\ m_waitingBuildSucc' = [m_waitingBuildSucc EXCEPT ![p] = "waitingSucc"]
                /\ UNCHANGED answer
    BY <1>9 DEF FindsSucc
  <2>2. n \in NodesOf(p) /\ m_graph[p][n].m_SHA2 = asked.id
    BY <1>5, <2>1, FoundNodes
  <2>3. CASE /\ m_graph[p][n].m_completed
             /\ m_waitingBuildSucc' = [m_waitingBuildSucc EXCEPT ![p] = "waitInitial"]
             /\ Replies(p, SuccMessage(p, n))
    <3>1. RightAnswer(SuccMessage(p, n))
      BY <1>5, <2>2, <2>3, SuccWritten DEF Done
    <3>2. Quiet(p)'
      BY <1>2, <1>3, <1>7, <2>3 DEF Quiet
    <3>3. answer[p] = <<>>
      BY <1>3 DEF Says
    <3>. QED  BY <1>3, <1>4, <2>3, <3>1, <3>2, <3>3, RepliesTurn
  <2>4. CASE m_waitingBuildSucc' = [m_waitingBuildSucc EXCEPT ![p] = "waitingSucc"] /\ UNCHANGED answer
    <3>1. /\ m_waitingBuildSucc'[p] = "waitingSucc" /\ m_aggWaiting'[p] = n /\ answer'[p] = <<>>
          /\ p \notin m_waitingAgregate'
      BY <1>2, <1>3, <1>7, <2>1, <2>4 DEF Says, Quiet
    <3>2. AwaitsSucc(p)'
      BY <1>3, <1>6, <2>2, <3>1 DEF AwaitsSucc, Says, NodesOf
    <3>. QED  BY <1>6, <3>2 DEF Part, Turn
  <2>. QED  BY <2>1, <2>3, <2>4
<1>. QED  BY <1>1, <1>8, <1>9

LEMMA FinishTurn ==
  ASSUME Serves, NEW p \in Process, Part(p), ReadsFinish(p)
  PROVE  Part(p)'
<1>1. PICK m \in Question : m.tag = "FINISH" /\ Reads(p, m)
  BY DEF ReadsFinish
<1>2. Others({<<Checker, p>>}) /\ UNCHANGED <<waits, answer>>
  BY DEF ReadsFinish
<1>3. /\ Quiet(p) /\ Says(p, <<m>>, <<>>, <<>>)
      /\ chan'[<<Checker, p>>] = <<>> /\ chan'[<<p, Checker>>] = <<>>
  BY <1>1, <1>2, ReadsTurn
<1>4. ~Addressee(p)
  BY <1>1, ReadsTurn, WantedTag
<1>5. ~Addressee(p)'
  BY <1>4, ServesSame
<1>6. Says(p, <<>>, <<>>, <<>>)' /\ Quiet(p)'
  BY <1>2, <1>3 DEF Says, Quiet, waits
<1>. QED  BY <1>5, <1>6 DEF Part, Silent

LEMMA InitialTurn ==
  ASSUME TypeInv, Serves, NEW p \in Process, Part(p), ReadsInitial(p)
  PROVE  Part(p)'
<1>1. /\ p = 0 /\ 1 \in NodesOf(0) /\ Agg(0, 1) = InitialAggregate
      /\ m_graph[0][1].m_SHA2 = InitialAggregate
  BY DEF ReadsInitial
<1>2. PICK m \in Question : m.tag = "INITIAL" /\ Reads(p, m)
  BY DEF ReadsInitial
<1>3. Put(<<0, Checker>>, AckInitial(0)) /\ UNCHANGED <<waits, answer>>
  BY DEF ReadsInitial
<1>4. Quiet(p) /\ Says(p, <<m>>, <<>>, <<>>) /\ chan'[<<Checker, p>>] = <<>>
  BY <1>2, ReadsTurn
<1>5. Addressee(p) /\ mcPc = "ackInitial"
  <2>1. Addressee(p) /\ m = Wanted
    <3>1. Reads(p, m) /\ m.tag # "FINISH"
      BY <1>2
    <3>. QED  BY <3>1, WantedRead
  <2>. QED  BY <1>2, <2>1, WantedTag
<1>6. PICK v : v = AckInitial(0)
  OBVIOUS
<1>7. v \in Answer /\ v.tag = "ACK_INITIAL" /\ v.v.id = m_graph[0][1].m_SHA2 /\ v.v.process = m_graph[0][1].m_process
  BY <1>1, <1>6, AckType DEF TypeInv
<1>8. NodeOK(0, m_graph[0][1])
  BY <1>1 DEF TypeInv, NodesOK
<1>9. RightAnswer(v)
  BY <1>1, <1>5, <1>7, <1>8 DEF RightAnswer, NodeOK, Agg
<1>10. chan'[<<p, Checker>>] = <<v>>
  BY <1>1, <1>3, <1>4, <1>6 DEF Put, Says
<1>11. Addressee(p)' /\ RightAnswer(v)'
  BY <1>5, <1>9, ServesSame
<1>12. answer'[p] = <<>> /\ Quiet(p)'
  BY <1>3, <1>4 DEF Says, Quiet, waits
<1>13. Tells(p, v)'
  BY <1>4, <1>10, <1>11, <1>12 DEF Tells, Says
<1>. QED  BY <1>7, <1>11, <1>13 DEF Part, Turn, Answer

(* An answer that had to wait. *)
LEMMA AwaitedTurn ==
  ASSUME TypeInv, WorkInv, Serves, NEW p \in Process, Part(p), AnswersSucc(p)
  PROVE  Part(p)'
<1>1. PICK n \in NodesOf(p) :
        /\ n \in AwaitedSucc(p)
        /\ m_aggWaiting' = [m_aggWaiting EXCEPT ![p] = n]
        /\ \/ /\ m_graph[p][n].m_completed
              /\ m_waitingBuildSucc' = [m_waitingBuildSucc EXCEPT ![p] = "waitInitial"]
              /\ Replies(p, SuccMessage(p, n))
           \/ /\ m_waitingBuildSucc[p] = "waitingBuild"
              /\ m_waitingBuildSucc' = [m_waitingBuildSucc EXCEPT ![p] = "waitingSucc"]
              /\ UNCHANGED answer
  BY DEF AnswersSucc
<1>2. m_waitingBuildSucc[p] # "waitInitial"
  BY <1>1 DEF AwaitedSucc
<1>3. Addressee(p) /\ AwaitsSucc(p)
  <2>1. ~Quiet(p)
    BY <1>2 DEF Quiet
  <2>2. Addressee(p) /\ (AwaitsState(p) \/ AwaitsSucc(p))
    BY <2>1, Awaiting
  <2>. QED  BY <1>2, <2>2 DEF AwaitsState
<1>4. /\ mcPc = "ackSucc" /\ p = asked.process /\ p \notin m_waitingAgregate
      /\ Says(p, <<>>, <<>>, <<>>)
  BY <1>3 DEF AwaitsSucc, Addressee
<1>5. asked.id \in {m_graph[p][n].m_SHA2} \cup Garbage
  <2>1. CASE m_waitingBuildSucc[p] = "waitingSucc"
    BY <1>1, <1>3, <2>1 DEF AwaitedSucc, AwaitsSucc
  <2>2. CASE m_waitingBuildSucc[p] = "waitingBuild"
    BY <1>3, <2>2 DEF AwaitsSucc
  <2>. QED  BY <1>3, <2>1, <2>2 DEF AwaitsSucc
<1>6. /\ m_waitingBuildSucc \in [Process -> {"waitInitial", "waitingBuild", "waitingSucc"}]
      /\ m_aggWaiting \in [Process -> Nat]
  BY DEF TypeInv, ProtocolOK
<1>7. UNCHANGED <<m_waitingAgregate, m_id_md5, chan>>
  BY DEF AnswersSucc
<1>8. answer[p] = <<>> /\ chan'[<<Checker, p>>] = <<>> /\ chan'[<<p, Checker>>] = <<>>
  BY <1>4, <1>7 DEF Says
<1>9. CASE /\ m_graph[p][n].m_completed
           /\ m_waitingBuildSucc' = [m_waitingBuildSucc EXCEPT ![p] = "waitInitial"]
           /\ Replies(p, SuccMessage(p, n))
  <2>1. RightAnswer(SuccMessage(p, n))
    BY <1>4, <1>5, <1>9, SuccWritten DEF Done
  <2>2. Quiet(p)'
    BY <1>4, <1>6, <1>7, <1>9 DEF Quiet
  <2>. QED  BY <1>3, <1>8, <1>9, <2>1, <2>2, RepliesTurn
<1>10. CASE /\ m_waitingBuildSucc[p] = "waitingBuild"
            /\ m_waitingBuildSucc' = [m_waitingBuildSucc EXCEPT ![p] = "waitingSucc"]
            /\ UNCHANGED answer
  <2>1. Addressee(p)' /\ mcPc' = "ackSucc" /\ asked' = asked /\ m_graph' = m_graph
    BY <1>3, <1>4, ServesSame
  <2>2. /\ m_waitingBuildSucc'[p] = "waitingSucc" /\ m_aggWaiting'[p] = n /\ answer'[p] = <<>>
        /\ p \notin m_waitingAgregate'
    BY <1>1, <1>4, <1>6, <1>7, <1>8, <1>10
  <2>3. AwaitsSucc(p)'
    BY <1>5, <1>8, <2>1, <2>2 DEF AwaitsSucc, Says, NodesOf
  <2>. QED  BY <2>1, <2>3 DEF Part, Turn
<1>. QED  BY <1>1, <1>9, <1>10

LEMMA StateTurn ==
  ASSUME TypeInv, AskedRight, Serves, NEW p \in Process, Part(p), AnswersState(p)
  PROVE  Part(p)'
<1>1. PICK n \in findSHAPos(p, m_id_md5[p]) : Replies(p, PropMessage(p, n))
  BY DEF AnswersState
<1>2. p \in m_waitingAgregate
  BY DEF AnswersState
<1>3. Addressee(p) /\ AwaitsState(p)
  <2>1. ~Quiet(p)
    BY <1>2 DEF Quiet
  <2>2. Addressee(p) /\ (AwaitsState(p) \/ AwaitsSucc(p))
    BY <2>1, Awaiting
  <2>. QED  BY <1>2, <2>2 DEF AwaitsSucc
<1>4. /\ mcPc = "ackState" /\ p = asked.process /\ m_id_md5[p] = asked.id
      /\ m_waitingBuildSucc[p] = "waitInitial" /\ Says(p, <<>>, <<>>, <<>>)
  BY <1>3 DEF AwaitsState, Addressee
<1>5. n \in NodesOf(p) /\ m_graph[p][n].m_SHA2 = asked.id
  BY <1>4, FoundNodes
<1>6. asked.id \in Aggregate => ~Virtual(p, n)
  BY <1>4, <1>5, NotVirtual DEF TypeInv
<1>7. RightAnswer(PropMessage(p, n))
  BY <1>4, <1>5, <1>6, PropRight
<1>8. Quiet(p)'
  BY <1>4 DEF Quiet, AnswersState
<1>9. answer[p] = <<>> /\ chan'[<<Checker, p>>] = <<>> /\ chan'[<<p, Checker>>] = <<>>
  BY <1>4 DEF Says, AnswersState
<1>. QED  BY <1>1, <1>3, <1>7, <1>8, <1>9, RepliesTurn

LEMMA ServesTurn ==
  ASSUME TypeInv, UniqueInv, WorkInv, AskedRight, mcPc = "ackSucc" => Found, Serves, NEW p \in Process,
         CommCases(p), NEW q \in Process, Part(q)
  PROVE  Part(q)'
<1>1. CASE q # p
  <2>1. TalkKept(q)
    BY <1>1, ServesOthers DEF TypeInv
  <2>. QED  BY <2>1, ServesUnmoved
<1>2. CASE q = p
  <2>1. ASSUME Turns(p)
        PROVE  Part(p)'
    <3>1. TalkKept(p)
      BY <2>1 DEF Turns, TalkKept, waits
    <3>. QED  BY <1>2, <3>1, ServesUnmoved
  <2>. QED  BY <1>2, <2>1, AnswersTurn, AskStateTurn, AskSuccTurn, FinishTurn, InitialTurn, AwaitedTurn, StateTurn
            DEF CommCases
<1>. QED  BY <1>1, <1>2

(* Nobody tells the checker anything else. *)
LEMMA Heard ==
  ASSUME \A p \in Process : Part(p), NEW q \in Process, NEW m \in Elements(chan[<<q, Checker>>])
  PROVE  /\ Addressee(q) /\ RightAnswer(m) /\ chan[<<q, Checker>>] = <<m>> /\ mcPc # "end"
         /\ \A p \in Process : Quiet(p) /\ chan[<<Checker, p>>] = <<>> /\ answer[p] = <<>>
         /\ \A p \in Process \ {q} : chan[<<p, Checker>>] = <<>>
<1>1. Addressee(q) /\ Tells(q, m)
  BY Told
<1>2. mcPc # "end" /\ \A p \in Process \ {q} : ~Addressee(p)
  BY <1>1 DEF Addressee
<1>3. \A p \in Process \ {q} : Quiet(p) /\ Says(p, <<>>, <<>>, <<>>)
  BY <1>2, NotAsked
<1>. QED  BY <1>1, <1>2, <1>3 DEF Tells, Says

(* A question is asked when there is nothing else anywhere. *)
LEMMA AskedTurn ==
  ASSUME NEW r \in Process, Put(<<Checker, r>>, Wanted'), Addressee(r)',
         \A p \in Process \ {r} : ~Addressee(p)',
         UNCHANGED <<waits, answer>>,
         \A p \in Process : Quiet(p) /\ chan[<<Checker, p>>] = <<>> /\ answer[p] = <<>>,
         \A p \in Process : chan'[<<p, Checker>>] = <<>>,
         \A p \in Process \ {r} : chan'[<<Checker, p>>] = chan[<<Checker, p>>],
         NEW p \in Process
  PROVE  Part(p)'
<1>1. Quiet(p)'
  BY DEF Quiet, waits
<1>2. CASE p = r
  <2>1. Says(p, <<Wanted>>, <<>>, <<>>)'
    BY <1>2 DEF Says, Put
  <2>. QED  BY <1>1, <1>2, <2>1 DEF Part, Turn, Asks
<1>3. CASE p # r
  <2>1. Says(p, <<>>, <<>>, <<>>)'
    BY <1>3 DEF Says
  <2>. QED  BY <1>1, <1>3, <2>1 DEF Part, Silent
<1>. QED  BY <1>2, <1>3

LEMMA AsksForTurn ==
  ASSUME NEW id, NEW r, NEW f, NEW C, AsksFor(id, r, f, C), \A p \in Process : <<Checker, p>> \notin C,
         UNCHANGED <<waits, answer>>,
         \A p \in Process : Quiet(p) /\ chan[<<Checker, p>>] = <<>> /\ answer[p] = <<>>,
         \A p \in Process : chan'[<<p, Checker>>] = <<>>,
         NEW p \in Process
  PROVE  Part(p)'
<1>1. r \in Process /\ asked'.id = id /\ asked'.process = r /\ mcPc' = "ackState"
  BY DEF AsksFor
<1>2. Wanted' = Message("ASK_STATE", id)
  BY <1>1 DEF Wanted
<1>3. Put(<<Checker, r>>, Wanted')
  BY <1>2 DEF AsksFor
<1>4. Addressee(r)' /\ \A q \in Process \ {r} : ~Addressee(q)'
  BY <1>1 DEF Addressee
<1>5. ASSUME NEW q \in Process \ {r}
      PROVE  chan'[<<Checker, q>>] = chan[<<Checker, q>>]
  <2>1. <<Checker, q>> \in Channel /\ <<Checker, q>> \notin C \cup {<<Checker, r>>}
    BY ChannelProperties
  <2>. QED  BY <2>1 DEF AsksFor, Others
<1>. QED  BY <1>1, <1>3, <1>4, <1>5, AskedTurn

LEMMA ListensTurn ==
  ASSUME TypeInv, \A p \in Process : Part(p), Listens, CheckerCases
  PROVE  (\A p \in Process : Part(p)') /\ (mcPc' = "ackSucc" => Found')
<1>. DEFINE AllQuiet == \A p \in Process : Quiet(p) /\ chan[<<Checker, p>>] = <<>> /\ answer[p] = <<>>
            NothingTold == \A p \in Process : chan'[<<p, Checker>>] = <<>>
<1>0. /\ UNCHANGED <<waits, answer>>
      /\ UNCHANGED <<destination, m_graph>>
  BY DEF Listens, Rests, launch
<1>1. ASSUME mcPc \in {"initial", "explore"}
      PROVE  AllQuiet /\ \A p \in Process : chan[<<p, Checker>>] = <<>>
  <2>1. mcPc # "end" /\ \A p \in Process : ~Addressee(p)
    BY <1>1 DEF Addressee
  <2>. QED  BY <2>1, NotAsked DEF Says
<1>2. ASSUME NEW q \in Process, NEW m \in Answer, Get(<<q, Checker>>, m), NEW C, Others(C),
             \A p \in Process \ {q} : <<p, Checker>> \notin C
      PROVE  AllQuiet /\ NothingTold /\ Addressee(q) /\ RightAnswer(m)
  <2>1. m \in Elements(chan[<<q, Checker>>])
    BY <1>2 DEF Get
  <2>2. AllQuiet /\ Addressee(q) /\ RightAnswer(m) /\ chan[<<q, Checker>>] = <<m>>
    BY <2>1, Heard
  <2>3. \A p \in Process \ {q} : chan[<<p, Checker>>] = <<>>
    BY <2>1, Heard
  <2>4. chan'[<<q, Checker>>] = <<>>
    BY <1>2, <2>2 DEF Get
  <2>5. \A p \in Process \ {q} : chan'[<<p, Checker>>] = chan[<<p, Checker>>]
    BY <1>2, ChannelProperties DEF Others
  <2>. HIDE DEF AllQuiet
  <2>. QED  BY <2>2, <2>3, <2>4, <2>5
<1>3. CASE Begins
  <2>1. mcPc = "initial" /\ mcPc' = "ackInitial" /\ asked' = asked
    BY <1>3 DEF Begins
  <2>2. AllQuiet /\ \A p \in Process : chan[<<p, Checker>>] = <<>>
    BY <1>1, <2>1
  <2>3. Wanted' = Message("INITIAL", 0)
    BY <2>1 DEF Wanted
  <2>4. 0 \in Process /\ Put(<<Checker, 0>>, Wanted')
    BY <1>3, <2>3, ProcessProperties DEF Begins
  <2>5. Addressee(0)' /\ \A q \in Process \ {0} : ~Addressee(q)'
    BY <2>1 DEF Addressee
  <2>6. \A p \in Process : chan'[<<p, Checker>>] = chan[<<p, Checker>>]
    <3>. TAKE p \in Process
    <3>1. <<p, Checker>> \in Channel /\ <<p, Checker>> # <<Checker, 0>>
      BY <2>4, ChannelProperties, ProcessProperties
    <3>. QED  BY <1>3, <3>1 DEF Begins, Others
  <2>7. \A p \in Process \ {0} : chan'[<<Checker, p>>] = chan[<<Checker, p>>]
    BY <1>3, ChannelProperties DEF Begins, Others
  <2>8. \A p \in Process : chan'[<<p, Checker>>] = <<>>
    BY <2>2, <2>6
  <2>9. \A p \in Process : Part(p)'
    BY <1>0, <2>2, <2>4, <2>5, <2>7, <2>8, AskedTurn
  <2>. QED  BY <2>1, <2>9
<1>4. CASE HearsInitial
  <2>1. PICK q \in Process, m \in Answer :
          Get(<<q, Checker>>, m) /\ AsksFor(m.v.id, m.v.process, TRUE, {<<q, Checker>>})
    BY <1>4 DEF HearsInitial
  <2>2. PICK r \in Process : r = m.v.process
    BY <2>1 DEF AsksFor
  <2>3. /\ Others({<<q, Checker>>} \cup {<<Checker, r>>}) /\ mcPc' = "ackState"
    BY <2>1, <2>2 DEF AsksFor
  <2>4. \A p \in Process \ {q} : <<p, Checker>> \notin {<<q, Checker>>} \cup {<<Checker, r>>}
    BY ChannelProperties, ProcessProperties
  <2>5. AllQuiet /\ NothingTold
    BY <1>2, <2>1, <2>3, <2>4
  <2>6. \A p \in Process : <<Checker, p>> \notin {<<q, Checker>>}
    BY ProcessProperties
  <2>7. \A p \in Process : Part(p)'
    BY <1>0, <2>1, <2>5, <2>6, AsksForTurn
  <2>. QED  BY <2>3, <2>7
<1>5. CASE HearsState
  <2>1. PICK q \in Process, m \in Answer :
          /\ m.tag = "ACK_STATE" /\ Get(<<q, Checker>>, m)
          /\ Put(<<Checker, asked.process>>, Message("ASK_SUCC", asked.id))
          /\ Others({<<q, Checker>>, <<Checker, asked.process>>})
    BY <1>5 DEF HearsState
  <2>2. mcPc = "ackState" /\ mcPc' = "ackSucc" /\ asked' = asked
    BY <1>5 DEF HearsState
  <2>3. PICK r \in Process : r = asked.process
    BY DEF TypeInv, ProtocolOK
  <2>4. \A p \in Process \ {q} : <<p, Checker>> \notin {<<q, Checker>>, <<Checker, asked.process>>}
    BY <2>3, ChannelProperties, ProcessProperties
  <2>5. AllQuiet /\ NothingTold /\ RightAnswer(m)
    BY <1>2, <2>1, <2>4
  <2>6. Found'
    <3>1. Found
      BY <2>2, <2>5 DEF RightAnswer
    <3>. QED  BY <1>0, <2>2, <3>1 DEF Found, Named, NodesOf
  <2>7. Wanted' = Message("ASK_SUCC", asked.id)
    BY <2>2 DEF Wanted
  <2>8. Put(<<Checker, r>>, Wanted')
    BY <2>1, <2>3, <2>7
  <2>9. Addressee(r)' /\ \A p \in Process \ {r} : ~Addressee(p)'
    BY <2>2, <2>3 DEF Addressee
  <2>10. ASSUME NEW p \in Process \ {r}
         PROVE  chan'[<<Checker, p>>] = chan[<<Checker, p>>]
    <3>1. <<Checker, p>> \in Channel /\ <<Checker, p>> \notin {<<q, Checker>>, <<Checker, asked.process>>}
      BY <2>3, ChannelProperties, ProcessProperties
    <3>. QED  BY <2>1, <3>1 DEF Others
  <2>11. \A p \in Process : Part(p)'
    BY <1>0, <2>5, <2>8, <2>9, <2>10, AskedTurn
  <2>. QED  BY <2>6, <2>11
<1>6. CASE HearsSucc
  <2>1. PICK q \in Process, m \in Answer : Get(<<q, Checker>>, m) /\ Others({<<q, Checker>>})
    BY <1>6 DEF HearsSucc
  <2>2. mcPc' = "explore"
    BY <1>6 DEF HearsSucc
  <2>3. AllQuiet /\ NothingTold
    BY <1>2, <2>1
  <2>4. ASSUME NEW p \in Process
        PROVE  Part(p)'
    <3>1. chan'[<<Checker, p>>] = chan[<<Checker, p>>]
      BY <2>1, ChannelProperties DEF Others
    <3>2. Quiet(p)' /\ Says(p, <<>>, <<>>, <<>>)'
      BY <1>0, <2>3, <3>1 DEF Quiet, Says, waits
    <3>3. ~Addressee(p)'
      BY <2>2 DEF Addressee
    <3>. QED  BY <3>2, <3>3 DEF Part, Silent
  <2>. QED  BY <2>2, <2>4
<1>7. CASE Explores
  <2>1. PICK id, r, f : AsksFor(id, r, f, {})
    BY <1>7 DEF Explores
  <2>2. AllQuiet /\ \A p \in Process : chan[<<p, Checker>>] = <<>>
    BY <1>1, <1>7 DEF Explores
  <2>3. r \in Process /\ mcPc' = "ackState" /\ Others({<<Checker, r>>})
    BY <2>1 DEF AsksFor
  <2>4. \A p \in Process : chan'[<<p, Checker>>] = chan[<<p, Checker>>]
    BY <2>3, ChannelProperties, ProcessProperties DEF Others
  <2>5. NothingTold
    BY <2>2, <2>4
  <2>6. \A p \in Process : Part(p)'
    BY <1>0, <2>1, <2>2, <2>5, AsksForTurn
  <2>. QED  BY <2>3, <2>6
<1>8. CASE Ends
  <2>1. mcPc = "explore" /\ mcPc' = "end"
    BY <1>8 DEF Ends
  <2>2. AllQuiet /\ \A p \in Process : chan[<<p, Checker>>] = <<>>
    BY <1>1, <2>1
  <2>3. ASSUME NEW p \in Process
        PROVE  Part(p)'
    <3>1. /\ \/ chan'[<<Checker, p>>] = chan[<<Checker, p>>]
             \/ chan'[<<Checker, p>>] = <<Message("FINISH", 0)>>
          /\ chan'[<<p, Checker>>] = <<>>
      <4>1. /\ m_nb_thread[p] > 0 => Put(<<Checker, p>>, Message("FINISH", 0))
            /\ m_nb_thread[p] = 0 => chan'[<<Checker, p>>] = chan[<<Checker, p>>]
            /\ chan'[<<p, Checker>>] = chan[<<p, Checker>>]
        BY <1>8 DEF Ends
      <4>2. m_nb_thread[p] > 0 \/ m_nb_thread[p] = 0
        BY DEF TypeInv, LaunchOK
      <4>. QED  BY <2>2, <4>1, <4>2 DEF Put
    <3>2. Quiet(p)'
      BY <1>0, <2>2 DEF Quiet, waits
    <3>3. Says(p, <<>>, <<>>, <<>>)' \/ Says(p, <<Message("FINISH", 0)>>, <<>>, <<>>)'
      BY <1>0, <2>2, <3>1 DEF Says
    <3>4. ~Addressee(p)'
      BY <2>1 DEF Addressee
    <3>. QED  BY <2>1, <3>2, <3>3, <3>4 DEF Part, Silent
  <2>. QED  BY <2>1, <2>3
<1>. QED  BY <1>3, <1>4, <1>5, <1>6, <1>7, <1>8 DEF CheckerCases

LEMMA MuteTurn ==
  ASSUME TypeInv, Mute, Constructs \/ Rests, NEW p \in Process, Part(p)
  PROVE  Part(p)'
<1>1. TalkKept(p)
  BY DEF Mute, SameTalk, TalkKept, waits
<1>2. UNCHANGED <<destination, mcPc, asked>>
  BY DEF Mute, launch, checker
<1>3. Addressee(p)' <=> Addressee(p)
  BY <1>2 DEF Addressee
<1>4. CASE Addressee(p)
  <2>1. PICK r \in Process : GraphCases(r)
    BY GraphSteps
  <2>2. Grows
    BY StepGrows
  <2>3. Turn(p)'
    BY <1>1, <1>2, <1>4, <2>1, <2>2, TurnKept DEF Part
  <2>. QED  BY <1>3, <1>4, <2>3 DEF Part
<1>5. CASE ~Addressee(p)
  <2>1. Silent(p)'
    BY <1>1, <1>2, <1>5 DEF Part, Silent, Says, Quiet, TalkKept
  <2>. QED  BY <1>3, <1>5, <2>1 DEF Part
<1>. QED  BY <1>4, <1>5

LEMMA NextTurns ==
  ASSUME TypeInv, UniqueInv, WorkInv, TurnInv, Zeroed => AskedRight, [Next]_vars
  PROVE  TurnInv'
<1>1. (Mute /\ (Constructs \/ Rests)) \/ Talks
  BY StepCases
<1>2. UNCHANGED memory
  BY <1>1 DEF Mute, Talks, Serves, Listens, Rests, launch
<1>. SUFFICES ASSUME Zeroed
              PROVE  (\A p \in Process : Part(p)') /\ (mcPc' = "ackSucc" => Found')
  <2>1. Zeroed' <=> Zeroed
    BY <1>2 DEF Zeroed
  <2>. QED  BY <2>1 DEF TurnInv
<1>3. (\A p \in Process : Part(p)) /\ (mcPc = "ackSucc" => Found)
  BY DEF TurnInv
<1>4. CASE Mute /\ (Constructs \/ Rests)
  <2>1. \A p \in Process : Part(p)'
    BY <1>3, <1>4, MuteTurn
  <2>2. UNCHANGED <<mcPc, asked>>
    BY <1>4 DEF Mute, checker
  <2>3. PICK r \in Process : GraphCases(r)
    BY <1>4, GraphSteps
  <2>4. Grows
    BY <1>4, StepGrows
  <2>5. Found => Found'
    BY <2>2, <2>3, <2>4, FoundKept
  <2>. QED  BY <1>3, <2>1, <2>2, <2>5
<1>5. CASE Serves /\ \E p \in Process : CommCases(p)
  <2>1. PICK p \in Process : CommCases(p)
    BY <1>5
  <2>2. \A q \in Process : Part(q)'
    BY <1>3, <1>5, <2>1, ServesTurn
  <2>. QED  BY <1>3, <1>5, <2>2, ServesSame
<1>6. CASE Listens /\ CheckerCases
  BY <1>3, <1>6, ListensTurn
<1>. QED  BY <1>1, <1>4, <1>5, <1>6 DEF Talks

-----------------------------------------------------------------------------
(* What the checker asks for, is told and keeps.                           *)

StateRight(x) ==
  /\ mcPc = "ackSucc" /\ x.id = asked.id /\ x.m_container = asked.process
  /\ x.id \in Aggregate => FlagsRight(x.id, x.m_div, x.m_deadlock)

KripkeRight(x) ==
  /\ \E a \in Aggregate : SuccessorsOf(a, x.m_succ)
  /\ x.id \in Aggregate =>
       /\ x.m_container = destination[x.id]
       /\ FlagsRight(x.id, x.m_div, x.m_deadlock) /\ SuccessorsOf(x.id, x.m_succ)

ObtainedInv ==
  Zeroed => /\ AskedRight
            /\ \A x \in state : StateRight(x)
            /\ \A x \in kripke : KripkeRight(x)

LEMMA InitObtained ==
  ASSUME Init
  PROVE  ObtainedInv
<1>1. asked.id \notin Aggregate /\ state = {} /\ kripke = {}
  BY BytesAre, MCHybridSOGAssumption DEF Init
<1>. QED  BY <1>1 DEF ObtainedInv, AskedRight

LEMMA ObtainedKept ==
  ASSUME UNCHANGED <<destination, checker>>
  PROVE  /\ AskedRight => AskedRight'
         /\ \A x : StateRight(x) => StateRight(x)'
         /\ \A x : KripkeRight(x) => KripkeRight(x)'
         /\ state' = state /\ kripke' = kripke
BY DEF checker, AskedRight, StateRight, KripkeRight, FlagsRight, HasFlags, SuccessorsOf

LEMMA KripkeKept ==
  ASSUME UNCHANGED destination, NEW x, KripkeRight(x)
  PROVE  KripkeRight(x)'
BY DEF KripkeRight, FlagsRight, HasFlags, SuccessorsOf

LEMMA ListensObtained ==
  ASSUME TypeInv, \A p \in Process : Part(p), AskedRight, \A x \in state : StateRight(x),
         \A x \in kripke : KripkeRight(x), Listens, CheckerCases
  PROVE  (AskedRight /\ (\A x \in state : StateRight(x)) /\ \A x \in kripke : KripkeRight(x))'
<1>0. UNCHANGED destination
  BY DEF Listens, Rests, launch
<1>1. \A x : KripkeRight(x) => KripkeRight(x)'
  BY <1>0, KripkeKept
<1>2. ASSUME NEW q \in Process, NEW m, Get(<<q, Checker>>, m)
      PROVE  RightAnswer(m)
  BY <1>2, Heard DEF Get
<1>3. CASE Begins
  <2>1. mcPc = "initial" /\ UNCHANGED <<asked, state, kripke>>
    BY <1>3 DEF Begins
  <2>2. state = {}
    BY <2>1 DEF StateRight
  <2>. QED  BY <1>0, <1>1, <2>1, <2>2 DEF AskedRight
<1>4. CASE HearsInitial
  <2>1. PICK q \in Process, m \in Answer :
          Get(<<q, Checker>>, m) /\ AsksFor(m.v.id, m.v.process, TRUE, {<<q, Checker>>})
    BY <1>4 DEF HearsInitial
  <2>2. mcPc = "ackInitial" /\ UNCHANGED <<state, kripke>>
    BY <1>4 DEF HearsInitial
  <2>3. m.v.id = InitialAggregate /\ m.v.process = destination[InitialAggregate]
    BY <1>2, <2>1, <2>2 DEF RightAnswer
  <2>4. asked'.id = m.v.id /\ asked'.process = m.v.process
    BY <2>1 DEF AsksFor
  <2>5. AskedRight'
    BY <1>0, <2>3, <2>4 DEF AskedRight
  <2>6. state = {}
    BY <2>2 DEF StateRight
  <2>. QED  BY <1>1, <2>2, <2>5, <2>6
<1>5. CASE HearsState
  <2>1. PICK q \in Process, m \in Answer : Get(<<q, Checker>>, m) /\ state' = {StateOf(m)}
    BY <1>5 DEF HearsState
  <2>2. mcPc = "ackState" /\ mcPc' = "ackSucc" /\ UNCHANGED <<asked, kripke>>
    BY <1>5 DEF HearsState
  <2>3. asked.id \in Aggregate => FlagsRight(asked.id, m.v.div, m.v.dead)
    BY <1>2, <2>1, <2>2 DEF RightAnswer
  <2>4. PICK x : x = StateOf(m)
    OBVIOUS
  <2>5. /\ x.id = asked.id /\ x.m_container = asked.process
        /\ x.m_div = m.v.div /\ x.m_deadlock = m.v.dead
    BY <2>4 DEF StateOf
  <2>6. asked.id \in Aggregate => FlagsRight(asked.id, x.m_div, x.m_deadlock)
    BY <2>3, <2>5
  <2>7. StateRight(x)'
    BY <1>0, <2>2, <2>5, <2>6 DEF StateRight, FlagsRight, HasFlags
  <2>8. AskedRight'
    BY <1>0, <2>2 DEF AskedRight
  <2>. QED  BY <1>1, <2>1, <2>2, <2>4, <2>7, <2>8
<1>6. CASE HearsSucc
  <2>1. PICK q \in Process, m \in Answer :
          Get(<<q, Checker>>, m) /\ kripke' = kripke \cup {KripkeOf(x, m) : x \in state}
    BY <1>6 DEF HearsSucc
  <2>2. mcPc = "ackSucc" /\ state' = {} /\ asked' = asked
    BY <1>6 DEF HearsSucc
  <2>3. /\ \E a \in Aggregate : SuccessorsOf(a, Elements(m.v))
        /\ asked.id \in Aggregate => SuccessorsOf(asked.id, Elements(m.v))
    BY <1>2, <2>1, <2>2 DEF RightAnswer
  <2>4. ASSUME NEW x \in state
        PROVE  KripkeRight(KripkeOf(x, m))
    <3>1. PICK y : y = KripkeOf(x, m)
      OBVIOUS
    <3>2. /\ y.id = x.id /\ y.m_container = x.m_container /\ y.m_div = x.m_div
          /\ y.m_deadlock = x.m_deadlock /\ y.m_succ = Elements(m.v)
      BY <3>1 DEF KripkeOf
    <3>3. /\ x.id = asked.id /\ x.m_container = asked.process
          /\ x.id \in Aggregate => FlagsRight(x.id, x.m_div, x.m_deadlock)
      BY DEF StateRight
    <3>4. KripkeRight(y)
      BY <2>3, <3>2, <3>3 DEF KripkeRight, AskedRight
    <3>. QED  BY <3>1, <3>4
  <2>5. \A x \in kripke' : KripkeRight(x)'
    BY <1>1, <2>1, <2>4
  <2>6. AskedRight'
    BY <1>0, <2>2 DEF AskedRight
  <2>. QED  BY <2>2, <2>5, <2>6
<1>7. CASE Explores
  <2>1. PICK x \in kripke : \/ \E u \in x.m_succ : AsksFor(u.id, u.process, x.named, {})
                            \/ x.m_div /\ AsksFor(x.id, x.m_container, x.named, {})
    BY <1>7 DEF Explores
  <2>2. mcPc = "explore" /\ UNCHANGED <<state, kripke>>
    BY <1>7 DEF Explores
  <2>3. KripkeRight(x)
    OBVIOUS
  <2>4. PICK a \in Aggregate : SuccessorsOf(a, x.m_succ)
    BY <2>3 DEF KripkeRight
  <2>5. PICK id, r : AsksFor(id, r, x.named, {}) /\ (id \in Aggregate => r = destination[id])
    <3>1. CASE \E u \in x.m_succ : AsksFor(u.id, u.process, x.named, {})
      <4>1. PICK u \in x.m_succ : AsksFor(u.id, u.process, x.named, {})
        BY <3>1
      <4>2. u.id \in Garbage \/ u.process = destination[u.id]
        BY <2>4 DEF SuccessorsOf
      <4>. QED  BY <4>1, <4>2, MCHybridSOGAssumption
    <3>2. CASE AsksFor(x.id, x.m_container, x.named, {})
      BY <2>3, <3>2 DEF KripkeRight
    <3>. QED  BY <2>1, <3>1, <3>2
  <2>6. asked'.id = id /\ asked'.process = r
    BY <2>5 DEF AsksFor
  <2>7. AskedRight'
    BY <1>0, <2>5, <2>6 DEF AskedRight
  <2>8. state = {}
    BY <2>2 DEF StateRight
  <2>. QED  BY <1>1, <2>2, <2>7, <2>8
<1>8. CASE Ends
  <2>1. mcPc = "explore" /\ UNCHANGED <<asked, state, kripke>>
    BY <1>8 DEF Ends
  <2>2. state = {}
    BY <2>1 DEF StateRight
  <2>. QED  BY <1>0, <1>1, <2>1, <2>2 DEF AskedRight
<1>. QED  BY <1>3, <1>4, <1>5, <1>6, <1>7, <1>8 DEF CheckerCases

LEMMA NextObtained ==
  ASSUME TypeInv, TurnInv, ObtainedInv, [Next]_vars
  PROVE  ObtainedInv'
<1>1. (Mute /\ (Constructs \/ Rests)) \/ Talks
  BY StepCases
<1>2. UNCHANGED <<memory, destination>>
  BY <1>1 DEF Mute, Talks, Serves, Listens, Rests, launch
<1>. SUFFICES ASSUME Zeroed
              PROVE  (AskedRight /\ (\A x \in state : StateRight(x)) /\ \A x \in kripke : KripkeRight(x))'
  <2>1. Zeroed' <=> Zeroed
    BY <1>2 DEF Zeroed
  <2>. QED  BY <2>1 DEF ObtainedInv
<1>3. AskedRight /\ (\A x \in state : StateRight(x)) /\ (\A x \in kripke : KripkeRight(x))
  BY DEF ObtainedInv
<1>4. ASSUME UNCHANGED checker
      PROVE  (AskedRight /\ (\A x \in state : StateRight(x)) /\ \A x \in kripke : KripkeRight(x))'
  BY <1>2, <1>3, <1>4, ObtainedKept
<1>5. CASE Listens /\ CheckerCases
  BY <1>3, <1>5, ListensObtained DEF TurnInv
<1>. QED  BY <1>1, <1>4, <1>5 DEF Mute, Talks, Serves

-----------------------------------------------------------------------------
(* Together.                                                               *)

CheckInv == TypeInv /\ EndInv /\ UniqueInv /\ WorkInv /\ TurnInv /\ ObtainedInv

LEMMA CheckCorrect == Spec => []CheckInv
<1>1. Init => CheckInv
  BY InitTyped, InitEnd, InitUnique, InitWork, InitTurn, InitObtained DEF CheckInv
<1>2. CheckInv /\ [Next]_vars => CheckInv'
  BY NextTyped, NextEnd, NextUnique, NextWork, NextTurns, NextObtained DEF CheckInv, ObtainedInv
<1>. QED  BY <1>1, <1>2, PTL DEF Spec

LEMMA Awaited ==
  ASSUME CheckInv
  PROVE  AwaitedIsAsked
<1>. SUFFICES ASSUME Zeroed
              PROVE  /\ \A p \in m_waitingAgregate :
                          mcPc = "ackState" /\ asked.id = m_id_md5[p] /\ asked.process = p
                            /\ answer[p] = <<>> /\ AnswersTo(p) = {}
                     /\ \A p \in Process : m_waitingBuildSucc[p] # "waitInitial" =>
                          /\ mcPc = "ackSucc" /\ asked.process = p /\ answer[p] = <<>> /\ AnswersTo(p) = {}
                          /\ m_waitingBuildSucc[p] = "waitingBuild" =>
                               m_id_md5[p] = asked.id /\ asked.id \in Garbage
                          /\ m_waitingBuildSucc[p] = "waitingSucc" =>
                               asked.id \in {m_graph[p][m_aggWaiting[p]].m_SHA2} \cup Garbage
                     /\ \A p \in Process : \A k \in DOMAIN chan[<<Checker, p>>] :
                          LET m == chan[<<Checker, p>>][k]
                          IN  /\ m.tag \in {"ASK_STATE", "ASK_SUCC"} =>
                                   m.v = asked.id /\ p = asked.process /\ k = 1
                              /\ m.tag = "ASK_SUCC" /\ m.v \in Aggregate => findSHAPos(p, m.v) # {}
  BY DEF AwaitedIsAsked
<1>1. (\A p \in Process : Part(p)) /\ (mcPc = "ackSucc" => Found) /\ TypeInv /\ UniqueInv
  BY DEF CheckInv, TurnInv
<1>2. asked \in [id : Bytes, process : Process, named : BOOLEAN] /\ m_waitingAgregate \subseteq Process
  BY <1>1 DEF TypeInv, ProtocolOK
<1>3. \A p : Says(p, <<>>, <<>>, <<>>) => answer[p] = <<>> /\ AnswersTo(p) = {}
  BY DEF Says, AnswersTo
<1>4. ASSUME NEW p \in m_waitingAgregate
      PROVE  mcPc = "ackState" /\ asked.id = m_id_md5[p] /\ asked.process = p
               /\ answer[p] = <<>> /\ AnswersTo(p) = {}
  <2>1. p \in Process /\ ~Quiet(p)
    BY <1>2 DEF Quiet
  <2>2. Addressee(p) /\ (AwaitsState(p) \/ AwaitsSucc(p))
    BY <1>1, <2>1, Awaiting
  <2>3. Addressee(p) /\ AwaitsState(p)
    BY <2>2 DEF AwaitsSucc
  <2>4. mcPc = "ackState" /\ m_id_md5[p] = asked.id /\ Says(p, <<>>, <<>>, <<>>)
    BY <2>3 DEF AwaitsState
  <2>5. p = asked.process
    BY <2>3, <2>4 DEF Addressee
  <2>. QED  BY <1>2, <1>3, <2>4, <2>5
<1>5. ASSUME NEW p \in Process, m_waitingBuildSucc[p] # "waitInitial"
      PROVE  /\ mcPc = "ackSucc" /\ asked.process = p /\ answer[p] = <<>> /\ AnswersTo(p) = {}
             /\ m_waitingBuildSucc[p] = "waitingBuild" => m_id_md5[p] = asked.id /\ asked.id \in Garbage
             /\ m_waitingBuildSucc[p] = "waitingSucc" =>
                  asked.id \in {m_graph[p][m_aggWaiting[p]].m_SHA2} \cup Garbage
  <2>1. ~Quiet(p)
    BY <1>5 DEF Quiet
  <2>2. Addressee(p) /\ (AwaitsState(p) \/ AwaitsSucc(p))
    BY <1>1, <2>1, Awaiting
  <2>3. Addressee(p) /\ AwaitsSucc(p)
    BY <1>5, <2>2 DEF AwaitsState
  <2>. QED  BY <1>3, <2>3 DEF AwaitsSucc, Addressee
<1>6. ASSUME NEW p \in Process, NEW k \in DOMAIN chan[<<Checker, p>>], NEW m, m = chan[<<Checker, p>>][k]
      PROVE  /\ m.tag \in {"ASK_STATE", "ASK_SUCC"} => m.v = asked.id /\ p = asked.process /\ k = 1
             /\ m.tag = "ASK_SUCC" /\ m.v \in Aggregate => findSHAPos(p, m.v) # {}
  <2>1. m \in Elements(chan[<<Checker, p>>])
    BY <1>6 DEF Elements
  <2>2. chan[<<Checker, p>>] = <<m>>
    BY <1>1, <2>1, Questioned DEF Says
  <2>3. k = 1
    BY <2>2
  <2>4. \/ Addressee(p) /\ m = Wanted
        \/ m = Message("FINISH", 0)
    BY <1>1, <2>1, Questioned
  <2>5. CASE m = Message("FINISH", 0)
    BY <2>5 DEF Message
  <2>6. CASE Addressee(p) /\ m = Wanted
    <3>1. m.tag \in {"ASK_STATE", "ASK_SUCC"} => m.v = asked.id /\ p = asked.process
      BY <2>6, WantedTag
    <3>2. ASSUME m.tag = "ASK_SUCC", m.v \in Aggregate
          PROVE  findSHAPos(p, m.v) # {}
      <4>1. mcPc = "ackSucc" /\ p = asked.process /\ m.v = asked.id
        BY <2>6, <3>2, WantedTag
      <4>2. PICK n \in NodesOf(p) : m_graph[p][n].m_SHA2 = asked.id
        BY <1>1, <3>2, <4>1 DEF Found, Named
      <4>. QED  BY <1>1, <3>2, <4>1, <4>2, FoundByName
    <3>. QED  BY <2>3, <3>1, <3>2
  <2>. QED  BY <2>4, <2>5, <2>6
<1>. QED  BY <1>4, <1>5, <1>6

(* Provided that nobody reads a member no constructor initializes before   *)
(* it is assigned: what a process awaits is what the checker asks it now,  *)
(* there is one question or answer under way at most, and a state asked    *)
(* for by its identifier is found when its successors are asked for; only  *)
(* bytes that are no identifier may be lost between the two questions.     *)
THEOREM OneQuestion == Spec => []AwaitedIsAsked
<1>1. CheckInv => AwaitedIsAsked
  BY Awaited
<1>. QED  BY <1>1, CheckCorrect, PTL

(* Under the same proviso, what the checker keeps of a state it asked for  *)
(* by its identifier is final: its process, its flags and its successors.  *)
(* By whatever bytes it asked, it has all successors of one aggregate,     *)
(* each by its identifier and process or by what the memory held before.   *)
THEOREM ObtainedRight == Spec => []ObtainedIsFinal
<1>1. ObtainedInv => ObtainedIsFinal
  BY DEF ObtainedInv, ObtainedIsFinal, KripkeRight, FlagsRight
<1>2. CheckInv => ObtainedIsFinal
  BY <1>1 DEF CheckInv
<1>. QED  BY <1>2, CheckCorrect, PTL

-----------------------------------------------------------------------------
(* A node is assigned what it gets by one builder, then in the queue once, *)
(* then expanded by one builder, then complete; never two of these.        *)

Placing == NewLabel \cup {"assign"}
Claims(x, n) ==
  \/ pc[x] \in Expanding /\ e[x].state = n
  \/ pc[x] \in Placing \cup Storing /\ pos[x] = n
Queued(p, n) == \E z \in Elements(m_common_stack[p]) : z.state = n
Distinct(q) == \A k, l \in DOMAIN q : q[k].state = q[l].state => k = l

OnceInv ==
  /\ \A x, y \in Thread : \A n : x[1] = y[1] /\ Claims(x, n) /\ Claims(y, n) => x = y
  /\ \A x \in Thread : \A n : Claims(x, n) => ~Queued(x[1], n) /\ ~Done(x[1], n)
  /\ \A x \in Thread : pc[x] \in Placing => pos[x] # e[x].state
  /\ \A p \in Process : Distinct(m_common_stack[p])
  /\ \A p \in Process : \A n : Queued(p, n) => ~Done(p, n)

(* Who claims a node has none of the other labels. *)
LEMMA Neutrals ==
  /\ \A l \in Neutral \cup CommLabel : l \notin Expanding \cup Placing \cup Storing
  /\ \A l \in {"fire", "link"} : l \in Expanding /\ l \notin Placing \cup Storing
  /\ \A l \in Placing : l \in Expanding /\ l \notin Storing
  /\ \A l \in Storing : l \notin Expanding
BY DEF Neutral, CommLabel, Expanding, Linking, Placing, Storing, NewLabel, ReceivedLabel

LEMMA InitOnce ==
  ASSUME Init
  PROVE  OnceInv
<1>1. \A x \in Thread : pc[x] \in {"start", "done"}
  BY DEF Init
<1>2. \A x \in Thread : pc[x] \notin Expanding \cup Placing \cup Storing
  BY <1>1, Neutrals DEF CommLabel
<1>3. \A x \in Thread : \A n : ~Claims(x, n)
  BY <1>2 DEF Claims
<1>4. \A p \in Process : m_common_stack[p] = <<>>
  BY DEF Init
<1>5. \A p \in Process : Distinct(m_common_stack[p]) /\ \A n : ~Queued(p, n)
  BY <1>4 DEF Distinct, Queued, Elements
<1>. QED  BY <1>2, <1>3, <1>5 DEF OnceInv

LEMMA AppendDistinct ==
  ASSUME NEW q \in Seq(StackedPair), NEW z, Distinct(q), \A v \in Elements(q) : v.state # z.state
  PROVE  Distinct(Append(q, z))
<1>1. /\ Len(q) \in Nat /\ DOMAIN q = 1 .. Len(q)
      /\ DOMAIN Append(q, z) = 1 .. Len(q) + 1
      /\ \A k \in 1 .. Len(q) : Append(q, z)[k] = q[k]
      /\ Append(q, z)[Len(q) + 1] = z
  BY LenProperties, AppendProperties
<1>2. PICK a : a = Append(q, z)
  OBVIOUS
<1>3. ASSUME NEW k \in DOMAIN a, NEW l \in DOMAIN a, a[k].state = a[l].state
      PROVE  k = l
  <2>1. \A j \in 1 .. Len(q) : a[j] \in Elements(q)
    BY <1>1, <1>2 DEF Elements
  <2>2. CASE k \in 1 .. Len(q) /\ l \in 1 .. Len(q)
    BY <1>1, <1>2, <1>3, <2>2 DEF Distinct
  <2>3. CASE k \notin 1 .. Len(q) \/ l \notin 1 .. Len(q)
    BY <1>1, <1>2, <1>3, <2>1, <2>3
  <2>. QED  BY <2>2, <2>3
<1>. QED  BY <1>2, <1>3 DEF Distinct

LEMMA TailDistinct ==
  ASSUME NEW q \in Seq(StackedPair), q # <<>>, Distinct(q)
  PROVE  /\ Distinct(Tail(q))
         /\ \A z \in Elements(Tail(q)) : z.state # Head(q).state
<1>1. /\ Len(q) \in Nat \ {0} /\ DOMAIN q = 1 .. Len(q) /\ Head(q) = q[1]
      /\ DOMAIN Tail(q) = 1 .. Len(q) - 1
      /\ \A k \in 1 .. Len(q) - 1 : Tail(q)[k] = q[k + 1]
  BY LenProperties, HeadTailProperties, EmptySeq
<1>2. PICK r : r = Tail(q)
  OBVIOUS
<1>3. \A k \in DOMAIN r : k + 1 \in DOMAIN q /\ k \in Nat /\ r[k] = q[k + 1] /\ 1 \in DOMAIN q
  BY <1>1, <1>2
<1>4. Distinct(r)
  BY <1>3 DEF Distinct
<1>5. ASSUME NEW k \in DOMAIN r
      PROVE  r[k].state # Head(q).state
  <2>1. r[k] = q[k + 1] /\ k \in Nat /\ k + 1 \in DOMAIN q /\ 1 \in DOMAIN q
    BY <1>3, Zenon
  <2>2. q[k + 1].state = q[1].state => k + 1 = 1
    BY <2>1, Zenon DEF Distinct
  <2>3. k + 1 # 1
    BY <2>1
  <2>4. Head(q) = q[1]
    BY <1>1
  <2>. QED  BY <2>1, <2>2, <2>3, <2>4
<1>. QED  BY <1>2, <1>4, <1>5 DEF Elements

(* What is claimed is a node of the process. *)
LEMMA ClaimedNodes ==
  ASSUME TypeInv, NEW x \in Thread, NEW n, Claims(x, n)
  PROVE  n \in NodesOf(x[1]) /\ ~Virtual(x[1], n)
<1>1. ThreadOK(x)
  BY DEF TypeInv, ThreadsOK
<1>2. Placing \subseteq Linking /\ "link" \notin Placing
  BY Neutrals DEF Placing, Linking
<1>3. CASE pc[x] \in Expanding /\ e[x].state = n
  BY <1>1, <1>3 DEF ThreadOK
<1>4. CASE pc[x] \in Placing /\ pos[x] = n
  BY <1>1, <1>2, <1>4 DEF ThreadOK
<1>5. CASE pc[x] \in Storing /\ pos[x] = n
  BY <1>1, <1>5 DEF ThreadOK
<1>. QED  BY <1>3, <1>4, <1>5 DEF Claims

LEMMA QueuedNodes ==
  ASSUME TypeInv, NEW p \in Process, NEW n, Queued(p, n)
  PROVE  n \in NodesOf(p)
BY DEF TypeInv, StacksOK, PairOK, Queued

LEMMA ClaimsKept ==
  ASSUME NEW y \in Thread, Idles(y), KeepsLocals(y)
  PROVE  /\ \A n : Claims(y, n)' => Claims(y, n)
         /\ pc'[y] \in Placing => pc[y] \in Placing /\ pos'[y] = pos[y] /\ e'[y] = e[y]
<1>1. pc'[y] \in Expanding \cup Placing \cup Storing => pc'[y] = pc[y]
  BY DEF Idles, Neutral, Expanding, Linking, Placing, Storing, NewLabel, ReceivedLabel
<1>. QED  BY <1>1 DEF Claims, KeepsLocals

(* The steps that put nothing in the queue and claim nothing more.         *)
LEMMA OnceSame ==
  ASSUME OnceInv, UNCHANGED m_common_stack,
         \A y \in Thread : \A n : Claims(y, n)' => Claims(y, n),
         \A y \in Thread : pc'[y] \in Placing => pos'[y] # e'[y].state,
         \A p \in Process : \A n : (Queued(p, n) \/ \E y \in Thread : y[1] = p /\ Claims(y, n)') /\ Done(p, n)'
                                     => Done(p, n)
  PROVE  OnceInv'
<1>1. \A p, n : Queued(p, n)' <=> Queued(p, n)
  BY DEF Queued
<1>2. ASSUME NEW y \in Thread, NEW n, Claims(y, n)'
      PROVE  ~Queued(y[1], n)' /\ ~Done(y[1], n)'
  <2>1. Claims(y, n) /\ y[1] \in Process
    BY <1>2, ThreadProperties
  <2>2. ~Queued(y[1], n) /\ ~Done(y[1], n)
    BY <2>1 DEF OnceInv
  <2>. QED  BY <1>1, <1>2, <2>1, <2>2
<1>3. \A p \in Process : Distinct(m_common_stack'[p])
  BY DEF OnceInv
<1>4. \A p \in Process : \A n : Queued(p, n)' => ~Done(p, n)'
  BY <1>1 DEF OnceInv
<1>5. \A x, y \in Thread : \A n : x[1] = y[1] /\ Claims(x, n)' /\ Claims(y, n)' => x = y
  BY DEF OnceInv
<1>. QED  BY <1>2, <1>3, <1>4, <1>5 DEF OnceInv, Distinct

(* A builder claims a node that nobody has and that is not in the queue.   *)
LEMMA OnceMore ==
  ASSUME OnceInv, NEW x \in Thread, NEW m,
         \A y \in Thread : \A n : Claims(y, n)' => Claims(y, n) \/ (y = x /\ n = m),
         \A y \in Thread : y[1] = x[1] => ~Claims(y, m),
         ~Queued(x[1], m)', ~Done(x[1], m)',
         \A y \in Thread : pc'[y] \in Placing => pos'[y] # e'[y].state,
         \A p \in Process : Distinct(m_common_stack'[p]),
         \A p \in Process : \A n : Queued(p, n)' => Queued(p, n),
         \A p \in Process : \A n : (Queued(p, n) \/ \E y \in Thread : y[1] = p /\ Claims(y, n)) /\ Done(p, n)'
                                     => Done(p, n)
  PROVE  OnceInv'
<1>1. ASSUME NEW y \in Thread, NEW n, Claims(y, n)'
      PROVE  ~Queued(y[1], n)' /\ ~Done(y[1], n)'
  <2>1. CASE y = x /\ n = m
    BY <2>1
  <2>2. CASE Claims(y, n)
    <3>1. ~Queued(y[1], n) /\ ~Done(y[1], n) /\ y[1] \in Process
      BY <2>2, ThreadProperties DEF OnceInv
    <3>. QED  BY <2>2, <3>1
  <2>. QED  BY <1>1, <2>1, <2>2
<1>2. \A p \in Process : \A n : Queued(p, n)' => ~Done(p, n)'
  BY DEF OnceInv
<1>3. ASSUME NEW y \in Thread, NEW z \in Thread, NEW n, y[1] = z[1], Claims(y, n)', Claims(z, n)'
      PROVE  y = z
  BY <1>3 DEF OnceInv
<1>. QED  BY <1>1, <1>2, <1>3 DEF OnceInv, Distinct

(* A builder puts in the queue the node it had claimed. *)
LEMMA OnceQueued ==
  ASSUME OnceInv, TypeInv, NEW x \in Thread, Queues(x), NEW m, m = pos[x], Claims(x, m), ~Claims(x, m)',
         \A y \in Thread : \A n : Claims(y, n)' => Claims(y, n),
         \A y \in Thread : pc'[y] \in Placing => pos'[y] # e'[y].state,
         \A p \in Process : \A n \in NodesOf(p) : Done(p, n)' => Done(p, n)
  PROVE  OnceInv'
<1>1. x[1] \in Process
  BY ThreadProperties
<1>2. PICK p, z : p = x[1] /\ z = Pair(m, FirableObs[Agg(p, m)])
  OBVIOUS
<1>3. z.state = m /\ m \in NodesOf(p)
  BY <1>2 DEF Pair, Queues
<1>4. ~Queued(p, m) /\ ~Done(p, m)
  BY <1>2 DEF OnceInv
<1>5. /\ m_common_stack'[p] = Append(m_common_stack[p], z)
      /\ Elements(m_common_stack'[p]) = Elements(m_common_stack[p]) \cup {z}
      /\ \A q \in Process \ {p} : m_common_stack'[q] = m_common_stack[q]
  BY <1>2 DEF Queues, Grown
<1>6. \A q \in Process : \A n : Queued(q, n)' <=> Queued(q, n) \/ (q = p /\ n = m)
  BY <1>1, <1>2, <1>3, <1>5 DEF Queued
<1>7. \A q \in Process : Distinct(m_common_stack'[q])
  <2>1. m_common_stack[p] \in Seq(StackedPair) /\ Distinct(m_common_stack[p])
    BY <1>1, <1>2 DEF TypeInv, CoreOK, OnceInv
  <2>2. \A v \in Elements(m_common_stack[p]) : v.state # z.state
    BY <1>3, <1>4 DEF Queued
  <2>3. Distinct(m_common_stack'[p])
    BY <1>5, <2>1, <2>2, AppendDistinct
  <2>. QED  BY <1>5, <2>3 DEF OnceInv
<1>8. ASSUME NEW q \in Process, NEW n, Queued(q, n)'
      PROVE  ~Done(q, n)'
  <2>1. CASE q = p /\ n = m
    BY <1>1, <1>2, <1>3, <1>4, <2>1
  <2>2. CASE Queued(q, n)
    <3>1. n \in NodesOf(q)
      BY <2>2, QueuedNodes
    <3>. QED  BY <2>2, <3>1 DEF OnceInv
  <2>. QED  BY <1>6, <1>8, <2>1, <2>2
<1>9. ASSUME NEW y \in Thread, NEW n, Claims(y, n)'
      PROVE  ~Queued(y[1], n)' /\ ~Done(y[1], n)'
  <2>1. Claims(y, n) /\ y[1] \in Process
    BY <1>9, ThreadProperties
  <2>2. ~Queued(y[1], n) /\ ~Done(y[1], n)
    BY <2>1 DEF OnceInv
  <2>3. n \in NodesOf(y[1])
    BY <2>1, ClaimedNodes
  <2>4. ~(y[1] = p /\ n = m)
    BY <1>2, <1>9, <2>1 DEF OnceInv
  <2>. QED  BY <1>6, <2>1, <2>2, <2>3, <2>4
<1>10. \A y, w \in Thread : \A n : y[1] = w[1] /\ Claims(y, n)' /\ Claims(w, n)' => y = w
  BY DEF OnceInv
<1>. QED  BY <1>7, <1>8, <1>9, <1>10 DEF OnceInv, Distinct

LEMMA OthersClaims ==
  ASSUME TypeInv, OnceInv, NEW x \in Thread, Builds(x), NEW y \in Thread \ {x}
  PROVE  /\ \A n : Claims(y, n)' => Claims(y, n)
         /\ pc'[y] \in Placing => pos'[y] # e'[y].state
<1>1. KeepsLocals(y)
  BY LocalsKept DEF TypeInv
<1>2. AllIdle \/ \E label : Moves(x, label)
  BY BuilderMoving DEF Builds, Starts
<1>3. Idles(y)
  BY <1>2 DEF AllIdle, Moves
<1>4. /\ \A n : Claims(y, n)' => Claims(y, n)
      /\ pc'[y] \in Placing => pc[y] \in Placing /\ pos'[y] = pos[y] /\ e'[y] = e[y]
  BY <1>1, <1>3, ClaimsKept
<1>. QED  BY <1>4 DEF OnceInv

(* What x itself claims after its step. *)
LEMMA ClaimsAfter ==
  ASSUME TypeInv, NEW x \in Thread, Builds(x), NEW n, Claims(x, n)'
  PROVE  \/ TakesWork(x) /\ n = e'[x].state
         \/ FiresNew(x) /\ n = pos'[x] /\ pc'[x] \in Placing
         \/ ReceivesNew(x) /\ n = pos'[x]
         \/ Claims(x, n) /\ ~Completes(x) /\ ~QueuesReceived(x) /\ (QueuesNew(x) => n = e[x].state)
<1>1. CASE Wanders(x)
  <2>1. Idles(x) /\ KeepsLocals(x)
    BY <1>1 DEF Wanders, AllIdle, KeepsLocals, local
  <2>2. Claims(x, n)
    BY <2>1, ClaimsKept
  <2>3. ~Completes(x) /\ ~QueuesReceived(x) /\ ~QueuesNew(x)
    BY <1>1, <2>1 DEF Wanders, Idles, Neutral, Completes, QueuesReceived, QueuesNew, Moves
  <2>. QED  BY <2>2, <2>3
<1>2. ASSUME NEW label \in Neutral, Moves(x, label)
      PROVE  FALSE
  BY <1>2, Neutrals DEF Moves, Claims
<1>3. CASE Starts(x) \/ Completes(x) \/ ReceivesKnown(x) \/ QueuesReceived(x)
  <2>1. {"loop", "receive"} \subseteq Neutral
    BY DEF Neutral
  <2>2. CASE Starts(x)
    <3>1. pc'[x] \in Neutral \cup CommLabel
      BY <2>2 DEF Starts, Moves, Neutral, CommLabel
    <3>. QED  BY <3>1, Neutrals DEF Claims
  <2>. QED  BY <1>2, <1>3, <2>1, <2>2 DEF Completes, ReceivesKnown, QueuesReceived
<1>4. CASE TakesWork(x)
  BY <1>4, Neutrals DEF TakesWork, Moves, Claims
<1>5. CASE FiresKnown(x)
  <2>1. pc[x] = "fire" /\ pc'[x] = "fire" /\ e'[x].state = e[x].state
    BY <1>5 DEF FiresKnown, Fires, Moves
  <2>2. ~Completes(x) /\ ~QueuesReceived(x) /\ ~QueuesNew(x)
    BY <2>1 DEF Completes, QueuesReceived, QueuesNew, Moves
  <2>. QED  BY <2>1, <2>2, Neutrals DEF Claims
<1>6. CASE FiresNew(x)
  <2>1. pc[x] = "fire" /\ e'[x].state = e[x].state /\ pc'[x] \in {"setProcess", "link"}
    BY <1>6 DEF FiresNew, Fires, Moves
  <2>2. ~Completes(x) /\ ~QueuesReceived(x) /\ ~QueuesNew(x)
    BY <2>1 DEF Completes, QueuesReceived, QueuesNew, Moves
  <2>3. pc'[x] \notin Storing
    BY <2>1 DEF Storing, ReceivedLabel
  <2>. QED  BY <1>6, <2>1, <2>2, <2>3, Neutrals DEF Claims
<1>7. CASE Assigns(x)
  <2>1. /\ UNCHANGED <<e, pos>>
        /\ \/ pc[x] \in Placing /\ pc'[x] \in Placing
           \/ pc[x] \in Storing /\ pc'[x] \in Storing
    BY <1>7 DEF Assigns, Moves, local, Placing, Storing
  <2>2. pc[x] \in NewLabel \cup ReceivedLabel
    BY <1>7 DEF Assigns
  <2>3. ~Completes(x) /\ ~QueuesReceived(x) /\ ~QueuesNew(x)
    BY <2>2 DEF Completes, QueuesReceived, QueuesNew, NewLabel, ReceivedLabel
  <2>. QED  BY <2>1, <2>3, Neutrals DEF Claims
<1>8. CASE QueuesNew(x) \/ SendsLink(x)
  <2>1. pc[x] \in {"assign", "link"} /\ pc'[x] = "fire" /\ UNCHANGED e
    BY <1>8 DEF QueuesNew, SendsLink, Queues, Moves, local
  <2>2. n = e[x].state /\ Claims(x, n)
    BY <2>1, Neutrals DEF Claims, Placing
  <2>3. ~Completes(x) /\ ~QueuesReceived(x)
    BY <2>1 DEF Completes, QueuesReceived, Moves
  <2>. QED  BY <2>2, <2>3
<1>9. CASE ReceivesNew(x)
  <2>1. pc'[x] = "storeDiv"
    BY <1>9 DEF ReceivesNew, Moves
  <2>2. pc'[x] \in Storing
    BY <2>1 DEF Storing, ReceivedLabel
  <2>. QED  BY <1>9, <2>2, Neutrals DEF Claims
<1>. QED  BY <1>1, <1>3, <1>4, <1>5, <1>6, <1>7, <1>8, <1>9 DEF Builds, BuilderCases

(* A step of builder x that claims no new node, and queues none. *)
LEMMA OnceKept ==
  ASSUME TypeInv, OnceInv, Grows, NEW x \in Thread, Builds(x), \A n : Claims(x, n)' => Claims(x, n),
         UNCHANGED m_common_stack, pc'[x] \notin Placing \/ Wanders(x) \/ Assigns(x)
  PROVE  OnceInv'
<1>1. \A y \in Thread : \A n : Claims(y, n)' => Claims(y, n)
  BY OthersClaims
<1>2. ASSUME Wanders(x) \/ Assigns(x), pc'[x] \in Placing
      PROVE  pos'[x] # e'[x].state
  <2>1. pc[x] \in Placing /\ pos'[x] = pos[x] /\ e'[x] = e[x]
    <3>1. CASE Wanders(x)
      <4>1. Idles(x) /\ KeepsLocals(x)
        BY <3>1 DEF Wanders, AllIdle, KeepsLocals, local
      <4>. QED  BY <1>2, <4>1, ClaimsKept
    <3>2. CASE Assigns(x)
      BY <1>2, <3>2 DEF Assigns, Moves, local, Placing, NewLabel, ReceivedLabel
    <3>. QED  BY <1>2, <3>1, <3>2
  <2>. QED  BY <2>1 DEF OnceInv
<1>3. \A y \in Thread : pc'[y] \in Placing => pos'[y] # e'[y].state
  BY <1>2, OthersClaims
<1>4. ASSUME NEW p \in Process, NEW n, Queued(p, n) \/ \E y \in Thread : y[1] = p /\ Claims(y, n)',
             Done(p, n)', ~Done(p, n)
      PROVE  FALSE
  <2>1. n \in NodesOf(p)'
    BY <1>1, <1>4, QueuedNodes, ClaimedNodes DEF Grows
  <2>2. Completes(x) /\ p = x[1] /\ n = e[x].state
    BY <1>4, <2>1, Completed
  <2>3. Claims(x, n) /\ pc'[x] = "receive"
    BY <2>2, Neutrals DEF Completes, Claims, Moves
  <2>4. ~Claims(x, n)'
    BY <2>3, Neutrals DEF Claims, Neutral
  <2>5. ~Queued(p, n)
    BY <2>2, <2>3 DEF OnceInv
  <2>6. PICK y \in Thread : y[1] = p /\ Claims(y, n)'
    BY <1>4, <2>5
  <2>7. y = x
    BY <1>1, <2>2, <2>3, <2>6 DEF OnceInv
  <2>. QED  BY <2>4, <2>6, <2>7
<1>. QED  BY <1>1, <1>3, <1>4, OnceSame

(* A new node that builder x claims. *)
LEMMA OnceAdded ==
  ASSUME TypeInv, OnceInv, Grows, NEW x \in Thread, Builds(x), NEW m, m = pos'[x], NEW nd, NEW a,
         AddsNode(x[1], m, nd, a), \A n : Claims(x, n)' => Claims(x, n) \/ n = m,
         UNCHANGED m_common_stack, pc'[x] \in Placing => e'[x].state \in NodesOf(x[1])
  PROVE  OnceInv'
<1>1. x[1] \in Process
  BY ThreadProperties
<1>2. m \notin NodesOf(x[1]) /\ ~Done(x[1], m)'
  BY DEF AddsNode, Done
<1>3. \A y \in Thread : \A n : Claims(y, n)' => Claims(y, n) \/ (y = x /\ n = m)
  BY OthersClaims
<1>4. \A p, n : Queued(p, n)' <=> Queued(p, n)
  BY DEF Queued
<1>5. (\A y \in Thread : y[1] = x[1] => ~Claims(y, m)) /\ ~Queued(x[1], m)
  BY <1>1, <1>2, ClaimedNodes, QueuedNodes
<1>6. \A y \in Thread : pc'[y] \in Placing => pos'[y] # e'[y].state
  BY <1>2, OthersClaims
<1>7. \A p \in Process : Distinct(m_common_stack'[p])
  BY DEF OnceInv
<1>8. ASSUME NEW p \in Process, NEW n, Queued(p, n) \/ \E y \in Thread : y[1] = p /\ Claims(y, n), Done(p, n)'
      PROVE  Done(p, n)
  <2>1. n \in NodesOf(p)
    BY <1>8, QueuedNodes, ClaimedNodes
  <2>. QED  BY <1>8, <2>1 DEF AddsNode, NodesOf, Done
<1>. QED  BY <1>2, <1>3, <1>4, <1>5, <1>6, <1>7, <1>8, OnceMore

LEMMA OnceTaken ==
  ASSUME TypeInv, OnceInv, NEW x \in Thread, Builds(x), TakesWork(x)
  PROVE  OnceInv'
<1>1. PICK p, q, m : p = x[1] /\ q = m_common_stack[p] /\ m = e'[x].state
  OBVIOUS
<1>2. p \in Process /\ q \in Seq(StackedPair) /\ q # <<>> /\ e'[x] = Head(q) /\ Distinct(q)
      /\ m_common_stack'[p] = Tail(q) /\ Elements(q) = Elements(Tail(q)) \cup {Head(q)}
      /\ (\A r \in Process \ {p} : m_common_stack'[r] = m_common_stack[r])
  BY <1>1, ThreadProperties DEF TakesWork, Shrunk, OnceInv, TypeInv, CoreOK
<1>3. /\ Distinct(Tail(q))
      /\ \A z \in Elements(Tail(q)) : z.state # m
  BY <1>1, <1>2, TailDistinct
<1>4. Queued(p, m) /\ ~Queued(p, m)'
  <2>1. e'[x] \in Elements(q)
    BY <1>2
  <2>. QED  BY <1>1, <1>2, <1>3, <2>1 DEF Queued
<1>5. UNCHANGED m_graph
  BY DEF TakesWork
<1>6. \A r, n : Done(r, n)' <=> Done(r, n)
  BY <1>5 DEF Done
<1>7. ~Done(p, m)
  BY <1>2, <1>4 DEF OnceInv
<1>8. \A y \in Thread : \A n : Claims(y, n)' => Claims(y, n) \/ (y = x /\ n = m)
  <2>1. \A n : Claims(x, n)' => n = m
    BY <1>1, Neutrals DEF TakesWork, Moves, Claims
  <2>. QED  BY <2>1, OthersClaims
<1>9. \A y \in Thread : y[1] = p => ~Claims(y, m)
  BY <1>4 DEF OnceInv
<1>10. \A y \in Thread : pc'[y] \in Placing => pos'[y] # e'[y].state
  BY OthersClaims, Neutrals DEF TakesWork, Moves
<1>11. \A r \in Process : Distinct(m_common_stack'[r])
  BY <1>2, <1>3 DEF OnceInv
<1>12. \A r \in Process : \A n : Queued(r, n)' => Queued(r, n)
  BY <1>1, <1>2 DEF Queued
<1>. QED  BY <1>1, <1>4, <1>6, <1>7, <1>8, <1>9, <1>10, <1>11, <1>12, OnceMore

(* A new state goes from its builder to the queue. *)
LEMMA OncePut ==
  ASSUME TypeInv, OnceInv, Grows, NEW x \in Thread, Builds(x), QueuesNew(x) \/ QueuesReceived(x)
  PROVE  OnceInv'
<1>1. PICK m : m = pos[x]
  OBVIOUS
<1>2. Queues(x) /\ Claims(x, m) /\ x[1] \in Process
  BY <1>1, ThreadProperties DEF QueuesNew, QueuesReceived, Claims, Placing, Storing
<1>3. ~Claims(x, m)'
  <2>1. CASE QueuesNew(x)
    <3>1. pc[x] = "assign" /\ m # e[x].state /\ pc'[x] = "fire" /\ e'[x] = e[x]
      BY <1>1, <2>1 DEF OnceInv, QueuesNew, Moves, Queues, local, Placing
    <3>. QED  BY <3>1, Neutrals DEF Claims
  <2>2. CASE QueuesReceived(x)
    BY <2>2, Neutrals DEF QueuesReceived, Moves, Claims, Neutral
  <2>. QED  BY <2>1, <2>2
<1>4. ASSUME NEW n, Claims(x, n)'
      PROVE  Claims(x, n)
  BY <1>4, ClaimsAfter DEF QueuesNew, QueuesReceived, TakesWork, FiresNew, Fires, ReceivesNew
<1>5. \A y \in Thread : \A n : Claims(y, n)' => Claims(y, n)
  BY <1>4, OthersClaims
<1>6. pc'[x] \notin Placing
  BY Neutrals DEF QueuesNew, QueuesReceived, Moves, Neutral
<1>7. \A y \in Thread : pc'[y] \in Placing => pos'[y] # e'[y].state
  BY <1>6, OthersClaims
<1>8. ASSUME NEW p \in Process, NEW n \in NodesOf(p), Done(p, n)'
      PROVE  Done(p, n)
  <2>1. n \in NodesOf(p)'
    BY DEF Grows
  <2>2. ~Completes(x)
    BY DEF QueuesNew, QueuesReceived, Completes
  <2>. QED  BY <1>8, <2>1, <2>2, Completed
<1>. QED  BY <1>1, <1>2, <1>3, <1>5, <1>7, <1>8, OnceQueued

(* The initial aggregate is the first there is. *)
LEMMA OnceStarted ==
  ASSUME TypeInv, OnceInv, NEW x \in Thread, Builds(x), Starts(x), x = Comm(0), ~UNCHANGED m_common_stack
  PROVE  OnceInv'
<1>1. 0 \in Process
  BY ProcessProperties
<1>2. /\ \E nd \in GraphNode : AddsNode(0, 1, nd, InitialAggregate)
      /\ Grown(StackedPair, m_common_stack, m_common_stack', 0, Pair(1, FirableObs[InitialAggregate]))
      /\ \A p \in Process : NothingIn(p)
  BY Zenon DEF Starts, queues
<1>3. ASSUME NEW y \in Thread, NEW n
      PROVE  ~Claims(y, n) /\ ~Claims(y, n)'
  <2>1. NodesOf(y[1]) = {}
    BY <1>2, ThreadProperties DEF NothingIn
  <2>2. ~Claims(y, n)
    BY <2>1, ClaimedNodes
  <2>3. CASE y = x
    <3>1. pc'[x] \in Neutral \cup CommLabel
      BY DEF Starts, Moves, Neutral, CommLabel
    <3>. QED  BY <2>2, <2>3, <3>1, Neutrals DEF Claims
  <2>4. CASE y # x
    BY <2>2, <2>4, OthersClaims
  <2>. QED  BY <2>2, <2>3, <2>4
<1>4. \A y \in Thread : pc'[y] \notin Placing
  <2>1. ASSUME NEW y \in Thread, pc'[y] \in Placing
        PROVE  FALSE
    <3>1. PICK n : n = e'[y].state
      OBVIOUS
    <3>2. Claims(y, n)'
      BY <2>1, <3>1, Neutrals DEF Claims
    <3>. QED  BY <1>3, <3>2
  <2>. QED  BY <2>1
<1>5. /\ m_common_stack'[0] = <<Pair(1, FirableObs[InitialAggregate])>>
      /\ \A p \in Process \ {0} : m_common_stack'[p] = <<>>
  <2>1. PICK z : z = Pair(1, FirableObs[InitialAggregate])
    OBVIOUS
  <2>2. m_common_stack[0] = <<>> /\ \A p \in Process : m_common_stack[p] = <<>>
    BY <1>1, <1>2 DEF NothingIn
  <2>3. m_common_stack'[0] = Append(<<>>, z) /\ \A p \in Process \ {0} : m_common_stack'[p] = <<>>
    BY <1>2, <2>1, <2>2 DEF Grown
  <2>4. Append(<<>>, z) = <<z>>
    OBVIOUS
  <2>. QED  BY <2>1, <2>3, <2>4
<1>6. \A p \in Process : Distinct(m_common_stack'[p])
  BY <1>1, <1>5 DEF Distinct
<1>7. ASSUME NEW p \in Process, NEW n, Queued(p, n)'
      PROVE  ~Done(p, n)'
  <2>1. PICK z \in Elements(m_common_stack'[p]) : z.state = n
    BY <1>7 DEF Queued, Elements
  <2>2. p = 0 /\ n = 1
    BY <1>5, <2>1 DEF Elements, Pair
  <2>. QED  BY <1>2, <2>2 DEF AddsNode, Done
<1>. QED  BY <1>3, <1>4, <1>6, <1>7 DEF OnceInv, Distinct

LEMMA OnceBuilt ==
  ASSUME TypeInv, OnceInv, Grows, NEW x \in Thread, Builds(x)
  PROVE  OnceInv'
<1>1. CASE Starts(x) /\ ~UNCHANGED m_common_stack
  BY <1>1, OnceStarted DEF Starts, queues
<1>2. CASE TakesWork(x)
  BY <1>2, OnceTaken
<1>3. CASE QueuesNew(x) \/ QueuesReceived(x)
  BY <1>3, OncePut
<1>4. ASSUME NEW n, Claims(x, n)', ~TakesWork(x), ~ReceivesNew(x), ~FiresNew(x) \/ pc'[x] \notin Placing
      PROVE  Claims(x, n)
  BY <1>4, ClaimsAfter
<1>5. CASE \/ Starts(x) /\ UNCHANGED m_common_stack
           \/ FiresKnown(x) \/ SendsLink(x) \/ Completes(x) \/ ReceivesKnown(x)
           \/ FiresNew(x) /\ pc'[x] \notin Placing
  <2>1. UNCHANGED m_common_stack /\ pc'[x] \notin Placing
    BY <1>5 DEF Placing, NewLabel, Starts, FiresKnown, FiresNew, Fires, SendsLink, Completes, ReceivesKnown, Moves, queues
  <2>2. ~TakesWork(x) /\ ~ReceivesNew(x)
    BY <1>5 DEF Starts, FiresKnown, FiresNew, Fires, SendsLink, Completes, ReceivesKnown,
                ReceivesNew, TakesWork, Moves
  <2>3. ~FiresNew(x) \/ pc'[x] \notin Placing
    BY <2>1
  <2>. QED  BY <1>4, <2>1, <2>2, <2>3, OnceKept
<1>6. CASE Wanders(x) \/ Assigns(x)
  <2>1. UNCHANGED m_common_stack
    BY <1>6 DEF Wanders, Assigns, queues
  <2>2. ASSUME Assigns(x)
        PROVE  ~TakesWork(x) /\ ~ReceivesNew(x) /\ ~FiresNew(x)
    BY <2>2 DEF Assigns, TakesWork, ReceivesNew, FiresNew, Fires, NewLabel, ReceivedLabel
  <2>3. \A n : Claims(x, n)' => Claims(x, n)
    <3>1. CASE Wanders(x)
      <4>1. Idles(x) /\ KeepsLocals(x)
        BY <3>1 DEF Wanders, AllIdle, KeepsLocals, local
      <4>. QED  BY <4>1, ClaimsKept
    <3>. QED  BY <1>4, <1>6, <2>2, <3>1
  <2>. QED  BY <1>6, <2>1, <2>3, OnceKept
<1>7. CASE (FiresNew(x) /\ pc'[x] \in Placing) \/ ReceivesNew(x)
  <2>1. PICK m : m = pos'[x]
    OBVIOUS
  <2>2. UNCHANGED m_common_stack /\ \E nd, a : AddsNode(x[1], m, nd, a)
    BY <1>7, <2>1 DEF FiresNew, Fires, ReceivesNew, queues
  <2>3. pc'[x] \in Placing => e'[x].state \in NodesOf(x[1])
    BY <1>7 DEF Placing, NewLabel, FiresNew, Fires, ReceivesNew, Moves
  <2>4. ~TakesWork(x)
    BY <1>7 DEF FiresNew, Fires, ReceivesNew, TakesWork
  <2>5. \A n : Claims(x, n)' => Claims(x, n) \/ n = m
    BY <2>1, <2>4, ClaimsAfter
  <2>. QED  BY <2>1, <2>2, <2>3, <2>5, OnceAdded
<1>. QED  BY <1>1, <1>2, <1>3, <1>5, <1>6, <1>7 DEF Builds, BuilderCases

LEMMA NextOnce ==
  ASSUME TypeInv, OnceInv, [Next]_vars
  PROVE  OnceInv'
<1>1. Constructs \/ Rests
  BY StepCases, TalkRests
<1>2. Grows
  BY <1>1, StepGrows
<1>3. ASSUME UNCHANGED <<m_graph, m_common_stack, local>>, \A y \in Thread : Idles(y) \/ y[2] = 0
      PROVE  OnceInv'
  <2>1. ASSUME NEW y \in Thread
        PROVE  /\ \A n : Claims(y, n)' => Claims(y, n)
               /\ pc'[y] \in Placing => pos'[y] # e'[y].state
    <3>1. KeepsLocals(y)
      BY <1>3 DEF KeepsLocals, local
    <3>2. CASE Idles(y)
      BY <3>1, <3>2, ClaimsKept DEF OnceInv
    <3>3. CASE y[2] = 0
      <4>1. pc'[y] \in CommLabel
        BY <3>3, NextTyped DEF TypeInv, LabelsOK
      <4>. QED  BY <4>1, Neutrals DEF Claims
    <3>. QED  BY <1>3, <3>2, <3>3
  <2>2. \A p, n : Done(p, n)' <=> Done(p, n)
    BY <1>3 DEF Done
  <2>. QED  BY <1>3, <2>1, <2>2, OnceSame
<1>4. ASSUME NEW p \in Process, Carries(p)
      PROVE  OnceInv'
  <2>1. Comm(p) \in Thread /\ Comm(p)[2] = 0
    BY CommProperties
  <2>2. UNCHANGED <<m_graph, m_common_stack, local>>
    BY <1>4 DEF Carries, TakesMessage, DropsMessage, SendsState, ReadsState, queues
  <2>3. \A y \in Thread : Idles(y) \/ y[2] = 0
    BY <1>4, <2>1 DEF Carries, TakesMessage, DropsMessage, SendsState, ReadsState, Moves, AllIdle
  <2>. QED  BY <1>3, <2>2, <2>3
<1>5. CASE Rests
  BY <1>3, <1>5 DEF Rests, AllIdle, queues
<1>6. ASSUME NEW x \in Thread, Builds(x)
      PROVE  OnceInv'
  BY <1>2, <1>6, OnceBuilt
<1>. QED  BY <1>1, <1>4, <1>5, <1>6 DEF Constructs

-----------------------------------------------------------------------------
(* What the processes and the checker have of the SOG, all together.       *)

Known == AggregatesOf(Nodes)
Edges == UNION {EdgesOf(pn[1], pn[2]) : pn \in Nodes}
Final == AggregatesOf({pn \in Nodes : m_graph[pn[1]][pn[2]].m_completed})
Read == IF Zeroed THEN {x.id : x \in {y \in kripke : y.named}} ELSE {}

IsKnown(g, a) == \E p \in Process : \E n \in DOMAIN g[p] : a = g[p][n].m_lddstate
IsEdge(g, d) ==
  \E p \in Process : \E n \in DOMAIN g[p] : \E u \in Links(g[p][n]) :
    d = <<g[p][n].m_lddstate, u.t, g[p][u.to].m_lddstate>>
IsFinal(g, a) ==
  \E p \in Process : \E n \in DOMAIN g[p] : g[p][n].m_completed /\ a = g[p][n].m_lddstate

LEMMA NodesAre ==
  /\ \A pn \in Nodes : pn[1] \in Process /\ pn[2] \in DOMAIN m_graph[pn[1]]
  /\ \A p \in Process : \A n \in DOMAIN m_graph[p] : \E pn \in Nodes : pn[1] = p /\ pn[2] = n
  /\ \A pn \in Nodes' : pn[1] \in Process /\ pn[2] \in DOMAIN m_graph'[pn[1]]
  /\ \A p \in Process : \A n \in DOMAIN m_graph'[p] : \E pn \in Nodes' : pn[1] = p /\ pn[2] = n
<1>1. \A pn : pn \in Nodes <=> \E p \in Process : \E n \in DOMAIN m_graph[p] : pn = <<p, n>>
  BY DEF Nodes
<1>2. \A pn : pn \in Nodes' <=> \E p \in Process : \E n \in DOMAIN m_graph'[p] : pn = <<p, n>>
  BY DEF Nodes
<1>3. \A pn \in Nodes : pn[1] \in Process /\ pn[2] \in DOMAIN m_graph[pn[1]]
  BY <1>1
<1>4. \A pn \in Nodes' : pn[1] \in Process /\ pn[2] \in DOMAIN m_graph'[pn[1]]
  BY <1>2
<1>5. ASSUME NEW p \in Process, NEW n \in DOMAIN m_graph[p]
      PROVE  \E pn \in Nodes : pn[1] = p /\ pn[2] = n
  <2>1. <<p, n>> \in Nodes
    BY <1>1
  <2>. QED  BY <2>1
<1>6. ASSUME NEW p \in Process, NEW n \in DOMAIN m_graph'[p]
      PROVE  \E pn \in Nodes' : pn[1] = p /\ pn[2] = n
  <2>1. <<p, n>> \in Nodes'
    BY <1>2
  <2>. QED  BY <2>1
<1>. QED  BY <1>3, <1>4, <1>5, <1>6

LEMMA KnownAre ==
  /\ \A a : a \in Known <=> IsKnown(m_graph, a)
  /\ \A a : a \in Known' <=> IsKnown(m_graph', a)
<1>1. \A a : a \in Known <=> \E pn \in Nodes : a = m_graph[pn[1]][pn[2]].m_lddstate
  BY DEF Known, AggregatesOf
<1>2. \A a : a \in Known' <=> \E pn \in Nodes' : a = m_graph'[pn[1]][pn[2]].m_lddstate
  BY DEF Known, AggregatesOf
<1>3. \A a : a \in Known <=> IsKnown(m_graph, a)
  BY <1>1, NodesAre DEF IsKnown
<1>4. \A a : a \in Known' <=> IsKnown(m_graph', a)
  BY <1>2, NodesAre DEF IsKnown
<1>. QED  BY <1>3, <1>4

LEMMA FinalAre ==
  /\ \A a : a \in Final <=> IsFinal(m_graph, a)
  /\ \A a : a \in Final' <=> IsFinal(m_graph', a)
<1>1. \A a : a \in Final <=>
        \E pn \in Nodes : m_graph[pn[1]][pn[2]].m_completed /\ a = m_graph[pn[1]][pn[2]].m_lddstate
  BY DEF Final, AggregatesOf
<1>2. \A a : a \in Final' <=>
        \E pn \in Nodes' : m_graph'[pn[1]][pn[2]].m_completed /\ a = m_graph'[pn[1]][pn[2]].m_lddstate
  BY DEF Final, AggregatesOf
<1>3. \A a : a \in Final <=> IsFinal(m_graph, a)
  BY <1>1, NodesAre DEF IsFinal
<1>4. \A a : a \in Final' <=> IsFinal(m_graph', a)
  BY <1>2, NodesAre DEF IsFinal
<1>. QED  BY <1>3, <1>4

LEMMA EdgesAre ==
  /\ \A d : d \in Edges <=> IsEdge(m_graph, d)
  /\ \A d : d \in Edges' <=> IsEdge(m_graph', d)
<1>1. \A p, n, d : d \in EdgesOf(p, n) <=>
        \E u \in Links(m_graph[p][n]) : d = <<m_graph[p][n].m_lddstate, u.t, m_graph[p][u.to].m_lddstate>>
  BY DEF EdgesOf, Links
<1>2. \A p, n, d : d \in EdgesOf(p, n)' <=>
        \E u \in Links(m_graph'[p][n]) : d = <<m_graph'[p][n].m_lddstate, u.t, m_graph'[p][u.to].m_lddstate>>
  BY DEF EdgesOf, Links
<1>3. \A d : d \in Edges <=> \E pn \in Nodes : d \in EdgesOf(pn[1], pn[2])
  BY DEF Edges
<1>4. \A d : d \in Edges' <=> \E pn \in Nodes' : d \in EdgesOf(pn[1], pn[2])'
  BY DEF Edges
<1>5. \A d : d \in Edges <=> \E p \in Process : \E n \in DOMAIN m_graph[p] : d \in EdgesOf(p, n)
  BY <1>3, NodesAre
<1>6. \A d : d \in Edges' <=> \E p \in Process : \E n \in DOMAIN m_graph'[p] : d \in EdgesOf(p, n)'
  BY <1>4, NodesAre
<1>7. \A d : d \in Edges <=> IsEdge(m_graph, d)
  BY <1>1, <1>5 DEF IsEdge
<1>8. \A d : d \in Edges' <=> IsEdge(m_graph', d)
  BY <1>2, <1>6 DEF IsEdge
<1>. QED  BY <1>7, <1>8

LEMMA SameThings ==
  ASSUME UNCHANGED m_graph
  PROVE  Known' = Known /\ Edges' = Edges /\ Final' = Final
<1>1. m_graph' = m_graph
  OBVIOUS
<1>2. \A a : a \in Known' <=> a \in Known
  BY <1>1, KnownAre
<1>3. \A a : a \in Edges' <=> a \in Edges
  BY <1>1, EdgesAre
<1>4. \A a : a \in Final' <=> a \in Final
  BY <1>1, FinalAre
<1>. QED  BY <1>2, <1>3, <1>4

LEMMA AddedThings ==
  ASSUME EdgesOK, NEW p \in Process, NEW n, NEW nd, NEW a, AddsNode(p, n, nd, a)
  PROVE  Known' = Known \cup {a} /\ Edges' = Edges /\ Final' = Final
<1>1. /\ n \in DOMAIN m_graph'[p] /\ n \notin DOMAIN m_graph[p]
      /\ m_graph'[p][n].m_lddstate = a /\ Links(m_graph'[p][n]) = {} /\ ~m_graph'[p][n].m_completed
  BY DEF AddsNode, NodesOf
<1>2. \A q \in Process : \A k \in DOMAIN m_graph[q] : k \in DOMAIN m_graph'[q] /\ m_graph'[q][k] = m_graph[q][k]
  BY DEF AddsNode, NodesOf
<1>3. \A q \in Process : \A k \in DOMAIN m_graph'[q] : k \in DOMAIN m_graph[q] \/ (q = p /\ k = n)
  BY DEF AddsNode, NodesOf
<1>4. \A q \in Process : \A k \in DOMAIN m_graph[q] : \A u \in Links(m_graph[q][k]) : u.to \in DOMAIN m_graph[q]
  BY DEF EdgesOK, NodesOf
<1>5. \A b : b \in Known' <=> b \in Known \/ b = a
  <2>1. \A b : IsKnown(m_graph', b) => IsKnown(m_graph, b) \/ b = a
    BY <1>1, <1>2, <1>3 DEF IsKnown
  <2>2. \A b : IsKnown(m_graph, b) \/ b = a => IsKnown(m_graph', b)
    BY <1>1, <1>2 DEF IsKnown
  <2>. QED  BY <2>1, <2>2, KnownAre
<1>6. \A b : b \in Final' <=> b \in Final
  <2>1. \A b : IsFinal(m_graph', b) => IsFinal(m_graph, b)
    BY <1>1, <1>2, <1>3 DEF IsFinal
  <2>2. \A b : IsFinal(m_graph, b) => IsFinal(m_graph', b)
    BY <1>2 DEF IsFinal
  <2>. QED  BY <2>1, <2>2, FinalAre
<1>7. \A d : d \in Edges' <=> d \in Edges
  <2>1. ASSUME NEW d, IsEdge(m_graph', d)
        PROVE  IsEdge(m_graph, d)
    <3>1. PICK q \in Process : \E k \in DOMAIN m_graph'[q] : \E u \in Links(m_graph'[q][k]) :
            d = <<m_graph'[q][k].m_lddstate, u.t, m_graph'[q][u.to].m_lddstate>>
      BY <2>1 DEF IsEdge
    <3>2. PICK k \in DOMAIN m_graph'[q] : \E u \in Links(m_graph'[q][k]) :
            d = <<m_graph'[q][k].m_lddstate, u.t, m_graph'[q][u.to].m_lddstate>>
      BY <3>1
    <3>3. k \in DOMAIN m_graph[q] /\ m_graph'[q][k] = m_graph[q][k]
      BY <1>1, <1>2, <1>3, <3>2
    <3>. QED  BY <1>2, <1>4, <3>2, <3>3 DEF IsEdge
  <2>2. ASSUME NEW d, IsEdge(m_graph, d)
        PROVE  IsEdge(m_graph', d)
    <3>1. PICK q \in Process : \E k \in DOMAIN m_graph[q] : \E u \in Links(m_graph[q][k]) :
            d = <<m_graph[q][k].m_lddstate, u.t, m_graph[q][u.to].m_lddstate>>
      BY <2>2 DEF IsEdge
    <3>. QED  BY <1>2, <1>4, <3>1 DEF IsEdge
  <2>. QED  BY <2>1, <2>2, EdgesAre
<1>. QED  BY <1>5, <1>6, <1>7

LEMMA EditedThings ==
  ASSUME EdgesOK, NEW p \in Process, NEW N, NEW C, NEW n, NEW L, Edits(p, N, C, n, L), n \in NodesOf(p),
         \A u \in L : u.to \in NodesOf(p)
  PROVE  /\ Known' = Known
         /\ \A d : d \in Edges' <=> d \in Edges \/ \E u \in L : d = <<Agg(p, n), u.t, Agg(p, u.to)>>
         /\ \A b : b \in Final' <=> b \in Final \/ \E k \in C : k \in NodesOf(p) /\ b = Agg(p, k)
<1>1. \A q \in Process : /\ DOMAIN m_graph'[q] = DOMAIN m_graph[q]
                         /\ \A k \in DOMAIN m_graph[q] : m_graph'[q][k].m_lddstate = m_graph[q][k].m_lddstate
  BY DEF Edits, EditsGraph
<1>2. \A q \in Process : \A k \in DOMAIN m_graph[q] :
        m_graph'[q][k].m_completed <=> m_graph[q][k].m_completed \/ (q = p /\ k \in C)
  BY DEF Edits, EditsGraph
<1>3. \A q \in Process : \A k \in DOMAIN m_graph[q] :
        /\ ~(q = p /\ k = n) => Links(m_graph'[q][k]) = Links(m_graph[q][k])
        /\ q = p /\ k = n => Links(m_graph'[q][k]) = Links(m_graph[q][k]) \cup L
  BY DEF Edits, EditsGraph
<1>4. \A q \in Process : \A k \in DOMAIN m_graph[q] : \A u \in Links(m_graph[q][k]) : u.to \in DOMAIN m_graph[q]
  BY DEF EdgesOK, NodesOf
<1>5. \A b : b \in Known' <=> b \in Known
  <2>1. \A b : IsKnown(m_graph', b) <=> IsKnown(m_graph, b)
    BY <1>1 DEF IsKnown
  <2>. QED  BY <2>1, KnownAre
<1>6. \A b : b \in Final' <=> b \in Final \/ \E k \in C : k \in NodesOf(p) /\ b = Agg(p, k)
  <2>1. \A b : IsFinal(m_graph', b) => IsFinal(m_graph, b) \/ \E k \in C : k \in NodesOf(p) /\ b = Agg(p, k)
    BY <1>1, <1>2 DEF IsFinal, NodesOf, Agg
  <2>2. \A b : IsFinal(m_graph, b) \/ (\E k \in C : k \in NodesOf(p) /\ b = Agg(p, k)) => IsFinal(m_graph', b)
    BY <1>1, <1>2 DEF IsFinal, NodesOf, Agg
  <2>. QED  BY <2>1, <2>2, FinalAre
<1>7. \A d : d \in Edges' <=> d \in Edges \/ \E u \in L : d = <<Agg(p, n), u.t, Agg(p, u.to)>>
  <2>1. ASSUME NEW d, IsEdge(m_graph', d)
        PROVE  IsEdge(m_graph, d) \/ \E u \in L : d = <<Agg(p, n), u.t, Agg(p, u.to)>>
    <3>1. PICK q \in Process : \E k \in DOMAIN m_graph'[q] : \E u \in Links(m_graph'[q][k]) :
            d = <<m_graph'[q][k].m_lddstate, u.t, m_graph'[q][u.to].m_lddstate>>
      BY <2>1 DEF IsEdge
    <3>2. PICK k \in DOMAIN m_graph'[q] : \E u \in Links(m_graph'[q][k]) :
            d = <<m_graph'[q][k].m_lddstate, u.t, m_graph'[q][u.to].m_lddstate>>
      BY <3>1
    <3>3. PICK u \in Links(m_graph'[q][k]) : d = <<m_graph'[q][k].m_lddstate, u.t, m_graph'[q][u.to].m_lddstate>>
      BY <3>2
    <3>4. k \in DOMAIN m_graph[q]
      BY <1>1, <3>2
    <3>5. CASE u \in Links(m_graph[q][k])
      BY <1>1, <1>4, <3>3, <3>4, <3>5 DEF IsEdge
    <3>6. CASE u \notin Links(m_graph[q][k])
      BY <1>1, <1>3, <3>3, <3>4, <3>6 DEF NodesOf, Agg
    <3>. QED  BY <3>5, <3>6
  <2>2. ASSUME NEW d, IsEdge(m_graph, d)
        PROVE  IsEdge(m_graph', d)
    <3>1. PICK q \in Process : \E k \in DOMAIN m_graph[q] : \E u \in Links(m_graph[q][k]) :
            d = <<m_graph[q][k].m_lddstate, u.t, m_graph[q][u.to].m_lddstate>>
      BY <2>2 DEF IsEdge
    <3>2. PICK k \in DOMAIN m_graph[q] : \E u \in Links(m_graph[q][k]) :
            d = <<m_graph[q][k].m_lddstate, u.t, m_graph[q][u.to].m_lddstate>>
      BY <3>1
    <3>3. PICK u \in Links(m_graph[q][k]) : d = <<m_graph[q][k].m_lddstate, u.t, m_graph[q][u.to].m_lddstate>>
      BY <3>2
    <3>4. u \in Links(m_graph'[q][k])
      BY <1>3, <3>2, <3>3
    <3>. QED  BY <1>1, <1>4, <3>2, <3>3, <3>4 DEF IsEdge
  <2>3. ASSUME NEW u \in L
        PROVE  IsEdge(m_graph', <<Agg(p, n), u.t, Agg(p, u.to)>>)
    <3>1. u \in Links(m_graph'[p][n]) /\ n \in DOMAIN m_graph'[p] /\ u.to \in DOMAIN m_graph[p]
      BY <1>1, <1>3 DEF NodesOf
    <3>. QED  BY <1>1, <3>1 DEF IsEdge, Agg, NodesOf
  <2>. QED  BY <2>1, <2>2, <2>3, EdgesAre
<1>. QED  BY <1>5, <1>6, <1>7

LEMMA ThingsGrow ==
  ASSUME EdgesOK, NEW p \in Process, GraphCases(p)
  PROVE  Known \subseteq Known' /\ Edges \subseteq Edges'
<1>1. CASE UNCHANGED m_graph
  BY <1>1, SameThings
<1>2. ASSUME NEW n, NEW nd, NEW a, AddsNode(p, n, nd, a)
      PROVE  Known \subseteq Known' /\ Edges \subseteq Edges'
  BY <1>2, AddedThings
<1>3. ASSUME NEW N, NEW C, NEW n, NEW L, RightEdits(p, N, C, n, L)
      PROVE  Known \subseteq Known' /\ Edges \subseteq Edges'
  BY <1>3, EditedThings DEF RightEdits
<1>. QED  BY <1>1, <1>2, <1>3 DEF GraphCases

LEMMA StepThings ==
  ASSUME TypeInv, [Next]_vars
  PROVE  Known \subseteq Known' /\ Edges \subseteq Edges'
<1>1. PICK p \in Process : GraphCases(p)
  BY StepCases, TalkRests, GraphSteps
<1>. QED  BY <1>1, ThingsGrow DEF TypeInv

-----------------------------------------------------------------------------
(* What travels between the processes is an aggregate that one of them has. *)
KnownInv ==
  /\ \A p \in Process : \A a \in Elements(m_received_msg[p]) : a \in Known
  /\ \A p \in Process : \A a \in Elements(m_tosend_msg[p]) : a \in Known
  /\ \A p \in Process : \A a \in s[p] : a \in Known
  /\ \A p, q \in Process : \A a \in Travel(p, q) : a \in Known

LEMMA InitKnown ==
  ASSUME Init
  PROVE  KnownInv
<1>1. \A p \in Process : Elements(m_received_msg[p]) = {} /\ Elements(m_tosend_msg[p]) = {} /\ s[p] = {}
  BY DEF Init, Elements
<1>2. chan = [c \in Channel |-> <<>>]
  BY DEF Init, Channel
<1>3. \A p, q \in Process : chan[<<p, q>>] = <<>>
  BY <1>2, ChannelProperties
<1>4. \A p, q \in Process : Travel(p, q) = {}
  BY <1>3, Singles DEF Travel
<1>. QED  BY <1>1, <1>4 DEF KnownInv

LEMMA KnownNode ==
  ASSUME NEW p \in Process, NEW n \in NodesOf(p)
  PROVE  Agg(p, n) \in Known
<1>1. IsKnown(m_graph, Agg(p, n))
  BY DEF IsKnown, NodesOf, Agg
<1>. QED  BY <1>1, KnownAre

LEMMA BuildKnown ==
  ASSUME TypeInv, KnownInv, NEW x \in Thread, Builds(x), NEW q \in Process
  PROVE  /\ \A a \in Elements(m_received_msg'[q]) : a \in Elements(m_received_msg[q])
         /\ \A a \in Elements(m_tosend_msg'[q]) : a \in Elements(m_tosend_msg[q]) \/ a \in Known \/ a \in Known'
<1>1. UNCHANGED m_received_msg \/ \E v : Shrunk(Aggregate, m_received_msg, m_received_msg', x[1], v)
  BY DEF Builds, Starts, BuilderCases, Wanders, TakesWork, FiresKnown, FiresNew, Fires, Assigns, QueuesNew, SendsLink,
         Queues, Completes, ReceivesKnown, ReceivesNew, QueuesReceived, queues
<1>2. \A a \in Elements(m_received_msg'[q]) : a \in Elements(m_received_msg[q])
  BY <1>1 DEF Shrunk
<1>3. CASE UNCHANGED m_tosend_msg
  BY <1>2, <1>3
<1>4. CASE SendsLink(x)
  <2>1. /\ x[1] \in Process /\ pos[x] \in NodesOf(x[1])
        /\ Grown(Aggregate, m_tosend_msg, m_tosend_msg', x[1], Agg(x[1], pos[x]))
    BY <1>4, ThreadProperties DEF SendsLink, AddsEdge
  <2>2. Agg(x[1], pos[x]) \in Known
    BY <2>1, KnownNode
  <2>3. \A a \in Elements(m_tosend_msg'[q]) : a \in Elements(m_tosend_msg[q]) \/ a = Agg(x[1], pos[x])
    BY <2>1 DEF Grown
  <2>. QED  BY <1>2, <2>2, <2>3
<1>5. CASE Starts(x) /\ ~UNCHANGED m_tosend_msg
  <2>1. PICK nd : AddsNode(0, 1, nd, InitialAggregate)
    BY <1>5 DEF Starts, queues
  <2>2. Grown(Aggregate, m_tosend_msg, m_tosend_msg', 0, InitialAggregate)
    BY <1>5 DEF Starts, queues
  <2>3. InitialAggregate \in Known'
    BY <2>1, ProcessProperties, AddedThings DEF TypeInv
  <2>4. \A a \in Elements(m_tosend_msg'[q]) : a \in Elements(m_tosend_msg[q]) \/ a = InitialAggregate
    BY <2>2 DEF Grown
  <2>. QED  BY <1>2, <2>3, <2>4
<1>6. BuilderCases(x) /\ ~SendsLink(x) => UNCHANGED m_tosend_msg
  BY DEF BuilderCases, Wanders, TakesWork, FiresKnown, FiresNew, Fires, Assigns, QueuesNew,
         Queues, Completes, ReceivesKnown, ReceivesNew, QueuesReceived, queues
<1>. QED  BY <1>3, <1>4, <1>5, <1>6 DEF Builds

LEMMA CarryKnown ==
  ASSUME TypeInv, KnownInv, NEW r \in Process, Carries(r)
  PROVE  /\ \A p \in Process : \A a \in Elements(m_received_msg'[p]) : a \in Known
         /\ \A p \in Process : \A a \in Elements(m_tosend_msg'[p]) : a \in Known
         /\ \A p \in Process : \A a \in s'[p] : a \in Known
         /\ \A p, q \in Process : \A a \in Travel(p, q)' : a \in Known
<1>1. CASE TakesMessage(r)
  <2>1. PICK v : Shrunk(Aggregate, m_tosend_msg, m_tosend_msg', r, v) /\ Holds(r, {v})
    BY <1>1 DEF TakesMessage
  <2>2. v \in Elements(m_tosend_msg[r]) /\ v \in Known
    BY <2>1 DEF Shrunk, KnownInv
  <2>3. \A p \in Process : \A a \in Elements(m_tosend_msg'[p]) : a \in Elements(m_tosend_msg[p])
    BY <2>1 DEF Shrunk
  <2>4. \A p \in Process : \A a \in s'[p] : a \in s[p] \/ a = v
    BY <2>1 DEF Holds
  <2>5. \A p, q \in Process : Travel(p, q)' = Travel(p, q)
    BY <1>1, SameTravelled DEF TakesMessage
  <2>. QED  BY <1>1, <2>2, <2>3, <2>4, <2>5 DEF TakesMessage, KnownInv
<1>2. CASE DropsMessage(r)
  <2>1. PICK v : Shrunk(Aggregate, m_tosend_msg, m_tosend_msg', r, v)
    BY <1>2 DEF DropsMessage
  <2>2. \A p \in Process : \A a \in Elements(m_tosend_msg'[p]) : a \in Elements(m_tosend_msg[p])
    BY <2>1 DEF Shrunk
  <2>3. \A p, q \in Process : Travel(p, q)' = Travel(p, q)
    BY <1>2, SameTravelled DEF DropsMessage
  <2>. QED  BY <1>2, <2>2, <2>3 DEF DropsMessage, KnownInv
<1>3. CASE SendsState(r)
  <2>1. PICK v \in s[r] : \A u, w \in Process :
          Travel(u, w)' = IF u = r /\ w = destination[v] THEN Travel(u, w) \cup {v} ELSE Travel(u, w)
    BY <1>3 DEF SendsState
  <2>2. v \in Known
    BY DEF KnownInv
  <2>3. \A p, q \in Process : \A a \in Travel(p, q)' : a \in Travel(p, q) \/ a = v
    BY <2>1
  <2>4. \A p \in Process : \A a \in s'[p] : a \in s[p]
    BY <1>3 DEF SendsState, Holds
  <2>5. m_tosend_msg' = m_tosend_msg /\ m_received_msg' = m_received_msg
    BY <1>3 DEF SendsState, queues
  <2>. QED  BY <2>2, <2>3, <2>4, <2>5 DEF KnownInv
<1>4. ASSUME NEW u \in Process, ReadsState(r, u)
      PROVE  /\ \A p \in Process : \A a \in Elements(m_received_msg'[p]) : a \in Known
             /\ \A p \in Process : \A a \in Elements(m_tosend_msg'[p]) : a \in Known
             /\ \A p \in Process : \A a \in s'[p] : a \in Known
             /\ \A p, q \in Process : \A a \in Travel(p, q)' : a \in Known
  <2>1. PICK v \in Travel(u, r) :
          /\ Grown(Aggregate, m_received_msg, m_received_msg', r, v)
          /\ Travel(u, r) = Travel(u, r)' \cup {v}
          /\ \A w, z \in Process : <<w, z>> # <<u, r>> => Travel(w, z)' = Travel(w, z)
    BY <1>4 DEF ReadsState
  <2>2. v \in Known
    BY DEF KnownInv
  <2>3. \A p \in Process : \A a \in Elements(m_received_msg'[p]) : a \in Elements(m_received_msg[p]) \/ a = v
    BY <2>1 DEF Grown
  <2>4. \A p, q \in Process : \A a \in Travel(p, q)' : a \in Travel(p, q)
    BY <2>1
  <2>5. m_tosend_msg' = m_tosend_msg /\ s' = s
    BY <1>4 DEF ReadsState
  <2>. QED  BY <2>2, <2>3, <2>4, <2>5 DEF KnownInv
<1>. QED  BY <1>1, <1>2, <1>3, <1>4 DEF Carries

LEMMA NextKnown ==
  ASSUME TypeInv, KnownInv, [Next]_vars
  PROVE  KnownInv'
<1>1. Constructs \/ Rests
  BY StepCases, TalkRests
<1>2. Known \subseteq Known'
  BY StepThings
<1>3. \/ Rests
      \/ \E x \in Thread : Builds(x)
      \/ \E p \in Process : Carries(p)
  BY <1>1 DEF Constructs
<1>4. CASE Rests
  <2>1. m_received_msg' = m_received_msg /\ m_tosend_msg' = m_tosend_msg /\ s' = s
    BY <1>4 DEF Rests, queues
  <2>2. \A p, q \in Process : Travel(p, q)' = Travel(p, q)
    BY <1>4, SameTravelled DEF Rests
  <2>. QED  BY <1>2, <2>1, <2>2 DEF KnownInv
<1>5. ASSUME NEW x \in Thread, Builds(x)
      PROVE  KnownInv'
  <2>1. s' = s /\ \A p, q \in Process : Travel(p, q)' = Travel(p, q)
    BY <1>5, SameTravelled DEF Builds
  <2>2. \A q \in Process : \A a \in Elements(m_received_msg'[q]) : a \in Known'
    BY <1>2, <1>5, BuildKnown DEF KnownInv
  <2>3. \A q \in Process : \A a \in Elements(m_tosend_msg'[q]) : a \in Known'
    BY <1>2, <1>5, BuildKnown DEF KnownInv
  <2>. QED  BY <1>2, <2>1, <2>2, <2>3 DEF KnownInv
<1>6. ASSUME NEW r \in Process, Carries(r)
      PROVE  KnownInv'
  <2>1. /\ \A p \in Process : \A a \in Elements(m_received_msg'[p]) : a \in Known
        /\ \A p \in Process : \A a \in Elements(m_tosend_msg'[p]) : a \in Known
        /\ \A p \in Process : \A a \in s'[p] : a \in Known
        /\ \A p, q \in Process : \A a \in Travel(p, q)' : a \in Known
    BY <1>6, CarryKnown
  <2>. QED  BY <1>2, <2>1 DEF KnownInv
<1>. QED  BY <1>3, <1>4, <1>5, <1>6

-----------------------------------------------------------------------------
(* What the checker has obtained, and asks for next, by identifiers hangs  *)
(* together: the aggregates are reached by edges from the initial one, and *)
(* all the edges of those it has are there.                                *)
Arrow(a, u) == <<a, u, Successor[<<a, u>>]>>
HasArrows(a) == \A u \in FirableObs[a] : Arrow(a, u) \in Edges
Reached(a) == a = InitialAggregate \/ \E d \in Edges : d[1] \in Read /\ d[3] = a
Sought(a) == asked.named /\ a = asked.id

ReadInv ==
  Zeroed => /\ \A a : Sought(a) => a \in Aggregate /\ (a \in Read \/ Reached(a))
            /\ \A x \in state : x.named => asked.named
            /\ \A a \in Read : a \in Aggregate /\ HasArrows(a)

LEMMA ReadAre ==
  /\ \A a : a \in Read <=> Zeroed /\ \E x \in kripke : x.named /\ a = x.id
  /\ \A a : a \in Read' <=> Zeroed' /\ \E x \in kripke' : x.named /\ a = x.id
BY DEF Read

LEMMA InitRead ==
  ASSUME Init
  PROVE  ReadInv /\ Read = {}
<1>1. kripke = {} /\ state = {} /\ ~asked.named
  BY DEF Init
<1>2. \A a : a \notin Read
  BY <1>1, ReadAre
<1>. QED  BY <1>1, <1>2 DEF ReadInv, Sought

LEMMA WholeArrows ==
  ASSUME EdgesOK, NEW p \in Process, NEW n \in NodesOf(p), Whole(p, n)
  PROVE  HasArrows(Agg(p, n))
<1>. SUFFICES ASSUME NEW u \in FirableObs[Agg(p, n)]
              PROVE  Arrow(Agg(p, n), u) \in Edges
  BY DEF HasArrows
<1>1. PICK v \in Links(m_graph[p][n]) : v.t = u
  BY DEF Whole, Fired
<1>2. Agg(p, v.to) = Successor[<<Agg(p, n), v.t>>]
  BY DEF EdgesOK
<1>3. Arrow(Agg(p, n), u) = <<m_graph[p][n].m_lddstate, v.t, m_graph[p][v.to].m_lddstate>>
  BY <1>1, <1>2 DEF Arrow, Agg
<1>4. IsEdge(m_graph, Arrow(Agg(p, n), u))
  BY <1>3 DEF IsEdge, NodesOf
<1>. QED  BY <1>4, EdgesAre

LEMMA DoneArrows ==
  ASSUME TypeInv, WorkInv, mcPc # "end", NEW p \in Process, NEW n \in NodesOf(p), Done(p, n)
  PROVE  Agg(p, n) \in Final /\ HasArrows(Agg(p, n))
<1>1. IsFinal(m_graph, Agg(p, n))
  BY DEF IsFinal, Done, NodesOf, Agg
<1>2. HasArrows(Agg(p, n))
  BY WholeArrows DEF TypeInv, WorkInv, WholeInv
<1>. QED  BY <1>1, <1>2, FinalAre

LEMMA HeardSucc ==
  ASSUME TypeInv, WorkInv, TurnInv, ObtainedInv, ReadInv, HearsSucc, Zeroed, UNCHANGED memory,
         Read' # Read
  PROVE  \E a \in Aggregate : Sought(a) /\ a \in Final /\ HasArrows(a) /\ Read' = Read \cup {a}
<1>1. PICK q \in Process, m \in Answer :
        Get(<<q, Checker>>, m) /\ kripke' = kripke \cup {KripkeOf(x, m) : x \in state}
  BY DEF HearsSucc
<1>2. mcPc = "ackSucc" /\ mcPc # "end"
  BY DEF HearsSucc
<1>3. RightAnswer(m) /\ Addressee(q)
  BY <1>1, Heard DEF Get, TurnInv
<1>4. Settled /\ asked.process \in Process
  BY <1>2, <1>3 DEF RightAnswer, Addressee
<1>5. PICK a : a = asked.id
  OBVIOUS
<1>6. \A x \in state : x.id = a /\ (x.named => asked.named)
  BY <1>5 DEF ObtainedInv, StateRight, ReadInv
<1>7. \A b : b \in Read' => b \in Read \/ (b = a /\ asked.named)
  <2>1. \A x : KripkeOf(x, m).id = x.id /\ KripkeOf(x, m).named = x.named
    BY DEF KripkeOf
  <2>2. \A y \in kripke' : y \in kripke \/ \E x \in state : y.id = x.id /\ y.named = x.named
    BY <1>1, <2>1
  <2>. QED  BY <1>6, <2>2, ReadAre
<1>8. \A b \in Read : b \in Read'
  <2>1. Zeroed'
    BY DEF Zeroed
  <2>2. kripke \subseteq kripke'
    BY <1>1
  <2>. QED  BY <2>1, <2>2, ReadAre
<1>9. asked.named /\ Read' = Read \cup {a}
  <2>1. \E b : b \in Read' /\ b \notin Read
    BY <1>8
  <2>2. asked.named /\ a \in Read'
    BY <1>7, <2>1
  <2>. QED  BY <1>7, <1>8, <2>2
<1>10. Sought(a) /\ a \in Aggregate
  BY <1>5, <1>9 DEF Sought, ReadInv
<1>11. PICK n : Named(n) /\ Done(asked.process, n)
  BY <1>4, <1>5, <1>10 DEF Settled
<1>12. n \in NodesOf(asked.process) /\ a = Agg(asked.process, n)
  BY <1>4, <1>5, <1>10, <1>11, NodeNamed DEF Named, TypeInv
<1>13. a \in Final /\ HasArrows(a)
  BY <1>2, <1>4, <1>11, <1>12, DoneArrows
<1>. QED  BY <1>9, <1>10, <1>13

LEMMA ReadSame ==
  ASSUME UNCHANGED <<memory, kripke>>
  PROVE  Read' = Read
<1>1. Zeroed' <=> Zeroed
  BY DEF Zeroed
<1>2. \A a : a \in Read' <=> a \in Read
  BY <1>1, ReadAre
<1>. QED  BY <1>2

(* A question about a state that the checker has, or about a successor.    *)
LEMMA NextAsked ==
  ASSUME ReadInv, Zeroed, NEW x \in kripke, x.named, KripkeRight(x), NEW b \in Aggregate,
         b = x.id \/ \E u \in x.m_succ : b = u.id
  PROVE  b \in Read \/ Reached(b)
<1>1. x.id \in Read
  BY ReadAre
<1>2. ASSUME NEW u \in x.m_succ, b = u.id
      PROVE  Reached(b)
  <2>1. PICK a : a = x.id
    OBVIOUS
  <2>2. SuccessorsOf(a, x.m_succ)
    BY <1>1, <2>1 DEF KripkeRight, ReadInv
  <2>3. b = Successor[<<a, u.t>>] /\ u.t \in FirableObs[a]
    BY <1>2, <2>2, MCHybridSOGAssumption DEF SuccessorsOf
  <2>4. Arrow(a, u.t) \in Edges /\ a \in Read
    BY <1>1, <2>1, <2>3 DEF ReadInv, HasArrows
  <2>5. Arrow(a, u.t)[1] = a /\ Arrow(a, u.t)[3] = b
    BY <2>3 DEF Arrow
  <2>. QED  BY <2>4, <2>5 DEF Reached
<1>. QED  BY <1>1, <1>2

LEMMA NextRead ==
  ASSUME TypeInv, WorkInv, TurnInv, ObtainedInv, ReadInv, [Next]_vars
  PROVE  ReadInv'
<1>1. (Mute /\ (Constructs \/ Rests)) \/ Talks
  BY StepCases
<1>2. UNCHANGED <<memory, destination>>
  BY <1>1 DEF Mute, Talks, Serves, Listens, Rests, launch
<1>3. Edges \subseteq Edges'
  BY StepThings
<1>4. \A a : HasArrows(a) => HasArrows(a)'
  BY <1>3 DEF HasArrows, Arrow
<1>5. ASSUME Read \subseteq Read'
      PROVE  \A a : Reached(a) => Reached(a)'
  BY <1>3, <1>5 DEF Reached
<1>6. Zeroed' <=> Zeroed
  BY <1>2 DEF Zeroed
<1>. SUFFICES ASSUME Zeroed
              PROVE  /\ \A a : Sought(a)' => a \in Aggregate /\ (a \in Read' \/ Reached(a)')
                     /\ \A x \in state' : x.named => asked'.named
                     /\ \A a \in Read' : a \in Aggregate /\ HasArrows(a)'
  BY <1>6 DEF ReadInv
<1>7. /\ \A a : Sought(a) => a \in Aggregate /\ (a \in Read \/ Reached(a))
      /\ \A x \in state : x.named => asked.named
      /\ \A a \in Read : a \in Aggregate /\ HasArrows(a)
  BY DEF ReadInv
<1>8. ASSUME UNCHANGED kripke, \A a : Sought(a)' => a \in Aggregate /\ (a \in Read \/ Reached(a))
      PROVE  /\ \A a : Sought(a)' => a \in Aggregate /\ (a \in Read' \/ Reached(a)')
             /\ \A a \in Read' : a \in Aggregate /\ HasArrows(a)'
  <2>1. Read' = Read
    BY <1>2, <1>8, ReadSame
  <2>. QED  BY <1>4, <1>5, <1>7, <1>8, <2>1
<1>9. ASSUME asked' = asked
      PROVE  \A a : Sought(a)' <=> Sought(a)
  BY <1>9 DEF Sought
<1>10. CASE UNCHANGED <<asked, state, kripke>>
  BY <1>7, <1>8, <1>9, <1>10
<1>11. CASE HearsSucc
  <2>1. asked' = asked /\ state' = {}
    BY <1>11 DEF HearsSucc
  <2>2. Read' = Read \/ \E a \in Aggregate : HasArrows(a) /\ Read' = Read \cup {a}
    BY <1>2, <1>11, HeardSucc
  <2>3. Read \subseteq Read' /\ \A a \in Read' : a \in Aggregate /\ HasArrows(a)
    BY <1>7, <2>2
  <2>. QED  BY <1>4, <1>5, <1>7, <1>9, <2>1, <2>3
<1>12. CASE HearsState
  <2>1. asked' = asked /\ kripke' = kripke
    BY <1>12 DEF HearsState
  <2>2. \E m : state' = {StateOf(m)}
    BY <1>12 DEF HearsState
  <2>3. \A m : StateOf(m).named = asked.named
    BY DEF StateOf
  <2>4. \A x \in state' : x.named => asked'.named
    BY <2>1, <2>2, <2>3
  <2>. QED  BY <1>7, <1>8, <1>9, <2>1, <2>4
<1>13. CASE HearsInitial
  <2>1. PICK q \in Process, m \in Answer :
          Get(<<q, Checker>>, m) /\ AsksFor(m.v.id, m.v.process, TRUE, {<<q, Checker>>})
    BY <1>13 DEF HearsInitial
  <2>2. mcPc = "ackInitial" /\ UNCHANGED <<state, kripke>>
    BY <1>13 DEF HearsInitial
  <2>3. RightAnswer(m)
    BY <2>1, Heard DEF Get, TurnInv
  <2>4. m.v.id = InitialAggregate
    BY <2>2, <2>3 DEF RightAnswer
  <2>5. asked'.id = InitialAggregate
    BY <2>1, <2>4 DEF AsksFor
  <2>6. \A a : Sought(a)' => a \in Aggregate /\ Reached(a)
    BY <2>5, SOGAssumption DEF Sought, Reached
  <2>7. state' = {}
    BY <2>2 DEF ObtainedInv, StateRight
  <2>. QED  BY <1>8, <2>2, <2>6, <2>7
<1>14. CASE Explores
  <2>1. PICK x \in kripke : \/ \E u \in x.m_succ : AsksFor(u.id, u.process, x.named, {})
                            \/ x.m_div /\ AsksFor(x.id, x.m_container, x.named, {})
    BY <1>14 DEF Explores
  <2>2. /\ asked'.named => x.named /\ asked'.id \in Aggregate
        /\ asked'.id = x.id \/ \E u \in x.m_succ : asked'.id = u.id
    <3>1. \A id, r : AsksFor(id, r, x.named, {}) =>
                      asked'.id = id /\ asked'.named = (x.named /\ id \in Aggregate)
      <4>1. ASSUME NEW id, NEW r, NEW n, asked' = [id |-> id, process |-> r, named |-> n]
            PROVE  asked'.id = id /\ asked'.named = n
        BY <4>1
      <4>. QED  BY <4>1 DEF AsksFor
    <3>2. PICK id, r : AsksFor(id, r, x.named, {}) /\ (id = x.id \/ \E u \in x.m_succ : id = u.id)
      BY <2>1
    <3>. QED  BY <3>1, <3>2
  <2>3. KripkeRight(x)
    BY DEF ObtainedInv
  <2>4. ASSUME NEW a, Sought(a)'
        PROVE  a \in Aggregate /\ (a \in Read \/ Reached(a))
    <3>1. a = asked'.id /\ asked'.named
      BY <2>4 DEF Sought
    <3>2. /\ x.named /\ a \in Aggregate
          /\ a = x.id \/ \E u \in x.m_succ : a = u.id
      BY <2>2, <3>1
    <3>. QED  BY <2>3, <3>2, NextAsked
  <2>5. mcPc = "explore" /\ UNCHANGED <<state, kripke>>
    BY <1>14 DEF Explores
  <2>6. state' = {}
    BY <2>5 DEF ObtainedInv, StateRight
  <2>. QED  BY <1>8, <2>4, <2>5, <2>6
<1>15. \/ UNCHANGED <<asked, state, kripke>>
       \/ HearsSucc
       \/ HearsState
       \/ HearsInitial
       \/ Explores
  BY <1>1 DEF Mute, Talks, Serves, CheckerCases, Begins, Ends, checker
<1>. QED  BY <1>10, <1>11, <1>12, <1>13, <1>14, <1>15

-----------------------------------------------------------------------------
(* Every step keeps the promise of an on-the-fly construction.             *)

LEMMA PromiseMapping ==
  /\ Known = AggregatesOf(Nodes) /\ Known' = AggregatesOf(Nodes)'
  /\ Edges = UNION {EdgesOf(pn[1], pn[2]) : pn \in Nodes}
  /\ Edges' = (UNION {EdgesOf(pn[1], pn[2]) : pn \in Nodes})'
  /\ Final = AggregatesOf({pn \in Nodes : m_graph[pn[1]][pn[2]].m_completed})
  /\ Final' = AggregatesOf({pn \in Nodes : m_graph[pn[1]][pn[2]].m_completed})'
  /\ Read = IF Zeroed THEN {x.id : x \in {y \in kripke : y.named}} ELSE {}
  /\ Read' = (IF Zeroed THEN {x.id : x \in {y \in kripke : y.named}} ELSE {})'
BY DEF Known, Edges, Final, Read

LEMMA FiresEdge ==
  ASSUME NEW a \in Aggregate, NEW u \in FirableObs[a]
  PROVE  Arrow(a, u) \in Promise!Edge
<1>1. <<a, u>> \in Arc
  BY SOGAssumption DEF Arc
<1>2. Arrow(a, u) \in Edge
  BY <1>1 DEF Edge, Arrow
<1>. QED  BY <1>2 DEF Promise!Edge, Edge, Promise!Arc, Arc

LEMMA ArrowsFrom ==
  ASSUME NEW a, HasArrows(a), NEW d \in Promise!EdgesFrom(a)
  PROVE  d \in Edges
<1>1. d \in Promise!Edge /\ d[1] = a
  BY DEF Promise!EdgesFrom
<1>2. PICK y \in Arc : d = <<y[1], y[2], Successor[y]>>
  BY <1>1 DEF Promise!Edge, Edge, Promise!Arc, Arc
<1>3. y \in Aggregate \X Transition /\ y[1] = a /\ y[2] \in FirableObs[a] /\ y = <<a, y[2]>>
  BY <1>1, <1>2 DEF Arc
<1>4. d = Arrow(a, y[2])
  BY <1>2, <1>3 DEF Arrow
<1>. QED  BY <1>3, <1>4 DEF HasArrows

SameVerdict == Read' = Read /\ (mcPc' = "end" <=> mcPc = "end")

LEMMA KeepsPromise ==
  ASSUME Known' = Known, Edges' = Edges, Final' = Final, SameVerdict
  PROVE  UNCHANGED Promise!vars
<1>1. (mcPc' = "end") = (mcPc = "end")
  BY DEF SameVerdict
<1>. QED  BY <1>1, PromiseMapping DEF Promise!vars, SameVerdict

(* The aggregate of the node a builder expands is not complete: no other   *)
(* node to expand has it, in this process or in another one.               *)
LEMMA ExpandedIsOpen ==
  ASSUME TypeInv, UniqueInv, OnceInv, NEW x \in Thread, pc[x] \in Expanding
  PROVE  /\ Agg(x[1], e[x].state) \in Known \ Final
         /\ Agg(x[1], e[x].state) \in Aggregate
<1>1. PICK p, n, a : p = x[1] /\ n = e[x].state /\ a = Agg(p, n)
  OBVIOUS
<1>2. p \in Process /\ n \in NodesOf(p) /\ ~Virtual(p, n) /\ a \in Aggregate
  BY <1>1, ExpandedState, ThreadProperties
<1>3. ~Done(p, n)
  BY <1>1 DEF OnceInv, Claims
<1>4. ASSUME NEW q \in Process, NEW m \in NodesOf(q), Done(q, m), a = Agg(q, m)
      PROVE  FALSE
  <2>1. ~Virtual(q, m)
    BY <1>4 DEF TypeInv, NodesOK, NodeOK, Virtual, Done
  <2>2. q = p
    <3>1. \A r \in Process : \A k \in NodesOf(r) : ~Virtual(r, k) => destination[Agg(r, k)] = r
      BY DEF TypeInv, NodesOK, NodeOK, Virtual, Agg
    <3>2. destination[Agg(q, m)] = q /\ destination[Agg(p, n)] = p
      BY <1>2, <1>4, <2>1, <3>1
    <3>. QED  BY <1>1, <1>4, <3>2
  <2>3. m = n
    BY <1>1, <1>2, <1>4, <2>2 DEF UniqueInv
  <2>. QED  BY <1>3, <1>4, <2>2, <2>3
<1>5. ~IsFinal(m_graph, a)
  BY <1>4 DEF IsFinal, Done, NodesOf, Agg
<1>. QED  BY <1>1, <1>2, <1>5, KnownNode, FinalAre

(* A builder inserts the target of a transition of the node it expands. *)
LEMMA FirePromise ==
  ASSUME TypeInv, UniqueInv, OnceInv, NEW x \in Thread, FiresNew(x), SameVerdict
  PROVE  [Promise!Next]_(Promise!vars)
<1>1. PICK p, b, u, a : p = x[1] /\ b = Agg(p, e[x].state) /\ u = t'[x] /\ a = Successor[<<b, u>>]
  OBVIOUS
<1>2. pc[x] \in Expanding /\ u \in FirableObs[b] /\ p \in Process
  BY <1>1, ThreadProperties, Neutrals DEF FiresNew, Fires
<1>3. b \in Known \ Final /\ b \in Aggregate
  BY <1>1, <1>2, ExpandedIsOpen
<1>4. PICK nd : AddsNode(p, pos'[x], nd, a)
  BY <1>1 DEF FiresNew, Target
<1>5. Known' = Known \cup {a} /\ Edges' = Edges /\ Final' = Final
  BY <1>2, <1>4, AddedThings DEF TypeInv
<1>6. CASE a \in Known
  BY <1>5, <1>6, KeepsPromise
<1>7. CASE a \notin Known
  <2>1. Arrow(b, u) \in Promise!Edge /\ Arrow(b, u)[1] = b /\ Arrow(b, u)[3] = a
    BY <1>1, <1>2, <1>3, FiresEdge DEF Arrow
  <2>2. (mcPc' = "end") = (mcPc = "end")
    BY DEF SameVerdict
  <2>3. Promise!Discover(Arrow(b, u))
    BY <1>3, <1>5, <1>7, <2>1, <2>2, PromiseMapping DEF Promise!Discover, SameVerdict
  <2>. QED  BY <2>1, <2>3 DEF Promise!Next
<1>. QED  BY <1>6, <1>7

(* ... and links it. *)
LEMMA LinkPromise ==
  ASSUME TypeInv, UniqueInv, OnceInv, NEW x \in Thread, pc[x] \in Expanding, NEW p \in Process, p = x[1],
         NEW n, n = e[x].state, NEW m \in NodesOf(p), NEW u \in FirableObs[Agg(p, n)],
         Agg(p, m) = Successor[<<Agg(p, n), u>>], Edits(p, {}, {}, n, {[to |-> m, t |-> u]}), SameVerdict
  PROVE  [Promise!Next]_(Promise!vars)
<1>1. PICK b, d : b = Agg(p, n) /\ d = Arrow(b, u)
  OBVIOUS
<1>2. b \in Known \ Final /\ b \in Aggregate
  BY <1>1, ExpandedIsOpen
<1>3. n \in NodesOf(p)
  BY ExpandedState
<1>4. d \in Promise!Edge /\ d[1] = b /\ d[3] \in Known
  BY <1>1, <1>2, FiresEdge, KnownNode DEF Arrow
<1>5. Known' = Known /\ Final' = Final /\ Edges' = Edges \cup {d}
  <2>1. PICK L : L = {[to |-> m, t |-> u]}
    OBVIOUS
  <2>2. Edits(p, {}, {}, n, L) /\ \A v \in L : v.to = m /\ v.t = u
    BY <2>1
  <2>3. \E v \in L : v.to = m /\ v.t = u
    BY <2>1
  <2>4. d = <<Agg(p, n), u, Agg(p, m)>>
    BY <1>1 DEF Arrow
  <2>5. EdgesOK /\ \A v \in L : v.to \in NodesOf(p)
    BY <2>2 DEF TypeInv
  <2>6. /\ Known' = Known
        /\ \A c : c \in Edges' <=> c \in Edges \/ \E v \in L : c = <<Agg(p, n), v.t, Agg(p, v.to)>>
        /\ \A c : c \in Final' <=> c \in Final
    BY <1>3, <2>2, <2>5, EditedThings
  <2>7. \A c : c \in Edges' <=> c \in Edges \/ c = d
    BY <2>2, <2>3, <2>4, <2>6
  <2>8. Edges' = Edges \cup {d}
    BY <2>7
  <2>9. Final' = Final
    BY <2>6
  <2>. QED  BY <2>6, <2>8, <2>9
<1>6. CASE d \in Edges
  BY <1>5, <1>6, KeepsPromise
<1>7. CASE d \notin Edges
  <2>1. (mcPc' = "end") = (mcPc = "end")
    BY DEF SameVerdict
  <2>2. Promise!Link(d)
    BY <1>2, <1>4, <1>5, <1>7, <2>1, PromiseMapping DEF Promise!Link, SameVerdict
  <2>. QED  BY <1>4, <2>2 DEF Promise!Next
<1>. QED  BY <1>6, <1>7

(* A builder that is not told to stop has linked all the transitions of    *)
(* the node it completes.                                                  *)
LEMMA CompletePromise ==
  ASSUME TypeInv, EndInv, UniqueInv, WorkInv, OnceInv, NEW x \in Thread, Completes(x), SameVerdict
  PROVE  [Promise!Next]_(Promise!vars)
<1>1. PICK p, n, b : p = x[1] /\ n = e[x].state /\ b = Agg(p, n)
  OBVIOUS
<1>2. pc[x] = "fire" /\ pc[x] \in Expanding /\ p \in Process /\ n \in NodesOf(p)
  BY <1>1, ThreadProperties, Neutrals DEF Completes
<1>3. b \in Known \ Final /\ b \in Aggregate
  BY <1>1, <1>2, ExpandedIsOpen
<1>4. Known' = Known /\ Edges' = Edges /\ Final' = Final \cup {b}
  <2>1. Edits(p, {}, {n}, n, {}) /\ EdgesOK
    BY <1>1 DEF Completes, TypeInv
  <2>2. /\ Known' = Known
        /\ \A c : c \in Edges' <=> c \in Edges
        /\ \A c : c \in Final' <=> c \in Final \/ \E k \in {n} : k \in NodesOf(p) /\ c = Agg(p, k)
    BY <1>2, <2>1, EditedThings
  <2>3. Edges' = Edges
    BY <2>2
  <2>4. Final' = Final \cup {b}
    BY <1>1, <1>2, <2>2
  <2>. QED  BY <2>2, <2>3, <2>4
<1>5. ASSUME mcPc # "end", NEW d \in Promise!EdgesFrom(b)
      PROVE  d \in Edges
  <2>1. e[x].fire = {}
    BY <1>5 DEF EndInv, Completes
  <2>2. Whole(p, n)
    BY <1>1, <1>2, <2>1, LabelProperties DEF WorkInv, HandInv, InHand, Whole
  <2>3. HasArrows(b)
    BY <1>1, <1>2, <2>2, WholeArrows DEF TypeInv
  <2>. QED  BY <2>3, ArrowsFrom
<1>6. Promise!Finalize(b)
  <2>1. Promise!EdgesFrom(b) \subseteq Edges \/ mcPc = "end"
    BY <1>5
  <2>2. (mcPc' = "end") = (mcPc = "end")
    BY DEF SameVerdict
  <2>. QED  BY <1>3, <1>4, <2>1, <2>2, PromiseMapping DEF Promise!Finalize, SameVerdict
<1>. QED  BY <1>3, <1>6 DEF Promise!Next

(* Process 0 inserts the initial aggregate when no process has anything. *)
LEMMA StartPromise ==
  ASSUME TypeInv, NEW x \in Thread, Starts(x), SameVerdict
  PROVE  [Promise!Next]_(Promise!vars)
<1>1. CASE UNCHANGED m_graph
  BY <1>1, SameThings, KeepsPromise
<1>2. CASE ~UNCHANGED m_graph
  <2>1. PICK nd : AddsNode(0, 1, nd, InitialAggregate)
    BY <1>2 DEF Starts
  <2>2. \A p \in Process : NodesOf(p) = {}
    BY <1>2 DEF Starts, NothingIn
  <2>3. Known = {}
    BY <2>2, KnownAre DEF IsKnown, NodesOf
  <2>4. Known' = {InitialAggregate} /\ Edges' = Edges /\ Final' = Final
    BY <2>1, <2>3, ProcessProperties, AddedThings DEF TypeInv
  <2>5. (mcPc' = "end") = (mcPc = "end")
    BY DEF SameVerdict
  <2>6. Promise!Start
    BY <2>3, <2>4, <2>5, PromiseMapping DEF Promise!Start, SameVerdict
  <2>. QED  BY <2>6 DEF Promise!Next
<1>. QED  BY <1>1, <1>2

(* What a message announces is already part of what is promised. *)
LEMMA ReceivePromise ==
  ASSUME TypeInv, KnownInv, NEW x \in Thread, ReceivesNew(x), SameVerdict
  PROVE  [Promise!Next]_(Promise!vars)
<1>1. x[1] \in Process
  BY ThreadProperties
<1>2. PICK a, nd : /\ Shrunk(Aggregate, m_received_msg, m_received_msg', x[1], a)
                   /\ AddsNode(x[1], pos'[x], nd, a)
  BY DEF ReceivesNew
<1>3. a \in Known
  BY <1>1, <1>2 DEF Shrunk, KnownInv
<1>4. Known' = Known /\ Edges' = Edges /\ Final' = Final
  BY <1>1, <1>2, <1>3, AddedThings DEF TypeInv
<1>. QED  BY <1>4, KeepsPromise

(* An assignment shows in nothing that is promised. *)
LEMMA AssignPromise ==
  ASSUME TypeInv, NEW x \in Thread, Assigns(x), SameVerdict
  PROVE  [Promise!Next]_(Promise!vars)
<1>1. PICK p, n : p = x[1] /\ n = pos[x]
  OBVIOUS
<1>2. p \in Process /\ n \in NodesOf(p) /\ Edits(p, {n}, {}, n, {}) /\ EdgesOK
  BY <1>1, ThreadProperties DEF Assigns, TypeInv
<1>3. /\ Known' = Known
      /\ \A c : c \in Edges' <=> c \in Edges
      /\ \A c : c \in Final' <=> c \in Final
  BY <1>2, EditedThings
<1>4. Edges' = Edges /\ Final' = Final
  BY <1>3
<1>. QED  BY <1>3, <1>4, KeepsPromise

LEMMA BuildPromise ==
  ASSUME TypeInv, EndInv, UniqueInv, WorkInv, OnceInv, KnownInv, NEW x \in Thread, Builds(x), SameVerdict
  PROVE  [Promise!Next]_(Promise!vars)
<1>1. CASE UNCHANGED m_graph
  BY <1>1, SameThings, KeepsPromise
<1>2. CASE FiresKnown(x)
  <2>1. PICK n \in NodesOf(x[1]) : /\ Agg(x[1], n) = Target(x)
                                   /\ Edits(x[1], {}, {}, e[x].state, {[to |-> n, t |-> t'[x]]})
    BY <1>2 DEF FiresKnown
  <2>2. pc[x] \in Expanding /\ t'[x] \in FirableObs[Agg(x[1], e[x].state)] /\ x[1] \in Process
    BY <1>2, ThreadProperties, Neutrals DEF FiresKnown, Fires
  <2>3. PICK p, k, u : p = x[1] /\ k = e[x].state /\ u = t'[x]
    OBVIOUS
  <2>. QED  BY <2>1, <2>2, <2>3, LinkPromise DEF Target
<1>3. ASSUME AddsEdge(x), pc[x] \in Expanding
      PROVE  [Promise!Next]_(Promise!vars)
  <2>1. PICK p, k, m, u : p = x[1] /\ k = e[x].state /\ m = pos[x] /\ u = t[x]
    OBVIOUS
  <2>2. /\ p \in Process /\ m \in NodesOf(p) /\ u \in FirableObs[Agg(p, k)]
        /\ Agg(p, m) = Successor[<<Agg(p, k), u>>]
        /\ Edits(p, {}, {}, k, {[to |-> m, t |-> u]})
    BY <1>3, <2>1, ThreadProperties DEF AddsEdge
  <2>. QED  BY <1>3, <2>1, <2>2, LinkPromise
<1>4. CASE QueuesNew(x)
  <2>1. pc[x] \in Placing
    BY <1>4 DEF QueuesNew, Placing
  <2>. QED  BY <1>3, <1>4, <2>1, Neutrals DEF QueuesNew
<1>5. CASE SendsLink(x)
  BY <1>3, <1>5, Neutrals DEF SendsLink
<1>6. Wanders(x) \/ TakesWork(x) \/ ReceivesKnown(x) \/ QueuesReceived(x) => UNCHANGED m_graph
  BY DEF Wanders, TakesWork, ReceivesKnown, QueuesReceived
<1>. QED  BY <1>1, <1>2, <1>4, <1>5, <1>6, StartPromise, FirePromise, CompletePromise, ReceivePromise, AssignPromise
          DEF Builds, BuilderCases

(* The checker obtains an aggregate, or wants no more. *)
LEMMA ListenPromise ==
  ASSUME TypeInv, WorkInv, TurnInv, ObtainedInv, ReadInv, Listens, CheckerCases
  PROVE  [Promise!Next]_(Promise!vars)
<1>1. Known' = Known /\ Edges' = Edges /\ Final' = Final /\ UNCHANGED memory
  BY SameThings DEF Listens, Rests, launch
<1>2. CASE UNCHANGED kripke
  <2>1. Read' = Read
    BY <1>1, <1>2, ReadSame
  <2>2. CASE Ends
    <3>1. (mcPc = "end") = FALSE /\ (mcPc' = "end") = TRUE
      BY <2>2 DEF Ends
    <3>2. Promise!Stop
      BY <1>1, <2>1, <3>1, PromiseMapping DEF Promise!Stop
    <3>. QED  BY <3>2 DEF Promise!Next
  <2>3. CASE ~Ends
    <3>1. mcPc # "end" /\ mcPc' # "end"
      BY <2>3 DEF CheckerCases, Begins, HearsInitial, HearsState, HearsSucc, Explores, AsksFor
    <3>. QED  BY <1>1, <2>1, <3>1, KeepsPromise DEF SameVerdict
  <2>. QED  BY <2>2, <2>3
<1>3. CASE HearsSucc
  <2>1. (mcPc = "end") = FALSE /\ (mcPc' = "end") = FALSE
    BY <1>3 DEF HearsSucc
  <2>2. CASE Read' = Read
    BY <1>1, <2>1, <2>2, KeepsPromise DEF SameVerdict
  <2>3. CASE Read' # Read
    <3>1. Zeroed
      BY <1>1, <2>3 DEF Read, Zeroed
    <3>2. PICK a \in Aggregate : /\ Sought(a) /\ a \in Final /\ HasArrows(a)
                                 /\ Read' = Read \cup {a}
      BY <1>1, <1>3, <2>3, <3>1, HeardSucc
    <3>3. a \notin Read /\ Reached(a)
      BY <2>3, <3>1, <3>2 DEF ReadInv
    <3>4. ASSUME NEW d \in Promise!EdgesFrom(a)
          PROVE  d \in Edges
      BY <3>2, ArrowsFrom
    <3>5. Promise!EdgesFrom(a) \subseteq Edges
      BY <3>4
    <3>6. Promise!Read(a)
      BY <1>1, <2>1, <3>2, <3>3, <3>5, PromiseMapping DEF Promise!Read, Reached
    <3>. QED  BY <3>6 DEF Promise!Next
  <2>. QED  BY <2>2, <2>3
<1>4. UNCHANGED kripke \/ HearsSucc
  BY DEF CheckerCases, Begins, HearsInitial, HearsState, Explores, Ends
<1>. QED  BY <1>2, <1>3, <1>4

LEMMA PromiseStep ==
  ASSUME CheckInv, OnceInv, KnownInv, ReadInv, [Next]_vars
  PROVE  [Promise!Next]_(Promise!vars)
<1>1. (Mute /\ (Constructs \/ Rests)) \/ Talks
  BY StepCases DEF CheckInv
<1>2. UNCHANGED memory
  BY <1>1 DEF Mute, Talks, Serves, Listens, Rests, launch
<1>3. UNCHANGED checker => SameVerdict
  BY <1>2, ReadSame DEF SameVerdict, checker
<1>4. UNCHANGED <<m_graph, checker>> => UNCHANGED Promise!vars
  BY <1>3, SameThings, KeepsPromise
<1>5. ASSUME NEW x \in Thread, Builds(x), UNCHANGED checker
      PROVE  [Promise!Next]_(Promise!vars)
  BY <1>3, <1>5, BuildPromise DEF CheckInv
<1>6. CASE Mute /\ (Constructs \/ Rests)
  BY <1>4, <1>5, <1>6, CarryGraph DEF Mute, Constructs, Rests
<1>7. CASE Serves
  BY <1>4, <1>7 DEF Serves, Rests
<1>8. CASE Listens /\ CheckerCases
  BY <1>8, ListenPromise DEF CheckInv
<1>. QED  BY <1>1, <1>6, <1>7, <1>8 DEF Talks

LEMMA PromiseInit == Init => Promise!Init
<1> SUFFICES ASSUME Init PROVE Promise!Init
  OBVIOUS
<1>1. \A p \in Process : DOMAIN m_graph[p] = {}
  BY DEF Init
<1>2. (\A a : a \notin Known) /\ (\A a : a \notin Final) /\ (\A d : d \notin Edges)
  BY <1>1, KnownAre, FinalAre, EdgesAre DEF IsKnown, IsFinal, IsEdge
<1>3. Known = {} /\ Edges = {} /\ Final = {}
  BY <1>2
<1>4. (mcPc = "end") = FALSE
  BY DEF Init
<1>. QED  BY <1>3, <1>4, InitRead, PromiseMapping DEF Promise!Init

(* However the aggregates are shared out between the processes and the     *)
(* messages delayed, the builders and the checker together keep the        *)
(* promise of an on-the-fly construction: an aggregate only appears as the *)
(* target of an edge of one that is not complete, it is completed with all *)
(* its edges unless the checker is done, and what the checker obtains by   *)
(* identifiers, from the initial aggregate on, is complete and reached by  *)
(* edges.                                                                  *)
THEOREM CheckRefinesSOG == Spec => ImplementsSOGOnTheFly
<1>1. Init => OnceInv /\ KnownInv /\ ReadInv
  BY InitOnce, InitKnown, InitRead
<1>2. CheckInv /\ OnceInv /\ KnownInv /\ ReadInv /\ [Next]_vars => OnceInv' /\ KnownInv' /\ ReadInv'
  BY NextOnce, NextKnown, NextRead DEF CheckInv
<1>3. CheckInv /\ OnceInv /\ KnownInv /\ ReadInv /\ [Next]_vars => [Promise!Next]_(Promise!vars)
  BY PromiseStep
<1>. QED  BY <1>1, <1>2, <1>3, PromiseInit, CheckCorrect, PTL DEF Spec, ImplementsSOGOnTheFly, Promise!Spec
=============================================================================
