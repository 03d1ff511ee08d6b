---------------------------- MODULE MCHybridSOG ----------------------------
(***************************************************************************)
(* MCHybridSOG, its variants MCHybridSOGPOR, MCHybridSOGReq and            *)
(* MCHybridSOGReqPOR, and HybridKripke: builder processes construct the    *)
(* graph and answer the questions of the model checker process.  In each   *)
(* builder process, thread 0 communicates and the others build; in the     *)
(* checker, Spot asks for the initial state, a state and its successors.   *)
(*                                                                         *)
(* External: MPI keeps the messages of one sender to one receiver in       *)
(* order, MPI_Send buffers, MPI_Iprobe may miss a message that has been    *)
(* sent.  A state message is an aggregate, as in HybridSOG.  Spot may ask  *)
(* for any successor of any state it has, again and again, or stop.        *)
(***************************************************************************)
EXTENDS LDDGraph, Functions

CONSTANTS
  MaxTask,   \* the largest number of builder processes
  MaxThread, \* the largest number of threads of a process
  Launches,  \* what to consider: the numbers of threads nb_th, 0 for a process
             \* that is not there, the owners of the aggregates,
             \* Identif[0] % n_tasks, and what the members hold that no
             \* constructor initializes
  Garbage    \* what the m_SHA2 of a new state may hold; an identifier, an MD5,
             \* is the aggregate it stands for, and none of these is one

Process == 0 .. MaxTask - 1
Checker == MaxTask
Bytes == Aggregate \cup Garbage
SomeGarbage == CHOOSE g \in Garbage : TRUE

ASSUME MCHybridSOGAssumption ==
  /\ MaxTask \in Nat \ {0} /\ MaxThread \in Nat \ {0, 1}
  /\ \A l \in Launches :
       /\ l.nb_th \in [Process -> {0} \cup 2 .. MaxThread]
       /\ l.destination \in [Aggregate -> Process]
       /\ \A a \in Aggregate : l.nb_th[l.destination[a]] > 0
       /\ l.memory \in [m_waitingBuildSucc : {"waitInitial", "waitingBuild", "waitingSucc"},
                         m_waitingAgregate : BOOLEAN]
  /\ Garbage # {} /\ Garbage \cap Aggregate = {}

Thread == Process \X (0 .. MaxThread - 1)
Comm(p) == <<p, 0>>

VARIABLES
  m_nb_thread,        \* the number of threads of each process
  destination,        \* the process each aggregate belongs to
  memory,             \* what the two members hold before anybody assigns them
  m_graph,            \* the nodes of each process
  m_common_stack,     \* the states to expand, a queue
  m_received_msg,     \* the received aggregates
  m_tosend_msg,       \* the aggregates to send
  m_Terminated,       \* the processes that have received FINISH
  m_waitingAgregate,  \* the processes asked for a state they do not have
  m_waitingBuildSucc, \* how far each is with the successors it was asked for
  m_id_md5,           \* the identifier each is asked for, of either kind
  m_aggWaiting,       \* the state whose successors are asked for
  chan,               \* the messages sent and not received, oldest first
  crashed,            \* a null pointer was dereferenced; mpirun ends it all
  pc,                 \* where each thread is
  e,                  \* each builder's e: a state and its transitions to fire
  t,                  \* its transition
  pos,                \* the state it has just inserted
  s,                  \* the aggregate thread 0 is about to send
  answer,             \* the answers it is about to send, innermost first
  mcPc,               \* where the checker is
  asked,              \* the identifier and process of the state it asks for
  state,              \* what it was told of that state
  kripke              \* the states it has, HybridKripkeState

launch == <<m_nb_thread, destination, memory>>
queues == <<m_common_stack, m_received_msg, m_tosend_msg>>
waits == <<m_waitingAgregate, m_waitingBuildSucc, m_id_md5, m_aggWaiting>>
local == <<e, t, pos>>
checker == <<mcPc, asked, state, kripke>>
comm == <<waits, chan, s, answer, crashed>>
vars == <<launch, m_graph, queues, m_Terminated, comm, pc, local, checker>>

Goto(x, label) == pc' = [pc EXCEPT ![x] = label]
Builders(p) == {p} \X (1 .. m_nb_thread[p] - 1)

(* notify_one: a builder asleep, if there is one, goes back to the test.   *)
(* The notifiers do not hold m_mutexCond, so one about to sleep misses it. *)
Waiting(p) == {x \in Builders(p) : pc[x] = "waiting"}
NotifyOne(p, f) ==
  IF Waiting(p) = {} THEN {f} ELSE {[f EXCEPT ![x] = "loop"] : x \in Waiting(p)}

(* new LDDState: process 0, and m_SHA2 as the memory was.                  *)
Node(a, g) ==
  [m_lddstate |-> a, Successors |-> <<>>, m_SHA2 |-> g, m_process |-> 0,
   m_virtual |-> FALSE, m_completed |-> FALSE, m_boucle |-> FALSE, m_blocage |-> FALSE]
Identified(a, p) == [Node(a, a) EXCEPT !.m_process = p]
VirtualNode(a, p) == [Identified(a, p) EXCEPT !.m_virtual = TRUE]
Pair(n, fire) == [state |-> n, fire |-> fire]
Message(tag, v) == [tag |-> tag, v |-> v]
MpiSend(c, p, q, m) == [c EXCEPT ![<<p, q>>] = Append(@, m)]
MpiRecv(c, p, q) == [c EXCEPT ![<<p, q>>] = Tail(@)]

(* insertFindByMDD compares the aggregates, insertFindSha the identifiers  *)
(* of the virtual nodes, findSHAPos those of all nodes, assigned or not.   *)
insertFindByMDD(p, a) == StatesOf(m_graph[p], a)
insertFindSha(p, a) ==
  {n \in DOMAIN m_graph[p] : m_graph[p][n].m_virtual /\ m_graph[p][n].m_SHA2 = a}
findSHAPos(p, id) ==
  {n \in DOMAIN m_graph[p] :
     /\ m_graph[p][n].m_SHA2 = id
     /\ \A m \in 1 .. n - 1 : m_graph[p][m].m_SHA2 # id}

-----------------------------------------------------------------------------
(* doCompute, what every thread does first: a late one undoes FINISH.  The *)
(* initial state has no flags; it is in m_initialstate when it stays here. *)
Start(x) ==
  LET a == InitialAggregate
      here == destination[a] = 0
  IN  /\ ~crashed /\ pc[x] = "start"
      /\ m_Terminated' = m_Terminated \ {x[1]}
      /\ LET f == [pc EXCEPT ![x] = IF x = Comm(x[1]) THEN "send" ELSE "loop"]
         IN  \/ x # Comm(0) /\ pc' = f /\ UNCHANGED <<m_graph, queues>>
             \/ /\ x = Comm(0) /\ here
                /\ m_graph' = [m_graph EXCEPT ![0] = insert(@, Identified(a, 0))]
                /\ m_common_stack' = [m_common_stack EXCEPT ![0] = <<Pair(1, FirableObs[a])>>]
                /\ pc' \in NotifyOne(0, f)
                /\ UNCHANGED <<m_received_msg, m_tosend_msg>>
             \/ /\ x = Comm(0) /\ ~here
                /\ m_graph' = [m_graph EXCEPT ![0] = insert(@, VirtualNode(a, destination[a]))]
                /\ m_tosend_msg' = [m_tosend_msg EXCEPT ![0] = <<a>>]
                /\ pc' = f
                /\ UNCHANGED <<m_common_stack, m_received_msg>>
      /\ UNCHANGED <<launch, comm, local, checker>>

-----------------------------------------------------------------------------
(* A builder.  It tests under m_mutexCond, then sleeps or goes on.         *)
Loop(x) ==
  LET p == x[1]
  IN  /\ ~crashed /\ pc[x] = "loop"
      /\ \A y \in Builders(p) : pc[y] # "sleep"
      /\ \/ p \in m_Terminated /\ Goto(x, "done")
         \/ /\ p \notin m_Terminated
            /\ m_common_stack[p] # <<>> \/ m_received_msg[p] # <<>>
            /\ Goto(x, "pop")
         \/ /\ p \notin m_Terminated
            /\ m_common_stack[p] = <<>> /\ m_received_msg[p] = <<>>
            /\ Goto(x, "sleep")
      /\ UNCHANGED <<launch, m_graph, queues, m_Terminated, comm, local, checker>>

Sleep(x) ==
  /\ ~crashed /\ pc[x] = "sleep"
  /\ Goto(x, "waiting")
  /\ UNCHANGED <<launch, m_graph, queues, m_Terminated, comm, local, checker>>

SpuriousWakeUp(x) ==
  /\ ~crashed /\ pc[x] = "waiting"
  /\ Goto(x, "loop")
  /\ UNCHANGED <<launch, m_graph, queues, m_Terminated, comm, local, checker>>

Pop(x) ==
  LET p == x[1]
  IN  /\ ~crashed /\ pc[x] = "pop"
      /\ \/ p \in m_Terminated /\ Goto(x, "loop") /\ UNCHANGED <<m_common_stack, e>>
         \/ /\ p \notin m_Terminated /\ m_common_stack[p] # <<>>
            /\ e' = [e EXCEPT ![x] = Head(m_common_stack[p])]
            /\ m_common_stack' = [m_common_stack EXCEPT ![p] = Tail(@)]
            /\ Goto(x, "fire")
         \/ /\ p \notin m_Terminated /\ m_common_stack[p] = <<>>
            /\ Goto(x, "receive") /\ UNCHANGED <<m_common_stack, e>>
      /\ UNCHANGED <<launch, m_graph, m_received_msg, m_tosend_msg, m_Terminated, comm, t, pos, checker>>

(* The next transition and the search for its target, of this process or   *)
(* of another; one that is found is linked.                                *)
Fire(x) ==
  LET p == x[1]
  IN  /\ ~crashed /\ pc[x] = "fire" /\ p \notin m_Terminated
      /\ \E u \in e[x].fire :
           LET a == Successor[<<m_graph[p][e[x].state].m_lddstate, u>>]
               here == destination[a] = p
               found == IF here THEN insertFindByMDD(p, a) ELSE insertFindSha(p, a)
           IN  /\ \A v \in e[x].fire : u <= v
               /\ e' = [e EXCEPT ![x].fire = @ \ {u}]
               /\ t' = [t EXCEPT ![x] = u]
               /\ \/ \E n \in found :
                       /\ m_graph' = [m_graph EXCEPT ![p] = AddSuccessor(@, e[x].state, n, u)]
                       /\ UNCHANGED <<pos, pc>>
                  \/ /\ found = {}
                     /\ \E n \in {VirtualNode(a, destination[a])} \cup {Node(a, g) : g \in Garbage} :
                          n.m_virtual = ~here /\ m_graph' = [m_graph EXCEPT ![p] = insert(@, n)]
                     /\ pos' = [pos EXCEPT ![x] = Len(m_graph[p]) + 1]
                     /\ Goto(x, IF here THEN "setProcess" ELSE "link")
      /\ UNCHANGED <<launch, queues, m_Terminated, comm, checker>>

(* What a new state of this process gets while others find it already, one *)
(* assignment after the other; a state received, in another order.         *)
Assign(x, from, to, node) ==
  /\ ~crashed /\ pc[x] = from
  /\ m_graph' = [m_graph EXCEPT ![x[1]][pos[x]] = node]
  /\ Goto(x, to)
  /\ UNCHANGED <<launch, queues, m_Terminated, comm, local, checker>>

Inserted(x) == m_graph[x[1]][pos[x]]
SetProcess(x, from, to) == Assign(x, from, to, [Inserted(x) EXCEPT !.m_process = x[1]])
SetDiv(x, from, to) ==
  Assign(x, from, to, [Inserted(x) EXCEPT !.m_boucle = Inserted(x).m_lddstate \in Divergent])
SetDeadLock(x, from, to) ==
  Assign(x, from, to, [Inserted(x) EXCEPT !.m_blocage = Inserted(x).m_lddstate \in Deadlocked])
SetSHA2(x, from, to) == Assign(x, from, to, [Inserted(x) EXCEPT !.m_SHA2 = Inserted(x).m_lddstate])

(* Mutant: the identifier is assigned before the flags. *)
AssignNamedFirst(x) ==
  \/ SetProcess(x, "setProcess", "setSHA2") \/ SetSHA2(x, "setSHA2", "setDiv")
  \/ SetDiv(x, "setDiv", "setDeadLock") \/ SetDeadLock(x, "setDeadLock", "assign")

AssignNew(x) ==
  \/ SetProcess(x, "setProcess", "setDiv") \/ SetDiv(x, "setDiv", "setDeadLock")
  \/ SetDeadLock(x, "setDeadLock", "setSHA2") \/ SetSHA2(x, "setSHA2", "assign")
AssignReceived(x) ==
  \/ SetDiv(x, "storeDiv", "storeDeadLock") \/ SetDeadLock(x, "storeDeadLock", "storeProcess")
  \/ SetProcess(x, "storeProcess", "storeSHA2") \/ SetSHA2(x, "storeSHA2", "store")

(* Then its place in the queue and, for a target, the edge.                *)
Queue(x, f) ==
  LET p == x[1]
  IN  /\ m_common_stack' =
           [m_common_stack EXCEPT ![p] = Append(@, Pair(pos[x], FirableObs[Inserted(x).m_lddstate]))]
      /\ pc' \in NotifyOne(p, f)

QueueNew(x) ==
  /\ ~crashed /\ pc[x] = "assign"
  /\ Queue(x, [pc EXCEPT ![x] = "fire"])
  /\ m_graph' = [m_graph EXCEPT ![x[1]] = AddSuccessor(@, e[x].state, pos[x], t[x])]
  /\ UNCHANGED <<launch, m_received_msg, m_tosend_msg, m_Terminated, comm, local, checker>>

(* Mutant: the aggregate is not given to thread 0. *)
LinkNotSent(x) ==
  LET p == x[1]
  IN  /\ ~crashed /\ pc[x] = "link"
      /\ m_graph' = [m_graph EXCEPT ![p] = AddSuccessor(@, e[x].state, pos[x], t[x])]
      /\ Goto(x, "fire")
      /\ UNCHANGED <<launch, queues, m_Terminated, comm, local, checker>>

(* The edge to a new virtual node, whose aggregate is given to thread 0.   *)
Link(x) ==
  LET p == x[1]
  IN  /\ ~crashed /\ pc[x] = "link"
      /\ m_graph' = [m_graph EXCEPT ![p] = AddSuccessor(@, e[x].state, pos[x], t[x])]
      /\ m_tosend_msg' = [m_tosend_msg EXCEPT ![p] = Append(@, m_graph[p][pos[x]].m_lddstate)]
      /\ Goto(x, "fire")
      /\ UNCHANGED <<launch, m_common_stack, m_received_msg, m_Terminated, comm, local, checker>>

Complete(x) ==
  LET p == x[1]
  IN  /\ ~crashed /\ pc[x] = "fire"
      /\ e[x].fire = {} \/ p \in m_Terminated
      /\ m_graph' = [m_graph EXCEPT ![p][e[x].state].m_completed = TRUE]
      /\ Goto(x, "receive")
      /\ UNCHANGED <<launch, queues, m_Terminated, comm, local, checker>>

(* One received aggregate, after the state if there was one.               *)
Receive(x) ==
  LET p == x[1]
      a == Head(m_received_msg[p])
  IN  /\ ~crashed /\ pc[x] = "receive"
      /\ \/ m_received_msg[p] = <<>> /\ Goto(x, "loop") /\ UNCHANGED <<m_graph, m_received_msg, pos>>
         \/ /\ m_received_msg[p] # <<>> /\ insertFindByMDD(p, a) # {}
            /\ m_received_msg' = [m_received_msg EXCEPT ![p] = Tail(@)]
            /\ Goto(x, "loop")
            /\ UNCHANGED <<m_graph, pos>>
         \/ /\ m_received_msg[p] # <<>> /\ insertFindByMDD(p, a) = {}
            /\ m_received_msg' = [m_received_msg EXCEPT ![p] = Tail(@)]
            /\ \E g \in Garbage : m_graph' = [m_graph EXCEPT ![p] = insert(@, Node(a, g))]
            /\ pos' = [pos EXCEPT ![x] = Len(m_graph[p]) + 1]
            /\ Goto(x, "storeDiv")
      /\ UNCHANGED <<launch, m_common_stack, m_tosend_msg, m_Terminated, comm, e, t, checker>>

QueueReceived(x) ==
  /\ ~crashed /\ pc[x] = "store"
  /\ Queue(x, [pc EXCEPT ![x] = "loop"])
  /\ UNCHANGED <<launch, m_graph, m_received_msg, m_tosend_msg, m_Terminated, comm, local, checker>>

-----------------------------------------------------------------------------
(* Thread 0.  send_state_message takes one aggregate and reads before it   *)
(* sends it; after FINISH it drops the one it has taken.                   *)
PopMessage(p) ==
  LET c == Comm(p)
  IN  /\ ~crashed /\ pc[c] = "send" /\ answer[p] = <<>>
      /\ \/ /\ m_tosend_msg[p] # <<>>
            /\ m_tosend_msg' = [m_tosend_msg EXCEPT ![p] = Tail(@)]
            /\ \/ p \in m_Terminated /\ Goto(c, "read") /\ UNCHANGED s
               \/ /\ p \notin m_Terminated
                  /\ s' = [s EXCEPT ![p] = {Head(m_tosend_msg[p])}]
                  /\ Goto(c, "held")
         \/ m_tosend_msg[p] = <<>> /\ Goto(c, "read") /\ UNCHANGED <<m_tosend_msg, s>>
      /\ UNCHANGED <<launch, m_graph, m_common_stack, m_received_msg, m_Terminated, waits, chan,
                     answer, crashed, local, checker>>

SendState(p) ==
  /\ ~crashed /\ pc[Comm(p)] = "held" /\ answer[p] = <<>>
  /\ \E a \in s[p] : chan' = MpiSend(chan, p, destination[a], Message("STATE", a))
  /\ s' = [s EXCEPT ![p] = {}]
  /\ Goto(Comm(p), "send")
  /\ UNCHANGED <<launch, m_graph, queues, m_Terminated, waits, answer, crashed, local, checker>>

(* sendPropToMC: the position and the flags. *)
PropMessage(p, n) ==
  Message("ACK_STATE", [pos |-> n, div |-> m_graph[p][n].m_boucle, dead |-> m_graph[p][n].m_blocage])

(* sendSuccToMC: the bytes of the identifier and the process of each       *)
(* successor, which its builder may still have to assign.                  *)
SuccMessage(p, n) ==
  LET succ == m_graph[p][n].Successors
  IN  Message("ACK_SUCC",
        [k \in DOMAIN succ |-> [id |-> m_graph[p][succ[k].to].m_SHA2,
                                process |-> m_graph[p][succ[k].to].m_process, t |-> succ[k].t]])

(* Both read the messages that have come once the answer is written, and   *)
(* then send it.                                                           *)
SendAnswer(p) ==
  /\ ~crashed /\ answer[p] # <<>>
  /\ chan' = MpiSend(chan, p, Checker, Head(answer[p]))
  /\ answer' = [answer EXCEPT ![p] = Tail(@)]
  /\ UNCHANGED <<launch, m_graph, queues, m_Terminated, waits, s, crashed, pc, local, checker>>

(* read_message, by tags. *)
ReadState(p, a) ==
  /\ m_received_msg' = [m_received_msg EXCEPT ![p] = Append(@, a)]
  /\ pc' \in NotifyOne(p, pc)
  /\ UNCHANGED <<m_Terminated, waits, answer, crashed>>

ReadAskState(p, id) ==
  LET found == findSHAPos(p, id)
  IN  /\ m_waitingAgregate' = IF found = {} THEN m_waitingAgregate \cup {p} ELSE m_waitingAgregate \ {p}
      /\ m_id_md5' = IF found = {} THEN [m_id_md5 EXCEPT ![p] = id] ELSE m_id_md5
      /\ \/ found = {} /\ UNCHANGED answer
         \/ \E n \in found : answer' = [answer EXCEPT ![p] = <<PropMessage(p, n)>> \o @]
      /\ UNCHANGED <<m_received_msg, m_Terminated, m_waitingBuildSucc, m_aggWaiting, crashed, pc>>

(* A state found by bytes that were not yet its identifier may no longer   *)
(* be found: the bytes are kept where those of ReadAskState are.           *)
SuccNotFound(p, id) ==
  /\ findSHAPos(p, id) = {}
  /\ m_waitingBuildSucc' = [m_waitingBuildSucc EXCEPT ![p] = "waitingBuild"]
  /\ m_id_md5' = [m_id_md5 EXCEPT ![p] = id]
  /\ UNCHANGED <<m_aggWaiting, answer>>

(* The successors are sent or, if sent is false, waitingFor is assigned.   *)
SuccFound(p, n, sent, waitingFor) ==
  /\ m_aggWaiting' = [m_aggWaiting EXCEPT ![p] = n]
  /\ \/ /\ sent
        /\ m_waitingBuildSucc' = [m_waitingBuildSucc EXCEPT ![p] = "waitInitial"]
        /\ answer' = [answer EXCEPT ![p] = <<SuccMessage(p, n)>> \o @]
     \/ /\ ~sent
        /\ m_waitingBuildSucc' = [m_waitingBuildSucc EXCEPT ![p] = waitingFor]
        /\ UNCHANGED answer
  /\ UNCHANGED m_id_md5

(* Mutant: the state is not waited for when it is not complete. *)
ReadAskSuccNotAwaited(p, id) ==
  /\ \/ SuccNotFound(p, id)
     \/ \E n \in findSHAPos(p, id) : SuccFound(p, n, m_graph[p][n].m_completed, "waitInitial")
  /\ UNCHANGED <<m_received_msg, m_Terminated, m_waitingAgregate, crashed, pc>>

(* Mutant: the successors are sent whether the state is complete or not. *)
ReadAskSuccAtOnce(p, id) ==
  /\ SuccNotFound(p, id) \/ \E n \in findSHAPos(p, id) : SuccFound(p, n, TRUE, "waitingSucc")
  /\ UNCHANGED <<m_received_msg, m_Terminated, m_waitingAgregate, crashed, pc>>

ReadAskSucc(p, id) ==
  /\ \/ SuccNotFound(p, id)
     \/ \E n \in findSHAPos(p, id) : SuccFound(p, n, m_graph[p][n].m_completed, "waitingSucc")
  /\ UNCHANGED <<m_received_msg, m_Terminated, m_waitingAgregate, crashed, pc>>

ReadFinish(p) ==
  /\ m_Terminated' = m_Terminated \cup {p}
  /\ pc' = [x \in Thread |-> IF x \in Waiting(p) THEN "loop" ELSE pc[x]]
  /\ UNCHANGED <<m_received_msg, waits, answer, crashed>>

(* getInitialState is the first node, virtual when it belongs elsewhere.   *)
ReadInitial(p) == UNCHANGED <<m_received_msg, m_Terminated, waits, answer, crashed, pc>>
AckInitial(p) ==
  Message("ACK_INITIAL", [id |-> m_graph[p][1].m_SHA2, process |-> m_graph[p][1].m_process])

(* One turn of read_message. *)
ReadMessage(p) ==
  /\ ~crashed /\ (pc[Comm(p)] \in {"held", "read"} \/ answer[p] # <<>>)
  /\ \E q \in 0 .. Checker :
       LET m == Head(chan[<<q, p>>])
           c == MpiRecv(chan, q, p)
       IN  /\ chan[<<q, p>>] # <<>>
           /\ chan' = IF m.tag = "INITIAL" THEN MpiSend(c, p, q, AckInitial(p)) ELSE c
           /\ \/ m.tag = "STATE" /\ ReadState(p, m.v)
              \/ m.tag = "ASK_STATE" /\ ReadAskState(p, m.v)
              \/ m.tag = "ASK_SUCC" /\ ReadAskSucc(p, m.v)
              \/ m.tag = "FINISH" /\ ReadFinish(p)
              \/ m.tag = "INITIAL" /\ ReadInitial(p)
  /\ UNCHANGED <<launch, m_graph, m_common_stack, m_tosend_msg, s, local, checker>>

(* What follows read_message in the loop of thread 0: the answers that had *)
(* to wait, then NextTurn.                                                 *)
Polling(p) == ~crashed /\ pc[Comm(p)] = "read" /\ answer[p] = <<>>

(* The state whose successors are awaited, built and maybe not complete.   *)
AwaitedSucc(p) ==
  CASE m_waitingBuildSucc[p] = "waitInitial" -> {}
    [] m_waitingBuildSucc[p] = "waitingBuild" -> findSHAPos(p, m_id_md5[p])
    [] m_waitingBuildSucc[p] = "waitingSucc" -> {m_aggWaiting[p]}

AnswerSucc(p) ==
  /\ Polling(p)
  /\ \E n \in AwaitedSucc(p) \ {NoState} :
       /\ m_aggWaiting' = [m_aggWaiting EXCEPT ![p] = n]
       /\ \/ /\ m_graph[p][n].m_completed
             /\ m_waitingBuildSucc' = [m_waitingBuildSucc EXCEPT ![p] = "waitInitial"]
             /\ answer' = [answer EXCEPT ![p] = <<SuccMessage(p, n)>>]
          \/ /\ ~m_graph[p][n].m_completed /\ m_waitingBuildSucc[p] = "waitingBuild"
             /\ m_waitingBuildSucc' = [m_waitingBuildSucc EXCEPT ![p] = "waitingSucc"]
             /\ UNCHANGED answer
  /\ UNCHANGED <<launch, m_graph, queues, m_Terminated, m_waitingAgregate, m_id_md5, chan, s, crashed, pc,
                 local, checker>>

(* m_waitingBuildSucc that nobody assigned, with a null m_aggWaiting.      *)
ReadNull(p) ==
  /\ Polling(p) /\ NoState \in AwaitedSucc(p)
  /\ crashed' = TRUE
  /\ UNCHANGED <<launch, m_graph, queues, m_Terminated, waits, chan, s, answer, pc, local, checker>>

(* Mutant: the request stays after its answer. *)
AnswerStateAgain(p) ==
  /\ Polling(p) /\ p \in m_waitingAgregate
  /\ \E n \in findSHAPos(p, m_id_md5[p]) : answer' = [answer EXCEPT ![p] = <<PropMessage(p, n)>>]
  /\ UNCHANGED <<launch, m_graph, queues, m_Terminated, waits, chan, s, crashed, pc, local, checker>>

AnswerState(p) ==
  /\ Polling(p) /\ p \in m_waitingAgregate
  /\ \E n \in findSHAPos(p, m_id_md5[p]) : answer' = [answer EXCEPT ![p] = <<PropMessage(p, n)>>]
  /\ m_waitingAgregate' = m_waitingAgregate \ {p}
  /\ UNCHANGED <<launch, m_graph, queues, m_Terminated, m_waitingBuildSucc, m_id_md5, m_aggWaiting,
                 chan, s, crashed, pc, local, checker>>

NextTurn(p) ==
  /\ Polling(p)
  /\ \A n \in AwaitedSucc(p) :
       n # NoState /\ m_waitingBuildSucc[p] = "waitingSucc" /\ ~m_graph[p][n].m_completed
  /\ p \in m_waitingAgregate => findSHAPos(p, m_id_md5[p]) = {}
  /\ Goto(Comm(p), IF p \in m_Terminated THEN "done" ELSE "send")
  /\ UNCHANGED <<launch, m_graph, queues, m_Terminated, comm, local, checker>>

-----------------------------------------------------------------------------
(* The checker.  A HybridKripkeState is built from two questions.  Not in   *)
(* the code: named says that every state on the way to this one was asked  *)
(* for by its identifier, and none by bytes nobody had assigned.           *)
AskState(id, process, named, c) ==
  /\ asked' = [id |-> id, process |-> process, named |-> named /\ id \in Aggregate]
  /\ chan' = MpiSend(c, Checker, process, Message("ASK_STATE", id))
  /\ mcPc' = "ackState"

CheckerOnly == UNCHANGED <<launch, m_graph, queues, m_Terminated, waits, s, answer, crashed, pc, local>>

GetInitState ==
  /\ ~crashed /\ mcPc = "initial"
  /\ chan' = MpiSend(chan, Checker, 0, Message("INITIAL", 0))
  /\ mcPc' = "ackInitial"
  /\ CheckerOnly /\ UNCHANGED <<asked, state, kripke>>

(* A message of the wanted tag can be received before older ones.          *)
Oldest(q, tag) ==
  {k \in DOMAIN chan[<<q, Checker>>] :
     /\ chan[<<q, Checker>>][k].tag = tag
     /\ \A l \in 1 .. k - 1 : chan[<<q, Checker>>][l].tag # tag}
Received(q, k) == [chan EXCEPT ![<<q, Checker>>] = SubSeq(@, 1, k - 1) \o SubSeq(@, k + 1, Len(@))]

ReceiveInitial ==
  /\ ~crashed /\ mcPc = "ackInitial"
  /\ \E q \in Process : \E k \in Oldest(q, "ACK_INITIAL") :
       LET v == chan[<<q, Checker>>][k].v IN AskState(v.id, v.process, TRUE, Received(q, k))
  /\ CheckerOnly /\ UNCHANGED <<state, kripke>>

(* What compare() tells states apart by: the position and the container.   *)
Hash(pos_, container) == <<pos_, container>>

ReceiveState ==
  /\ ~crashed /\ mcPc = "ackState"
  /\ \E q \in Process : \E k \in Oldest(q, "ACK_STATE") :
       LET v == chan[<<q, Checker>>][k].v
       IN  /\ state' = {[id |-> asked.id, m_container |-> asked.process,
                         m_hashid |-> Hash(v.pos, asked.process), m_div |-> v.div, m_deadlock |-> v.dead,
                         named |-> asked.named]}
           /\ chan' = MpiSend(Received(q, k), Checker, asked.process, Message("ASK_SUCC", asked.id))
  /\ mcPc' = "ackSucc"
  /\ CheckerOnly /\ UNCHANGED <<asked, kripke>>

ReceiveSucc ==
  /\ ~crashed /\ mcPc = "ackSucc"
  /\ \E q \in Process : \E k \in Oldest(q, "ACK_SUCC") :
       /\ kripke' = kripke \cup
            {[id |-> x.id, m_container |-> x.m_container, m_hashid |-> x.m_hashid, m_div |-> x.m_div,
              m_deadlock |-> x.m_deadlock, m_succ |-> Range(chan[<<q, Checker>>][k].v),
              named |-> x.named] : x \in state}
       /\ chan' = Received(q, k)
  /\ state' = {}
  /\ mcPc' = "explore"
  /\ CheckerOnly /\ UNCHANGED asked

(* dst(): a successor, or the state itself when it is divergent.  The      *)
(* pseudo-successor of a deadlock asks nothing.                            *)
Dst ==
  /\ ~crashed /\ mcPc = "explore"
  /\ \E x \in kripke :
       \/ \E u \in x.m_succ : AskState(u.id, u.process, x.named, chan)
       \/ x.m_div /\ AskState(x.id, x.m_container, x.named, chan)
  /\ CheckerOnly /\ UNCHANGED <<state, kripke>>

(* ~HybridKripke. *)
Finish ==
  /\ ~crashed /\ mcPc = "explore"
  /\ chan' = [pq \in DOMAIN chan |->
                IF pq[1] = Checker /\ m_nb_thread[pq[2]] > 0 THEN Append(chan[pq], Message("FINISH", 0))
                ELSE chan[pq]]
  /\ mcPc' = "end"
  /\ CheckerOnly /\ UNCHANGED <<asked, state, kripke>>

-----------------------------------------------------------------------------
BuilderStep(x) ==
  \/ Loop(x) \/ Sleep(x) \/ Pop(x) \/ Fire(x) \/ AssignNew(x) \/ QueueNew(x) \/ Link(x) \/ Complete(x)
  \/ Receive(x) \/ AssignReceived(x) \/ QueueReceived(x)

(* What thread 0 does beside receiving messages. *)
CommStep(p) ==
  \/ PopMessage(p) \/ SendState(p) \/ SendAnswer(p) \/ AnswerSucc(p) \/ ReadNull(p) \/ AnswerState(p)
  \/ NextTurn(p)

CheckerStep == GetInitState \/ ReceiveInitial \/ ReceiveState \/ ReceiveSucc \/ Dst \/ Finish

Init ==
  /\ \E l \in Launches : m_nb_thread = l.nb_th /\ destination = l.destination /\ memory = l.memory
  /\ m_graph = [p \in Process |-> <<>>]
  /\ m_common_stack = [p \in Process |-> <<>>]
  /\ m_received_msg = [p \in Process |-> <<>>]
  /\ m_tosend_msg = [p \in Process |-> <<>>]
  /\ m_Terminated = {}
  /\ m_waitingAgregate = {p \in Process : memory.m_waitingAgregate}
  /\ m_waitingBuildSucc = [p \in Process |-> memory.m_waitingBuildSucc]
  /\ m_id_md5 = [p \in Process |-> SomeGarbage]
  /\ m_aggWaiting = [p \in Process |-> NoState]
  /\ chan = [pq \in ((0 .. Checker) \X Process) \cup (Process \X {Checker}) |-> <<>>]
  /\ crashed = FALSE
  /\ pc = [x \in Thread |-> IF x[2] < m_nb_thread[x[1]] THEN "start" ELSE "done"]
  /\ e = [x \in Thread |-> Pair(NoState, {})]
  /\ t = [x \in Thread |-> NoTransition]
  /\ pos = [x \in Thread |-> NoState]
  /\ s = [p \in Process |-> {}]
  /\ answer = [p \in Process |-> <<>>]
  /\ mcPc = "initial"
  /\ asked = [id |-> SomeGarbage, process |-> 0, named |-> FALSE]
  /\ state = {}
  /\ kripke = {}

Next ==
  \/ \E x \in Thread : Start(x) \/ BuilderStep(x) \/ SpuriousWakeUp(x)
  \/ \E p \in Process : CommStep(p) \/ ReadMessage(p)
  \/ CheckerStep

(* The scheduler runs every thread and process, and MPI_Iprobe reports a   *)
(* message in the end if it is called again and again.                     *)
Fairness ==
  /\ \A x \in Thread : WF_vars(Start(x)) /\ WF_vars(BuilderStep(x))
  /\ \A p \in Process : WF_vars(CommStep(p)) /\ SF_vars(ReadMessage(p))
  /\ WF_vars(CheckerStep)

Spec == Init /\ [][Next]_vars /\ Fairness
-----------------------------------------------------------------------------
(* Properties. *)

(* Nobody read a member that no constructor initializes before it was      *)
(* assigned: their memory held zeros.                                      *)
Zeroed == memory.m_waitingBuildSucc = "waitInitial" /\ ~memory.m_waitingAgregate

(* The one identifier a process is asked for is kept in one variable for   *)
(* two kinds of question, which outlive the message: whatever is awaited   *)
(* in a process is what the checker is asking it about now, the checker    *)
(* never has two questions or answers under way, and a state asked for by  *)
(* its identifier is still found when its successors are asked for.  Bytes *)
(* that were no identifier may be lost between the two questions.          *)
AnswersTo(p) == {k \in DOMAIN chan[<<p, Checker>>] : TRUE}
AwaitedIsAsked ==
  Zeroed =>
    /\ \A p \in m_waitingAgregate :
         mcPc = "ackState" /\ asked.id = m_id_md5[p] /\ asked.process = p
           /\ answer[p] = <<>> /\ AnswersTo(p) = {}
    /\ \A p \in Process : m_waitingBuildSucc[p] # "waitInitial" =>
         /\ mcPc = "ackSucc" /\ asked.process = p /\ answer[p] = <<>> /\ AnswersTo(p) = {}
         /\ m_waitingBuildSucc[p] = "waitingBuild" => m_id_md5[p] = asked.id /\ asked.id \in Garbage
         /\ m_waitingBuildSucc[p] = "waitingSucc" =>
              asked.id \in {m_graph[p][m_aggWaiting[p]].m_SHA2} \cup Garbage
    /\ \A p \in Process : \A k \in DOMAIN chan[<<Checker, p>>] :
         LET m == chan[<<Checker, p>>][k]
         IN  /\ m.tag \in {"ASK_STATE", "ASK_SUCC"} => m.v = asked.id /\ p = asked.process /\ k = 1
             /\ m.tag = "ASK_SUCC" /\ m.v \in Aggregate => findSHAPos(p, m.v) # {}

(* What the checker has of a state it asked for by its identifier is final *)
(* and right, although others find a state before its process, flags,      *)
(* identifier and edges are assigned; except the flags of an initial state *)
(* of process 0, which nobody computes.  By whatever bytes a state was     *)
(* asked for, its successors are all those of one aggregate, each with its *)
(* identifier and process, or with what was there before.                  *)
SuccessorsOf(a, succ) ==
  /\ {u.t : u \in succ} = FirableObs[a]
  /\ \A u \in succ :
       LET b == Successor[<<a, u.t>>]
       IN  \/ u.id = b /\ u.process = destination[b]
           \/ u.id \in Garbage /\ u.process \in {0, destination[b]}
HasFlags(a) == a # InitialAggregate \/ destination[a] # 0
ObtainedIsFinal ==
  Zeroed => \A x \in kripke :
    /\ \E a \in Aggregate : SuccessorsOf(a, x.m_succ)
    /\ x.id \in Aggregate =>
         /\ x.m_container = destination[x.id]
         /\ HasFlags(x.id) => x.m_div = (x.id \in Divergent) /\ x.m_deadlock = (x.id \in Deadlocked)
         /\ SuccessorsOf(x.id, x.m_succ)

Real(p, a) == {n \in StatesOf(m_graph[p], a) : ~m_graph[p][n].m_virtual}
Has(seq, v) == \E k \in DOMAIN seq : seq[k] = v

(* Until the check is over, an aggregate met by a process it does not      *)
(* belong to waits there, travels, waits at its own process or is there.   *)
NoAggregateLost ==
  mcPc # "end" => \A p \in Process : \A n \in DOMAIN m_graph[p] :
    m_graph[p][n].m_virtual =>
      LET a == m_graph[p][n].m_lddstate
          q == destination[a]
      IN  \/ \E x \in Builders(p) : pc[x] = "link" /\ pos[x] = n
          \/ Has(m_tosend_msg[p], a) \/ a \in s[p]
          \/ Has(chan[<<p, q>>], Message("STATE", a)) \/ Has(m_received_msg[q], a)
          \/ Real(q, a) # {}

(* The processes and the checker together keep the promise of an on-the-   *)
(* fly construction, where the checker has read a state once it has asked  *)
(* for it, and for those on the way to it, by their identifiers.           *)
EdgesOf(p, n) ==
  {<<m_graph[p][n].m_lddstate, u.t, m_graph[p][u.to].m_lddstate>> :
     u \in {m_graph[p][n].Successors[k] : k \in DOMAIN m_graph[p][n].Successors}}
Nodes == UNION {{p} \X DOMAIN m_graph[p] : p \in Process}
AggregatesOf(N) == {m_graph[pn[1]][pn[2]].m_lddstate : pn \in N}
Promise == INSTANCE SOGOnTheFly WITH
  known <- AggregatesOf(Nodes),
  edges <- UNION {EdgesOf(pn[1], pn[2]) : pn \in Nodes},
  final <- AggregatesOf({pn \in Nodes : m_graph[pn[1]][pn[2]].m_completed}),
  read <- IF Zeroed THEN {x.id : x \in {y \in kripke : y.named}} ELSE {},
  stopped <- mcPc = "end"
ImplementsSOGOnTheFly == Promise!Spec

(* A checker that asks for a state by its identifier and waits, for the    *)
(* state or for its successors, when it is complete, is answered, even if  *)
(* it was inserted or completed after the search that did not find it:     *)
(* thread 0 polls, so no wake-up is involved.                              *)
CompletedIsAnswered ==
  (/\ Zeroed /\ mcPc \in {"ackState", "ackSucc"}
   /\ \E n \in findSHAPos(asked.process, asked.id) : m_graph[asked.process][n].m_completed)
    ~> mcPc \notin {"ackState", "ackSucc"}
=============================================================================
