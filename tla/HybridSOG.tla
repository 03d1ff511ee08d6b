----------------------------- MODULE HybridSOG -----------------------------
(***************************************************************************)
(* HybridSOG: the graph is spread over MPI processes.  Every aggregate     *)
(* belongs to the process its MD5 designates, which expands it; elsewhere  *)
(* it only has a virtual node.  In each process, thread 0 communicates     *)
(* and detects the termination, the others build.                          *)
(*                                                                         *)
(* External: MPI keeps the messages of one sender to one receiver in       *)
(* order, MPI_Send buffers, and MPI_Iprobe may miss a message that has     *)
(* been sent, but not one that it has already reported.  Decoding an       *)
(* encoded or canonized aggregate and closing it gives the aggregate (see  *)
(* CommonSOG), so a state message is an aggregate.                         *)
(*                                                                         *)
(* Like threadSOG, m_charge is shared without a lock and minCharge may     *)
(* answer any building thread, and Predecessors are written without a      *)
(* lock; they are modelled in ThreadSOG and left out here.                 *)
(***************************************************************************)
EXTENDS LDDGraph, FiniteSets
LOCAL INSTANCE Functions

CONSTANTS
  MaxTask,   \* the largest number of processes
  MaxThread, \* the largest number of threads of a process
  Launches   \* what to consider: n_tasks, the numbers of threads nb_th and the
             \* owners of the aggregates, Identif[0] % n_tasks

Process == 0 .. MaxTask - 1

ASSUME HybridSOGAssumption ==
  /\ MaxTask \in Nat \ {0, 1} /\ MaxThread \in Nat \ {0, 1}
  /\ \A l \in Launches :
       /\ l.n_tasks \in 2 .. MaxTask
       /\ l.nb_th \in [Process -> 2 .. MaxThread]
       /\ l.destination \in [Aggregate -> 0 .. l.n_tasks - 1]

Thread == Process \X (0 .. MaxThread - 1)
Comm(p) == <<p, 0>>

VARIABLES
  n_tasks,          \* the number of processes
  m_nb_thread,      \* the number of threads of each process
  destination,      \* the process each aggregate belongs to
  m_graph,          \* the nodes of each process
  m_st,             \* the stack of each thread, its top first
  m_msg,            \* its stack of received aggregates; for thread 0, to send
  m_working,        \* the builders of each process inside their loop body
  m_gc,             \* those with an id above 1: m_gc_mutex is locked iff not 0
  m_nbsend,         \* the state messages each process has sent
  m_nbrecv,         \* ... and received
  m_total_nb_recv,  \* what process 0 got from its last TAG_REC round
  m_Terminated,     \* the processes that have received TAG_TERM
  m_Terminating,    \* the processes in a termination round
  chan,             \* the messages sent and not received, oldest first
  probed,           \* the senders of the states reported and not received
  pc,               \* where each thread is
  e,                \* each builder's e: a state and its transitions to fire
  t,                \* its transition
  pos,              \* its target of t, or the state it has received
  fresh,            \* whether it has just inserted it
  s,                \* the aggregate thread 0 is about to send
  i                 \* the index of thread 0 in isNotTerminated

launch == <<n_tasks, m_nb_thread, destination>>
counts == <<m_nbsend, m_nbrecv, m_total_nb_recv>>
flags == <<m_Terminated, m_Terminating>>
stacks == <<m_st, m_msg>>
local == <<e, t, pos, fresh>>
comm == <<s, i, counts, chan, probed>>
vars == <<launch, m_graph, stacks, m_working, m_gc, flags, pc, local, comm>>

Goto(x, label) == pc' = [pc EXCEPT ![x] = label]

Builders(p) == {p} \X (1 .. m_nb_thread[p] - 1)

(* The node of an aggregate: virtual when it belongs to another process.   *)
Node(a, virtual) == [m_lddstate |-> a, Successors |-> <<>>, m_virtual |-> virtual]
Pair(n, fire) == [state |-> n, fire |-> fire]
Message(tag, v) == [tag |-> tag, v |-> v]
MpiSend(c, p, q, m) == [c EXCEPT ![<<p, q>>] = Append(@, m)]
MpiRecv(c, p, q) == [c EXCEPT ![<<p, q>>] = Tail(@)]
NextTask(p) == (p + 1) % n_tasks

-----------------------------------------------------------------------------
(* doCompute, what every thread does first: a late one undoes TAG_TERM.    *)
Start(x) ==
  /\ pc[x] = "start"
  /\ m_Terminated' = m_Terminated \ {x[1]}
  /\ m_Terminating' = m_Terminating \ {x[1]}
  /\ IF x = Comm(0)
     THEN LET a == InitialAggregate
              here == destination[a] = 0
          IN  /\ m_graph' = [m_graph EXCEPT ![0] = insert(@, Node(a, ~here))]
              /\ m_st' = IF here THEN [m_st EXCEPT ![<<0, 1>>] = <<Pair(1, FirableObs[a])>>]
                                 ELSE m_st
              /\ m_msg' = IF here THEN m_msg ELSE [m_msg EXCEPT ![x] = <<a>>]
     ELSE UNCHANGED <<m_graph, stacks>>
  /\ Goto(x, IF x = Comm(x[1]) THEN "send" ELSE "loop")
  /\ UNCHANGED <<launch, m_working, m_gc, local, comm>>

-----------------------------------------------------------------------------
(* A builder.  It sees a stack without its lock, then counts itself in.    *)
Loop(x) ==
  /\ pc[x] = "loop"
  /\ \/ x[1] \in m_Terminated /\ Goto(x, "done")
     \/ x[1] \notin m_Terminated /\ (m_st[x] # <<>> \/ m_msg[x] # <<>>) /\ Goto(x, "busy")
  /\ UNCHANGED <<launch, m_graph, stacks, m_working, m_gc, flags, local, comm>>

Busy(x) ==
  /\ pc[x] = "busy"
  /\ m_working' = [m_working EXCEPT ![x[1]] = @ + 1]
  /\ Goto(x, IF x[2] > 1 THEN "enter" ELSE "pop")
  /\ UNCHANGED <<launch, m_graph, stacks, m_gc, flags, local, comm>>

(* The first to enter locks m_gc_mutex, and the last to leave unlocks it.  *)
Enter(x) ==
  /\ pc[x] = "enter"
  /\ m_gc' = [m_gc EXCEPT ![x[1]] = @ + 1]
  /\ Goto(x, "pop")
  /\ UNCHANGED <<launch, m_graph, stacks, m_working, flags, local, comm>>

Pop(x) ==
  /\ pc[x] = "pop"
  /\ \/ /\ m_st[x] # <<>>
        /\ e' = [e EXCEPT ![x] = Head(m_st[x])]
        /\ m_st' = [m_st EXCEPT ![x] = Tail(@)]
        /\ Goto(x, "fire")
     \/ m_st[x] = <<>> /\ Goto(x, "receive") /\ UNCHANGED <<e, m_st>>
  /\ UNCHANGED <<launch, m_graph, m_msg, m_working, m_gc, flags, t, pos, fresh, comm>>

(* The node of the initial aggregate that process 0 deletes after it has   *)
(* inserted it: whether findSHA recognizes the freed object is undefined.  *)
Dangling(p, n) == p = 0 /\ n = 1 /\ m_graph[p][n].m_virtual

(* find or insert under m_graph_mutex: find for an aggregate of this       *)
(* process, findSHA for one of another.                                    *)
FindInsert(x, a) ==
  LET p == x[1]
      found == StatesOf(m_graph[p], a)
  IN  \/ \E n \in found : /\ pos' = [pos EXCEPT ![x] = n]
                          /\ fresh' = [fresh EXCEPT ![x] = FALSE]
                          /\ UNCHANGED m_graph
      \/ /\ \A n \in found : Dangling(p, n)
         /\ m_graph' = [m_graph EXCEPT ![p] = insert(@, Node(a, destination[a] # p))]
         /\ pos' = [pos EXCEPT ![x] = Len(m_graph[p]) + 1]
         /\ fresh' = [fresh EXCEPT ![x] = TRUE]

(* Mutant: the loop ends one transition too early. *)
FireAllButLast(x) ==
  /\ pc[x] = "fire" \/ (pc[x] = "collect" /\ m_gc[x[1]] = 0)
  /\ \/ \E u \in e[x].fire :
          /\ Cardinality(e[x].fire) > 1
          /\ \A v \in e[x].fire : u <= v
          /\ t' = [t EXCEPT ![x] = u]
          /\ e' = [e EXCEPT ![x].fire = @ \ {u}]
          /\ FindInsert(x, Successor[<<m_graph[x[1]][e[x].state].m_lddstate, u>>])
          /\ Goto(x, "link")
     \/ /\ Cardinality(e[x].fire) <= 1
        /\ Goto(x, "receive")
        /\ UNCHANGED <<m_graph, local>>
  /\ UNCHANGED <<launch, stacks, m_working, m_gc, flags, comm>>

(* isGCRequired: thread 1 has to lock m_gc_mutex before it goes on; the    *)
(* collection itself is commented out.                                     *)
Collect(x) ==
  /\ pc[x] = "fire" /\ x[2] = 1 /\ e[x].fire # {}
  /\ Goto(x, "collect")
  /\ UNCHANGED <<launch, m_graph, stacks, m_working, m_gc, flags, local, comm>>

(* The first transition leaves the set and its target is looked for.       *)
Fire(x) ==
  /\ pc[x] = "fire" \/ (pc[x] = "collect" /\ m_gc[x[1]] = 0)
  /\ \/ \E u \in e[x].fire :
          /\ \A v \in e[x].fire : u <= v
          /\ t' = [t EXCEPT ![x] = u]
          /\ e' = [e EXCEPT ![x].fire = @ \ {u}]
          /\ FindInsert(x, Successor[<<m_graph[x[1]][e[x].state].m_lddstate, u>>])
          /\ Goto(x, "link")
     \/ e[x].fire = {} /\ Goto(x, "receive") /\ UNCHANGED <<m_graph, local>>
  /\ UNCHANGED <<launch, stacks, m_working, m_gc, flags, comm>>

(* Mutant: a virtual node is not sent to its process. *)
LinkNoMessage(x) ==
  LET p == x[1]
      n == m_graph[p][pos[x]]
  IN  /\ pc[x] = "link"
      /\ m_graph' = [m_graph EXCEPT ![p] = AddSuccessor(@, e[x].state, pos[x], t[x])]
      /\ \/ (~fresh[x] \/ n.m_virtual) /\ UNCHANGED stacks
         \/ /\ fresh[x] /\ ~n.m_virtual
            /\ \E y \in Builders(p) :
                 m_st' = [m_st EXCEPT ![y] = <<Pair(pos[x], FirableObs[n.m_lddstate])>> \o @]
            /\ UNCHANGED m_msg
      /\ Goto(x, "fire")
      /\ UNCHANGED <<launch, m_working, m_gc, flags, local, comm>>

(* The edge; then a new state goes to a builder, or to thread 0 to be sent.*)
Link(x) ==
  LET p == x[1]
      n == m_graph[p][pos[x]]
  IN  /\ pc[x] = "link"
      /\ m_graph' = [m_graph EXCEPT ![p] = AddSuccessor(@, e[x].state, pos[x], t[x])]
      /\ \/ ~fresh[x] /\ UNCHANGED stacks
         \/ /\ fresh[x] /\ ~n.m_virtual
            /\ \E y \in Builders(p) :
                 m_st' = [m_st EXCEPT ![y] = <<Pair(pos[x], FirableObs[n.m_lddstate])>> \o @]
            /\ UNCHANGED m_msg
         \/ /\ fresh[x] /\ n.m_virtual
            /\ m_msg' = [m_msg EXCEPT ![Comm(p)] = <<n.m_lddstate>> \o @]
            /\ UNCHANGED m_st
      /\ Goto(x, "fire")
      /\ UNCHANGED <<launch, m_working, m_gc, flags, local, comm>>

(* Out of the section of m_gc, where thread 1 is not. *)
Out(x) == IF x[2] > 1 THEN "leave" ELSE "idle"

(* One received aggregate, after the state if there was one.               *)
Receive(x) ==
  /\ pc[x] = "receive"
  /\ \/ /\ m_msg[x] # <<>>
        /\ FindInsert(x, Head(m_msg[x]))
        /\ m_msg' = [m_msg EXCEPT ![x] = Tail(@)]
        /\ Goto(x, IF fresh'[x] THEN "store" ELSE Out(x))
     \/ m_msg[x] = <<>> /\ Goto(x, Out(x)) /\ UNCHANGED <<m_graph, m_msg, pos, fresh>>
  /\ UNCHANGED <<launch, m_st, m_working, m_gc, flags, e, t, comm>>

Store(x) ==
  /\ pc[x] = "store"
  /\ \E y \in Builders(x[1]) :
       m_st' = [m_st EXCEPT ![y] =
                  <<Pair(pos[x], FirableObs[m_graph[x[1]][pos[x]].m_lddstate])>> \o @]
  /\ Goto(x, Out(x))
  /\ UNCHANGED <<launch, m_graph, m_msg, m_working, m_gc, flags, local, comm>>

Leave(x) ==
  /\ pc[x] = "leave"
  /\ m_gc' = [m_gc EXCEPT ![x[1]] = @ - 1]
  /\ Goto(x, "idle")
  /\ UNCHANGED <<launch, m_graph, stacks, m_working, flags, local, comm>>

Idle(x) ==
  /\ pc[x] = "idle"
  /\ m_working' = [m_working EXCEPT ![x[1]] = @ - 1]
  /\ Goto(x, "loop")
  /\ UNCHANGED <<launch, m_graph, stacks, m_gc, flags, local, comm>>

-----------------------------------------------------------------------------
(* Thread 0.  send_state_message takes one aggregate and reads before it   *)
(* sends it.                                                               *)
PopMessage(p) ==
  LET c == Comm(p)
  IN  /\ pc[c] = "send"
      /\ \/ /\ m_msg[c] # <<>>
            /\ s' = [s EXCEPT ![p] = {Head(m_msg[c])}]
            /\ m_msg' = [m_msg EXCEPT ![c] = Tail(@)]
            /\ Goto(c, "held")
         \/ m_msg[c] = <<>> /\ Goto(c, "read") /\ UNCHANGED <<s, m_msg>>
      /\ UNCHANGED <<launch, m_graph, m_st, m_working, m_gc, flags, local, i, counts, chan, probed>>

SendState(p) ==
  /\ pc[Comm(p)] = "held" /\ probed[p] = {}
  /\ \E a \in s[p] : chan' = MpiSend(chan, p, destination[a], Message("STATE", a))
  /\ s' = [s EXCEPT ![p] = {}]
  /\ m_nbsend' = [m_nbsend EXCEPT ![p] = @ + 1]
  /\ Goto(Comm(p), "send")
  /\ UNCHANGED <<launch, m_graph, stacks, m_working, m_gc, flags, local, i, m_nbrecv,
                 m_total_nb_recv, probed>>

(* read_state_message: the aggregate goes to the stack of a builder.       *)
ReadState(p, q) ==
  LET m == Head(chan[<<q, p>>])
  IN  /\ m.tag = "STATE"
      /\ \E y \in Builders(p) : m_msg' = [m_msg EXCEPT ![y] = <<m.v>> \o @]
      /\ m_nbrecv' = [m_nbrecv EXCEPT ![p] = @ + 1]
      /\ chan' = MpiRecv(chan, q, p)
      /\ probed' = [probed EXCEPT ![p] = @ \ {q}]
      /\ UNCHANGED <<m_nbsend, m_total_nb_recv, flags>>

(* AbortTerm: any other message ends the round, TAG_TERM too.              *)
AbortTerm(p, q) ==
  LET c == MpiRecv(chan, q, p)
  IN  /\ Head(chan[<<q, p>>]).tag # "STATE"
      /\ m_Terminating' = m_Terminating \ {p}
      /\ chan' = IF p # 0 THEN MpiSend(c, p, 0, Message("ABORT", 0)) ELSE c
      /\ UNCHANGED <<m_Terminated, counts, m_msg, probed>>

(* One turn of read_message. *)
ReadMessage(p) ==
  /\ pc[Comm(p)] \in {"held", "read"}
  /\ \E q \in Process : chan[<<q, p>>] # <<>> /\ (ReadState(p, q) \/ AbortTerm(p, q))
  /\ UNCHANGED <<launch, m_graph, m_st, m_working, m_gc, pc, local, s, i>>

(* isNotTerminated looks at the two stacks of each thread, one by one; the *)
(* first is never used.                                                    *)
isNotTerminated(p) ==
  LET y == <<p, i[p] \div 2>>
      empty == IF i[p] % 2 = 0 THEN m_st[y] = <<>> ELSE m_msg[y] = <<>>
      last == 2 * m_nb_thread[p] - 1
  IN  /\ pc[Comm(p)] \in {"read", "scan"} /\ probed[p] = {}
      /\ i' = [i EXCEPT ![p] = IF empty /\ @ # last THEN @ + 1 ELSE 1]
      /\ Goto(Comm(p), IF ~empty THEN "send" ELSE IF i[p] = last THEN "quiet" ELSE "scan")
      /\ UNCHANGED <<launch, m_graph, stacks, m_working, m_gc, flags, local, s, counts, chan, probed>>

(* m_working==0 && m_nbsend>=1: process 0 starts a round, another one joins.*)
Quiet(p) ==
  /\ pc[Comm(p)] = "quiet"
  /\ \/ /\ m_working[p] = 0 /\ m_nbsend[p] >= 1
        /\ m_Terminating' = m_Terminating \cup {p}
        /\ chan' = IF p = 0 THEN MpiSend(chan, 0, NextTask(0), Message("REC", m_nbrecv[0]))
                            ELSE chan
        /\ Goto(Comm(p), "term")
     \/ /\ ~(m_working[p] = 0 /\ m_nbsend[p] >= 1)
        /\ Goto(Comm(p), "send")
        /\ UNCHANGED <<m_Terminating, chan>>
  /\ UNCHANGED <<launch, m_graph, stacks, m_working, m_gc, m_Terminated, local, s, i, counts, probed>>

(* TermReceivedMsg: the round that adds what has been received, then the   *)
(* one that adds what has been sent.                                       *)
TermReceivedMsg(p, v, c) ==
  \/ /\ p # 0
     /\ chan' = MpiSend(c, p, NextTask(p), Message("REC", v + m_nbrecv[p]))
     /\ UNCHANGED m_total_nb_recv
  \/ /\ p = 0 /\ 0 \in m_Terminating
     /\ m_total_nb_recv' = v
     /\ chan' = MpiSend(c, 0, 1, Message("SEND", m_nbsend[0]))
  \/ p = 0 /\ 0 \notin m_Terminating /\ chan' = c /\ UNCHANGED m_total_nb_recv

(* Mutant: more states sent than received are enough. *)
TermSendMsgAtLeast(p, v, c) ==
  \/ /\ p # 0
     /\ chan' = MpiSend(c, p, NextTask(p), Message("SEND", v + m_nbsend[p]))
     /\ UNCHANGED m_Terminating
  \/ /\ p = 0 /\ v >= m_total_nb_recv
     /\ chan' = MpiSend(c, 0, NextTask(0), Message("TERM", 0))
     /\ UNCHANGED m_Terminating
  \/ /\ p = 0 /\ v < m_total_nb_recv
     /\ chan' = c
     /\ m_Terminating' = m_Terminating \ {0}

TermSendMsg(p, v, c) ==
  \/ /\ p # 0
     /\ chan' = MpiSend(c, p, NextTask(p), Message("SEND", v + m_nbsend[p]))
     /\ UNCHANGED m_Terminating
  \/ /\ p = 0 /\ v = m_total_nb_recv
     /\ chan' = MpiSend(c, 0, NextTask(0), Message("TERM", 0))
     /\ UNCHANGED m_Terminating
  \/ /\ p = 0 /\ v # m_total_nb_recv
     /\ chan' = c
     /\ m_Terminating' = m_Terminating \ {0}

ReceiveTermSignal(p, c) ==
  /\ m_Terminated' = m_Terminated \cup {p}
  /\ chan' = IF p # 0 THEN MpiSend(c, p, NextTask(p), Message("TERM", 0)) ELSE c

(* Mutant: TAG_STATE is received there, like TAG_ABORT. *)
LeaveRoundDrops(p, q) ==
  /\ Head(chan[<<q, p>>]).tag \in {"ABORT", "STATE"}
  /\ m_Terminating' = m_Terminating \ {p}
  /\ chan' = MpiRecv(chan, q, p)
  /\ Goto(Comm(p), IF p \in m_Terminated THEN "done" ELSE "send")
  /\ UNCHANGED <<m_Terminated, m_total_nb_recv, probed>>

(* TAG_ABORT and TAG_STATE return from read_termination and end the round; *)
(* the state is not received there.                                        *)
LeaveRound(p, q) ==
  LET tag == Head(chan[<<q, p>>]).tag
  IN  /\ \/ tag = "ABORT" /\ chan' = MpiRecv(chan, q, p) /\ UNCHANGED probed
         \/ tag = "STATE" /\ probed' = [probed EXCEPT ![p] = {q}] /\ UNCHANGED chan
      /\ m_Terminating' = m_Terminating \ {p}
      /\ Goto(Comm(p), IF p \in m_Terminated THEN "done" ELSE "send")
      /\ UNCHANGED <<m_Terminated, m_total_nb_recv>>

(* One turn of read_termination. *)
ReadTermination(p) ==
  /\ pc[Comm(p)] = "term"
  /\ \E q \in Process :
       LET m == Head(chan[<<q, p>>])
           c == MpiRecv(chan, q, p)
       IN  /\ chan[<<q, p>>] # <<>>
           /\ \/ LeaveRound(p, q)
              \/ /\ m.tag = "REC" /\ TermReceivedMsg(p, m.v, c)
                 /\ UNCHANGED <<flags, pc, probed>>
              \/ /\ m.tag = "SEND" /\ TermSendMsg(p, m.v, c)
                 /\ UNCHANGED <<m_Terminated, m_total_nb_recv, pc, probed>>
              \/ /\ m.tag = "TERM" /\ ReceiveTermSignal(p, c)
                 /\ UNCHANGED <<m_Terminating, m_total_nb_recv, pc, probed>>
  /\ UNCHANGED <<launch, m_graph, stacks, m_working, m_gc, local, s, i, m_nbsend, m_nbrecv>>

EndRound(p) ==
  /\ pc[Comm(p)] = "term"
  /\ p \notin m_Terminating \/ p \in m_Terminated
  /\ m_Terminating' = IF p = 0 THEN m_Terminating ELSE m_Terminating \ {p}
  /\ Goto(Comm(p), IF p \in m_Terminated THEN "done" ELSE "send")
  /\ UNCHANGED <<launch, m_graph, stacks, m_working, m_gc, m_Terminated, local, comm>>

-----------------------------------------------------------------------------
BuilderStep(x) ==
  \/ Loop(x) \/ Busy(x) \/ Enter(x) \/ Pop(x) \/ Collect(x) \/ Fire(x) \/ Link(x)
  \/ Receive(x) \/ Store(x) \/ Leave(x) \/ Idle(x)

(* What thread 0 does beside receiving messages. *)
CommStep(p) ==
  PopMessage(p) \/ SendState(p) \/ isNotTerminated(p) \/ Quiet(p) \/ EndRound(p)

Init ==
  /\ \E l \in Launches :
       n_tasks = l.n_tasks /\ m_nb_thread = l.nb_th /\ destination = l.destination
  /\ m_graph = [p \in Process |-> <<>>]
  /\ m_st = [x \in Thread |-> <<>>]
  /\ m_msg = [x \in Thread |-> <<>>]
  /\ m_working = [p \in Process |-> 0]
  /\ m_gc = [p \in Process |-> 0]
  /\ m_nbsend = [p \in Process |-> 0]
  /\ m_nbrecv = [p \in Process |-> 0]
  /\ m_total_nb_recv = 0
  /\ m_Terminated = {}
  /\ m_Terminating = {}
  /\ chan = [pq \in Process \X Process |-> <<>>]
  /\ probed = [p \in Process |-> {}]
  /\ pc = [x \in Thread |-> IF x[1] < n_tasks /\ x[2] < m_nb_thread[x[1]] THEN "start" ELSE "done"]
  /\ e = [x \in Thread |-> Pair(NoState, {})]
  /\ t = [x \in Thread |-> NoTransition]
  /\ pos = [x \in Thread |-> NoState]
  /\ fresh = [x \in Thread |-> FALSE]
  /\ s = [p \in Process |-> {}]
  /\ i = [p \in Process |-> 1]

Next ==
  \/ \E x \in Thread : Start(x) \/ BuilderStep(x)
  \/ \E p \in Process : CommStep(p) \/ ReadMessage(p) \/ ReadTermination(p)

(* The scheduler runs every thread, MPI_Iprobe reports a message in the    *)
(* end if it is called again and again, and the loop of read_message ends. *)
Fairness ==
  /\ \A x \in Thread : WF_vars(Start(x)) /\ WF_vars(BuilderStep(x))
  /\ \A p \in Process : /\ WF_vars(CommStep(p))
                         /\ WF_vars(ReadTermination(p))
                         /\ SF_vars(ReadMessage(p))

Spec == Init /\ [][Next]_vars /\ Fairness
-----------------------------------------------------------------------------
(* Properties. *)

Real(p, a) == {n \in StatesOf(m_graph[p], a) : ~m_graph[p][n].m_virtual}

(* However threads, processes and messages interleave, an aggregate is     *)
(* expanded by its process only, and once; another process has one virtual *)
(* node for it, beside the deleted one.                                    *)
ExpandedOnce ==
  \A p \in Process :
    /\ \A a \in Aggregate : Cardinality(Real(p, a)) <= IF p = destination[a] THEN 1 ELSE 0
    /\ \A n, m \in DOMAIN m_graph[p] :
         m_graph[p][n].m_lddstate = m_graph[p][m].m_lddstate =>
           n = m \/ Dangling(p, n) \/ Dangling(p, m)

Has(seq, v) == \E k \in DOMAIN seq : seq[k] = v

(* Builder x works on state n of its process, or has still to push it.     *)
Holds(x, n) ==
  \/ pc[x] \in {"fire", "collect", "link"} /\ e[x].state = n
  \/ pc[x] \in {"link", "store"} /\ fresh[x] /\ pos[x] = n

Stacked(x, n) == \E k \in DOMAIN m_st[x] : m_st[x][k].state = n

Finished(p, n) == \A x \in Builders(p) : ~Stacked(x, n) /\ ~Holds(x, n)

(* An aggregate met by a process it does not belong to is never forgotten: *)
(* it waits in that process, travels, waits at its own process or has a    *)
(* node there.                                                             *)
NoAggregateLost ==
  \A p \in Process : \A n \in DOMAIN m_graph[p] :
    m_graph[p][n].m_virtual =>
      LET a == m_graph[p][n].m_lddstate
          q == destination[a]
      IN  \/ \E x \in Builders(p) : pc[x] = "link" /\ fresh[x] /\ pos[x] = n
          \/ Has(m_msg[Comm(p)], a) \/ a \in s[p]
          \/ Has(chan[<<p, q>>], Message("STATE", a))
          \/ \E x \in Builders(q) : Has(m_msg[x], a)
          \/ Real(q, a) # {}

Sum(f) == FoldFunction(LAMBDA u, v : u + v, 0, f)
InTransit == Sum([pq \in Process \X Process |->
                    Cardinality({k \in DOMAIN chan[pq] : chan[pq][k].tag = "STATE"})])

(* Process 0 declares the termination only when no state is in transit,    *)
(* whenever its round is the only one: a thread that starts late can end a *)
(* round whose messages then meet those of the next one.                   *)
Rounds == Sum([pq \in Process \X Process |->
                 Cardinality({k \in DOMAIN chan[pq] : chan[pq][k].tag \in {"REC", "SEND"}})])
Declared == \E k \in DOMAIN chan[<<0, 1>>] : chan[<<0, 1>>][k].tag = "TERM"
TermWhenDelivered ==
  [][~Declared /\ Declared' /\ Rounds = 1 => InTransit = 0]_vars

(* The processes together only grow their graph towards the SOG.           *)
EdgesOf(p, n) ==
  {<<m_graph[p][n].m_lddstate, u.t, m_graph[p][u.to].m_lddstate>> :
     u \in {m_graph[p][n].Successors[k] : k \in DOMAIN m_graph[p][n].Successors}}
Nodes == UNION {{p} \X DOMAIN m_graph[p] : p \in Process}
AggregatesOf(N) == {m_graph[pn[1]][pn[2]].m_lddstate : pn \in N}
Promise == INSTANCE SOGOnTheFly WITH
  known <- AggregatesOf(Nodes),
  edges <- UNION {EdgesOf(pn[1], pn[2]) : pn \in Nodes},
  final <- AggregatesOf({pn \in Nodes : ~m_graph[pn[1]][pn[2]].m_virtual
                                        /\ Finished(pn[1], pn[2])}),
  read <- {},
  stopped <- FALSE
ImplementsSOGOnTheFly == Promise!Spec

(* As long as no process leaves, every aggregate that a process has met    *)
(* ends with a node in the process it belongs to.                          *)
Delivered ==
  \A p \in Process : \A n \in DOMAIN m_graph[p] :
    m_graph[p][n].m_virtual =>
      Real(destination[m_graph[p][n].m_lddstate], m_graph[p][n].m_lddstate) # {}
EveryAggregateDelivered == []<>(Delivered \/ m_Terminated # {})
=============================================================================
