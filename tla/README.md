# PMC-SOG, a verification development

PMC-SOG builds the *Symbolic Observation Graph* (SOG) of a Petri net and
model-checks LTL formulas on it.  A state of the SOG, an *aggregate*, is a set
of markings closed under the transitions the formula does not observe; it is
held as a decision diagram, and two aggregates are equal exactly when the
identifiers of their diagrams are.  An edge of the SOG is an observable
transition.  The program builds the graph in several ways: by one thread, by
several threads, by several threads in several MPI processes; before the model
checking or on the fly, while Spot walks it.

Most of what can go wrong is in the concurrent part: which thread or process
builds which aggregate, when may another one read it, when is everybody done.
Most specifications are about this and take aggregates as constants.  Two are
about what an aggregate is made of: one has the diagrams and the operations on them over
small nets, the other the table and the cache of diagrams that all threads share.

## Inventory

Paths are relative to `src/src/`.

### The shared graph: `LDDGraph`, `LDDState`

*State.* `m_GONodes`, a vector of pointers to `LDDState`; `m_nbArcs` (atomic);
`m_initialstate`; `m_mutex` (a shared mutex on the vector).  An `LDDState` has
its aggregate, two vectors of edges, the flags *divergent* (`m_boucle`) and
*deadlock* (`m_blocage`), *visited* (by the checker) and *completed* (by a
builder), a level and a counter of successors still to build (the on-request
checkers), a hash, a process number and *virtual* (the MPI constructions).

*Operations.* `find`, `insert`, `insertFindByMDD` (search and insertion under
one lock), `findSHA`, `insertSHA`, `insertFindSha`, `findSHAPos`, `addArc`,
`printCompleteInformation`.

*Hard.* Only the vector is protected: edges and flags are written by builders
and read by the checker with whatever locks the callers take, which differ
from one construction to the next.

*Correct when* an aggregate has one state; the edges are those of the SOG, at
both ends; nothing changes in a state the checker has been given.

### Symbolic operations: `CommonSOG`

`Accessible_epsilon` (closure), `firable_obs`, `get_successor`, `Canonize`
(a reduced representative), `Set_Div`, `Set_Bloc`, `saturatePOR` (closure with
ample sets), `loadNetFromFile`.  Its state is the net and one pair of diagrams
for each transition.

*Hard.* Fixpoints over diagrams; `Canonize` leaves out of one half what the other
reaches and back; the ample sets of *sets* of markings.

*Correct when* an aggregate has the markings its observed sequence leads to, the
flags and the label that Spot reads are those of its markings, and what is
sent to another process is enough to rebuild it.

### On the fly, several threads: `ModelCheckBaseMT` and its four subclasses

The main thread runs Spot, which asks for the initial state
(`getInitialMetaState`) and for the successors of a state it holds: the
constructor of `SogKripkeStateTh` calls `buildSucc` and waits until the state
is completed; `SogKripkeIteratorTh` then copies its edges and flags.  Builders
run ahead of it.  At the end `main` calls `finish()`, prints the graph, and
deletes the checker.

  - `ModelCheckerCPPThread` (the default), `MCCPPThPor`: a common queue
    (`SafeDequeue`), condition variables for builders and checker.
  - `ModelCheckerTh`: a stack per thread with a spin lock, a load per thread to
    choose where to push, a flag per thread to decide the end.
  - `ModelCheckThReq`, `MCThReqPor`: on request; the unit of work is one
    transition of a state, the checker starts the work, the builders anticipate
    `LEVEL` steps, a counter says when a state is complete.

*Hard.* Condition variables notified without the waiter's mutex; flags set after
a state is published; level and counter of a state tested and set by two
threads; plain booleans polled; the end while others still push.

*Correct when* the checker gets states that are final, every check returns, and
the builders are joined.

### Explicit, several threads: `threadSOG`

`computeSeqSOG` (one thread), `computeDSOG` with `doCompute`,
`doComputeCanonized`, `doComputePOR`: stacks, loads and flags as in
`ModelCheckerTh`; a counter `m_gc` whose first entrant locks a mutex and whose
last leaver unlocks it, against thread 0.

*Hard.* The termination test; edges written outside the graph mutex; a mutex
unlocked by another thread than its owner.

*Correct when* the graph is the SOG when all threads are done.

### Explicit, several processes: `HybridSOG`

Each MPI process has one communicating thread and builders.  An aggregate belongs
to the process its MD5 designates; one found elsewhere is sent there and kept
locally as a *virtual* state.  The end is detected by two rounds of messages
that add up received and sent states (`startTermDetectionByMaster`,
`TermReceivedMsg`, `TermSendMsg`, `ReceiveTermSignal`, `AbortTerm`).

*Hard.* The counters are read while builders and messages are under way; rounds
that overlap; who takes part in the detection; recursion of the reader of
messages inside the sender.

*Correct when* every aggregate is expanded once, by its owner, no aggregate is
lost between two processes, and the end is declared when nothing is under way.

### On the fly, several processes: `MCHybridSOG` (and POR, Req, ReqPOR), `HybridKripke`

Builder processes, one of which answers the checker's process: requests for the
initial state, for a state by its hash and position, for its successors; FINISH
at the end.

*Hard.* A request for a state that is not there yet; a state that can be found,
linked and sent as a successor before its process, flags and identifier are
assigned; every thread resets the termination flag when it starts; members that
no constructor initializes; one variable for the identifiers of two kinds of
request.

*Correct when* the checker obtains final states, an answer is to its last
question, and a question about a complete state is answered.

### Decision diagrams: `SylvanWrapper`, `SylvanCacheWrapper`

A unique table filled by compare-and-swap, whose data buckets are claimed by
region in bitmaps; a lossy operation cache whose buckets have a lock bit and a
counter; operations on diagrams; an encoding of a diagram as bytes for the messages.

*Hard.* A word of a bitmap is updated without an atomic operation, and is safe only
when its region has one owner; a 16-bit counter that wraps; bytes and 15-bit
counts that overflow.

*Correct when* a node has one number for good, the cache answers for the
operands it was asked about, and the operations are those on sets of markings.

### The rest

`NewNet` (a parser, and which transitions a formula observes), `main` (options,
drivers), the Kripke structures for Spot (labels and iterators), `misc`
(SHA-256, MD5, containers).  `DistributedSOG`
and `main_for_tests` are not compiled by any target.

## The modules

| module | what it models | lines of the code |
|---|---|---|
| `SOG` | the graph to build, as data: aggregates, observable transitions, successors, divergence, deadlock | the interface of `CommonSOG` |
| `SOGOnTheFly` | *abstract*: what an on-the-fly construction promises its model checker | none |
| `LDDGraph` | the shared graph: states, edges, flags, insertion, search | `LDDGraph.cpp`, `LDDState.h` |
| `ModelCheckerCPPThread` | builders and checker over condition variables | `ModelCheckerCPPThread.cpp`, `MCCPPThPor.cpp`, `ModelCheckBaseMT.cpp`, `SafeDequeue.cpp` |
| `ModelCheckerTh` | polling builders with a stack each, and the checker | `ModelCheckerTh.cpp`, `ModelCheckBaseMT.cpp` |
| `ModelCheckThReq` | builders on request, with anticipation, and the checker | `ModelCheckThReq.cpp`, `MCThReqPor.cpp` |
| `ThreadSOG` | the explicit constructions, one or several threads | `threadSOG.cpp` |
| `HybridSOG` | the construction by several MPI processes, and its termination detection | `HybridSOG.cpp` |
| `MCHybridSOG` | builder processes and the checker's process | `MCHybridSOG.cpp` and its three variants, `HybridKripke*` |
| `SylvanWrapper` | the table of nodes and the cache, access by access | `SylvanWrapper.cpp` (`llmsset_*`), `SylvanCacheWrapper.cpp` |
| `LDD` | diagrams as data: union, minus, intersection, firing, division, encoding | `SylvanWrapper.cpp` (`lddmc_*`, `ldd_*`) |
| `CommonSOG` | the operations on aggregates over a net, beside the sets of markings they stand for | `CommonSOG.cpp`, `NewNet.cpp`, `LDDState.cpp` |
| `LDDGraphProofs` | lemmas about the operators on the graph | |
| `ModelCheckerCPPThreadProofs`, `ModelCheckerThProofs`, `ModelCheckThReqProofs`, `ThreadSOGProofs`, `HybridSOGProofs`, `MCHybridSOGProofs`, `SylvanWrapperProofs` | the theorems about the module each is named after | |
| `MC*` | small instances for TLC: `MCHybridSOGConstruction` is that of `HybridSOG`, `MCMCHybridSOG` that of `MCHybridSOG`, the others have the name of their module | |

The constructions extend `LDDGraph`, which extends `SOG`.  All but
`ModelCheckThReq` are shown to implement `SOGOnTheFly` by an `INSTANCE ... WITH`
that forgets threads, processes, queues, channels, stacks and locks.

`CommonSOG` extends `LDD`.  Together they say what the constants of `SOG` and
the messages of `HybridSOG` and `MCHybridSOG` stand for: `Successor[<<a, t>>]` is
the `Successor` action, and a state message may be an aggregate because
`MessageRebuilds` holds.  `SylvanWrapper` is what lets `LDD` take a diagram for its
structure: equal structures have one number.

### Conventions

  - *Steps.*  An action is one access to something the threads share, or one
    critical section.  What a thread computes alone belongs to the step before
    or after it.  The label in `pc[w]` (`mcPc` for the main thread) says what the
    thread does next and has the name of what it does.
  - *Names* are those of the code, `agregate` included.
  - *Pointers.*  An `LDDState` is never moved or freed while threads run: a
    pointer is a position in a sequence.  In `ModelCheckerTh` a state can be
    reached before it is in the vector, so the objects (`heap`) and the vector
    of pointers (`m_GONodes`) are two variables there.
  - *Aggregates* are opaque.  `Successor[<<a, t>>]` is
    `Accessible_epsilon(get_successor(a, t))`, or its reduced form in the POR
    and canonized variants, which run the same threads.  `FirableObs` is a function
    of the aggregate; in the POR variants `saturatePOR` returns the transitions with
    the aggregate, and the model assumes that it returns the same set whenever it
    returns the same aggregate.  `MCThReqPor::buildSucc`, which queues
    `firable_obs` instead of that set, is outside this assumption.
  - *Condition variables.*  `wait(lk, predicate)` is three steps: the predicate,
    the last moment before sleeping, and asleep.  A notification only reaches a
    thread that is asleep.  Spurious wake-ups exist (`SpuriousWakeUp`,
    `SpuriousWakeUpBuild`) and are not fair: nothing may count on one.
  - *Loads.*  `minCharge` chooses the stack whose `m_charge` is least, and
    `m_charge` is changed by several threads with plain increments.  What it
    holds after two concurrent ones is not defined by the code, so any stack
    may be chosen.
  - *Races on a vector.*  Where the code inserts in a vector without a lock
    (`ThreadSOG`, predecessors) the insertion is a read and a write; losing one
    of two insertions is the mildest outcome.  Nobody reads the predecessors,
    and no property is about them.  Reads of plain booleans read memory each
    time, as the default, unoptimized, build does.
  - *MPI.*  Messages of one sender to one receiver stay in order, `MPI_Send`
    buffers, `MPI_Iprobe` may miss a message that has been sent but not one it
    has reported.
  - *Mutants.*  An operator commented "Mutant:" before a definition is a plausible
    mistake in that definition; it is used by no specification.  Replacing the
    definition by it makes TLC find the property violated that PROJECT.json names.

### `ModelCheckerCPPThread`

`pc`, `e`, `t`, `pos` are the builders' program counters and locals;
`m_common_stack` is the queue of pairs (state, transitions to fire).  Builder
loop: `Lock`, `Check` and `CheckQueue` (the two reads of `hasToProcess`), `Sleep`,
`Pop`, `Popped`, then for each transition `Fire`, `InsertFind`, `SetFlags`,
`Push`, `Notify`, `AddEdge`, then `Complete` and `NotifyBuild`; `Until` reads
`m_finish`.  Main thread: `GetInitial`, `Explore` (Spot asks for a successor of a
state it has, in any order), `CheckBuild`, `SleepBuild`, `Finish`,
`PrintCompleteInformation`, `Destroy`, `Join`.

### `ModelCheckerTh`

`m_st` is a stack per builder, `m_terminaison` the set of builders that have
announced an empty stack.  `Link` is one critical section for a state that was
found, and for a new one ends before `Insert` and `SetFlags`, as in the code.
`isNotTerminated` reads one flag per step.  The class declares an `m_finish` of
its own, so `finish()` (that of `CommonSOG`) stops nobody; `Destroy` does.

### `ModelCheckThReq`

The queue holds (state, transition) pairs.  `m_currentLevel` and
`m_nbSuccessorsToBeProcessed` are fields of the states, kept in two sequences
because the checker and the builders race on them.  The builder's anticipation
is `TestLevel`, `LevelArgument`, `ReadLevel`, `SetLevel`, `TestDeeper`, `Count`,
`Push`, `CompletePos`, `NotifyPos`; the checker's request is `TestRequest`,
`ReadRequestLevel`, `SetRequestLevel`, `CountRequest` (twice), `PushRequest`.
A builder completes a state *before* it looks at the level of the state it has
just reached, so the checker may ask for that state in between and both expand
it.  The counter wraps at `Modulus` and the level at `LevelModulus`.

### `ThreadSOG`

The variable `method` is what the command line asks for: `"seq"`, `"compute"` or
`"por"`.  `Enter`, `First`, `Leave`, `Last` are the counted section
(`m_gc`, `m_gc_mutex`), `Collect` and `Collected` thread 0's turn of the mutex.

### `HybridSOG`

A thread is a pair of its process and its number; number 0 communicates.  The
constant `Launches` is what `mpirun` and the command line decide: processes,
threads, and the process each MD5 designates.  A builder's turn is `Loop`
(a stack seen without its lock), `Busy` (it counts itself in `m_working`, a step
later), `Enter`, `Pop`, then for each transition `Fire` and `Link`, then
`Receive` and `Store` for one received aggregate, `Leave` and `Idle`; `Collect`
is thread 1's wait for `m_gc_mutex`.  Thread 0 sends what others have left
for it (`PopMessage`, `SendState`), reads messages before each send and between two turns
(`ReadMessage`: `ReadState` or `AbortTerm`), and looks for the end: `isNotTerminated`
scans the stacks one by one, `Quiet` reads `m_working` and `m_nbsend` and starts
or joins a round, `ReadTermination` passes the messages of the round on
(`TermReceivedMsg`, `TermSendMsg`, `ReceiveTermSignal`) or leaves it
(`LeaveRound`), `EndRound` ends it.  `chan` is a queue for each ordered pair of
processes; `probed` remembers a state that `MPI_Probe` has reported in the round
and that must be received by the next `read_message`.  `pc` is `"done"` when a
process has left.

### `MCHybridSOG`

Builder processes as in `HybridSOG`, with one queue for each process and condition
variables instead of polling, no termination detection, and a state that is complete
when its transitions have been fired.  Thread 0 keeps two kinds of question
it cannot answer yet (`m_waitingAgregate`, `m_waitingBuildSucc`) with the identifier
in `m_id_md5`.  `ReadMessage` has one operator for each tag; `AnswerState` and
`AnswerSucc` are the turns that find that a kept question can be answered;
`SendAnswer` is separate because messages are read while an answer is written.  The
checker's process is `GetInitState`, `ReceiveInitial`, `ReceiveState`,
`ReceiveSucc`, `Dst` (Spot asks for a successor) and `Finish` (the destructor
of `HybridKripke`).

A builder inserts a new state of its process (`Fire`, or `Receive` for a
state message), and only then assigns what others may already read: process,
the two flags, identifier for a target (`AssignNew`: `SetProcess`, `SetDiv`,
`SetDeadLock`, `SetSHA2`, one step each), flags, process, identifier for a state
received (`AssignReceived`).  `QueueNew` queues the target and makes the edge.
Between the two the state may be found, linked by another builder and sent to the
checker (`SuccMessage`) with whatever bytes `m_SHA2` held: a member of the
constant `Garbage`.  These bytes are compared like any others: `findSHAPos`
takes the first node that has the bytes asked for.  So the checker may ask for
such a state by bytes that match it, match another one, or match it no more
when its successors are asked for (`SuccNotFound`).  The one assumption is
that what the memory held is no MD5 of an aggregate.

`named` is in the model only: it says, of a question and of what was answered,
that this state and those on the way to it were asked for by their identifiers.
The refinement reads it.  `Launches` also gives the two members
that no constructor initializes, `m_waitingBuildSucc` and
`m_waitingAgregate`, each of the values that do harm; `Zeroed` is the memory
where they do none.

### `SylvanWrapper`

An action is one read or one write of a shared word.  `ReadStatus`, `MatchKey`,
`ReadResult`, `Recheck` are `cache_get`; `Probe`, `NextBucket`, `Found`, `Publish`
are `llmsset_lookup2`; `ReadWord`, `SetBit`, `NextRegion`, `ReadOwned`,
`OwnRegion` are `claim_data_bucket`; `ReadRelease`, `Release` are
`release_data_bucket`; `ReadPut`, `Lock`, `PutKey`, `PutResult`, `Unlock` are
`cache_put`.  `Full` is the second attempt of `lddmc_makenode` and the exit.

### `LDD`, `CommonSOG`

`LDD` has an operator for each recursive function on diagrams, over pairs
of a value, what follows and the rest of the level.  In `CommonSOG` a run picks a net and a formula,
and follows one sequence of observable transitions; `S` is what the code
computes, `marks` what the definition of a net says, without diagrams.  Every
property compares the two.

## What is checked

The runs and the definitions of the graphs and nets are in the `MC*.cfg` and
`MC*.tla` files.  All graphs have three aggregates; `Three` has a cycle, a
self-loop and an aggregate without transition, except in `th`, where every
aggregate has a transition and one that two builders reach at once gets two states; `Triangle` has a target that two
threads reach at once, and, in the constructions, a cycle; `Pair` has an
aggregate that the checker and builders expand; `Ring` sends every state
against the messages of the rounds.

| run | size | shows |
|---|---|---|
| `cpp` | 2 builders, `Three` | one state per aggregate, one owner per state, nothing forgotten, a completed state frozen, the checker reads only what is final, `SOGOnTheFly` implemented; every aggregate is built unless the checker finishes; a builder that is asleep at the end is woken |
| `cpp_check_returns` | 2 builders, `Three` | *refuted*: the check returns |
| `thread` | 3 threads, `Triangle`, all methods | one owner, a state nobody holds has its edges, the counted lock is unlocked by its section, `SOGOnTheFly` implemented, every thread leaves |
| `thread_complete` | 2 threads, `Three` | *refuted*: the graph is complete when all threads have left |
| `th` | 2 builders, `Three` | nothing forgotten, the checker reads only what is final, `SOGOnTheFly` implemented, the destructor returns |
| `req` | 2 builders, `Pair`, LEVEL 3 | no transition forgotten; for a state one thread has expanded, the counter exact and completion sound |
| `hybrid` | 2 processes, one with 2 builders or each with 1, `Triangle` | an aggregate expanded once and by its owner, none lost between processes, `SOGOnTheFly` implemented, every aggregate delivered as long as nobody leaves |
| `hybrid_rounds` | 3 processes, `Ring` | the end is declared when no state is in transit |
| `mchybrid` | 5 launches of 1 or 2 processes, `Triangle`, two kinds of garbage | what is awaited is what the checker asks now, what the checker gets by identifiers is final, no aggregate lost, `SOGOnTheFly` implemented; a question about a complete state is answered |
| `sylvan` | 2 builders, 5 nodes, first region full | one number per node and for good, answers right, claimed indices used or given back |
| `sylvan_shared` | the same, first region not full | *refuted*: one number per node |
| `common` | 5637 nets | the aggregate, its flags and labels are those of its markings; a message rebuilds it; the reduction adds nothing |

### Why these bounds

The code treats all threads, states and transitions alike.  Two builders and
the main thread are enough for each race the hazards name (two threads at one
state, a notification between two steps of a waiter, an announcement between a
look and a push); three, in `thread`, add a section that is entered by two threads and left
by a third.  Three aggregates are enough for a target found by two threads, an
aggregate found again, and a state without transition.  No state constraint cuts
a run: the graph bounds all the counters.  `LEVEL` is that of the code.
`Modulus` 16 and `LevelModulus` 8 of `req` stand for 2^32 and 2^8, larger than
any counter or level that is not the result of a wrap.

Two processes have every exchange between an owner and another process; the rounds
need a third, since with two every process is a neighbour of process 0.  The
launches of `hybrid` and `mchybrid` are those where something differs: who
owns the initial aggregate, whether two builders of one process race, what an
uninitialized member holds.  `mchybrid` has two builders only in the launch of one
process: a state sent before its identifier is assigned needs another builder to
link it, and this launch has that.  Two builders *and* another process, where such
a state has process 0 and is asked for at the wrong address, has millions of states
and is left to the proofs, which have any number of both; so is a set
`m_waitingAgregate` with two processes.  Two kinds of garbage let the bytes of
two states differ or be the same.

`sylvan` has a table of 12 buckets in regions of four indices.  The five nodes
probe the same two lines of two buckets, so the fifth finds the table full; two
keys share a cache bucket and its hash, so that only the counter tells their
entries apart.  `Modulus` is 8 and no run writes a bucket eight times: the
wrap of the counter is left out (see below).  Builders are interchangeable: the
symmetry set of both `sylvan` runs, the only one used, has no liveness property
with it.

`common` has all nets of three places and three transitions with one input and
at most one output each, twice (a formula on a transition, or on a place), nets
with synchronisations, one with weights, one without formula, and one whose
aggregate has 165 markings, more than one byte of a message counts.

### Fairness

Weak fairness of each thread's next step: the operating system schedules a
thread that can run.  `notify_one` may prefer a thread for ever, and a mutex
too.  A spurious wake-up may or may not happen.  In `ThreadSOG`,
`ModelCheckerTh` and `HybridSOG` threads poll, so no wake-up is needed and
termination follows from the announcements being repeated.  Strong fairness is
used for one thing: `ReadMessage`, since `MPI_Iprobe` may miss a message that is
on its way, but not for ever when the same loop calls it again and again.

The run with a refuted liveness property, `cpp_check_returns`, has the same
fairness, so its counterexample is not a mere halt: the checker sleeps and nobody
notifies any more.  `req`, `sylvan`, `common` and `hybrid_rounds` check safety only.

Deadlock checking is off: every system stops when its threads have ended, and
the liveness properties say where it may not stop before.

### Where the code does not do what its documents say

Refuted by a run:

  - *Lost wake-up of the checker* (`cpp_check_returns`).  `setCompletedSucc` and
    `notify_one` are called without `m_mutexBuild`; they can both fall between the
    predicate and the sleep of `buildSucc`.
  - *Early termination* (`thread_complete`).  A thread announces an empty stack
    after its last look at it; another may push on it in between.  All leave,
    and the graph lacks edges.  `ModelCheckerTh` has the same announcement; there
    the checker then waits for ever (`NoWorkLost` says where the state is).
  - *A shared region* (`sylvan_shared`).  `my_region` is -1 only in the thread that
    made the table; in builders it is 0, a region none of them owns, and the
    bits of its words are set without an atomic operation.  Two builders get
    one index.  When the first region is full before builders start, as in
    `sylvan`, every thread has regions of its own and the table is right.

Seen in the models, where no document says otherwise:

  - The destructor of `ModelCheckerCPPThread` sets `m_finish` and notifies without
    `m_mutexStack`: a builder between its test and its sleep misses it and
    `join` waits for it.  `SleepingBuilderIsStopped` is about the others.
  - `ModelCheckerTh` releases the mutex between the search and the insertion, so
    an aggregate may have two states.  Each gets all its edges: the refinement holds.
  - `ModelCheckThReq`: the checker and a builder both find level zero
    (lines 87, 138 and 142); transitions are queued twice and the counter assigned
    twice.  The checker may then be given a state some of whose successors are
    missing, or wait for one whose counter has stepped over zero.  In the same
    window a level may wrap below zero.  `CounterCounts` and `CompletedIsClosed`
    are about the states that one thread expanded.
  - `HybridSOG`: a process that has sent no state never joins the detection
    (line 224), so the construction of a graph that stays in its process does not end.
    A thread that has seen its stack non-empty counts itself as working a step
    later (lines 260 to 264): with the right timing all processes leave with a
    state in hand.  A thread that starts late resets the flags of a round
    (line 147).
  - `HybridSOG` deletes the node of the initial aggregate after inserting it when it
    belongs to another process; whether a search recognizes it is undefined.
  - `MCHybridSOG`: a state can be found by `insertFindByMDD` from line 167 on, and
    has its process (169), its flags (170, 171) and its identifier (172) only
    later.  `sendSuccToMC` (438, 440) may send it in between, with the bytes
    the uninitialized `m_SHA2` held and process 0 or its own.  The checker asks
    for it with these bytes.  They match the state as long as it
    is not identified, or another one with the same bytes (LDDGraph.cpp:83): the
    flags sent may not have been computed yet, and the successors may be another
    state's.  When the identifier is written between the two questions, the second
    one finds nothing (313 to 316) and is never answered.  `AwaitedIsAsked`,
    `ObtainedIsFinal` and the refinement say that nothing of this touches what is
    asked for by identifiers.
  - `m_waitingBuildSucc` and `m_waitingAgregate` are not initialized: some values
    make thread 0 use a null pointer or answer what nobody asked.  The flags of
    the initial state are not computed when it belongs to process 0.
  - `Set_Bloc` combines the *numbers* of diagrams with a bitwise *and*: whether an
    aggregate has a deadlock depends on the order in which nodes were made.
    `Deadlocked` is therefore a constant.
  - `computeAmple2` adds transitions until every marking enables one of them.
    On a set with a marking that enables none of those it can add, it loops for
    ever; this happens on many small nets.  When it returns,
    `saturatePOR` may announce fewer observable transitions than the whole
    aggregate has, its divergence flag may differ from `Set_Div`, and its deadlock
    flag is never set for a set that is not empty.  `ReductionIsSound` is what
    remains: nothing is added.

## What is proved

With TLAPS, for every set of aggregates and transitions, every graph, every owner
of every aggregate and every number of threads and processes; and, for the table of
nodes and the cache, for every number of threads, keys and nodes, every size and
every hash.

| module | theorem | property | its run |
|---|---|---|---|
| `ModelCheckerCPPThreadProofs` | `TypeCorrect` | `TypeOK` | `cpp` |
| | `SingleOwnership` | `SingleOwner` | |
| | `NoDuplicates` | `NoDuplicateAggregate` | |
| | `NothingForgotten` | `NoWorkLost` | |
| | `CompletedStable` | `CompletedIsFrozen` | |
| | `ObtainedAreFinal` | `ObtainedIsFinal` | |
| | `ModelCheckerRefinesSOG` | `ImplementsSOGOnTheFly` | |
| `ThreadSOGProofs` | `TypeCorrect` | | `thread` |
| | `SectionUnlocks` | `UnlockIsLocked` | |
| | `SingleOwnership` | `SingleOwner` | |
| | `FinishedStatesAreClosed` | `FinishedIsClosed` | |
| | `ConstructionRefinesSOG` | `ImplementsSOGOnTheFly` | |
| `ModelCheckerThProofs` | `TypeCorrect` | | `th` |
| | `NothingForgotten` | `NoWorkLost` | |
| | `ObtainedAreFinal` | `ObtainedIsFinal` | |
| | `ModelCheckerThRefinesSOG` | `ImplementsSOGOnTheFly` | |
| `ModelCheckThReqProofs` | `TypeCorrect` | | `req` |
| | `NothingForgotten` | `NoTransitionLost` | |
| | `CounterIsExact` | `CounterCounts` | |
| | `CompletedAreClosed` | `CompletedIsClosed` | |
| `HybridSOGProofs` | `TypeCorrect` | | `hybrid` |
| | `ExpandedByItsOwner` | `ExpandedOnce` | |
| | `NothingLost` | `NoAggregateLost` | |
| | `DistributionRefinesSOG` | `ImplementsSOGOnTheFly` | |
| `MCHybridSOGProofs` | `TypeCorrect` | | `mchybrid` |
| | `NothingLost` | `NoAggregateLost` | |
| | `OneQuestion` | `AwaitedIsAsked` | |
| | `ObtainedRight` | `ObtainedIsFinal` | |
| | `CheckRefinesSOG` | `ImplementsSOGOnTheFly` | |
| `SylvanWrapperProofs` | `TypeCorrect` | | `sylvan` |
| | `HomesAreApart` | | |
| | `NumbersAreUnique` | `OneNumberPerNode` | |
| | `NumbersStay` | `NumbersAreFinal` | |
| | `NoIndexLost` | `ClaimedIsUsed` | |
| | `AnswersAreRight` | `AnswerIsRight` | |

### Assumptions

`SOGAssumption` says that the constants describe a graph.  Each construction adds
how many threads there are: a finite set that is not empty, a number that is not
zero, and, for `HybridSOG`, at least two processes with a communicating thread and a
builder each; for `MCHybridSOG`, processes numbered from 0, with the threads each
launch gives them, and an owner among them for every aggregate.  `ModelCheckThReqAssumption` also bounds the transitions of a state:
finitely many, and fewer than the counter counts (transitions are numbered by an
`int`, the counter is a 32-bit number).  `SylvanWrapperAssumption` says how the table
is divided into lines, words and regions, that each key has a node and each node a
first bucket, and that the step of a probe sequence is a multiple of the line (a
shift by three bits, for lines of eight buckets).  TLC evaluates all of them on every
run.

Two hypotheses are on behaviours, not on constants, because neither the code nor the
model ensures them.

  - `LoadFillsRegion`: when Main has loaded the net and no builder has begun, region
    0 is full.  The last four theorems about `SylvanWrapper` need it: `sylvan` is a
    run where it holds, and `sylvan_shared` shows what happens otherwise.  That the
    region stays full while builders run is proved.
  - `CountersFit`: no counter of a cache bucket has come to its last value.  Only
    `AnswersAreRight` needs it, and `sylvan` meets it.  The code needs less, that a
    reader is not overtaken by 2^16 writers between its two reads of the status, but
    the model does not remember when a reader began.

A third one is in the properties of `MCHybridSOG` themselves: `Zeroed`, that the memory
of `m_waitingBuildSucc` and `m_waitingAgregate` held zeros when they were made, is the
premise of `AwaitedIsAsked`, `ObtainedIsFinal` and `CompletedIsAnswered`, and
`ImplementsSOGOnTheFly` counts what the checker reads only then.  `TypeCorrect` and
`NothingLost` hold whatever they held.  `MCHybridSOGAssumption` also says that what the
memory of a new state holds is the identifier of no aggregate.

### The arguments

Every proof goes in layers, each an invariant that is inductive relative to
those before it.  The first, `TypeInv`, is `TypeOK` and where pointers point:
what stacks, queues, threads, messages and edges designate are states of
the graph, with transitions that are firable there.  `TypeOK` alone is never
inductive, since `Successor` is only defined on firable transitions.

*`ModelCheckerCPPThread`.*

  1. `OwnerInv`: `SingleOwner`, and that two builders that have just inserted a
     state have not inserted the same (`DistinctPos`).  An owner is made by an
     insertion or a pop, and both take something nobody else has.
  2. `CompletedIsFrozen` follows: only an owner changes a state's successors and
     flags, and a completed state has none.
  3. `FirstInv`: until thread 0 has inserted the initial aggregate the graph is
     empty.  That insertion is the only one that does not search first; with it
     `NoDuplicateAggregate` is inductive.
  4. `NoWorkLost`: a state that is covered (queued, held, completed) stays covered, and
     a new one is covered by who inserts it.
  5. `FinalInv`: what each builder has fired and has still to fire, and what its
     transitions in hand are, make up the transitions of its state; a queued
     state has both flags and no edge yet.  So a state that is completed before
     `m_finish` is final, and with 2 it stays so; this is `ObtainedIsFinal`.
  6. The refinement adds `OnceInv` (a builder takes each transition of its state
     once), `GraphInv` (every edge is one of the SOG) and `AskInv` (the checker waits
     for the initial state or for the target of an edge it has read).  Each step
     is then a step of `SOGOnTheFly` or a stutter.

*`ThreadSOG`.*  `LockInv`: `m_gc` is the number of threads in the section, and the
mutex is the section's exactly when its first thread has locked it and its last one
has not unlocked it yet.  `OwnerInv` as above, over
all stacks.  `WorkInv`: what its owner has linked, has in hand and has still to
fire are the observable transitions of a state, once each.  `GraphInv`: no
aggregate twice, every edge one of the SOG.

*`ModelCheckerTh`.*  `NoWorkLost` needs nothing but types.  `WorkInv` and `OwnerInv`
are those of `ThreadSOG`, for the builders only.  An aggregate may have
two states, so the refinement maps an aggregate to its states: it is final
when one of them is completed *and has all its edges*.  The last words
came out of the proof: once `m_finish` is set a builder leaves its
state unfinished and completes it, while the other state of the aggregate may be
final already, so "completed" is not a property of the aggregate.

*`ModelCheckThReq`.*  A state may be expanded twice, by the checker and a builder, so
nothing is owned.  The proof counts the *occurrences* of each transition of a
state: the edges made by it (`Made`), and what will make one, queued, about to be
queued or in a builder's hands (`Coming`); and the decrements of the counter that
are due for edges already made (`Due`).  A step turns one occurrence into another, adds one
of each transition of a state, or does neither; none is ever taken away.
`NoTransitionLost` is inductive with that.  `HeldInv`: who has linked a transition and
has not decremented the counter yet has made an edge of its own.  `CounterInv`: while
each transition of a state occurs once, the counter is the number of those still to
be processed; the decrement modulo 2^32 is exact because there are fewer
transitions than that.  `ClosedInv`: such a state is completed with all its edges, although
two builders may both read zero.  As occurrences never disappear, a state that two
threads have expanded never comes under the last two again: they say nothing
of it, and the code does go wrong there (see above).

*`HybridSOG`.*  `OnceInv`: no aggregate has two nodes in one process, the deleted node of
the initial aggregate aside; it rests on the mutex of each graph and on who may insert.
`DeliveryInv`: a state message waits where it has to go next, a stack of thread 0, a
channel, or the received stack of its owner, and every virtual node has such a
message or a node at its owner; this is `NoAggregateLost`, and it holds whatever the
rounds of the detection do.  `GraphInv` and `WorkInv` as above.

*`MCHybridSOG`.*  The proof first reduces the many actions to a few shapes of step (a
builder inserts, links, fires, completes; thread 0 receives a state, is asked, answers;
the checker asks, is told), each with what it may change, and every layer is
proved for the shapes only.

  1. `EndInv`: FINISH, and the flag it sets, are nowhere before the checker's end.
     `DeliveryInv` is that of `HybridSOG`, for the builders of one queue; as a
     builder that is stopped drops what it holds, it lasts until FINISH, like
     `NoAggregateLost`.
  2. `UniqueInv`: an aggregate has one node in a process, since every insertion
     searches first under the mutex, and received states are inserted by builders too.
     `WorkInv`: the edges of a node, what its builder has in hand and what is still to
     fire make up its observable transitions; a node that is complete before the end
     has all its edges.  `TypeInv` has what the order of the assignments is worth: a
     node with its identifier has its process and, if it is real, its flags, because
     the identifier is last, for a target as for a state received; a node without has
     any bytes that are no identifier, and process 0 or its own.  It says of each label
     between the insertion and the queue what has been assigned at that point.
  3. `TurnInv`: the checker's question is in exactly one place, a message to the process
     asked, a question kept there, an answer being written, a message back; elsewhere
     there is nothing of the protocol, and an answer, wherever it is, is right
     about the identifier asked for, if it was one.  A process that has a node with
     an identifier keeps it (`NamesKept`), so a state found by its identifier is found again;
     bytes that were none may be lost between the two questions, and then only
     they are awaited.  One variable for two kinds of question does no harm because of this
     and of `UniqueInv`: this is `AwaitedIsAsked`.  An uninitialized member is a
     question that nobody asked, hence `Zeroed`.
  4. `ObtainedInv`: what the checker keeps came from such an answer, hence
     `ObtainedIsFinal`.  An answer is right when it is written because of 2, and it
     is a copy: no later step of a builder reaches it.
  5. The refinement adds `OnceInv` (a node is assigned what it gets by one builder, queued
     and expanded once, so an aggregate in a builder's hands is not final in the process it belongs
     to, and its virtual nodes elsewhere never are), `KnownInv` (what is queued or
     travels has a node somewhere, so a node made for a message is no new aggregate) and
     `ReadInv` (what the checker has by identifiers, and what it asks for, is the initial
     aggregate or the target of an edge of something it has).  An aggregate is known when *some* process
     has a node for it: a state message is a stutter when it arrives.

*`SylvanWrapper`.*  `RegionInv`: threads that look for a region go round `bitmap1`
from their `Home`, the last region they have taken; no two homes are equal but region
0, because the compare-and-swap of `bitmap1` fails when anything has been taken since
it was read.  `ClaimInv`: since builders find region 0 full, two threads that search a
word or hold an index do it in different regions, so the bits a thread has read are
still those of the word when it writes it back, although the write is not atomic; an
index that is held is set in `bitmap2`, published nowhere and held by nobody else.
`TableInv`: what a thread has passed (`Seen`: the lines before, and its line from
where it entered to where it stands) is taken by other nodes, and every node stands
where all before it in its own sequence is taken.  Of two buckets of one sequence one
is seen first (`SeenIsOrder`), so a node that is published has no twin.  `LeakInv`: an
index is lost only by a thread that has passed its whole sequence with the index in
hand; it passes it again and ends the program.  `CacheInv`: a locked bucket has one
writer, an unlocked one holds a pair that was written together, and a reader whose
status is still there has read such a pair; otherwise the counter has gone past the
one it has read.  The arithmetic under this, lines and words as quotients and
remainders, is in lemmas at the head of the module.

`LDDGraphProofs` has what the operators on the graph return and preserve
(insertion, an edge at either end, the flags), as lemmas with types.

### Only model-checked

  - Liveness: out of the prover's reach under fairness.
  - `TermWhenDelivered`: it compares sums over the processes of what was sent and
    received, and what a sum over a set is needs induction over the set.
  - The properties of `CommonSOG`, which, like `LDD`, is made of recursive operators.

## What is not modelled

  - The input: `NewNet` and its grammar read a file, sequentially; only the choice
    of the observable transitions is modelled.  The options and drivers of `main`.
  - Products, emptiness checks: Spot's.  `Explore` and `Dst` let Spot ask in
    any order for the successors of what it has.  `HybridKripkeState::clone` copies
    neither successors nor labels; whether Spot uses the copy is Spot's business.
  - `Set_Bloc` (above), and what nobody calls: `computeAmple`, the projection of a
    diagram and the garbage collection of the table.
  - SHA-256 and MD5, third-party: injective functions of an aggregate.
  - `m_charge`, time measures, printing, memory (states are never freed while
    threads run), pthread barriers that are initialised and never waited for.
  - The weak memory effects of races on plain variables beyond a lost update.  Copying
    the 16 bytes of an identifier is one step, and so is the writing of an answer
    about successors (`sendSuccToMC`): it copies the identifier of each before its
    process, while builders assign the process first, so what it has of each successor
    is what one step could read.
  - The mark bits by which `lddmc_nodecount`, called when the graph is printed,
    counts the nodes of a diagram in the shared words of the table while builders may
    still run.
  - In the protocol of the checker, messages of a length or tag its receiver does not
    expect.
  - The wrap of the 16-bit counter of a cache bucket while a reader is between two
    reads, and values above 254 or more than 32639 markings in a message.
  - An MPI implementation whose `MPI_Send` blocks: two processes that send to each
    other could then wait for ever.
  - The difference between `saturatePOR` and `firable_obs` in `MCThReqPor::buildSucc`.
  - `DistributedSOG`, `main_for_tests`: not compiled.

## Plan

Done: the shared graph, the four families of constructions, the processes and their
messages, the diagrams below and the operations between; the theorems about all
constructions, about the table of nodes and about the cache.  Left:

  - `MCThReqPor` with the two sets of transitions kept apart.
