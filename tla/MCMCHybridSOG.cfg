\* One or two builder processes and the checker: safety and liveness, whatever
\* the uninitialized members hold.
CONSTANTS
  A = A  B = B  C = C
  MaxTask = 2  MaxThread = 3
  Launches <- HomeAndAway
  Garbage = {Junk, OtherJunk}
  Aggregate = {A, B, C}
  Transition = {1, 2}
  InitialAggregate = A
  FirableObs <- TriangleFirable
  Successor <- TriangleSuccessor
  Divergent = {B}
  Deadlocked = {C}
SPECIFICATION Spec
CHECK_DEADLOCK FALSE
INVARIANTS
  AwaitedIsAsked ObtainedIsFinal NoAggregateLost
PROPERTIES
  ImplementsSOGOnTheFly CompletedIsAnswered
