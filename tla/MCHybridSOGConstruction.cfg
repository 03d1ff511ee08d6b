\* Two processes, one or two builders: safety and liveness.
CONSTANTS
  A = A  B = B  C = C
  MaxTask = 2
  MaxThread = 3
  Launches <- HomeAndAway
  Aggregate = {A, B, C}
  Transition = {1, 2}
  InitialAggregate = A
  FirableObs <- TriangleFirable
  Successor <- TriangleSuccessor
  Divergent = {}
  Deadlocked = {}
SPECIFICATION Spec
CHECK_DEADLOCK FALSE
INVARIANTS
  ExpandedOnce NoAggregateLost
PROPERTIES
  ImplementsSOGOnTheFly EveryAggregateDelivered
