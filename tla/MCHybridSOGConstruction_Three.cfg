\* Three processes in a ring: the rounds of the termination detection.
CONSTANTS
  A = A  B = B  C = C
  MaxTask = 3
  MaxThread = 2
  Launches <- Ring
  Aggregate = {A, B, C}
  Transition = {1}
  InitialAggregate = A
  FirableObs <- RingFirable
  Successor <- RingSuccessor
  Divergent = {}
  Deadlocked = {}
SPECIFICATION Spec
CHECK_DEADLOCK FALSE
PROPERTY TermWhenDelivered
