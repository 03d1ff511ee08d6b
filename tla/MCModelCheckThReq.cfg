\* Two builders, three steps ahead.
CONSTANTS
  A = A  B = B  C = C  W1 = W1  W2 = W2
  Thread = {W1, W2}
  LEVEL = 3  Modulus = 16  LevelModulus = 8
  Aggregate = {A, B, C}
  Transition = {1, 2}
  InitialAggregate = A
  FirableObs <- PairFirable
  Successor <- PairSuccessor
  Divergent = {B}
  Deadlocked = {C}
SPECIFICATION Spec
CHECK_DEADLOCK FALSE
INVARIANTS
  NoTransitionLost CounterCounts CompletedIsClosed
