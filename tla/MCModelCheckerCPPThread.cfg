\* Two builders, safety and liveness.
CONSTANTS
  A = A  B = B  C = C
  Thread = {w1, w2}
  Aggregate = {A, B, C}
  Transition = {1, 2, 3}
  InitialAggregate = A
  FirableObs <- ThreeFirable
  Successor <- ThreeSuccessor
  Divergent = {B}
  Deadlocked = {C}
SPECIFICATION Spec
CHECK_DEADLOCK FALSE
INVARIANTS
  TypeOK NoDuplicateAggregate SingleOwner NoWorkLost ObtainedIsFinal
PROPERTIES
  CompletedIsFrozen ImplementsSOGOnTheFly EveryAggregateBuilt SleepingBuilderIsStopped
