\* Three threads, every method: safety and liveness.
CONSTANTS
  A = A  B = B  C = C
  m_nb_thread = 3
  Methods = {"seq", "compute", "por"}
  Aggregate = {A, B, C}
  Transition = {1, 2}
  InitialAggregate = A
  FirableObs <- TriangleFirable
  Successor <- TriangleSuccessor
  Divergent = {B}
  Deadlocked = {}
SPECIFICATION Spec
CHECK_DEADLOCK FALSE
INVARIANTS
  SingleOwner FinishedIsClosed UnlockIsLocked
PROPERTIES
  ImplementsSOGOnTheFly ConstructionEnds
