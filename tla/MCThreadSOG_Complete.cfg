\* Two threads, doCompute: one property the code does not keep.
CONSTANTS
  A = A  B = B  C = C
  m_nb_thread = 2
  Methods = {"compute"}
  Aggregate = {A, B, C}
  Transition = {1, 2, 3}
  InitialAggregate = A
  FirableObs <- ThreeFirable
  Successor <- ThreeSuccessor
  Divergent = {B}
  Deadlocked = {C}
SPECIFICATION Spec
CHECK_DEADLOCK FALSE
INVARIANT BuildIsComplete
