\* Two builders, one property the code does not keep.
CONSTANTS
  A = A  B = B  C = C
  Thread = {w1, w2}
  Aggregate = {A, B, C}
  Transition = {1, 2, 3}
  InitialAggregate = A
  FirableObs <- ThreeFirable
  Successor <- ThreeSuccessor
  Divergent = {B}
  Deadlocked = {C}
SPECIFICATION Spec
CHECK_DEADLOCK FALSE
PROPERTY CheckReturns
