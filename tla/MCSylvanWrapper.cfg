\* Two builders, regions of four indices; Main has filled region 0, where
\* every thread starts.  MCSylvanWrapper_Shared.cfg has the other case.
CONSTANTS
  Main = Main  W1 = W1  W2 = W2
  K1 = K1  K2 = K2  K3 = K3  K4 = K4  K5 = K5
  N1 = N1  N2 = N2  N3 = N3  N4 = N4  N5 = N5
  Builder = {W1, W2}
  Key = {K1, K2, K3, K4, K5}
  Result <- SmallResult
  NodeHash <- SmallNodeHash
  KeyHash <- SmallKeyHash
  TableSize = 12  Line = 2  Words = 2  Bits = 2
  Threshold = 2  Modulus = 8  MaxOp = 2
  Loads <- SmallLoads
SPECIFICATION Spec
CHECK_DEADLOCK FALSE
INVARIANTS
  OneNumberPerNode AnswerIsRight ClaimedIsUsed
PROPERTY NumbersAreFinal
SYMMETRY Symmetry
