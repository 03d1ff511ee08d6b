CONSTANT Nets <- SmallNets
SPECIFICATION Spec
CHECK_DEADLOCK FALSE
INVARIANTS AggregateIsExact DivIsCycle LabelIsExact MessageRebuilds ReductionIsSound
