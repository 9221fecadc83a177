SPECIFICATION Spec
CONSTANT
  Instance <- All
INVARIANTS
  PodsAreConserved
  FeasibleMeansPlaceable
  QuickCheckIsNecessary
  LonePodIsDecidedExactly
  PanicMeansNoAllocatable
CHECK_DEADLOCK FALSE
