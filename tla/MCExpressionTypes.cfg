SPECIFICATION Spec
CONSTANTS
  Declarations <- MCDeclarations
  Literals <- MCLiterals
  Targets <- MCTargets
  Calls <- MCCalls
  AggregateBases <- MCBases
  AggregateChains <- MeasuredChains
  IntervalUnitNames = {"millisecond", "hour", "month"}
  MaxStack = 2
  MaxOperations = 1
CHECK_DEADLOCK FALSE
INVARIANTS
  TypesWellFormed
  NullReachesGo
  
  EveryTimeIsGuarded
  BranchesCommute
  CommonHoldsEvery
  NumbersOrderFree
  EqualityIsSymmetric
  MergeReadsItsState
