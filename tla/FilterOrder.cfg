SPECIFICATION PySpec
CONSTANTS
  WordBits = 2
  LabelsMax = 7
  MaxInsns = 56
  MaxArgs = 2
  OffsetMax = 4
  DepthLimit = 3
  RecursionMax = 5
  Inputs <- MCInputs
  Included <- MCIncluded
  LogSyscalls <- MCLogSyscalls
INVARIANT FiltersInOrder
