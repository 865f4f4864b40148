SPECIFICATION Spec
CONSTANTS
  Namespaces = {a, b}
  NumBlocks = 2
  Labels <- MCLabels
  mcsAllocator <- MCmcsAllocator
  UserObjects <- MCUserObjects
  MaxLag = 2
  MaxDisturbances = 0
INVARIANT DistinctBlocks
