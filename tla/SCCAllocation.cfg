SPECIFICATION FairSpec
CONSTANTS
  Namespaces = {a, b}
  NumBlocks = 2
  Labels <- MCLabels
  mcsAllocator <- MCmcsAllocator
  UserObjects <- MCUserObjects
  MaxLag = 2
  MaxDisturbances = 1
INVARIANTS SafetyInv DistinctUnlessWiped
PROPERTIES AnnotationsKept EventuallyAnnotated BitmapConverges
