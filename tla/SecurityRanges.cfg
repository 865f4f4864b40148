SPECIFICATION Spec
CONSTANTS
  maxCategories = 6
  MaxUint = 32
  n1 = n1
  n2 = n2
  n3 = n3
  Namespaces <- MCNamespaces
  UIDRanges <- MCUIDRanges
  MCSSettings <- MCSettings
  UserBlocks <- MCUserBlocks
SYMMETRY Symmetry
INVARIANTS DisjointUIDs FreeIsExact RepairExact DistinctLabels LabelsRanked
