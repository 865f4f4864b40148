SPECIFICATION FairSpec
CONSTANTS
  a = a
  b = b
  both = both
  one = one
  Namespaces = {a, b}
  Selectors = {both, one}
  Selects <- MCSelects
  Hards = {h1, h2}
  MaxUsage = 2
  InitialUsage = {1}
  MaxLag = 2
  MaxDisturbances = 1
INVARIANTS TypeOK TotalIsSum
PROPERTIES StoresForStoredSpec StatusConverges
CHECK_DEADLOCK FALSE
