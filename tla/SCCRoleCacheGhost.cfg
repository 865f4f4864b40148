SPECIFICATION FairSpec
CONSTANTS
  Roles = {r1}
  SCCs = {s1}
  Contents = {named, unnamed}
  Direct = {named}
  Bound = {}
  Tombstones = FALSE
  MaxChanges = 4
PROPERTY UsableInTheEnd
