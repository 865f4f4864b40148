SPECIFICATION FairSpec
CONSTANTS
  Roles = {r1, r2}
  SCCs = {s1}
  Contents = {named, unnamed}
  Direct = {named}
  Bound = {r1}
  Tombstones = TRUE
  MaxChanges = 4
INVARIANTS CurrentUnlessRaced SyncedOrQueued
PROPERTIES ExistingRolesConverge SyncConverges
