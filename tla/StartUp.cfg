SPECIFICATION StartFairSpec
CONSTANTS
  Resources = {r1, r2, r3}
  Ignored = {r2}
  Workers = {w1, w2}
  MaxChanges = 3
  Controllers = {quota, other}
  QuotaController = quota
INVARIANTS MonitorInv ProcessesOnlySyncedInTime InformersAfterInit
PROPERTIES NeverEmptied PartialOnlyAddsLater MonitorsConverge WorkersRun MonitorsStarted
