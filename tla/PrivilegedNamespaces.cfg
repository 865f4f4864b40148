SPECIFICATION ComposedFairSpec
CONSTANTS
  TypeLabels = {warn}
  VersionLabels = {warnVersion}
  syncedLabels = {warn, warnVersion}
  Levels = {restricted, privileged}
  Latest = latest
  Versions = {latest}
  None = none
  Kinds = {"plain", "openshift", "default"}
  MaxChanges = 2
  Privileged = privileged
INVARIANT LabelsManaged
PROPERTIES AppliesBackOff LabelsConverge Settles PrivilegedConverges
