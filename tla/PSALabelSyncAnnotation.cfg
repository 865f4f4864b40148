SPECIFICATION Spec
CONSTANTS
  TypeLabels = {warn}
  VersionLabels = {}
  syncedLabels = {warn}
  Levels = {restricted, privileged}
  Latest = latest
  Versions = {latest, other}
  None = none
  Kinds = {"plain"}
  MaxChanges = 2
PROPERTY AnnotationKept
