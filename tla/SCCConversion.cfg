CONSTANTS
  SCCNames = {a, b}
  BaselineCapabilities = {"CHOWN"}
  OtherCapabilities = {"SYS_ADMIN"}
  SafeSysctls = {"safe"}
  OtherSysctls = {"unsafe"}
  RestrictedVolumes = {"configMap"}
  BaselineVolumes = {"nfs"}
  UnknownVolumes = {"exotic"}
  ValidProfiles = {"runtime/default", "localhost/x"}
  OtherProfiles = {"unconfined"}
  AllowedSELinuxTypes = {"", "container_t"}
  OtherSELinuxTypes = {"spc_t"}
  InitialSCCs <- MCInitialSCCs
  SCCs <- MCSCCs
  Nil = Nil
  MaxEdits = 1
  a = a
  b = b
SPECIFICATION Spec
INVARIANTS TightestLevel HighestLevel
PROPERTIES EditsMonotone
