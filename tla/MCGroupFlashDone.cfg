SPECIFICATION Spec
CONSTANTS
  NumDevices = 2
  NumSources = 2
  HasPit = TRUE
  Ids = {"p", "q"}
  DevTypes = {"emmc", "ufs"}
  PitTables <- MCPitTables
  Cpus = {"cpuA"}
  NoCpu = "noCpu"
INVARIANTS
  DoneMeansFlashed
