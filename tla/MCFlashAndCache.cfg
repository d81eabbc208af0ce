SPECIFICATION MCSpec
CONSTANTS
  NumDevices = 3
  NumSources = 2
  HasPit = TRUE
  Ids = {"p", "q"}
  DevTypes = {"emmc", "ufs"}
  PitTables <- MCPitTables
  Cpus = {"cpuA"}
  NoCpu = "noCpu"
  Keys = {k1, k2, k3}
  Values = {v}
  MaxEntries = 2
  MaxLines = 3
  MaxTouch = 3
SYMMETRY Symmetry
INVARIANTS
  FailuresAccounted
  DevicesAgree
  EndsWell
  ListSound
  CommittedSurvives
  DamageRecovers
