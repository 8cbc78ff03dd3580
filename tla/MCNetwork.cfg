CONSTANTS
  Ids <- TheIds
  Bonds <- TheBonds
  Options <- TheOptions
  Settings <- TheSettings
  Bad = "bad"
  Meaning <- TheMeaning
  Foreign <- TheForeign
  Configs <- TheConfigs
  Clients = {t1, t2}
  None = None
  MaxRequests = 3
  MaxExternal = 1
  MaxFaults = 1
  MaxSpent = 4
SYMMETRY Tasks
SPECIFICATION Spec
INVARIANTS
  TypeOK
  SystemKnown
PROPERTIES
  PortsKeepController
  WrittenAsWanted
CHECK_DEADLOCK FALSE
