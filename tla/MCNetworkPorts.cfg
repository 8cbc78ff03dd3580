CONSTANTS
  Ids <- TheIds
  Bonds <- TheBonds
  Options <- TheOptions
  Settings <- TheSettings
  Bad = "bad"
  Meaning <- TheMeaning
  Foreign <- TheForeign
  Configs <- TheConfigs
  Clients = {t1, t2}
  None = None
  MaxRequests = 3
  MaxExternal = 0
  MaxFaults = 0
  MaxSpent = 4
SYMMETRY Tasks
SPECIFICATION Spec
PROPERTY PortsAsConfigured
CHECK_DEADLOCK FALSE
