SPECIFICATION Spec
CONSTANTS
  Objects = {a, b}
  MaxFaults = 1
  Servers <- TwoServers
  Cases <- AllCases
  Defects <- AllDefects
  Modes <- BothModes
INVARIANTS PassedIsEarned WorkingToolIsNotBlamed
