SPECIFICATION ManagerSpec
CONSTANTS
  Requests = {r1, r2}
  MaxV = 2
  Broken = {}
  MaxAsks = 4
  MaxFaults = 0
PROPERTIES NoSwapUnderGate
CHECK_DEADLOCK FALSE
