SPECIFICATION ManagerSpec
CONSTANTS
  Requests = {r1, r2}
  MaxV = 3
  Broken = {2}
  MaxAsks = 4
  MaxFaults = 2
INVARIANT ManagerInv
PROPERTIES UpdateEndsClean UpdateIsAtomic StopsEnd
CHECK_DEADLOCK FALSE
