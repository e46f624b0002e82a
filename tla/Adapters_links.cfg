SPECIFICATION AdaptersSpec
CONSTANTS
  Dials = {20, 40}
  Rates = {5, 10}
  Clearance = 1
  PerBlock = 4
  RecoverAt = 1
  LostAt = 2
  GiveUpAt = 3
  StaleAt = 1
  SoapyEvents = 2
  Spots = {10, 20}
  HalfWidth = 4
  SilentAt = 2
  HpsdrAsks = 1
  HpsdrFaults = 1
  SerialFreqs = {1, 2}
  SerialAsks = 2
  SerialFaults = 1
  RigFreqs = {1, 2}
  RigModes = {3, 4}
  RigAsks = 2
  RigFaults = 1
INVARIANT AdaptersInv
PROPERTIES RequestsSettle LossTold HpsdrSpectrumSettles RadioFollowed SliceSeesRig
CHECK_DEADLOCK FALSE
