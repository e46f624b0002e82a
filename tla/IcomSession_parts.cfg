\* The window: loss, repetition and reordering of up to three packets back, across the
\* wrap of the numbers. The login: one ask, two logins, and one expiry, kick or
\* repeated datagram.
SPECIFICATION IcomSessionSpec
CONSTANTS
  SeqMod = 10
  MaxMissing = 2
  TrimBy = 1
  BufSize = 3
  MaxAsk = 2
  PurgeTicks = 3
  Late = 3
  MaxOutage = 4
  AskLimit = 1
  MaxLogins = 2
  MaxFaults = 1
INVARIANTS WindowSound Accounted SessionInv
PROPERTIES MissingResolved NewestLoginAdopted DiscoveryGivesUp
CHECK_DEADLOCK FALSE
