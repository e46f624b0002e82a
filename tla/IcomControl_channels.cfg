\* UsbSwap: three missed commands, one fewer than the tries, an unanswered read, and
\* tunes of both receivers between the transactions. ModeEcho: a change by the client
\* and one by the operator, or two of either. MenuSettings: two accesses of the pages
\* beside the check of the connect.
SPECIFICATION ControlSpec
CONSTANTS
  Bands = {m2, cm70, cm23}
  None = None
  Tries = 4
  MainTunes = {cm23}
  SubTunes = {cm70}
  MaxMissed = 3
  MaxUnread = 1
  MaxModes = 2
  ModeWire = 2
  LevelMin = 1
  MaxWeb = 2
  MenuWire = 2
INVARIANTS SwapInv MenuInv
PROPERTIES SwapSafe ModeFollowed ControlsEnd
CHECK_DEADLOCK FALSE
