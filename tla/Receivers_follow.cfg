SPECIFICATION Spec
CONSTANTS
  Freqs = {1, 2}
  MaxCmds = 3
  MaxTurns = 2
  GoneLimit = 3
INVARIANT SlicesInv
PROPERTIES SubNeverMovesMain SubDebounced RadioLeads
CHECK_DEADLOCK FALSE
