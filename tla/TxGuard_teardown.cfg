\* The claim that a teardown always leaves the transmitter in RX.
SPECIFICATION Spec
CONSTANTS
  b70 = b70
  b23 = b23
  t1 = t1
  t2 = t2
  Bands <- MCBands
  TxBands <- MCTxBands
  Timers <- MCTimers
  NoBand = NoBand
  NoTimer = NoTimer
  RxOnly = FALSE
  Hybrid = FALSE
  DialMoves = FALSE
  RadioMayKick = TRUE
  MaxAttempts = 2
SYMMETRY TimerSym
INVARIANT TeardownLeavesRx
