\* The radio ends the session at any moment; the reconnect thread runs beside the others,
\* with a USB CI-V channel, under fair scheduling.  One band: no property of this run
\* depends on which.
SPECIFICATION FairSpec
CONSTANTS
  b70 = b70
  b23 = b23
  t1 = t1
  t2 = t2
  Bands <- MCOneBand
  TxBands <- MCTxBands
  Timers <- MCTimers
  NoBand = NoBand
  NoTimer = NoTimer
  RxOnly = FALSE
  Hybrid = TRUE
  DialMoves = FALSE
  RadioMayKick = TRUE
  MaxAttempts = 2
INVARIANTS OneWatchdog LostClientLatched
PROPERTY ReconnectEnds
