\* A radio that keeps its session, an operator at its dial: AE's commands, the watchdog
\* timers, the tuner, its tunes and the radio's answers interleave freely under fair scheduling.
SPECIFICATION FairSpec
CONSTANTS
  b70 = b70
  b23 = b23
  t1 = t1
  t2 = t2
  Bands <- MCBands
  TxBands <- MCTxBands
  Timers <- MCTimers
  NoBand = NoBand
  NoTimer = NoTimer
  RxOnly = FALSE
  Hybrid = FALSE
  DialMoves = TRUE
  RadioMayKick = FALSE
  MaxAttempts = 2
INVARIANTS KeyedMatchesWire WatchdogBacksKey LostClientDisarms
PROPERTIES BandCheckSoundWhenRead KeepsPromise
