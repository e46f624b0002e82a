\* Every part on the smallest instance that has its races: stalls at every period;
\* a re-key in the grace of the last over; two senders and two laps.
SPECIFICATION IcomSpec
CONSTANTS
  StallTicks = 4
  BringUpTries = 3
  RxRingMax = 2
  Drainers = {"d1", "d2"}
  TxRingMax = 2
  Senders = {"idle", "audio"}
  BufSize = 1
  SeqSpan = 4
  MaxAsk = 2
INVARIANT LanInv
PROPERTIES StallNoticed TxAudioServed ExchangesEnd
CHECK_DEADLOCK FALSE
