----------------------------- MODULE MCTxGuard -----------------------------
(* TxGuard for TLC: one TX band and one RX-only band, two watchdog timers. *)
EXTENDS TxGuard, TLC

CONSTANTS b70, b23, t1, t2

MCBands   == {b70, b23}
MCTxBands == {b70}
MCOneBand == {b70}      \* for questions no band decides
MCTimers  == {t1, t2}
TimerSym  == Permutations(MCTimers)
=============================================================================
