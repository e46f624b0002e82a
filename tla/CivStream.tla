----------------------------- MODULE CivStream -----------------------------
(***************************************************************************)
(* The CI-V data stream of an Icom LAN session (UdpCivData as              *)
(* _Ic9700Stream runs it): discovery, the data-stream OPEN, the stall      *)
(* watchdog with its retries, the health gate of _open and the teardown.   *)
(*                                                                         *)
(* Threads: the reader (Reader...), the cadence thread, whose watchdog reads *)
(* the clock in one step and arms the retry in another, and the thread in  *)
(* _open and _close_lan (Gate...). The radio is external: it streams CI-V   *)
(* data while its data channel is open, an OPEN opens the channel and a    *)
(* CLOSE closes it, and it may pause its output.  Each datagram of the     *)
(* gate arrives or is lost.                                                *)
(***************************************************************************)
EXTENDS Naturals

CONSTANTS
  StallTicks,    \* _WATCHDOG_STALL_S in watchdog periods (2 s of 500 ms)
  BringUpTries   \* the re-fired bring-ups of _open's 12 s

ASSUME PeriodsAssumption == StallTicks \in Nat /\ BringUpTries \in Nat

VARIABLES
  civHello,     \* _areyouthere_on
  reply,     \* the handshake answer on its way: "none", "here" (04) or "ready" (06)
  remote,    \* the radio's id is known (remote_id)
  startOn,   \* _start_civ_on: the 100 ms retry is armed
  alerted,   \* _watchdog_alerted
  quiet,     \* watchdog periods since the last accepted CI-V data
  stale,     \* the watchdog has found the stream stalled and not acted yet
  freq,      \* a reply to our own frequency read has come (freq_hz)
  civGate,   \* _open and _close_lan: "health", "healthy", "closing" or "down"
  tries,     \* bring-ups re-fired by _open
  chan       \* the radio's data channel is open

civVars == <<civHello, reply, remote, startOn, alerted, quiet, stale, freq, civGate, tries, chan>>

CivInit ==
  /\ civHello = TRUE /\ reply = "none" /\ remote = FALSE
  /\ startOn = FALSE /\ alerted = FALSE /\ quiet = 0 /\ stale = FALSE
  /\ freq = FALSE /\ civGate = "health" /\ tries = 0
  /\ chan = FALSE

Up == civGate # "down"        \* the socket is open

\* _send_openclose: the radio gets it only when it carries its id.
OpenClose(open, arrives) == chan' = IF arrives /\ remote THEN open ELSE chan

-----------------------------------------------------------------------------
(* The reader and the radio. *)

CivRadioHere ==
  /\ Up /\ civHello /\ reply = "none"
  /\ reply' = "here"
  /\ UNCHANGED <<civHello, remote, startOn, alerted, quiet, stale, freq, civGate, tries, chan>>

\* 0x04: discovery ends, and a 0x06 goes out that nobody repeats.
ReaderHere ==
  /\ Up /\ reply = "here"
  /\ civHello' = FALSE /\ remote' = TRUE
  /\ reply' \in {"ready", "none"}
  /\ UNCHANGED <<startOn, alerted, quiet, stale, freq, civGate, tries, chan>>

\* 0x06: _Ic9700Stream._on_iamready sends OPEN and its reads.
ReaderReady ==
  /\ Up /\ reply = "ready"
  /\ reply' = "none"
  /\ \E arrives \in BOOLEAN : OpenClose(TRUE, arrives)
  /\ UNCHANGED <<civHello, remote, startOn, alerted, quiet, stale, freq, civGate, tries>>

\* An accepted CI-V datagram, the answer to our own read or not.
ReaderData ==
  /\ Up /\ chan
  /\ startOn' = FALSE /\ quiet' = 0
  /\ freq' \in {freq, TRUE}
  /\ UNCHANGED <<civHello, reply, remote, alerted, stale, civGate, tries, chan>>

RadioPause ==
  /\ chan
  /\ chan' = FALSE
  /\ UNCHANGED <<civHello, reply, remote, startOn, alerted, quiet, stale, freq, civGate, tries>>

-----------------------------------------------------------------------------
(* The cadence thread. *)

Stalled == quiet > StallTicks

\* The alert is not reset: one stall is noticed, the next one is not.
WatchdogBug ==
  /\ Up /\ ~stale
  /\ quiet' = IF Stalled THEN quiet ELSE quiet + 1
  /\ stale' = Stalled
  /\ UNCHANGED <<civHello, reply, remote, startOn, alerted, freq, civGate, tries, chan>>

Watchdog ==
  /\ Up /\ ~stale
  /\ quiet' = IF Stalled THEN quiet ELSE quiet + 1
  /\ stale' = Stalled
  /\ alerted' = (alerted /\ Stalled)
  /\ UNCHANGED <<civHello, reply, remote, startOn, freq, civGate, tries, chan>>

WatchdogArm ==
  /\ Up /\ stale
  /\ stale' = FALSE /\ alerted' = TRUE
  /\ startOn' = (startOn \/ ~alerted)
  /\ UNCHANGED <<civHello, reply, remote, quiet, freq, civGate, tries, chan>>

\* What the retry sends: _send_openclose(opening=False), magic 0x00.
RetryOpens == FALSE

Retry(arrives) ==
  /\ Up /\ ~stale /\ startOn
  /\ OpenClose(RetryOpens, arrives)
  /\ UNCHANGED <<civHello, reply, remote, startOn, alerted, quiet, stale, freq, civGate, tries>>

-----------------------------------------------------------------------------
(* _open and _close_lan. *)

Refirable == civGate = "health" /\ ~freq /\ tries < BringUpTries

GateRefire ==
  /\ Refirable
  /\ tries' = tries + 1
  /\ \E arrives \in BOOLEAN : OpenClose(TRUE, arrives)
  /\ UNCHANGED <<civHello, reply, remote, startOn, alerted, quiet, stale, freq, civGate>>

GateHealthy ==
  /\ civGate = "health" /\ freq
  /\ civGate' = "healthy"
  /\ UNCHANGED <<civHello, reply, remote, startOn, alerted, quiet, stale, freq, tries, chan>>

\* stop(): CLOSE first; a session that fails its health gate is closed too.
GateClose ==
  /\ \/ civGate = "healthy"
     \/ civGate = "health" /\ ~freq /\ tries = BringUpTries
  /\ civGate' = "closing"
  /\ startOn' = FALSE
  /\ \E arrives \in BOOLEAN : OpenClose(FALSE, arrives)
  /\ UNCHANGED <<civHello, reply, remote, alerted, quiet, stale, freq, tries>>

\* ... then the 0x05, which ends the radio's session, and the socket.
GateDown ==
  /\ civGate = "closing"
  /\ civGate' = "down" /\ chan' = FALSE
  /\ UNCHANGED <<civHello, reply, remote, startOn, alerted, quiet, stale, freq, tries>>

CivReader == ReaderHere \/ ReaderReady \/ ReaderData
Gate   == GateRefire \/ GateHealthy \/ GateClose \/ GateDown

CivNext ==
  \/ CivRadioHere \/ RadioPause \/ CivReader \/ Gate
  \/ Watchdog \/ WatchdogArm
  \/ \E arrives \in BOOLEAN : Retry(arrives)

-----------------------------------------------------------------------------
(* Properties. *)

CivTypeOK ==
  /\ {civHello, remote, startOn, alerted, stale, freq, chan} \subseteq BOOLEAN
  /\ reply \in {"none", "here", "ready"}
  /\ quiet \in 0..(StallTicks + 1) /\ tries \in 0..BringUpTries
  /\ civGate \in {"health", "healthy", "closing", "down"}

(* Every stall is noticed, the second and the third as well: a stream that *)
(* stays quiet has its retry armed, unless it ends first.                  *)
StallNoticed == Stalled /\ Up ~> startOn \/ ~Stalled \/ ~Up

(* _open ends: with a healthy session, or with the session torn down.      *)
BringUpEnds == civGate = "health" ~> civGate \in {"healthy", "down"}
=============================================================================
