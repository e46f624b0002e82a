------------------------------ MODULE TxGuard ------------------------------
(***************************************************************************)
(* The transmit guard of the Icom LAN path: every step between a command   *)
(* of the AetherSDR client (AE) and the CI-V PTT command on the wire.      *)
(*                                                                         *)
(* Threads, as in the code:                                                *)
(*   "cmd"    the engine's TCP session thread (Radio.serve and on_line);   *)
(*   "rec"    the background reconnect thread the stream loop starts;      *)
(*   Timers   the threading.Timer watchdogs, one per key-down;             *)
(*   the CI-V reader and the tuner thread, whose steps touch freq_hz.      *)
(* key_tx and unkey_tx hold _tx_lock; disarm_tx clears the latch after     *)
(* unkey_tx has released it; the reconnect thread replaces _civ under no   *)
(* lock at all.                                                            *)
(*                                                                         *)
(* A frequency is abstracted to its band, which is all key_tx looks at.    *)
(***************************************************************************)
EXTENDS Naturals, FiniteSets

CONSTANTS
  Bands,         \* the bands the rig covers (BAND_RANGES_MHZ)
  TxBands,       \* the bands key_tx allows (TX_BANDS_MHZ)
  NoBand,        \* freq_hz is None; _tune_target is None
  Timers,        \* the watchdog timers that may exist at once: bounds key-downs
  NoTimer,       \* _tx_watchdog is None
  RxOnly,        \* the gate was started with --rx-only
  Hybrid,        \* a USB CI-V channel is up: it owns freq and mode
  DialMoves,     \* the operator may turn the rig's own dial
  RadioMayKick,  \* the radio may end the session (status disc=1)
  MaxAttempts    \* length of _RECONNECT_BACKOFF_S

ASSUME BandsAssumption == TxBands \subseteq Bands /\ NoBand \notin Bands
ASSUME TimersAssumption == NoTimer \notin Timers
ASSUME FlagsAssumption == {RxOnly, Hybrid, DialMoves, RadioMayKick} \subseteq BOOLEAN
ASSUME AttemptsAssumption == MaxAttempts \in Nat \ {0}

VARIABLES
  conn,      \* an AE client is being served (Radio.conn)
  mox, tune, \* Radio.tx_mox, Radio.tx_tune
  daxTx,     \* AE registered a dax_tx stream (dax_tx_stream_id is not None)
  digital,   \* AE selected a mode whose only TX audio source is dax_tx
  armed,     \* _tx_armed
  keyed,     \* _tx_keyed
  lock,      \* holder of _tx_lock between two steps, or "free"
  watchdog,  \* _tx_watchdog
  timers,    \* each Timer: "unused", "armed", or "fired" (waiting for the lock)
  civ,       \* _civ: "none", "stopped" (socket closed) or "live"
  freq,      \* _civ.freq_hz: what the gate believes the rig is tuned to
  target,    \* _civ._tune_target
  tuner,     \* the band the tuner thread has sent and is settling on
  sent,      \* tunes (25 00, over LAN or USB) on their way to the rig
  told,      \* the rig's answers and broadcasts on their way to the gate
  rig,       \* the band the rig is tuned to
  read,      \* history: freq is what the rig said of itself after its last move
  ptt,       \* the last PTT the gate put on an open CI-V socket
  want,      \* _want_reconnect
  attempts,  \* reconnect attempts made
  pc         \* where each thread stands

ae      == <<conn, mox, tune, daxTx, digital>>
key     == <<armed, keyed, lock, watchdog, timers, ptt>>
tuning  == <<freq, target, tuner, sent, told, rig, read>>
session == <<civ, want, attempts>>
vars    == <<ae, key, tuning, session, pc>>

Threads  == {"cmd", "rec"}
CmdPcs   == {"idle", "keyWait", "keyPtt", "keyWatch", "unkeyWait",
             "dropUnkey", "dropLatch"}
RecPcs   == {"idle", "unkey", "latch", "stop", "drop", "open", "health"}

Goto(t, l) == pc' = [pc EXCEPT ![t] = l]
CmdIdle    == conn /\ pc["cmd"] = "idle"

TypeOK ==
  /\ {conn, mox, tune, daxTx, digital, armed, keyed, ptt, want, read}
        \subseteq BOOLEAN
  /\ lock \in {"free", "cmd"}
  /\ watchdog \in Timers \cup {NoTimer}
  /\ timers \in [Timers -> {"unused", "armed", "fired"}]
  /\ civ \in {"none", "stopped", "live"}
  /\ {freq, target, tuner} \subseteq Bands \cup {NoBand}
  /\ rig \in Bands /\ sent \subseteq Bands
  /\ told \subseteq [band : Bands, new : BOOLEAN]
  /\ attempts \in 0..MaxAttempts
  /\ pc \in [Threads -> CmdPcs \cup RecPcs]
  /\ pc["cmd"] \in CmdPcs /\ pc["rec"] \in RecPcs

(* The gate runs serve() only after open() has passed its health gate. *)
Init ==
  /\ conn = FALSE /\ mox = FALSE /\ tune = FALSE
  /\ daxTx = FALSE /\ digital = FALSE
  /\ armed = FALSE /\ keyed = FALSE /\ lock = "free"
  /\ watchdog = NoTimer /\ timers = [i \in Timers |-> "unused"] /\ ptt = FALSE
  /\ civ = "live" /\ want = FALSE /\ attempts = 0
  /\ rig \in Bands /\ freq = rig
  /\ target = NoBand /\ tuner = NoBand /\ sent = {} /\ told = {} /\ read = TRUE
  /\ pc = [t \in Threads |-> "idle"]

-----------------------------------------------------------------------------
(* The adapter's primitives. *)

(* Plausible bugs, each placed before the definition it would replace, are  *)
(* named ...Bug; no definition uses them.                                   *)

(* arm_tx: lift the latch, refused under --rx-only. *)
Arm == armed' = (armed \/ ~RxOnly)

(* _is_digital_mode reads the adapter attribute _mode. set_mode stores      *)
(* _ae_mode_echo and _ae_mode_base; nothing on this adapter assigns _mode,  *)
(* so getattr yields its default and the answer is always no.               *)
IsDigitalMode == FALSE

BareCarrier == IsDigitalMode /\ ~daxTx

KeyRefusedBug ==                                         \* the bands it covers, not those it may key
  RxOnly \/ ~armed \/ civ = "none" \/ freq \notin Bands \/ BareCarrier

(* The guards of key_tx, in the code's order. *)
KeyRefused ==
  \/ RxOnly
  \/ ~armed
  \/ civ = "none"
  \/ freq \notin TxBands
  \/ BareCarrier

(* _ptt_raw: what reaches the wire. Keying is refused under --rx-only,      *)
(* unkeying never is; on a stopped transport send_tracked drops the frame.  *)
PttRaw(on) ==
  ptt' = IF civ # "live" \/ (on /\ RxOnly) THEN ptt ELSE on

(* unkey_tx, under _tx_lock from its first line to its last. Timer.cancel   *)
(* stops a timer that is still waiting; one past that point runs anyway.    *)
Cancelled == [i \in Timers |->
                IF i = watchdog /\ timers[i] = "armed" THEN "unused" ELSE timers[i]]

Unkey(timersAfter) ==
  /\ lock = "free"
  /\ timers' = timersAfter
  /\ watchdog' = NoTimer
  /\ PttRaw(FALSE)
  /\ keyed' = FALSE
  /\ UNCHANGED lock

(* A tune on its way: what the rig has said of itself so far is overtaken. *)
Overtaken == {[a EXCEPT !.new = FALSE] : a \in told}

SendTune(b) ==
  /\ sent' = sent \cup {b}
  /\ told' = Overtaken
  /\ read' = FALSE

-----------------------------------------------------------------------------
(* The AE session thread. *)

(* serve: accept a client and arm. *)
Connect ==
  /\ ~conn /\ pc["cmd"] = "idle"
  /\ conn' = TRUE
  /\ Arm
  /\ UNCHANGED <<mox, tune, daxTx, digital, keyed, lock, watchdog, timers, ptt>>
  /\ UNCHANGED <<tuning, session, pc>>

(* on_line "xmit 0|1" and "transmit set ...": mox and tune take the values  *)
(* the line carries or keep their own; the result keys or unkeys the rig.   *)
RequestTx(wanted) ==
  /\ wanted => \E i \in Timers : timers[i] = "unused"    \* bound: Timers
  /\ Goto("cmd", IF wanted THEN "keyWait" ELSE "unkeyWait")

Xmit(on) ==
  /\ CmdIdle
  /\ mox' = on
  /\ RequestTx(on)
  /\ UNCHANGED <<conn, tune, daxTx, digital, key, tuning, session>>

TransmitSet(m, t) ==
  /\ CmdIdle
  /\ mox' = m /\ tune' = t
  /\ RequestTx(m \/ t)
  /\ UNCHANGED <<conn, daxTx, digital, key, tuning, session>>

KeyCheckBug ==                                           \* keys a keyed rig again
  /\ pc["cmd"] = "keyWait" /\ lock = "free"
  /\ IF KeyRefused
       THEN Goto("cmd", "idle") /\ UNCHANGED lock
       ELSE Goto("cmd", "keyPtt") /\ lock' = "cmd"
  /\ UNCHANGED <<armed, keyed, watchdog, timers, ptt, ae, tuning, session>>

(* key_tx up to the guards: take _tx_lock, return if refused or keyed. *)
KeyCheck ==
  /\ pc["cmd"] = "keyWait" /\ lock = "free"
  /\ IF KeyRefused \/ keyed
       THEN Goto("cmd", "idle") /\ UNCHANGED lock
       ELSE Goto("cmd", "keyPtt") /\ lock' = "cmd"
  /\ UNCHANGED <<armed, keyed, watchdog, timers, ptt, ae, tuning, session>>

(* An AttributeError on self._civ: the with-block releases _tx_lock and     *)
(* on_line logs the exception.                                              *)
KeyRaisesBug ==                                          \* keeps _tx_lock
  civ = "none" /\ Goto("cmd", "idle") /\ UNCHANGED <<lock, keyed, ptt, timers, watchdog>>

KeyRaises ==
  /\ civ = "none"
  /\ Goto("cmd", "idle") /\ lock' = "free"
  /\ UNCHANGED <<keyed, ptt, timers, watchdog>>

KeyPttBug ==                                             \* unlocks before the watchdog
  /\ pc["cmd"] = "keyPtt" /\ civ # "none"
  /\ PttRaw(TRUE) /\ keyed' = TRUE /\ lock' = "free"
  /\ Goto("cmd", "keyWatch")
  /\ UNCHANGED <<timers, watchdog, armed, ae, tuning, session>>

KeyPtt ==
  /\ pc["cmd"] = "keyPtt"
  /\ \/ KeyRaises
     \/ /\ civ # "none"
        /\ PttRaw(TRUE) /\ keyed' = TRUE
        /\ Goto("cmd", "keyWatch")
        /\ UNCHANGED <<lock, timers, watchdog>>
  /\ UNCHANGED <<armed, ae, tuning, session>>

KeyWatchBug ==                                           \* never starts the timer
  /\ pc["cmd"] = "keyWatch" /\ watchdog' \in Timers
  /\ Goto("cmd", "idle") /\ lock' = "free"
  /\ UNCHANGED <<keyed, ptt, timers, armed, ae, tuning, session>>

(* _tx_active = True, then create and start the watchdog timer. *)
KeyWatch ==
  /\ pc["cmd"] = "keyWatch"
  /\ \/ KeyRaises
     \/ /\ civ # "none"
        /\ \E i \in Timers :
             /\ timers[i] = "unused"
             /\ timers' = [timers EXCEPT ![i] = "armed"]
             /\ watchdog' = i
        /\ Goto("cmd", "idle") /\ lock' = "free"
        /\ UNCHANGED <<keyed, ptt>>
  /\ UNCHANGED <<armed, ae, tuning, session>>

CmdUnkey ==
  /\ pc["cmd"] = "unkeyWait"
  /\ Unkey(Cancelled)
  /\ Goto("cmd", "idle")
  /\ UNCHANGED <<armed, ae, tuning, session>>

(* serve's finally: disarm_tx (unkey, then the latch), then clear the       *)
(* session's state.                                                         *)
Disconnect ==
  /\ CmdIdle
  /\ Goto("cmd", "dropUnkey")
  /\ UNCHANGED <<ae, key, tuning, session>>

DropUnkeyBug ==                                          \* latches without unkeying
  /\ pc["cmd"] = "dropUnkey"
  /\ Goto("cmd", "dropLatch")
  /\ UNCHANGED <<ae, key, tuning, session>>

DropUnkey ==
  /\ pc["cmd"] = "dropUnkey"
  /\ Unkey(Cancelled)
  /\ Goto("cmd", "dropLatch")
  /\ UNCHANGED <<armed, ae, tuning, session>>

DropLatchBug ==                                          \* leaves the latch lifted
  /\ pc["cmd"] = "dropLatch"
  /\ conn' = FALSE /\ mox' = FALSE /\ tune' = FALSE /\ daxTx' = FALSE
  /\ Goto("cmd", "idle")
  /\ UNCHANGED <<digital, key, tuning, session>>

DropLatch ==
  /\ pc["cmd"] = "dropLatch"
  /\ armed' = FALSE
  /\ conn' = FALSE /\ mox' = FALSE /\ tune' = FALSE /\ daxTx' = FALSE
  /\ Goto("cmd", "idle")
  /\ UNCHANGED <<digital, keyed, lock, watchdog, timers, ptt, tuning, session>>

(* "slice set mode=": remembered on the adapter across sessions. *)
SetMode(d) ==
  /\ CmdIdle
  /\ digital' = d
  /\ UNCHANGED <<conn, mox, tune, daxTx, key, tuning, session, pc>>

(* "stream create type=dax_tx". "stream remove" never clears the id. *)
CreateDaxTx ==
  /\ CmdIdle
  /\ daxTx' = TRUE
  /\ UNCHANGED <<conn, mox, tune, digital, key, tuning, session, pc>>

(* A slice tune reaches retune: the USB channel's thread writes the rig     *)
(* (tune_main), the LAN channel records a target for its tuner thread.      *)
SliceTune(b) ==
  /\ CmdIdle
  /\ IF Hybrid
       THEN SendTune(b) /\ UNCHANGED target
       ELSE civ = "live" /\ target' = b /\ UNCHANGED <<sent, told, read>>
  /\ UNCHANGED <<freq, tuner, rig, ae, key, session, pc>>

-----------------------------------------------------------------------------
(* Timer threads. *)

TimerFire(i) ==
  /\ timers[i] = "armed"
  /\ timers' = [timers EXCEPT ![i] = "fired"]
  /\ UNCHANGED <<armed, keyed, lock, watchdog, ptt, ae, tuning, session, pc>>

TimerUnkeyBug(i) ==                                      \* clears the flag, sends nothing
  /\ timers[i] = "fired" /\ lock = "free"
  /\ timers' = [Cancelled EXCEPT ![i] = "unused"]
  /\ watchdog' = NoTimer /\ keyed' = FALSE
  /\ UNCHANGED <<lock, ptt, armed, ae, tuning, session, pc>>

TimerUnkey(i) ==
  /\ timers[i] = "fired"
  /\ Unkey([Cancelled EXCEPT ![i] = "unused"])
  /\ UNCHANGED <<armed, ae, tuning, session, pc>>

-----------------------------------------------------------------------------
(* The CI-V reader, the tuner thread and the rig's own dial. *)

(* The rig answers a 25 00 read: the answer is what it is tuned to now, and *)
(* arrives later or not at all. With USB up the LAN channel sends no reads, *)
(* except while a fresh session is being brought up.                        *)
RigTells ==
  /\ civ = "live"
  /\ ~Hybrid \/ pc["rec"] = "health"
  /\ told' = told \cup {[band |-> rig, new |-> sent = {}]}
  /\ UNCHANGED <<freq, target, tuner, sent, rig, read, ae, key, session, pc>>

(* _on_data stores an answer or a broadcast, in whatever order they come. *)
FreqReply(a) ==
  /\ civ = "live"
  /\ told' = told \ {a}
  /\ freq' = a.band /\ read' = a.new
  /\ UNCHANGED <<target, tuner, sent, rig, ae, key, session, pc>>

(* A tune reaches the rig, which takes it or answers FA, or it is lost;     *)
(* another one for the same band may follow it.                             *)
RigTakes(b) ==
  /\ sent' \in {sent, sent \ {b}}
  /\ rig' \in {rig, b}
  /\ UNCHANGED <<freq, target, tuner, told, read, ae, key, session, pc>>

(* The operator turns the dial; the rig's broadcast may or may not come. *)
Dial(b, heard) ==
  /\ DialMoves
  /\ rig' = b
  /\ told' = Overtaken \cup {a \in {[band |-> b, new |-> sent = {}]} : heard /\ civ = "live"}
  /\ read' = FALSE
  /\ UNCHANGED <<freq, target, tuner, sent, ae, key, session, pc>>

(* _tuner_loop: drop a target already reached, else send 25 00 and sleep    *)
(* through the settle time.                                                 *)
TunerTake ==
  /\ civ = "live" /\ tuner = NoBand /\ target # NoBand
  /\ IF freq = target
       THEN target' = NoBand /\ UNCHANGED <<tuner, sent, told, read>>
       ELSE tuner' = target /\ SendTune(target) /\ UNCHANGED target
  /\ UNCHANGED <<freq, rig, ae, key, session, pc>>

(* _try_freq's answer: refused if any FA was counted meanwhile. The count   *)
(* is shared by all commands and the tune or its FA may be late or lost, so *)
(* the answer says nothing certain about the rig.                           *)
TunerDone(refused) ==
  /\ tuner # NoBand
  /\ IF refused THEN UNCHANGED <<freq, read>> ELSE freq' = tuner /\ read' = FALSE
  /\ target' = IF target = tuner THEN NoBand ELSE target
  /\ tuner' = NoBand
  /\ UNCHANGED <<sent, told, rig, ae, key, session, pc>>

-----------------------------------------------------------------------------
(* Session loss and the reconnect thread. *)

(* The radio ended the session; read_meters asks for a recycle. *)
Kick ==
  /\ RadioMayKick
  /\ civ = "live" /\ conn /\ pc["rec"] = "idle"
  /\ want' = TRUE
  /\ UNCHANGED <<civ, attempts, ae, key, tuning, pc>>

(* stream_loop starts reconnect on its own thread, one at a time. *)
StartReconnect ==
  /\ want /\ conn /\ pc["rec"] = "idle"
  /\ want' = FALSE /\ attempts' = 0
  /\ Goto("rec", "unkey")
  /\ UNCHANGED <<civ, ae, key, tuning>>

(* _close_lan: disarm_tx, then stop the LAN halves. *)
RecUnkey ==
  /\ pc["rec"] = "unkey"
  /\ Unkey(Cancelled)
  /\ Goto("rec", "latch")
  /\ UNCHANGED <<armed, ae, tuning, session>>

RecLatch ==
  /\ pc["rec"] = "latch"
  /\ armed' = FALSE
  /\ Goto("rec", "stop")
  /\ UNCHANGED <<keyed, lock, watchdog, timers, ptt, ae, tuning, session>>

RecStop ==
  /\ pc["rec"] = "stop"
  /\ civ' = IF civ = "none" THEN "none" ELSE "stopped"
  /\ target' = NoBand /\ tuner' = NoBand /\ told' = {}
  /\ Goto("rec", "drop")
  /\ UNCHANGED <<freq, sent, rig, read, want, attempts, ae, key>>

(* _civ = None, then the next attempt or, after the last, give up. *)
RecDrop ==
  /\ pc["rec"] = "drop"
  /\ civ' = "none"
  /\ Goto("rec", IF attempts = MaxAttempts THEN "idle" ELSE "open")
  /\ UNCHANGED <<want, attempts, ae, key, tuning>>

(* _open: a login that succeeds installs a fresh stream that knows no       *)
(* frequency yet; one that fails tears the LAN halves down again.           *)
RecOpen(ok) ==
  /\ pc["rec"] = "open"
  /\ attempts' = attempts + 1
  /\ IF ok THEN civ' = "live" /\ freq' = NoBand /\ read' = FALSE /\ Goto("rec", "health")
           ELSE Goto("rec", "unkey") /\ UNCHANGED <<civ, freq, read>>
  /\ UNCHANGED <<want, target, tuner, sent, told, rig, ae, key>>

(* _open's health gate: a frequency reply in time, or an exception. *)
RecHealth ==
  /\ pc["rec"] = "health"
  /\ Goto("rec", IF freq # NoBand THEN "idle" ELSE "unkey")
  /\ UNCHANGED <<ae, key, tuning, session>>

-----------------------------------------------------------------------------
CmdStep ==
  \/ Connect \/ Disconnect \/ DropUnkey \/ DropLatch
  \/ \E on \in BOOLEAN : Xmit(on) \/ SetMode(on)
  \/ \E m, t \in BOOLEAN : TransmitSet(m, t)
  \/ KeyCheck \/ KeyPtt \/ KeyWatch \/ CmdUnkey
  \/ CreateDaxTx
  \/ \E b \in Bands : SliceTune(b)

TimerStep == \E i \in Timers : TimerFire(i) \/ TimerUnkey(i)

RigStep ==
  \/ RigTells \/ TunerTake
  \/ \E a \in told : FreqReply(a)
  \/ \E b \in sent : RigTakes(b)
  \/ \E refused \in BOOLEAN : TunerDone(refused)
  \/ \E b \in Bands, heard \in BOOLEAN : Dial(b, heard)

RecStep ==
  \/ Kick \/ StartReconnect \/ RecUnkey \/ RecLatch \/ RecStop \/ RecDrop
  \/ \E ok \in BOOLEAN : RecOpen(ok)
  \/ RecHealth

Next == CmdStep \/ TimerStep \/ RigStep \/ RecStep

(* A started Timer expires, a thread that can run does, and a thread        *)
(* waiting for _tx_lock, which is only ever held across a few statements,   *)
(* gets it.                                                                 *)
Fairness ==
  /\ WF_vars(KeyCheck) /\ WF_vars(KeyPtt) /\ WF_vars(KeyWatch)
  /\ WF_vars(CmdUnkey) /\ WF_vars(DropUnkey) /\ WF_vars(DropLatch)
  /\ \A i \in Timers : WF_vars(TimerFire(i)) /\ WF_vars(TimerUnkey(i))
  /\ SF_vars(RecUnkey)
  /\ WF_vars(RecLatch \/ RecStop \/ RecDrop \/ RecHealth)
  /\ WF_vars(\E ok \in BOOLEAN : RecOpen(ok))

Spec == Init /\ [][Next]_vars
FairSpec == Spec /\ Fairness

-----------------------------------------------------------------------------
(* Safety. *)

(* What the gate believes is what it put on the wire: outside _tx_lock,     *)
(* _tx_keyed and the last PTT command agree (key_tx, unkey_tx).             *)
KeyedMatchesWire == lock = "free" => (keyed <=> ptt)

(* Every key-down has a live watchdog: outside _tx_lock a keyed rig has a   *)
(* timer, still waiting or already fired, that will unkey it (key_tx,       *)
(* _tx_timeout).                                                            *)
WatchdogBacksKey ==
  lock = "free" /\ keyed => watchdog # NoTimer /\ timers[watchdog] # "unused"

(* At most one timer is waiting and it is the one unkey_tx would cancel: no *)
(* forgotten watchdog can cut a later transmission short 10 s in advance.   *)
OneWatchdog == \A i \in Timers : timers[i] = "armed" => i = watchdog

(* A lost client never leaves the transmitter keyed or armed (serve's       *)
(* finally).                                                                *)
LostClientDisarms == ~conn => ~armed /\ ~keyed /\ ~ptt /\ lock = "free"

(* ... of which the latch holds whatever the reconnect thread is doing.     *)
LostClientLatched == ~conn => ~armed /\ pc["cmd"] = "idle"

(* --rx-only: no connect, command or reconnect arms or keys the rig.        *)
RxOnlyInert == RxOnly => ~armed /\ ~keyed /\ ~ptt

(* _close_lan: "A disconnect/reconnect must always leave the transmitter in *)
(* RX": once the reconnect thread has dropped the session, and no key_tx is *)
(* under way, PTT is off.                                                   *)
TeardownLeavesRx == civ = "none" /\ lock = "free" => ~ptt

-----------------------------------------------------------------------------
(* Action and liveness properties. *)

(* The band check is fooled only by a cache older than the rig's last move: *)
(* a key_tx that passes its guards while freq_hz holds an answer the rig    *)
(* gave with no tune on its way, and nothing has been sent or turned since, *)
(* passes them on a TX band, over stale answers, tunes taken as accepted    *)
(* that never arrived, and reconnections (key_tx, _on_data, _tuner_loop).   *)
BandCheckSoundWhenRead ==
  [][pc["cmd"] = "keyWait" /\ pc'["cmd"] = "keyPtt" /\ read => rig \in TxBands]_vars

(* TxGuard implements TxPromise: client is conn, the latch is _tx_armed,    *)
(* and RF is on the air from the PTT command that keys to the one that      *)
(* unkeys.                                                                  *)
TP == INSTANCE TxPromise WITH client <- conn, onAir <- ptt
KeepsPromise == TP!Spec

(* The reconnect thread always ends: no exception under _tx_lock and no     *)
(* failed attempt leaves it waiting.                                        *)
ReconnectEnds == pc["rec"] # "idle" ~> pc["rec"] = "idle"
=============================================================================
