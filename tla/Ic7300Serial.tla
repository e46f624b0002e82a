---------------------------- MODULE Ic7300Serial ----------------------------
(***************************************************************************)
(* The IC-7300 adapter (adapters/icom7300.py): CI-V over a USB serial      *)
(* port. The poll thread applies the client's targets and reads the        *)
(* frequency back; a panel thread sets levels through the same request();  *)
(* the reader thread files every frame of the radio. Answers carry no      *)
(* number: FB and FA are anonymous, an answer may come after its request   *)
(* gave up, and a request that starts throws away what others wait for.    *)
(* The cable may be pulled; the poll thread opens the port again.          *)
(***************************************************************************)
EXTENDS Integers, Sequences, SequencesExt

CONSTANTS SerialFreqs,                             \* frequencies
          SerialAsks,      \* bounds: tunes, level sets and turns of the dial;
          SerialFaults     \* answers that miss their request and unplugs

ASSUME SerialAssumption ==
  /\ SerialFreqs \subseteq Nat \ {0} /\ SerialFreqs # {}
  /\ {SerialAsks, SerialFaults} \subseteq Nat

NoHz == 0
FreqMsg(hz) == [kind |-> "freq", hz |-> hz]
SetMsg(hz)  == [kind |-> "set", hz |-> hz]
LevelMsg    == [kind |-> "level", hz |-> NoHz]
Ack  == [kind |-> "fb", hz |-> NoHz]
Nack == [kind |-> "fa", hz |-> NoHz]
Acks == {Ack, Nack}

VARIABLES
  plugged,     \* the cable is in
  port,        \* the serial client: "open", "dead" (its device is gone), "err" (last_err)
  radioHz,     \* the radio's frequency
  wire,        \* commands on their way to the radio
  air,         \* frames on their way from the radio
  frames,      \* self._frames
  cacheHz,     \* self.freq_hz, NoHz for None
  targetHz,    \* self._target_freq_hz
  poll, pollHz,   \* where the poll thread is; what it sets
  panel,       \* the panel thread waits for an acknowledgement
  sliceHz,     \* the client's slice
  held,        \* the engine leaves a slice the client has just tuned alone
  asked, failed

lineVars   == <<wire, air, frames>>
countVars  == <<asked, failed>>
engineVars == <<sliceHz, held>>
serialVars == <<plugged, port, radioHz, lineVars, cacheHz, targetHz, poll, pollHz, panel,
                engineVars, countVars>>

SerialTypeOK ==
  /\ plugged \in BOOLEAN /\ port \in {"open", "dead", "err"} /\ radioHz \in SerialFreqs
  /\ wire \in Seq({FreqMsg(NoHz), LevelMsg} \cup {SetMsg(f) : f \in SerialFreqs})
  /\ air \in Seq(Acks \cup {FreqMsg(f) : f \in SerialFreqs})
  /\ frames \in Seq(Acks \cup {FreqMsg(f) : f \in SerialFreqs})
  /\ {cacheHz, targetHz, pollHz} \subseteq SerialFreqs \cup {NoHz}
  /\ poll \in {"idle", "set", "ask", "read", "init"} /\ panel \in BOOLEAN
  /\ sliceHz \in SerialFreqs /\ held \in BOOLEAN
  /\ asked \in 0..SerialAsks /\ failed \in 0..SerialFaults

\* open() has read the radio, and the engine has put its slice there.
SerialInit ==
  /\ plugged = TRUE /\ port = "open" /\ radioHz \in SerialFreqs
  /\ wire = <<>> /\ air = <<>> /\ frames = <<>>
  /\ cacheHz = radioHz /\ targetHz = NoHz
  /\ poll = "idle" /\ pollHz = NoHz /\ panel = FALSE
  /\ sliceHz = radioHz /\ held = FALSE
  /\ asked = 0 /\ failed = 0

-----------------------------------------------------------------------------
(* The engine. *)

SerialTune ==
  /\ asked < SerialAsks /\ asked' = asked + 1
  /\ sliceHz' \in SerialFreqs /\ targetHz' = sliceHz' /\ held' = TRUE
  /\ UNCHANGED <<plugged, port, radioHz, lineVars, cacheHz, poll, pollHz, panel,
                 failed>>

SerialHoldEnds ==
  /\ held /\ held' = FALSE
  /\ UNCHANGED <<plugged, port, radioHz, lineVars, cacheHz, targetHz, poll, pollHz, panel,
                 sliceHz, countVars>>

\* The slice follows receivers(), which is empty before the first frequency.
SerialFollow ==
  /\ ~held /\ cacheHz # NoHz /\ sliceHz' = cacheHz
  /\ UNCHANGED <<plugged, port, radioHz, lineVars, cacheHz, targetHz, poll, pollHz, panel,
                 held, countVars>>

-----------------------------------------------------------------------------
(* request(). *)

\* A request throws the collected frames away and writes its command.
Request(msg) == frames' = <<>> /\ wire' = Append(wire, msg)

\* It takes the first frame that its matcher accepts.
FirstOf(ok) == SelectInSeq(frames, LAMBDA f : f \in ok)
TakeReply(ok) == FirstOf(ok) # 0 /\ frames' = RemoveAt(frames, FirstOf(ok))

\* It gives up. While an answer may still come, that is a late answer.
GiveUp(ok) ==
  /\ FirstOf(ok) = 0 /\ UNCHANGED frames
  /\ IF port = "open" /\ (wire # <<>> \/ air # <<>>)
     THEN failed < SerialFaults /\ failed' = failed + 1
     ELSE UNCHANGED failed

-----------------------------------------------------------------------------
(* The poll thread. A send on a port whose device is gone raises, and the loop notes it. *)

PollRaises == poll' = "idle" /\ port' = "err" /\ UNCHANGED <<wire, frames>>

\* _apply_control_targets: the target is popped before it is applied, and skipped when the
\* cache has it already.
PollTakes ==
  /\ poll = "idle" /\ port # "err"
  /\ targetHz' = NoHz
  /\ IF targetHz \in {NoHz, cacheHz}
     THEN poll' = "ask" /\ UNCHANGED <<port, pollHz, wire, frames>>
     ELSE IF port = "dead" THEN PollRaises /\ UNCHANGED pollHz
     ELSE /\ Request(SetMsg(targetHz)) /\ poll' = "set" /\ pollHz' = targetHz
          /\ UNCHANGED port
  /\ UNCHANGED <<plugged, radioHz, air, cacheHz, panel, engineVars, countVars>>

\* set_freq returns; the frequency is read back in this round or in a later one.
PollSetDone ==
  /\ poll = "set" /\ poll' \in {"ask", "idle"} /\ pollHz' = NoHz
  /\ \/ /\ TakeReply(Acks) /\ UNCHANGED failed
        /\ cacheHz' = IF frames[FirstOf(Acks)] = Ack THEN pollHz ELSE cacheHz
     \/ GiveUp(Acks) /\ UNCHANGED cacheHz
  /\ UNCHANGED <<plugged, port, radioHz, wire, air, targetHz, panel, engineVars, asked>>

PollAsks ==
  /\ poll = "ask"
  /\ IF port # "open" THEN PollRaises
     ELSE Request(FreqMsg(NoHz)) /\ poll' = "read" /\ UNCHANGED port
  /\ UNCHANGED <<plugged, radioHz, air, cacheHz, targetHz, pollHz, panel, engineVars,
                 countVars>>

\* The reader has filed the value already: read_freq only waits for it.
PollReads ==
  /\ poll \in {"read", "init"} /\ poll' = "idle"
  /\ LET ok == {FreqMsg(f) : f \in SerialFreqs}
     IN (TakeReply(ok) /\ UNCHANGED failed) \/ GiveUp(ok)
  /\ UNCHANGED <<plugged, port, radioHz, wire, air, cacheHz, targetHz, pollHz, panel,
                 engineVars, asked>>

\* A loop with last_err before _reopen_civ may try again: what the client asked for is
\* popped and lost.
ReopenTooSoon ==
  /\ poll = "idle" /\ port = "err" /\ targetHz # NoHz /\ targetHz' = NoHz
  /\ UNCHANGED <<plugged, port, radioHz, lineVars, cacheHz, poll, pollHz, panel, engineVars,
                 countVars>>

\* _reopen_civ: a new serial client that knows nothing yet. read_initial asks the radio.
Reopen ==
  /\ poll = "idle" /\ port = "err" /\ cacheHz' = NoHz /\ panel' = FALSE
  /\ IF plugged THEN /\ port' = "open" /\ poll' = "init" /\ UNCHANGED targetHz
                     /\ frames' = <<>> /\ wire' = <<FreqMsg(NoHz)>>
     ELSE targetHz' = NoHz /\ UNCHANGED <<port, poll, frames, wire>>
  /\ UNCHANGED <<plugged, radioHz, air, pollHz, engineVars, countVars>>

-----------------------------------------------------------------------------
(* The panel thread sets a level, which no loop reads back. *)

PanelSets ==
  /\ ~panel /\ port = "open" /\ asked < SerialAsks /\ asked' = asked + 1
  /\ panel' = TRUE /\ Request(LevelMsg)
  /\ UNCHANGED <<plugged, port, radioHz, air, cacheHz, targetHz, poll, pollHz, engineVars,
                 failed>>

PanelDone ==
  /\ panel /\ panel' = FALSE
  /\ (TakeReply(Acks) /\ UNCHANGED failed) \/ GiveUp(Acks)
  /\ UNCHANGED <<plugged, port, radioHz, wire, air, cacheHz, targetHz, poll, pollHz,
                 engineVars, asked>>

-----------------------------------------------------------------------------
(* The radio, the cable and the reader thread. *)

\* The radio obeys in order, and may refuse a setting.
RadioAnswers ==
  /\ port = "open" /\ wire # <<>> /\ wire' = Tail(wire)
  /\ LET msg == Head(wire) IN
     \/ msg.kind = "freq" /\ air' = Append(air, FreqMsg(radioHz)) /\ UNCHANGED radioHz
     \/ msg.kind = "set" /\ air' = Append(air, Ack) /\ radioHz' = msg.hz
     \/ msg.kind = "level" /\ air' = Append(air, Ack) /\ UNCHANGED radioHz
     \/ msg.kind # "freq" /\ air' = Append(air, Nack) /\ UNCHANGED radioHz
  /\ UNCHANGED <<plugged, port, frames, cacheHz, targetHz, poll, pollHz, panel, engineVars,
                 countVars>>

\* The dial is turned; the radio says so by itself when transceive is on.
DialTurned ==
  /\ asked < SerialAsks /\ asked' = asked + 1
  /\ radioHz' \in SerialFreqs \ {radioHz}
  /\ air' \in {air} \cup IF port = "open" THEN {Append(air, FreqMsg(radioHz'))} ELSE {}
  /\ UNCHANGED <<plugged, port, wire, frames, cacheHz, targetHz, poll, pollHz, panel,
                 engineVars, failed>>

\* _handle_frame: every frame updates the state, then waits for a request that wants it.
ReaderFilesBug ==
  /\ port = "open" /\ air # <<>> /\ air' = Tail(air) /\ frames' = Append(frames, Head(air))
  /\ cacheHz' = IF Head(air).kind = "freq" /\ poll = "idle" THEN Head(air).hz ELSE cacheHz
  /\ UNCHANGED <<plugged, port, radioHz, wire, targetHz, poll, pollHz, panel, engineVars,
                 countVars>>
ReaderFiles ==
  /\ port = "open" /\ air # <<>> /\ air' = Tail(air) /\ frames' = Append(frames, Head(air))
  /\ cacheHz' = IF Head(air).kind = "freq" THEN Head(air).hz ELSE cacheHz
  /\ UNCHANGED <<plugged, port, radioHz, wire, targetHz, poll, pollHz, panel, engineVars,
                 countVars>>

\* The read raises when the device is gone.
ReaderFails ==
  /\ port = "dead" /\ port' = "err"
  /\ UNCHANGED <<plugged, radioHz, lineVars, cacheHz, targetHz, poll, pollHz, panel,
                 engineVars, countVars>>

Unplug ==
  /\ plugged /\ failed < SerialFaults /\ failed' = failed + 1
  /\ plugged' = FALSE /\ wire' = <<>> /\ air' = <<>>
  /\ port' = IF port = "open" THEN "dead" ELSE port
  /\ UNCHANGED <<radioHz, frames, cacheHz, targetHz, poll, pollHz, panel, engineVars,
                 asked>>

Replug ==
  /\ ~plugged /\ plugged' = TRUE
  /\ UNCHANGED <<port, radioHz, lineVars, cacheHz, targetHz, poll, pollHz, panel,
                 engineVars, countVars>>

-----------------------------------------------------------------------------
PollLoop   == PollTakes \/ PollSetDone \/ PollAsks \/ PollReads \/ Reopen
SerialRead == ReaderFiles \/ ReaderFails

SerialNext == \/ SerialTune \/ SerialHoldEnds \/ SerialFollow \/ PollLoop \/ ReopenTooSoon
              \/ PanelSets \/ PanelDone \/ RadioAnswers \/ DialTurned \/ SerialRead
              \/ Unplug \/ Replug

\* The threads run, the radio answers and a hold ends.
SerialSpec ==
  SerialInit /\ [][SerialNext]_serialVars
  /\ WF_serialVars(PollLoop) /\ WF_serialVars(PanelDone) /\ WF_serialVars(RadioAnswers)
  /\ WF_serialVars(SerialRead) /\ WF_serialVars(SerialFollow) /\ WF_serialVars(SerialHoldEnds)

-----------------------------------------------------------------------------
(* Properties. *)

\* Once the cable stays in, the port is open again and stays so, whoever noticed the loss
\* first and however often opening failed.
PortComesBack == <>[]plugged => <>[](port = "open")

\* Once the cable stays in, the client's slice ends up where the radio is: over tunes that
\* were refused, lost or taken for done by another setting's acknowledgement, late answers,
\* and a dial turned meanwhile.
SliceSeesRadio == <>[]plugged => <>[](sliceHz = radioHz)
=============================================================================
