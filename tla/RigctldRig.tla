----------------------------- MODULE RigctldRig -----------------------------
(***************************************************************************)
(* The Kenwood and Yaesu adapters (adapters/kenwood/adapter.py, which      *)
(* yaesu/adapter.py inherits, and adapters/hamlib/rigctld.py): one worker  *)
(* thread sends a rigctld daemon one command at a time over TCP. It sets   *)
(* what the client asked for, else reads frequency, mode or meter in turn. *)
(*                                                                         *)
(* A reply names no command. A command that got no reply in time returns   *)
(* an empty one, which a set takes for success, and the connection stays   *)
(* open: the late reply answers the next command.                          *)
(***************************************************************************)
EXTENDS Integers, Sequences, SequencesExt

CONSTANTS RigFreqs, RigModes,       \* numbers stand for modes
          RigAsks,                          \* bounds: tunes, mode sets and turned knobs;
          RigFaults                         \* late replies and restarts of rigctld

ASSUME RigAssumption ==
  /\ RigFreqs \subseteq Nat \ {0} /\ RigFreqs # {}
  /\ RigModes \subseteq Nat \ {0} /\ RigModes # {}
  /\ {RigAsks, RigFaults} \subseteq Nat

NoFreq == 0
Junk   == -1                 \* an S-meter reading taken for a frequency
NoMode == 0
Blank  == [kind |-> "none", val |-> NoFreq]    \* no command, no reply

VARIABLES
  daemon,      \* rigctld runs
  sock,        \* "none", "up", or "stale": its other end is gone
  todo,        \* the commands rigctld has not answered
  replies,     \* its replies the adapter has not read
  rigHz, rigMode,      \* the rig
  hamHz, hamMode,      \* self._freq_hz, self._mode
  hzTarget, modeTarget,    \* self._set_freq_target, self._set_mode_target
  driven,      \* less than 1.5 s since _ae_drive_t
  work,        \* the command the worker waits for, or Blank
  turnNo,      \* read_i
  rigSliceHz, rigSliceMode,    \* the client's slice
  rigHeld,     \* the engine leaves it alone
  rigAsks, lateReplies, restarts

linkVars     == <<daemon, sock, todo, replies>>
rigState     == <<rigHz, rigMode>>
hamVars      == <<hamHz, hamMode>>
targetVars   == <<hzTarget, modeTarget>>
rigSliceVars == <<rigSliceHz, rigSliceMode, rigHeld>>
rigCounts    == <<rigAsks, lateReplies, restarts>>
rigVars == <<linkVars, rigState, hamVars, targetVars, driven, work, turnNo, rigSliceVars,
             rigCounts>>

RigCommands == {[kind |-> k, val |-> NoFreq] : k \in {"f", "m", "l"}}
               \cup {[kind |-> "F", val |-> f] : f \in RigFreqs}
               \cup {[kind |-> "M", val |-> m] : m \in RigModes}
RigReplies  == {[kind |-> k, val |-> NoFreq] : k \in {"ok", "error", "meter"}}
               \cup {[kind |-> "freq", val |-> f] : f \in RigFreqs}
               \cup {[kind |-> "mode", val |-> m] : m \in RigModes}

RigTypeOK ==
  /\ daemon \in BOOLEAN /\ sock \in {"none", "up", "stale"}
  /\ todo \in Seq(RigCommands) /\ replies \in Seq(RigReplies)
  /\ rigHz \in RigFreqs /\ rigMode \in RigModes
  /\ hamHz \in RigFreqs \cup {Junk} /\ hamMode \in RigModes
  /\ hzTarget \in RigFreqs \cup {NoFreq} /\ modeTarget \in RigModes \cup {NoMode}
  /\ driven \in BOOLEAN /\ work \in RigCommands \cup {Blank} /\ turnNo \in 0..5
  /\ rigSliceHz \in RigFreqs \cup {Junk} /\ rigSliceMode \in RigModes /\ rigHeld \in BOOLEAN
  /\ rigAsks \in 0..RigAsks /\ lateReplies + restarts \in 0..RigFaults

\* open() has connected and read the rig.
RigInit ==
  /\ daemon = TRUE /\ sock = "up" /\ todo = <<>> /\ replies = <<>>
  /\ rigHz \in RigFreqs /\ rigMode \in RigModes /\ hamHz = rigHz /\ hamMode = rigMode
  /\ hzTarget = NoFreq /\ modeTarget = NoMode /\ driven = FALSE
  /\ work = Blank /\ turnNo = 0
  /\ rigSliceHz = rigHz /\ rigSliceMode = rigMode /\ rigHeld = FALSE
  /\ rigAsks = 0 /\ lateReplies = 0 /\ restarts = 0

-----------------------------------------------------------------------------
(* The client and the engine. *)

\* The worker reads a target and clears it in two steps: one posted between them is lost.
RigTune ==
  /\ rigAsks < RigAsks /\ rigAsks' = rigAsks + 1
  /\ rigSliceHz' \in RigFreqs /\ rigHeld' = TRUE
  /\ hzTarget' \in {rigSliceHz'} \cup ({hzTarget} \ {NoFreq})
  /\ UNCHANGED <<linkVars, rigState, hamVars, modeTarget, driven, work, turnNo,
                 rigSliceMode, lateReplies, restarts>>

\* set_mode shows the new mode at once.
RigSetMode ==
  /\ rigAsks < RigAsks /\ rigAsks' = rigAsks + 1
  /\ rigSliceMode' \in RigModes /\ rigHeld' = TRUE
  /\ modeTarget' \in {rigSliceMode'} \cup ({modeTarget} \ {NoMode})
  /\ hamMode' = rigSliceMode' /\ driven' = TRUE
  /\ UNCHANGED <<linkVars, rigState, hamHz, hzTarget, work, turnNo, rigSliceHz,
                 lateReplies, restarts>>

RigHoldEnds ==
  /\ rigHeld /\ rigHeld' = FALSE
  /\ UNCHANGED <<linkVars, rigState, hamVars, targetVars, driven, work, turnNo,
                 rigSliceHz, rigSliceMode, rigCounts>>

\* receivers(): the engine puts the slice where the adapter says the rig is.
RigFollow ==
  /\ ~rigHeld /\ rigSliceHz' = hamHz /\ rigSliceMode' = hamMode
  /\ UNCHANGED <<linkVars, rigState, hamVars, targetVars, driven, work, turnNo, rigHeld,
                 rigCounts>>

DrivenEnds ==
  /\ driven /\ driven' = FALSE
  /\ UNCHANGED <<linkVars, rigState, hamVars, targetVars, work, turnNo, rigSliceVars,
                 rigCounts>>

-----------------------------------------------------------------------------
(* The worker: one command in flight. *)

\* What a round does: a frequency to set, a mode to set, or the read whose turn it is.
ReadTurnBug(i) == IF i % 3 # 2 THEN "f" ELSE IF i = 3 THEN "m" ELSE "l"
ReadTurn(i) == CASE i % 3 # 2 -> "f" [] i = 2 -> "m" [] OTHER -> "l"

Wanted ==
  CASE hzTarget # NoFreq -> [kind |-> "F", val |-> hzTarget]
    [] hzTarget = NoFreq /\ modeTarget # NoMode -> [kind |-> "M", val |-> modeTarget]
    [] OTHER -> [kind |-> ReadTurn((turnNo + 1) % 6), val |-> NoFreq]

\* The target is popped before the command is sent; a frequency or mode read is left out
\* while the client drives. The send connects first when there is no socket; without a
\* daemon it raises, and what was popped is lost. On a stale one it may raise and connect
\* again, or be lost.
WorkerSends ==
  /\ work = Blank
  /\ hzTarget' = NoFreq
  /\ modeTarget' = IF Wanted.kind = "F" THEN modeTarget ELSE NoMode
  /\ turnNo' = IF Wanted.kind \in {"F", "M"} THEN turnNo ELSE (turnNo + 1) % 6
  /\ \/ /\ Wanted.kind \in {"f", "m"} /\ driven
        /\ UNCHANGED <<sock, todo, replies, work>>
     \/ /\ ~(Wanted.kind \in {"f", "m"} /\ driven)
        /\ \/ /\ sock = "up"
              /\ todo' = Append(todo, Wanted) /\ work' = Wanted /\ UNCHANGED <<sock, replies>>
           \/ /\ sock = "stale" /\ work' = Wanted /\ UNCHANGED <<sock, todo, replies>>
           \/ /\ sock # "up" /\ daemon /\ sock' = "up"
              /\ todo' = <<Wanted>> /\ replies' = <<>> /\ work' = Wanted
           \/ /\ sock # "up" /\ ~daemon /\ sock' = "none"
              /\ UNCHANGED <<todo, replies, work>>
  /\ UNCHANGED <<daemon, rigState, hamVars, driven, rigSliceVars, rigCounts>>

\* What a reply, empty or not, makes of the command it is taken for.
Absorb(reply) ==
  /\ hamHz' =
       CASE work.kind = "F" /\ reply.kind # "error" -> work.val
         [] work.kind = "f" /\ reply.kind = "freq"  -> reply.val
         [] work.kind = "f" /\ reply.kind = "meter" -> Junk
         [] OTHER -> hamHz
  /\ hamMode' =
       CASE work.kind = "M" /\ reply.kind # "error" -> work.val
         [] work.kind = "m" /\ reply.kind = "mode"  -> reply.val
         [] OTHER -> hamMode
  /\ driven' = (driven \/ work.kind = "F")
  /\ work' = Blank

\* The first line in the socket, and what comes within the grace read after it.
WorkerReads ==
  /\ work # Blank /\ sock = "up" /\ replies # <<>>
  /\ Absorb(Head(replies)) /\ replies' \in {Tail(replies), <<>>}
  /\ UNCHANGED <<daemon, sock, todo, rigState, targetVars, turnNo, rigSliceVars, rigCounts>>

\* No line in time, though rigctld is still at it: the reply will be late.
WorkerTimesOut ==
  /\ work # Blank /\ sock = "up" /\ todo # <<>>
  /\ lateReplies + restarts < RigFaults /\ lateReplies' = lateReplies + 1
  /\ Absorb(Blank)
  /\ UNCHANGED <<linkVars, rigState, targetVars, turnNo, rigSliceVars, rigAsks, restarts>>

\* The other end is gone: recv returns nothing, and nothing says so.
WorkerReadsEnd ==
  /\ work # Blank /\ sock = "stale"
  /\ Absorb(Blank)
  /\ UNCHANGED <<linkVars, rigState, targetVars, turnNo, rigSliceVars, rigCounts>>

-----------------------------------------------------------------------------
(* rigctld and the rig. *)

\* It answers in order; the rig may refuse a setting.
DaemonAnswers ==
  /\ daemon /\ sock = "up" /\ todo # <<>> /\ todo' = Tail(todo)
  /\ LET c == Head(todo)
         Says(kind, val) == replies' = Append(replies, [kind |-> kind, val |-> val])
     IN \/ c.kind = "f" /\ Says("freq", rigHz) /\ UNCHANGED rigState
        \/ c.kind = "m" /\ Says("mode", rigMode) /\ UNCHANGED rigState
        \/ c.kind = "l" /\ Says("meter", NoFreq) /\ UNCHANGED rigState
        \/ c.kind = "F" /\ Says("ok", NoFreq) /\ rigHz' = c.val /\ UNCHANGED rigMode
        \/ c.kind = "M" /\ Says("ok", NoFreq) /\ rigMode' = c.val /\ UNCHANGED rigHz
        \/ c.kind \in {"F", "M"} /\ Says("error", NoFreq) /\ UNCHANGED rigState
  /\ UNCHANGED <<daemon, sock, hamVars, targetVars, driven, work, turnNo, rigSliceVars,
                 rigCounts>>

DaemonStops ==
  /\ daemon /\ lateReplies + restarts < RigFaults /\ restarts' = restarts + 1
  /\ daemon' = FALSE /\ todo' = <<>> /\ replies' = <<>>
  /\ sock' = IF sock = "up" THEN "stale" ELSE sock
  /\ UNCHANGED <<rigState, hamVars, targetVars, driven, work, turnNo, rigSliceVars,
                 rigAsks, lateReplies>>

DaemonStarts ==
  /\ ~daemon /\ daemon' = TRUE
  /\ UNCHANGED <<sock, todo, replies, rigState, hamVars, targetVars, driven, work, turnNo,
                 rigSliceVars, rigCounts>>

\* Somebody turns a knob of the rig.
RigTurned ==
  /\ rigAsks < RigAsks /\ rigAsks' = rigAsks + 1
  /\ \/ rigHz' \in RigFreqs \ {rigHz} /\ UNCHANGED rigMode
     \/ rigMode' \in RigModes \ {rigMode} /\ UNCHANGED rigHz
  /\ UNCHANGED <<linkVars, hamVars, targetVars, driven, work, turnNo, rigSliceVars,
                 lateReplies, restarts>>

-----------------------------------------------------------------------------
RigWorker == WorkerSends \/ WorkerReads \/ WorkerTimesOut \/ WorkerReadsEnd

RigNext == \/ RigTune \/ RigSetMode \/ RigHoldEnds \/ RigFollow \/ DrivenEnds
           \/ RigWorker \/ DaemonAnswers \/ DaemonStops \/ DaemonStarts \/ RigTurned

\* A send on a connection that stays dead fails sooner or later.
Resends == WorkerSends /\ sock = "stale" /\ sock' # "stale"

RigSpec ==
  RigInit /\ [][RigNext]_rigVars
  /\ WF_rigVars(RigWorker) /\ SF_rigVars(Resends) /\ WF_rigVars(DaemonAnswers)
  /\ WF_rigVars(RigHoldEnds) /\ WF_rigVars(RigFollow) /\ WF_rigVars(DrivenEnds)

-----------------------------------------------------------------------------
(* Properties. *)

\* While no reply comes late and once rigctld stays up, the client's slice ends up on the
\* rig's frequency and mode: over settings the rig refused or never heard of, a daemon that
\* was restarted, knobs turned by hand, and a mode shown before it was set.
SliceSeesRig ==
  <>[](lateReplies = 0 /\ daemon)
    => <>[](rigSliceHz = rigHz /\ rigSliceMode = rigMode)

=============================================================================
