---------------------------- MODULE GateSession ----------------------------
(***************************************************************************)
(* One client's session with the gate and the threads it leaves behind:    *)
(* serve() and handle() of core/engine.py, the commands that start and     *)
(* stop a stream, every stream_loop, the audio_loop, and the control panel *)
(* where it announces a panadapter.                                        *)
(*                                                                         *)
(* The session thread, the panel and the loops share `streaming`,          *)
(* `audio_stop`, `conn` and `vita_dest` under no lock.  A client is the    *)
(* number of its connection attempt; 0 is None.  What the streams carry    *)
(* and where slices are tuned is left to Receivers.                        *)
(***************************************************************************)
EXTENDS Integers, FiniteSets

CONSTANTS Loops,        \* threads that may run stream_loop at one time (a bound)
          RxTypes,      \* the types of audio stream a client may create
          MaxTries,     \* connection attempts of clients (a bound)
          MaxThreads    \* loops and audio threads alive at one time (a bound)

ASSUME SessionAssumption == /\ IsFiniteSet(Loops) /\ Loops # {}
                            /\ MaxTries \in Nat /\ MaxThreads \in Nat

Clients == 1..MaxTries
None    == 0

VARIABLES
  sess,        \* where the session thread is
  tries,       \* connection attempts so far
  pending,     \* one of them waits in the listen backlog
  conn,        \* self.conn
  open,        \* that socket can still be written to
  vita,        \* self.vita_dest
  hasPan,      \* self.pans is not empty
  streaming,   \* self.streaming
  loop,        \* each stream_loop: where it is, whom it is announcing to
  panel,       \* the control panel's request: where it is, for whom
  streams,     \* the keys of self.audio_streams
  audio,       \* the audio thread
  audioStop,   \* self.audio_stop is set
  lost,        \* adapter.device_lost
  late         \* some thread raised `streaming` for a client that had gone

netVars   == <<tries, pending, conn, open, vita>>
audioVars == <<streams, audio, audioStop>>
vars == <<sess, netVars, hasPan, streaming, loop, panel, audioVars, lost, late>>

NoLoop  == [pc |-> "none", for |-> None]
NoPanel == [pc |-> "idle", for |-> None]

TypeOK ==
  /\ sess \in {"accept", "serve", "emit", "start", "drop"}
  /\ tries \in 0..MaxTries
  /\ pending \in BOOLEAN /\ open \in BOOLEAN
  /\ conn \in Clients \cup {None}
  /\ vita \in Clients \cup {None}
  /\ hasPan \in BOOLEAN /\ streaming \in BOOLEAN
  /\ loop \in [Loops -> [pc  : {"none", "wait", "body", "check", "start", "end"},
                         for : Clients \cup {None}]]
  /\ panel \in [pc : {"idle", "check", "start"}, for : Clients \cup {None}]
  /\ streams \in SUBSET RxTypes
  /\ audio \in [pc : {"none", "wait", "top", "closing"}, dest : Clients \cup {None}]
  /\ audioStop \in BOOLEAN
  /\ lost \in BOOLEAN /\ late \in BOOLEAN

Init ==
  /\ sess = "accept"
  /\ tries = 0 /\ pending = FALSE /\ conn = None /\ open = FALSE /\ vita = None
  /\ hasPan = FALSE /\ streaming = FALSE
  /\ loop = [l \in Loops |-> NoLoop] /\ panel = NoPanel
  /\ streams = {} /\ audio = [pc |-> "none", dest |-> None] /\ audioStop = FALSE
  /\ lost = FALSE /\ late = FALSE

-----------------------------------------------------------------------------
(* emit_pan_status: what its callers on three threads share.  It looks up  *)
(* the panadapter, sends two lines to the socket it was given, tests the   *)
(* flag and, if it is down, raises it; a teardown may come in between.     *)

\* The lines are for a panadapter and a client there are; a socket the client has left
\* may still take them until serve() closes it.
StatusSent == hasPan /\ conn # None /\ (open \/ sess # "drop")

\* One more thread can be followed.
Room(others) ==
  Cardinality({l \in Loops : others[l].pc # "none"}) + (IF audio.pc = "none" THEN 0 ELSE 1)
    < MaxThreads

\* The flag is raised and a thread started, for the client seen at the lookup.  Which
\* name the thread gets is of no account; one more than the bounds allow is not followed.
RaiseFlag(client, others) ==
  /\ streaming' = TRUE
  /\ LET free == {l \in Loops : others[l].pc = "none" /\ Room(others)}
     IN loop' = IF free = {} THEN others
                ELSE [others EXCEPT ![CHOOSE l \in free : TRUE] = [NoLoop EXCEPT !.pc = "wait"]]
  /\ late' = (late \/ client # conn)

-----------------------------------------------------------------------------
(* Clients and the network. *)

\* A client's connect() completes: it waits in the backlog of listen(1).
Connect ==
  /\ ~pending /\ tries < MaxTries
  /\ pending' = TRUE /\ tries' = tries + 1
  /\ UNCHANGED <<sess, conn, open, vita, hasPan, streaming, loop, panel, audioVars,
                 lost, late>>

\* The client goes away.
HangUp ==
  /\ open /\ open' = FALSE
  /\ UNCHANGED <<sess, tries, pending, conn, vita, hasPan, streaming, loop,
                 panel, audioVars, lost, late>>

\* The client announces its data port, by `client udpport` or by a UDP prime: the
\* first one of a session counts.
Prime ==
  /\ conn # None /\ open /\ vita = None
  /\ vita' = conn
  /\ UNCHANGED <<sess, tries, pending, conn, open, hasPan, streaming, loop,
                 panel, audioVars, lost, late>>

-----------------------------------------------------------------------------
(* serve() and handle(). *)

Accept ==
  /\ sess = "accept" /\ pending /\ ~lost
  /\ sess' = "serve" /\ pending' = FALSE
  /\ conn' = tries /\ open' = TRUE /\ vita' = None
  /\ UNCHANGED <<tries, hasPan, streaming, loop, panel, audioVars, lost, late>>

\* No radio behind the gate: the connection is closed at once.
AcceptLost ==
  /\ sess = "accept" /\ pending /\ lost
  /\ pending' = FALSE
  /\ UNCHANGED <<sess, tries, conn, open, vita, hasPan, streaming, loop,
                 panel, audioVars, lost, late>>

\* handle() selects on the listen socket too and turns a second client away.
RefuseBusyBug == FALSE /\ UNCHANGED vars
RefuseBusy ==
  /\ sess = "serve" /\ pending
  /\ pending' = FALSE
  /\ UNCHANGED <<sess, tries, conn, open, vita, hasPan, streaming, loop,
                 panel, audioVars, lost, late>>

\* recv returns nothing or raises: handle() ends, serve() closes the socket and disarms.
Leave ==
  /\ sess = "serve" /\ ~open
  /\ sess' = "drop"
  /\ UNCHANGED <<netVars, hasPan, streaming, loop, panel, audioVars, lost, late>>

\* serve()'s finally clears what the session has set up.
DropBug ==
  /\ sess = "drop" /\ sess' = "accept"
  /\ conn' = None /\ vita' = None
  /\ audioStop' = TRUE /\ streams' = {}
  /\ hasPan' = FALSE
  /\ UNCHANGED <<tries, pending, open, streaming, loop, panel, audio, lost, late>>
Drop ==
  /\ sess = "drop" /\ sess' = "accept"
  /\ streaming' = FALSE
  /\ conn' = None /\ vita' = None
  /\ audioStop' = TRUE /\ streams' = {}
  /\ hasPan' = FALSE
  /\ UNCHANGED <<tries, pending, open, loop, panel, audio, lost, late>>

-----------------------------------------------------------------------------
(* Commands: on_line() on the session thread. *)

Command == sess = "serve" /\ open

\* `display pan create` adds the panadapter and announces it ...
PanCreate ==
  /\ Command /\ sess' = "emit"
  /\ hasPan' = TRUE
  /\ UNCHANGED <<netVars, streaming, loop, panel, audioVars, lost, late>>

\* ... and so does any command that moves or zooms one that exists.
PanSet ==
  /\ Command /\ hasPan /\ sess' = "emit"
  /\ UNCHANGED <<netVars, hasPan, streaming, loop, panel, audioVars, lost, late>>

\* The last panadapter goes, by `display pan remove` or with its slice.
PanRemove ==
  /\ Command /\ hasPan
  /\ hasPan' = FALSE
  /\ UNCHANGED <<sess, netVars, streaming, loop, panel, audioVars, lost, late>>

SessEmit ==
  /\ sess = "emit"
  /\ \/ ~open /\ sess' = "drop"
     \/ sess' = IF hasPan /\ ~streaming THEN "start" ELSE "serve"
  /\ UNCHANGED <<netVars, hasPan, streaming, loop, panel, audioVars, lost, late>>

SessStart ==
  /\ sess = "start" /\ sess' = "serve"
  /\ RaiseFlag(conn, loop)
  /\ UNCHANGED <<netVars, hasPan, panel, audioVars, lost>>

\* `stream create` registers the stream and calls _start_audio_thread: audio_stop is
\* cleared for a new thread only, one that is still alive is left alone.
StreamCreateBug(t) ==
  /\ Command /\ (audio.pc = "none" => Room(loop))
  /\ streams' = streams \cup {t}
  /\ audioStop' = FALSE
  /\ audio' = IF audio.pc = "none" THEN [pc |-> "wait", dest |-> None] ELSE audio
  /\ UNCHANGED <<sess, netVars, hasPan, streaming, loop, panel, lost, late>>
StreamCreate(t) ==
  /\ Command /\ (audio.pc = "none" => Room(loop))
  /\ streams' = streams \cup {t}
  /\ IF audio.pc = "none"
       THEN audioStop' = FALSE /\ audio' = [pc |-> "wait", dest |-> None]
       ELSE UNCHANGED <<audioStop, audio>>
  /\ UNCHANGED <<sess, netVars, hasPan, streaming, loop, panel, lost, late>>

StreamRemove(t) ==
  /\ Command /\ t \in streams
  /\ streams' = streams \ {t}
  /\ audioStop' = (audioStop \/ streams' = {})
  /\ UNCHANGED <<sess, netVars, hasPan, streaming, loop, panel, audio, lost, late>>

-----------------------------------------------------------------------------
(* stream_loop. *)

Goto(l, pc) == loop' = [loop EXCEPT ![l].pc = pc]

\* The head of the loop: stop if the flag is down; if the radio has gone, off the air and
\* whoever is connected is dropped; else a frame.
LoopHead(l) ==
  \/ ~streaming /\ Goto(l, "end") /\ UNCHANGED <<streaming, open>>
  \/ streaming /\ lost /\ streaming' = FALSE /\ open' = FALSE /\ Goto(l, "end")
  \/ streaming /\ ~lost /\ Goto(l, "body") /\ UNCHANGED <<streaming, open>>

\* It waits for a data port (and keeps the one it finds).
LoopPrimed(l) ==
  /\ loop[l].pc = "wait" /\ vita # None
  /\ LoopHead(l)
  /\ UNCHANGED <<sess, tries, pending, conn, vita, hasPan, panel, audioVars, lost, late>>

\* Twelve seconds without one: it returns, and the flag stays raised.
LoopGivesUp(l) ==
  /\ loop[l].pc = "wait" /\ vita = None
  /\ loop' = [loop EXCEPT ![l] = NoLoop]
  /\ UNCHANGED <<sess, netVars, hasPan, streaming, panel, audioVars, lost, late>>

\* A frame is out, and nothing (more) has moved that the client must be told of.
LoopFrame(l) ==
  /\ loop[l].pc = "body"
  /\ LoopHead(l)
  /\ UNCHANGED <<sess, tries, pending, conn, vita, hasPan, panel, audioVars, lost, late>>

\* sendto raises: the loop breaks.
LoopSendFails(l) ==
  /\ loop[l].pc = "body"
  /\ Goto(l, "end")
  /\ UNCHANGED <<sess, netVars, hasPan, streaming, panel, audioVars, lost, late>>

\* _sync_span or _sync_receivers announces a panadapter; an exception there is caught,
\* and the frame goes on.
LoopEmits(l) ==
  /\ loop[l].pc = "body" /\ StatusSent
  /\ loop' = [loop EXCEPT ![l].pc = "check", ![l].for = conn]
  /\ UNCHANGED <<sess, netVars, hasPan, streaming, panel, audioVars, lost, late>>

\* The lines are out.  A loop that finds the flag down has been stopped and not looked yet.
LoopChecks(l) ==
  /\ loop[l].pc = "check"
  /\ loop' = IF streaming THEN [loop EXCEPT ![l].pc = "body", ![l].for = None]
                          ELSE [loop EXCEPT ![l].pc = "start"]
  /\ UNCHANGED <<sess, netVars, hasPan, streaming, panel, audioVars, lost, late>>

LoopStarts(l) ==
  /\ loop[l].pc = "start"
  /\ RaiseFlag(loop[l].for, [loop EXCEPT ![l].pc = "body", ![l].for = None])
  /\ UNCHANGED <<sess, netVars, hasPan, panel, audioVars, lost>>

\* The last statement clears the flag, whoever has raised it meanwhile.
LoopEnds(l) ==
  /\ loop[l].pc = "end"
  /\ streaming' = FALSE
  /\ loop' = [loop EXCEPT ![l] = NoLoop]
  /\ UNCHANGED <<sess, netVars, hasPan, panel, audioVars, lost, late>>

\* What a loop goes on to do of itself, between frames; then every step of it.
LoopAdvance(l) ==
  LoopPrimed(l) \/ LoopGivesUp(l) \/ LoopChecks(l) \/ LoopStarts(l) \/ LoopEnds(l)
LoopStep(l) == LoopAdvance(l) \/ LoopFrame(l) \/ LoopSendFails(l) \/ LoopEmits(l)

-----------------------------------------------------------------------------
(* The control panel's thread: set_resolution. *)

PanelEmits ==
  /\ panel.pc = "idle" /\ StatusSent
  /\ panel' = [pc |-> "check", for |-> conn]
  /\ UNCHANGED <<sess, netVars, hasPan, streaming, loop, audioVars, lost, late>>

PanelChecks ==
  /\ panel.pc = "check"
  /\ panel' = IF streaming THEN NoPanel ELSE [panel EXCEPT !.pc = "start"]
  /\ UNCHANGED <<sess, netVars, hasPan, streaming, loop, audioVars, lost, late>>

PanelStarts ==
  /\ panel.pc = "start"
  /\ RaiseFlag(panel.for, loop)
  /\ panel' = NoPanel
  /\ UNCHANGED <<sess, netVars, hasPan, audioVars, lost>>

-----------------------------------------------------------------------------
(* audio_loop.  A frame changes nothing here. *)

AudioPrimed ==
  /\ audio.pc = "wait" /\ vita # None
  /\ audio' = [pc |-> "top", dest |-> vita]
  /\ UNCHANGED <<sess, netVars, hasPan, streaming, loop, panel, streams, audioStop, lost,
                 late>>

AudioGivesUp ==
  /\ audio.pc = "wait" /\ vita = None
  /\ audio' = [audio EXCEPT !.pc = "none"]
  /\ UNCHANGED <<sess, netVars, hasPan, streaming, loop, panel, streams, audioStop, lost,
                 late>>

AudioStopped ==
  /\ audio.pc = "top" /\ audioStop
  /\ audio' = [audio EXCEPT !.pc = "closing"]
  /\ UNCHANGED <<sess, netVars, hasPan, streaming, loop, panel, streams, audioStop, lost,
                 late>>

AudioSendFails ==
  /\ audio.pc = "top"
  /\ audio' = [audio EXCEPT !.pc = "closing"]
  /\ UNCHANGED <<sess, netVars, hasPan, streaming, loop, panel, streams, audioStop, lost,
                 late>>

AudioEnds ==
  /\ audio.pc = "closing"
  /\ audio' = [pc |-> "none", dest |-> None]
  /\ UNCHANGED <<sess, netVars, hasPan, streaming, loop, panel, streams, audioStop, lost,
                 late>>

AudioStep == AudioPrimed \/ AudioGivesUp \/ AudioStopped \/ AudioEnds

-----------------------------------------------------------------------------
(* The radio and the operator. *)

DeviceLost ==
  /\ ~lost /\ lost' = TRUE
  /\ UNCHANGED <<sess, netVars, hasPan, streaming, loop, panel, audioVars, late>>

\* The rack's power button: the stream stops and the client is dropped.
PowerOff ==
  /\ streaming \/ open
  /\ streaming' = FALSE /\ open' = FALSE
  /\ UNCHANGED <<sess, tries, pending, conn, vita, hasPan, loop, panel, audioVars, lost, late>>

-----------------------------------------------------------------------------
SessionStep ==
  \/ Accept \/ AcceptLost \/ Leave \/ Drop \/ SessEmit \/ SessStart

Next ==
  \/ Connect \/ HangUp \/ Prime
  \/ SessionStep \/ RefuseBusy
  \/ PanCreate \/ PanSet \/ PanRemove
  \/ \E t \in RxTypes : StreamCreate(t) \/ StreamRemove(t)
  \/ \E l \in Loops : LoopStep(l)
  \/ PanelEmits \/ PanelChecks \/ PanelStarts
  \/ AudioStep \/ AudioSendFails
  \/ DeviceLost \/ PowerOff

\* Threads of the gate go on; clients, the operator and the radio need not, and no send has
\* to fail.  select() looks at the listen socket first, so that a chatty client cannot shut
\* others out, and a frame announces at most three panadapters before it ends.
Fairness ==
  /\ WF_vars(SessionStep) /\ SF_vars(RefuseBusy)
  /\ \A l \in Loops : WF_vars(LoopAdvance(l)) /\ SF_vars(LoopFrame(l))
  /\ WF_vars(PanelChecks \/ PanelStarts)
  /\ WF_vars(AudioStep)

Spec == Init /\ [][Next]_vars /\ Fairness

-----------------------------------------------------------------------------
(* Properties. *)

\* The audio thread that has not been told to stop sends to the client of this very
\* session: it keeps the port it found at its start, so no thread of an earlier client
\* may be revived by the next one's `stream create`.
AudioReachesItsClient ==
  audio.pc = "top" /\ ~audioStop => audio.dest = conn

\* With nobody connected any more every stream_loop ends, except where a thread that was
\* announcing a panadapter when its client went raised the flag after the teardown.
LoopsEndWithoutClient ==
  <>[](conn = None) => <>[](\A l \in Loops : loop[l].pc = "none") \/ <>late

\* Audio with no listener stops: a thread that still sends when the last audio stream is
\* removed, or with its client, ends, or there is a stream again.
AudioEndsUnheard == (streams = {} /\ audio.pc = "top") ~> (audio.pc # "top" \/ streams # {})

\* A second client is never left hanging in the backlog: it is turned away at once, or it
\* is served when the first one has gone.
PendingAnswered == pending ~> ~pending

\* A client is not shown the last frame of a radio that has gone.
LostRadioStopsStream ==
  (lost /\ streaming /\ \E l \in Loops : loop[l].pc = "body") ~> (~streaming \/ conn = None)

\* However sessions, loops and audio threads of successive clients overlap, audio goes to
\* the client that asked for it.
SessionInv == TypeOK /\ AudioReachesItsClient

\* What was started for a client ends: its loops once it has gone, its frames once the
\* radio is lost, and its audio with the last stream.
StreamsEnd == LoopsEndWithoutClient /\ LostRadioStopsStream /\ AudioEndsUnheard
=============================================================================
