------------------------- MODULE GateSessionProofs -------------------------
(***************************************************************************)
(* That audio reaches the client it was asked for, for any number of       *)
(* stream loops and of connection attempts.                                *)
(*                                                                         *)
(* AudioReachesItsClient is not inductive: the audio thread copies         *)
(* vita_dest, which Prime sets, and Accept replaces the client under a     *)
(* thread that still runs.  What carries it over both is that vita_dest is *)
(* nobody's or the current client's (DestIsClients), that nobody is        *)
(* connected while the session thread waits in accept() (NobodyAtAccept),  *)
(* and that a thread in its loop has somewhere to send to (AudioAimed): a  *)
(* thread that was not told to stop would then aim at nobody.              *)
(***************************************************************************)
EXTENDS GateSession, TLAPS

DestIsClients  == vita \in {None, conn}
NobodyAtAccept == sess = "accept" => conn = None
AudioAimed     == audio.pc = "top" => audio.dest # None
PendingTried   == pending => tries # 0

SessionIInv ==
  SessionInv /\ DestIsClients /\ NobodyAtAccept /\ AudioAimed /\ PendingTried

LoopType == [pc  : {"none", "wait", "body", "check", "start", "end"},
             for : Clients \cup {None}]

LoopOK == loop \in [Loops -> LoopType]

LEMMA WaitTyped == NoLoop \in LoopType /\ [NoLoop EXCEPT !.pc = "wait"] \in LoopType
  BY DEF NoLoop, LoopType

\* Raising the flag starts one thread, or none when as many run as are followed.
LEMMA FlagTyped ==
  ASSUME NEW f \in [Loops -> LoopType], NEW c, RaiseFlag(c, f)
  PROVE  LoopOK'
<1>. DEFINE free == {l \in Loops : f[l].pc = "none" /\ Room(f)}
            w    == [NoLoop EXCEPT !.pc = "wait"]
<1>0. loop' = IF free = {} THEN f ELSE [f EXCEPT ![CHOOSE l \in free : TRUE] = w]
  BY DEF RaiseFlag
<1>1. w \in LoopType
  BY WaitTyped
<1>. HIDE DEF w
<1>2. ASSUME NEW k PROVE [f EXCEPT ![k] = w] \in [Loops -> LoopType]
  BY <1>1, Zenon
<1>3. CASE free = {}
  BY <1>0, <1>3 DEF LoopOK
<1>4. CASE free # {}
  <2>. HIDE DEF free
  <2>. QED  BY <1>0, <1>2, <1>4 DEF LoopOK
<1>. QED  BY <1>3, <1>4

-----------------------------------------------------------------------------
(* The steps of stream_loop. *)

\* Every step of a loop, and the start of a new one, leaves the loops well formed.
LEMMA LoopStepTyped ==
  ASSUME LoopOK, conn \in Clients \cup {None}, NEW l \in Loops, LoopStep(l)
  PROVE  LoopOK'
<1>. USE DEF LoopOK
<1>t. loop[l] \in LoopType
  OBVIOUS
<1>m. ASSUME NEW r \in LoopType, loop' = [loop EXCEPT ![l] = r]
      PROVE  LoopOK'
  BY <1>m, Zenon
<1>g. ASSUME NEW p \in {"body", "start", "end"}, Goto(l, p)
      PROVE  LoopOK'
  <2>. DEFINE r == [loop[l] EXCEPT !.pc = p]
  <2>1. r \in LoopType
    BY <1>t DEF LoopType
  <2>2. loop' = [loop EXCEPT ![l] = r]
    BY <1>g DEF Goto
  <2>. HIDE DEF r
  <2>. QED  BY <2>1, <2>2, <1>m
<1>h. ASSUME NEW c \in Clients \cup {None}, NEW p \in {"body", "check"}
      PROVE  /\ [loop EXCEPT ![l].pc = p, ![l].for = c] \in [Loops -> LoopType]
  <2>. DEFINE r == [[loop[l] EXCEPT !.pc = p] EXCEPT !.for = c]
  <2>1. r \in LoopType
    BY <1>t DEF LoopType
  <2>2. [loop EXCEPT ![l].pc = p, ![l].for = c] = [loop EXCEPT ![l] = r]
    OBVIOUS
  <2>. HIDE DEF r
  <2>. QED  BY <2>1, <2>2, Zenon
<1>n. None \in Clients \cup {None}
  OBVIOUS
<1>1. CASE LoopPrimed(l) \/ LoopFrame(l) \/ LoopSendFails(l)
  BY <1>g, <1>1 DEF LoopPrimed, LoopFrame, LoopSendFails, LoopHead
<1>2. CASE LoopGivesUp(l) \/ LoopEnds(l)
  BY <1>2, <1>m, WaitTyped DEF LoopGivesUp, LoopEnds
<1>3. CASE LoopEmits(l)
  BY <1>3, <1>h DEF LoopEmits
<1>4. CASE LoopChecks(l)
  <2>1. CASE streaming
    BY <1>4, <2>1, <1>h, <1>n DEF LoopChecks
  <2>2. CASE ~streaming
    BY <1>4, <2>2, <1>g DEF LoopChecks, Goto
  <2>. QED  BY <2>1, <2>2
<1>5. CASE LoopStarts(l)
  BY <1>5, <1>h, <1>n, FlagTyped DEF LoopStarts
<1>. QED  BY <1>1, <1>2, <1>3, <1>4, <1>5 DEF LoopStep, LoopAdvance

-----------------------------------------------------------------------------
(* Every step. *)

AudioType == [pc : {"none", "wait", "top", "closing"}, dest : Clients \cup {None}]

AudioOK  == audio \in AudioType /\ audioStop \in BOOLEAN /\ streams \in SUBSET RxTypes
SessOK   == /\ sess \in {"accept", "serve", "emit", "start", "drop"}
            /\ tries \in 0..MaxTries
            /\ conn \in Clients \cup {None} /\ vita \in Clients \cup {None}
            /\ panel \in [pc : {"idle", "check", "start"}, for : Clients \cup {None}]
FlagsOK  == /\ pending \in BOOLEAN /\ open \in BOOLEAN /\ hasPan \in BOOLEAN
            /\ streaming \in BOOLEAN /\ lost \in BOOLEAN /\ late \in BOOLEAN

Aims == AudioReachesItsClient /\ DestIsClients /\ NobodyAtAccept /\ AudioAimed /\ PendingTried

LEMMA Parts == (SessionIInv <=> LoopOK /\ AudioOK /\ SessOK /\ FlagsOK /\ Aims)
               /\ (SessionIInv' <=> LoopOK' /\ AudioOK' /\ SessOK' /\ FlagsOK' /\ Aims')
<1>1. TypeOK <=> LoopOK /\ AudioOK /\ SessOK /\ FlagsOK
  BY DEF TypeOK, LoopOK, LoopType, AudioOK, AudioType, SessOK, FlagsOK
<1>2. TypeOK' <=> LoopOK' /\ AudioOK' /\ SessOK' /\ FlagsOK'
  BY Zenon DEF TypeOK, LoopOK, LoopType, AudioOK, AudioType, SessOK, FlagsOK
<1>. QED  BY <1>1, <1>2, Zenon DEF SessionIInv, SessionInv, Aims

LEMMA InitOK == Init => SessionIInv
<1>. SUFFICES ASSUME Init PROVE SessionIInv  OBVIOUS
<1>1. LoopOK
  BY WaitTyped DEF Init, LoopOK
<1>2. AudioOK
  BY DEF Init, AudioOK, AudioType
<1>3a. SessOK
  BY SessionAssumption DEF Init, SessOK, None, NoPanel
<1>3b. FlagsOK
  BY Zenon DEF Init, FlagsOK
<1>4. Aims
  BY DEF Init, Aims, AudioReachesItsClient, DestIsClients, NobodyAtAccept, AudioAimed,
         PendingTried
<1>. QED  BY <1>1, <1>2, <1>3a, <1>3b, <1>4, Parts

LEMMA StepOK == SessionIInv /\ [Next]_vars => SessionIInv'
<1>. SUFFICES ASSUME SessionIInv, [Next]_vars PROVE SessionIInv'  OBVIOUS
<1>0. LoopOK /\ AudioOK /\ SessOK /\ FlagsOK /\ Aims
  BY Parts
\* A step of the session, of a client or of the radio leaves loops and audio alone.
<1>a. ASSUME UNCHANGED <<loop, streams, audio>>, audioStop' \in BOOLEAN,
             ~audioStop' => ~audioStop, SessOK', FlagsOK',
             DestIsClients', NobodyAtAccept', PendingTried',
             conn' = conn \/ audioStop' \/ conn = None
      PROVE  SessionIInv'
  <2>1. LoopOK' /\ AudioOK'
    BY <1>0, <1>a DEF LoopOK, AudioOK
  <2>2. AudioAimed' /\ AudioReachesItsClient'
    BY <1>0, <1>a DEF Aims, AudioAimed, AudioReachesItsClient
  <2>. QED  BY <2>1, <2>2, <1>a, Parts DEF Aims
<1>1. CASE Connect
  <2>1. SessOK' /\ PendingTried'
    BY <1>0, <1>1, SessionAssumption DEF Connect, SessOK, PendingTried
  <2>2. FlagsOK'
    BY <1>0, <1>1, Zenon DEF Connect, FlagsOK
  <2>3. DestIsClients' /\ NobodyAtAccept'
    BY <1>0, <1>1 DEF Connect, Aims, DestIsClients, NobodyAtAccept
  <2>. QED  BY <1>0, <1>1, <1>a, <2>1, <2>2, <2>3 DEF Connect, audioVars, AudioOK
<1>2. CASE HangUp \/ Prime \/ AcceptLost \/ RefuseBusy \/ Leave \/ SessEmit \/ PanCreate
           \/ PanSet \/ PanRemove \/ DeviceLost \/ PowerOff \/ PanelEmits \/ PanelChecks
  <2>. USE <1>2 DEF HangUp, Prime, AcceptLost, RefuseBusy, Leave, SessEmit, PanCreate, PanSet,
                    PanRemove, DeviceLost, PowerOff, PanelEmits, PanelChecks, Command,
                    netVars, audioVars
  <2>1. SessOK'
    BY <1>0 DEF SessOK, NoPanel
  <2>2. FlagsOK'
    BY <1>0, Zenon DEF FlagsOK
  <2>3. DestIsClients' /\ NobodyAtAccept' /\ PendingTried'
    BY <1>0 DEF Aims, DestIsClients, NobodyAtAccept, PendingTried
  <2>4. UNCHANGED <<loop, streams, audio, audioStop, conn>>
    OBVIOUS
  <2>. QED  BY <1>0, <1>a, <2>1, <2>2, <2>3, <2>4 DEF AudioOK
<1>3. CASE Accept
  <2>. USE <1>3 DEF Accept, audioVars
  <2>0. conn = None /\ tries # 0
    BY <1>0 DEF Aims, NobodyAtAccept, PendingTried
  <2>1. SessOK'
    BY <1>0, <2>0, SessionAssumption DEF SessOK, Clients, None
  <2>2. FlagsOK'
    BY <1>0, Zenon DEF FlagsOK
  <2>3. DestIsClients' /\ NobodyAtAccept' /\ PendingTried'
    BY DEF DestIsClients, NobodyAtAccept, PendingTried
  <2>. QED  BY <1>0, <1>a, <2>0, <2>1, <2>2, <2>3 DEF AudioOK
<1>6. CASE Drop
  <2>. USE <1>6 DEF Drop
  <2>1. SessOK'
    BY <1>0 DEF SessOK
  <2>2. FlagsOK'
    BY <1>0, Zenon DEF FlagsOK
  <2>3. AudioOK' /\ LoopOK'
    BY <1>0 DEF AudioOK, LoopOK
  <2>4. Aims'
    BY <1>0 DEF Aims, AudioReachesItsClient, DestIsClients, NobodyAtAccept, PendingTried, AudioAimed
  <2>. QED  BY <2>1, <2>2, <2>3, <2>4, Parts
<1>b. ASSUME LoopOK', UNCHANGED <<tries, pending, conn, vita, hasPan, streams, audio, audioStop, lost>>,
             sess' = sess \/ (sess = "start" /\ sess' = "serve"),
             panel' \in {panel, NoPanel},
             open' \in BOOLEAN, streaming' \in BOOLEAN, late' \in BOOLEAN
      PROVE  SessionIInv'
  <2>1. SessOK'
    BY <1>0, <1>b DEF SessOK, NoPanel
  <2>2. FlagsOK'
    BY <1>0, <1>b, Zenon DEF FlagsOK
  <2>3. AudioOK'
    BY <1>0, <1>b DEF AudioOK
  <2>4. Aims'
    BY <1>0, <1>b DEF Aims, AudioReachesItsClient, DestIsClients, NobodyAtAccept, PendingTried, AudioAimed
  <2>. QED  BY <1>b, <2>1, <2>2, <2>3, <2>4, Parts
<1>7. CASE SessStart \/ PanelStarts
  <2>2. LoopOK'
    BY <1>0, <1>7, FlagTyped DEF SessStart, PanelStarts, LoopOK
  <2>3. late' \in BOOLEAN /\ streaming' \in BOOLEAN /\ open' \in BOOLEAN
    BY <1>0, <1>7 DEF SessStart, PanelStarts, RaiseFlag, netVars, FlagsOK
  <2>. QED  BY <1>7, <1>b, <2>2, <2>3 DEF SessStart, PanelStarts, audioVars, netVars
<1>10. ASSUME NEW l \in Loops, LoopStep(l)
       PROVE  SessionIInv'
  <2>1. LoopOK'
    BY <1>0, <1>10, LoopStepTyped DEF SessOK
  <2>2. UNCHANGED <<sess, panel, tries, pending, conn, vita, hasPan, streams, audio,
                    audioStop, lost>>
    BY <1>10 DEF LoopStep, LoopAdvance, LoopPrimed, LoopGivesUp, LoopFrame, LoopSendFails,
                 LoopEmits, LoopChecks, LoopStarts, LoopEnds, audioVars, netVars
  <2>3. open' \in BOOLEAN /\ streaming' \in BOOLEAN /\ late' \in BOOLEAN
    BY <1>0, <1>10
       DEF LoopStep, LoopAdvance, LoopPrimed, LoopGivesUp, LoopFrame, LoopSendFails,
           LoopEmits, LoopChecks, LoopStarts, LoopEnds, LoopHead, RaiseFlag,
           audioVars, netVars, FlagsOK
  <2>. QED  BY <1>b, <2>1, <2>2, <2>3
\* A step of the audio thread, or of a command about its streams.
<1>c. ASSUME UNCHANGED <<sess, netVars, hasPan, streaming, loop, panel, lost, late>>,
             AudioOK', AudioAimed', AudioReachesItsClient'
      PROVE  SessionIInv'
  <2>1. LoopOK' /\ SessOK'
    BY <1>0, <1>c DEF LoopOK, SessOK, netVars
  <2>2. FlagsOK'
    BY <1>0, <1>c, Zenon DEF FlagsOK, netVars
  <2>3. DestIsClients' /\ NobodyAtAccept' /\ PendingTried'
    BY <1>0, <1>c DEF Aims, DestIsClients, NobodyAtAccept, PendingTried, netVars
  <2>. QED  BY <1>c, <2>1, <2>2, <2>3, Parts DEF Aims
<1>8. ASSUME NEW t \in RxTypes, StreamCreate(t)
      PROVE  SessionIInv'
  <2>a. audio' \in AudioType
    BY <1>0, <1>8 DEF StreamCreate, AudioOK, AudioType
  <2>b. audioStop' \in BOOLEAN
    BY <1>0, <1>8, Zenon DEF StreamCreate, AudioOK
  <2>c. streams' \in SUBSET RxTypes
    BY <1>0, <1>8 DEF StreamCreate, AudioOK
  <2>1. AudioOK'
    BY <2>a, <2>b, <2>c DEF AudioOK
  <2>2. audio'.pc = "top" => audio' = audio /\ audioStop' = audioStop
    BY <1>8 DEF StreamCreate
  <2>3. AudioAimed' /\ AudioReachesItsClient'
    BY <1>0, <1>8, <2>2 DEF Aims, AudioAimed, AudioReachesItsClient, StreamCreate, netVars
  <2>. QED  BY <1>c, <1>8, <2>1, <2>3 DEF StreamCreate
<1>9. ASSUME NEW t \in RxTypes, StreamRemove(t)
      PROVE  SessionIInv'
  <2>1. AudioOK'
    BY <1>0, <1>9 DEF StreamRemove, AudioOK
  <2>3. AudioAimed' /\ AudioReachesItsClient'
    BY <1>0, <1>9 DEF Aims, AudioAimed, AudioReachesItsClient, StreamRemove, netVars
  <2>. QED  BY <1>c, <1>9, <2>1, <2>3 DEF StreamRemove
<1>11. CASE AudioStep \/ AudioSendFails
  <2>. USE <1>11 DEF AudioStep, AudioPrimed, AudioGivesUp, AudioStopped, AudioEnds,
                     AudioSendFails
  <2>1. AudioOK'
    BY <1>0 DEF AudioOK, AudioType, SessOK, None
  <2>2. audio'.pc = "top" => audio'.dest = vita /\ vita # None
    BY <1>0 DEF AudioOK, AudioType
  <2>3. AudioAimed' /\ AudioReachesItsClient'
    BY <1>0, <2>2 DEF Aims, AudioAimed, AudioReachesItsClient, DestIsClients, netVars
  <2>. QED  BY <1>c, <2>1, <2>3
<1>13. CASE UNCHANGED vars
  BY <1>0, <1>13, <1>b DEF vars, audioVars, netVars, LoopOK, FlagsOK
<1>. QED  BY <1>1, <1>2, <1>3, <1>6, <1>7, <1>8, <1>9, <1>10, <1>11, <1>13
          DEF Next, SessionStep

-----------------------------------------------------------------------------
\* The inductive invariant holds in every reachable state of a session.
THEOREM InvariantHolds == Spec => []SessionIInv
  BY InitOK, StepOK, PTL DEF Spec

\* The types, and that an audio thread which was not told to stop sends to the client
\* that is connected now: however clients come and go around the threads that audio_loop
\* and stream_loop leave behind, `stream create` never revives one aimed elsewhere.
THEOREM SessionInvHolds == Spec => []SessionInv
<1>1. SessionIInv => SessionInv
  BY DEF SessionIInv
<1>. QED  BY <1>1, InvariantHolds, PTL
=============================================================================
