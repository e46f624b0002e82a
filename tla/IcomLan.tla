------------------------------ MODULE IcomLan ------------------------------
(***************************************************************************)
(* Beside the control session (IcomAuth) the LAN session of the IC-9700    *)
(* has two more, CI-V and audio, each a UdpBase with a socket, threads,    *)
(* counters and buffers of its own; the adapter opens and closes them      *)
(* (TxGuard). This module composes their parts: one of them is chosen at   *)
(* the start, and the others never move.                                   *)
(***************************************************************************)
EXTENDS CivStream, LanAudio, TxAudio, TxSeqBuf

VARIABLE part     \* the part of the session that is looked at

lanPartVars == <<part, civVars, lanVars, txVars, seqVars>>

Parts == {"civ", "audio", "tx audio", "sending"}

Civ(A)     == /\ part = "civ" /\ A
              /\ UNCHANGED <<part, lanVars, txVars, seqVars>>
RxPart(A)  == /\ part = "audio" /\ A
              /\ UNCHANGED <<part, civVars, txVars, seqVars>>
TxPart(A)  == /\ part = "tx audio" /\ A
              /\ UNCHANGED <<part, civVars, lanVars, seqVars>>
Sending(A) == /\ part = "sending" /\ A
              /\ UNCHANGED <<part, civVars, lanVars, txVars>>

IcomInit ==
  /\ part \in Parts
  /\ CivInit /\ LanInit /\ TxInit /\ SeqInit
  /\ part # "tx audio" => txLan = "up"     \* a part at rest has one initial state

IcomNext ==
  \/ Civ(CivNext) \/ RxPart(LanNext) \/ TxPart(TxAudioNext)
  \/ Sending(TxNext)

Drainer(d) == TxPart(Drain(d)) \/ TxPart(GraceOver(d))

(* The cadence threads, the readers and the drainers run; a radio whose    *)
(* data channel is open sends, and one that is there answers a 0x03; the   *)
(* network does not lose every repetition of a datagram sent again and     *)
(* again. Nothing makes the gate close a healthy session.                  *)
IcomSpec ==
  /\ IcomInit /\ [][IcomNext]_lanPartVars
  /\ WF_lanPartVars(Civ(Watchdog) \/ RxPart(AudioAsks))
  /\ WF_lanPartVars(Civ(ReaderHere) \/ RxPart(AudioReader) \/ Sending(TxReader))
  /\ WF_lanPartVars(Civ(ReaderReady)) /\ SF_lanPartVars(Civ(ReaderData))
  /\ WF_lanPartVars(Civ(WatchdogArm)) /\ SF_lanPartVars(Civ(Retry(TRUE)))
  /\ WF_lanPartVars(Civ(GateRefire)) /\ WF_lanPartVars(Civ(GateHealthy))
  /\ WF_lanPartVars(Civ(GateDown)) /\ WF_lanPartVars(Civ(GateClose /\ civGate = "health"))
  /\ \A d \in Drainers : WF_lanPartVars(Drainer(d))

-----------------------------------------------------------------------------
(* Properties; those of the parts are in their modules. *)

IcomTypeOK ==
  part \in Parts /\ CivTypeOK /\ LanTypeOK /\ TxAudioTypeOK /\ SeqTypeOK

(* BringUpEnds and AudioIdLearnt of the part that runs.                    *)
CivBringUpEnds == part = "civ" => BringUpEnds
AudioGetsId    == part = "audio" => AudioIdLearnt
(* What every session may rely on, whatever is lost, late, full or         *)
(* restarted: no drainer outlives its over, the radio's audio is kept in   *)
(* order and current, and a sequence number names one packet, the newest   *)
(* of which can be repeated.                                               *)
LanInv ==
  IcomTypeOK /\ LiveDrainerIsKeyed /\ RxCurrent /\ NewestKept /\ OneNumberOnePacket

(* The operator's audio: in order, all of it that came before the key was  *)
(* released, and by drainers that end.                                     *)
TxAudioServed == TxInOrder /\ KeyedAudioSent /\ DrainersEnd

(* Exchanges end in spite of lost datagrams: the CI-V bring-up with its    *)
(* gate, the audio session's discovery, and the radio's requests.          *)
ExchangesEnd == CivBringUpEnds /\ AudioGetsId /\ RequestsEnd
=============================================================================
