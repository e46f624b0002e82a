------------------------------ MODULE Adapters ------------------------------
(***************************************************************************)
(* A gate serves one radio: the adapter that --adapter names (__main__.py  *)
(* and adapters/__init__.py). This module composes the adapters with       *)
(* threads and links of their own, besides the IC-9700's, whose modules    *)
(* stand apart. One is chosen at the start and the others never move; the  *)
(* threads they have in the same place share a fairness condition.         *)
(***************************************************************************)
EXTENDS SoapyReader, HpsdrReader, Ic7300Serial, RigctldRig

VARIABLE adapter     \* args.adapter

adapterVars == <<adapter, soapyVars, hpsdrVars, serialVars, rigVars>>

Soapy(A)  == /\ adapter = "soapy" /\ A
             /\ UNCHANGED <<adapter, hpsdrVars, serialVars, rigVars>>
Hpsdr(A)  == /\ adapter = "hpsdr" /\ A
             /\ UNCHANGED <<adapter, soapyVars, serialVars, rigVars>>
Serial(A) == /\ adapter = "icom7300" /\ A
             /\ UNCHANGED <<adapter, soapyVars, hpsdrVars, rigVars>>
Rig(A)    == /\ adapter = "rigctld" /\ A
             /\ UNCHANGED <<adapter, soapyVars, hpsdrVars, serialVars>>

\* The frequencies of the last two adapters, and the modes of the last, are interchangeable:
\* they start on one of them. The adapters at rest have one initial state each.
Chosen(name) == adapter = name
AdaptersInit ==
  /\ adapter \in {"soapy", "hpsdr", "icom7300", "rigctld"}
  /\ SoapyInit /\ HpsdrInit /\ SerialInit /\ RigInit
  /\ Chosen("hpsdr") \/ (boardNco = Min(Spots) /\ pan = Min(Spots))
  /\ radioHz = Min(SerialFreqs) /\ rigHz = Min(RigFreqs) /\ rigMode = Min(RigModes)

AdaptersNext ==
  Soapy(SoapyNext) \/ Hpsdr(HpsdrNext) \/ Serial(SerialNext) \/ Rig(RigNext)

\* The thread that owns the link; what answers it; the timers; the engine's threads.
Owner   == Soapy(ReadLoop) \/ Hpsdr(CcLoop) \/ Serial(PollLoop) \/ Rig(RigWorker)
Answers == Hpsdr(HpsdrRead) \/ Serial(RadioAnswers) \/ Rig(DaemonAnswers)
Filing  == Serial(SerialRead) \/ Soapy(Retune)
Timers  == Soapy(CoolDown) \/ Hpsdr(SettleEnds) \/ Serial(SerialHoldEnds) \/ Rig(RigHoldEnds)
Panel   == Soapy(Settle) \/ Serial(PanelDone) \/ Rig(DrivenEnds)
Frame   == Soapy(GetIq) \/ Hpsdr(FrameTunes) \/ Serial(SerialFollow) \/ Rig(RigFollow)
Span    == Soapy(SyncSpan)

AdaptersSpec ==
  /\ AdaptersInit /\ [][AdaptersNext]_adapterVars
  /\ WF_adapterVars(Owner) /\ WF_adapterVars(Answers) /\ WF_adapterVars(Filing)
  /\ WF_adapterVars(Timers) /\ WF_adapterVars(Panel) /\ WF_adapterVars(Frame)
  /\ WF_adapterVars(Span) /\ SF_adapterVars(Rig(Resends))

-----------------------------------------------------------------------------
(* Properties; those of the adapters themselves are in their modules. *)

AdaptersTypeOK ==
  /\ adapter \in {"soapy", "hpsdr", "icom7300", "rigctld"}
  /\ SoapyTypeOK /\ HpsdrTypeOK /\ SerialTypeOK /\ RigTypeOK

\* Once the client leaves it alone, with a slice in reach of the first panadapter, the
\* spectrum shown was taken where the panadapter is: over lost packets, a board that was
\* switched off, and blocks half collected when the tuning moved.
SliceInReach == slice <= pan + HalfWidth /\ pan <= slice + HalfWidth
HpsdrSpectrumSettles ==
  <>[](Chosen("hpsdr") /\ board /\ SliceInReach) => <>[](block = {pan})
\* Over rate changes, restarts and losses of the device: no block mixes two sample rates.
AdaptersInv == AdaptersTypeOK /\ BlocksOfOneRate

\* Requests left in the mailboxes of the SDR's reader are not lost for good, though they
\* are cleared after they were used: tuner, gain and the span AE is told settle.
RequestsSettle == TuningSettles /\ GainSettles /\ SpanToldTrue

\* A device whose reads fail is reported, one that repeats itself is restarted; a board is
\* given up after its whole silence, and not before.
LossTold == FailureReported /\ StuckRetried /\ LostAfterSilence /\ SilenceReported

\* The serial radio: whoever notices the loss of the port, it comes back, and the slice
\* shows the radio in the end.
RadioFollowed == PortComesBack /\ SliceSeesRadio
=============================================================================
