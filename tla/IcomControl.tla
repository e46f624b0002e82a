---------------------------- MODULE IcomControl ----------------------------
(***************************************************************************)
(* How the gate reads and sets the IC-9700: over the USB CI-V channel when *)
(* there is one (UsbSwap), otherwise over the LAN CI-V stream (ModeEcho),  *)
(* and its SET menu always over the LAN (MenuSettings). The three share no *)
(* state that matters to any of them: one is chosen at the start and the   *)
(* others stay where they are.                                             *)
(***************************************************************************)
EXTENDS UsbSwap, ModeEcho, MenuSettings

VARIABLE part     \* the part that is looked at

controlVars == <<part, vars, modeVars, menuVars>>

UsbPart(A)  == part = "usb"  /\ A /\ UNCHANGED <<part, modeVars, menuVars>>
ModePart(A) == part = "mode" /\ A /\ UNCHANGED <<part, vars, menuVars>>
MenuPart(A) == part = "menu" /\ A /\ UNCHANGED <<part, vars, modeVars>>

\* A part at rest has one initial state.
ControlInit ==
  /\ part \in {"usb", "mode", "menu"}
  /\ Init /\ ModeInit /\ MenuInit
  /\ part # "usb"  => main = (CHOOSE b \in Bands : TRUE) /\ sub = CHOOSE b \in Bands \ {main} : TRUE
  /\ part # "mode" => rigMode = "FM"
  /\ part # "menu" => level = 0

ControlNext == UsbPart(Next) \/ ModePart(ModeNext) \/ MenuPart(MenuNext)

(* UsbSwap's fairness; and on the LAN: the engine's thread and the callers *)
(* of the menu go on, the stream loop polls, the reader dispatches, and    *)
(* not every read of the mode, nor every answer to one, is lost. Asking is *)
(* strong because the bound on the wire may keep a command back (ModeWire).*)
ControlSpec ==
  /\ ControlInit /\ [][ControlNext]_controlVars
  /\ SF_controlVars(UsbPart(ReadMain)) /\ SF_controlVars(UsbPart(BeginRead))
  /\ WF_controlVars(UsbPart(Swap) \/ MenuPart(Judge))
  /\ \A b \in MainTunes : SF_controlVars(UsbPart(TuneMain(b)))
  /\ \A b \in SubTunes : SF_controlVars(UsbPart(BeginWrite(b)))
  /\ SF_controlVars(ModePart(Asking)) /\ WF_controlVars(ModePart(Poll))
  /\ SF_controlVars(ModePart(RigTellsMode /\ modeIn' # modeIn))
  /\ WF_controlVars(ModePart(RigSetsMode \/ ModeCmdLost \/ RigTellsMode))
  /\ WF_controlVars(ModePart(DispatchMode))
  /\ WF_controlVars(MenuPart(RigTakes))
  /\ \A c \in Callers : WF_controlVars(MenuPart(Caller(c)))

-----------------------------------------------------------------------------
(* Properties; those of the parts are in their modules. *)

ControlTypeOK == ModeTypeOK /\ MenuTypeOK

(* ModeSettles, AskedModeSticks and LevelCheckEnds of the part that runs.  *)
ModeShownTrue == part = "mode" => ModeSettles
AeModeSticks  == part = "mode" => AskedModeSticks
EnsureEnds    == part = "menu" => LevelCheckEnds
(* The menu over the lossy LAN: a read tells what the radio had since it   *)
(* was asked, and a connect that reports the level is right about it.      *)
MenuInv == ControlTypeOK /\ ReadIsCurrent /\ LevelRaised

(* A mode comes to be what was last asked for, by AE or at the radio.      *)
ModeFollowed == ModeShownTrue /\ AeModeSticks

(* Every transaction on either channel ends and frees whoever waits.       *)
ControlsEnd == TransactionsEnd /\ EnsureEnds
=============================================================================
