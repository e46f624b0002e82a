------------------------------ MODULE ModeEcho ------------------------------
(***************************************************************************)
(* The mode of the IC-9700 when no USB channel owns it: the client's       *)
(* request, the optimistic cache, the poll over the LAN CI-V stream and    *)
(* the echo of the client's own name for a mode (DFM for the radio's FM).  *)
(*                                                                         *)
(* Threads: the engine's, which takes the client's mode; the stream loop,  *)
(* which polls; the reader, which dispatches. The radio and the operator   *)
(* at its front panel are external. Commands and replies keep their order  *)
(* and may be lost.                                                        *)
(***************************************************************************)
EXTENDS Naturals, Sequences

CONSTANTS
  MaxModes,     \* bound: changes of the mode, the client's and the operator's
  ModeWire      \* bound: commands, and replies, on their way

ASSUME ModesAssumption == MaxModes \in Nat /\ ModeWire \in Nat

NoMode   == "none"
RigModes == {"FM", "USB"}
AeModes  == RigModes \cup {"DFM"}
Reads    == 3                     \* frequency, mode, power

\* _civ_mode_name: a data variant is folded onto the mode the radio has.
BaseOf(a) == IF a = "DFM" THEN "FM" ELSE a

VARIABLES
  rigMode,    \* the radio's mode
  modeBy,     \* who gave it to the radio
  modeOut,    \* commands on their way
  modeIn,     \* replies and broadcasts on their way
  mode,       \* self.mode
  echo,       \* _ae_mode_echo
  base,       \* _ae_mode_base
  asking,     \* set_mode: "idle", "base", "send" or "note"
  turn,       \* _read_rr
  changes,    \* mode changes so far
  askLost     \* a mode command was lost

modeEnds == <<rigMode, modeBy, changes>>
modeVars == <<modeEnds, modeOut, modeIn, mode, echo, base, asking, turn, askLost>>

ModeInit ==
  /\ rigMode \in RigModes /\ modeBy = "panel" /\ changes = 0
  /\ modeOut = <<>> /\ modeIn = <<>>
  /\ mode = NoMode /\ echo = NoMode /\ base = NoMode /\ asking = "idle"
  /\ turn = 0 /\ askLost = FALSE

SendMode(cmd) == Len(modeOut) < ModeWire /\ modeOut' = Append(modeOut, cmd)

\* A change by the client or the operator.
Change == changes < MaxModes /\ changes' = changes + 1

-----------------------------------------------------------------------------
(* The client's mode: two stores, the command, and the optimistic cache. *)

AskMode(a) ==
  /\ asking = "idle" /\ Change
  /\ asking' = "base" /\ echo' = a
  /\ UNCHANGED <<rigMode, modeBy, modeOut, modeIn, mode, base, turn, askLost>>

\* The base of the first request is kept.
AskBaseBug ==
  /\ asking = "base"
  /\ asking' = "send" /\ base' = IF base = NoMode THEN BaseOf(echo) ELSE base
  /\ UNCHANGED <<modeEnds, modeOut, modeIn, mode, echo, turn, askLost>>

AskBase ==
  /\ asking = "base"
  /\ asking' = "send" /\ base' = BaseOf(echo)
  /\ UNCHANGED <<modeEnds, modeOut, modeIn, mode, echo, turn, askLost>>

AskSend ==
  /\ asking = "send" /\ SendMode(BaseOf(echo))
  /\ asking' = "note"
  /\ UNCHANGED <<modeEnds, modeIn, mode, echo, base, turn, askLost>>

AskNote ==
  /\ asking = "note"
  /\ asking' = "idle" /\ mode' = BaseOf(echo)
  /\ UNCHANGED <<modeEnds, modeOut, modeIn, echo, base, turn, askLost>>

\* The rotation of read_meters; the mode has one turn in three.
Poll ==
  /\ turn' = (turn + 1) % Reads
  /\ IF turn = 1 THEN SendMode("read") ELSE UNCHANGED modeOut
  /\ UNCHANGED <<modeEnds, modeIn, mode, echo, base, asking, askLost>>

\* _echo_mode: the client's own name for the mode the radio is in.
Shown == IF echo # NoMode /\ base # NoMode /\ mode = base THEN echo ELSE mode

-----------------------------------------------------------------------------
(* The radio, and the reader that dispatches what it sends. *)

\* A mode sent by the radio: it may be lost.
ModeSent(m) ==
  \/ Len(modeIn) < ModeWire /\ modeIn' = Append(modeIn, m)
  \/ UNCHANGED modeIn

\* The front panel; the radio broadcasts the change.
PanelMode(m) ==
  /\ m # rigMode /\ Change
  /\ rigMode' = m /\ modeBy' = "panel" /\ ModeSent(m)
  /\ UNCHANGED <<modeOut, mode, echo, base, asking, turn, askLost>>

RigSetsMode ==
  /\ modeOut # <<>> /\ Head(modeOut) # "read"
  /\ modeOut' = Tail(modeOut) /\ rigMode' = Head(modeOut) /\ modeBy' = "ae"
  /\ UNCHANGED <<changes, modeIn, mode, echo, base, asking, turn, askLost>>

RigTellsMode ==
  /\ modeOut # <<>> /\ Head(modeOut) = "read"
  /\ modeOut' = Tail(modeOut) /\ ModeSent(rigMode)
  /\ UNCHANGED <<modeEnds, mode, echo, base, asking, turn, askLost>>

ModeCmdLost ==
  /\ modeOut # <<>> /\ Head(modeOut) # "read"
  /\ modeOut' = Tail(modeOut) /\ askLost' = TRUE
  /\ UNCHANGED <<modeEnds, modeIn, mode, echo, base, asking, turn>>

\* _dispatch of a 26 00 reply or a 01 broadcast.
DispatchMode ==
  /\ modeIn # <<>>
  /\ modeIn' = Tail(modeIn) /\ mode' = Head(modeIn)
  /\ UNCHANGED <<modeEnds, modeOut, echo, base, asking, turn, askLost>>

Asking == AskBase \/ AskSend \/ AskNote

ModeNext ==
  \/ \E a \in AeModes : AskMode(a)
  \/ Asking \/ Poll
  \/ \E m \in RigModes : PanelMode(m)
  \/ RigSetsMode \/ RigTellsMode \/ ModeCmdLost \/ DispatchMode

-----------------------------------------------------------------------------
(* Properties. *)

ModeTypeOK ==
  /\ rigMode \in RigModes /\ modeBy \in {"panel", "ae"} /\ changes \in 0..MaxModes
  /\ Len(modeOut) <= ModeWire /\ Len(modeIn) <= ModeWire
  /\ {mode, base} \subseteq RigModes \cup {NoMode} /\ echo \in AeModes \cup {NoMode}
  /\ asking \in {"idle", "base", "send", "note"} /\ (base = NoMode => echo = NoMode \/ asking = "base")
  /\ turn \in 0..(Reads - 1) /\ askLost \in BOOLEAN

(* However the client's request, the panel's knob and the poll interleave, *)
(* the mode the client is shown folds to the one the radio is in, in the   *)
(* end (set_mode_civ's optimistic store may be older than what it covers). *)
ModeSettles == <>[](Shown # NoMode /\ BaseOf(Shown) = rigMode)

(* A data mode the client has chosen does not snap back to the radio's     *)
(* name of it: when its command was the last to set the radio's mode, the  *)
(* client goes on being shown what it asked for.                           *)
AskedModeSticks == <>[](modeBy = "ae" /\ ~askLost => Shown = echo)
=============================================================================
