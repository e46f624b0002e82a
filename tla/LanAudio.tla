------------------------------ MODULE LanAudio ------------------------------
(***************************************************************************)
(* The audio session of the IC-9700 (Ic9700Audio): its handshake, which    *)
(* the radio needs for transmit audio, and the ring of receive audio that  *)
(* the session's reader fills and the engine's audio thread empties.       *)
(*                                                                         *)
(* A chunk of audio is known by its age, the number of chunks that came    *)
(* into the ring after it.                                                 *)
(***************************************************************************)
EXTENDS Integers, Sequences

CONSTANT RxRingMax    \* _RING_MAX, in chunks

ASSUME RxRingAssumption == RxRingMax \in Nat \ {0}

VARIABLES
  lanUp,      \* _audio of the adapter
  audioHello, \* _areyouthere_on
  audioReply, \* the handshake answer on its way: "none", "here" (04) or "ready" (06)
  radioId,    \* remote_id is known
  synced,     \* _connected
  rxRing,     \* _ring
  lastHeard   \* history: the newest chunk handed to the engine

helloVars == <<audioHello, audioReply, radioId, synced>>
rxVars    == <<rxRing, lastHeard>>
lanVars   == <<lanUp, helloVars, rxVars>>

Unheard == -1

LanInit ==
  /\ lanUp = TRUE
  /\ audioHello = TRUE /\ audioReply = "none" /\ radioId = FALSE /\ synced = FALSE
  /\ rxRing = <<>> /\ lastHeard = Unheard

Aged == [i \in DOMAIN rxRing |-> rxRing[i] + 1]
HeardAged == IF lastHeard \in {Unheard, RxRingMax + 1} THEN lastHeard ELSE lastHeard + 1

-----------------------------------------------------------------------------
(* The session's handshake: Ic9700Audio.start and its reader. *)

\* A 0x03 every AREYOUTHERE_PERIOD; the radio's 0x04 may be lost.
AudioAsks ==
  /\ lanUp /\ audioHello /\ audioReply = "none"
  /\ audioReply' = "here"
  /\ UNCHANGED <<lanUp, audioHello, radioId, synced, rxVars>>

\* The id is left to the 0x06.
OnAudioHereBug ==
  /\ lanUp /\ audioReply = "here"
  /\ audioHello' = FALSE
  /\ audioReply' \in {"ready", "none"}
  /\ UNCHANGED <<lanUp, radioId, synced, rxVars>>

\* 0x04: the id is taken, and a 0x06 goes out that nobody repeats.
OnAudioHere ==
  /\ lanUp /\ audioReply = "here"
  /\ audioHello' = FALSE /\ radioId' = TRUE
  /\ audioReply' \in {"ready", "none"}
  /\ UNCHANGED <<lanUp, synced, rxVars>>

OnAudioReady ==
  /\ lanUp /\ audioReply = "ready"
  /\ audioReply' = "none" /\ radioId' = TRUE /\ synced' = TRUE
  /\ UNCHANGED <<lanUp, audioHello, rxVars>>

-----------------------------------------------------------------------------
(* Receive audio. *)

\* The radio streams to the port it was told, synced or not. Over _RING_MAX the oldest go.
OnAudio ==
  /\ lanUp
  /\ rxRing' = IF Len(rxRing) = RxRingMax THEN Append(Tail(Aged), 0) ELSE Append(Aged, 0)
  /\ lastHeard' = HeardAged
  /\ UNCHANGED <<lanUp, helloVars>>

\* get_audio: whatever read_samples has, up to what was asked for.
ReadSamples ==
  /\ lanUp
  /\ \E n \in 1..Len(rxRing) :
       /\ rxRing' = SubSeq(rxRing, n + 1, Len(rxRing))
       /\ lastHeard' = rxRing[n]
  /\ UNCHANGED <<lanUp, helloVars>>

\* _close_lan: the session is stopped and forgotten.
CloseAudio ==
  /\ lanUp
  /\ lanUp' = FALSE /\ audioReply' = "none"
  /\ UNCHANGED <<audioHello, radioId, synced, rxVars>>

AudioReader == OnAudioHere \/ OnAudioReady
LanNext == AudioAsks \/ AudioReader \/ OnAudio \/ ReadSamples \/ CloseAudio

-----------------------------------------------------------------------------
(* Properties. *)

LanTypeOK ==
  /\ {lanUp, audioHello, radioId, synced} \subseteq BOOLEAN
  /\ audioReply \in {"none", "here", "ready"}
  /\ lastHeard \in -1..(RxRingMax + 1)

(* Receive audio is live: the ring is the newest that came, in order, and  *)
(* all of it is newer than what the engine has heard.                      *)
RxCurrent ==
  /\ Len(rxRing) <= RxRingMax
  /\ \A i \in DOMAIN rxRing : rxRing[i] = Len(rxRing) - i
  /\ \A i \in DOMAIN rxRing : lastHeard = Unheard \/ rxRing[i] < lastHeard

(* The session learns the radio's id, without which the radio takes no     *)
(* audio, though the second half of the handshake is never repeated.       *)
AudioIdLearnt == lanUp ~> radioId \/ ~lanUp
=============================================================================
