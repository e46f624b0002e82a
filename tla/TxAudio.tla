------------------------------ MODULE TxAudio -------------------------------
(***************************************************************************)
(* The transmit audio of the IC-9700: AetherSDR's dax_tx audio goes into   *)
(* the engine's ring, and one drainer thread per over (_tx_audio_loop)     *)
(* takes it from there and sends it to the radio. A drainer told to stop   *)
(* goes on until the ring has been dry for FLUSH_GRACE_S, and nobody waits *)
(* for it: the drainer of one over may still live in the next.             *)
(*                                                                         *)
(* A chunk of audio is known by its age, the number of chunks that came    *)
(* into the ring after it. TxGuard says when the radio may be keyed.       *)
(***************************************************************************)
EXTENDS Integers, Sequences

CONSTANTS
  Drainers,    \* bounds the drainer threads alive at once
  TxRingMax    \* the engine ring's 0.5 s, in chunks

ASSUME TxRingAssumption == TxRingMax \in Nat \ {0}

VARIABLES
  txLan,     \* _audio of the adapter: "up", "closing" (_close_lan is at work) or "none"
  client,    \* AetherSDR is connected
  daxId,     \* dax_tx_stream_id
  inPrime,   \* the prime loop has a packet that passed its checks
  txRing,    \* tx_pcm_ring
  keyed,     \* _tx_keyed
  txThread,  \* _tx_audio_thread and its event _tx_audio_stop
  drainer,   \* drainer -> its pc, its stop event, its flush grace, the chunk it has in hand
  lastSent,  \* history: the newest chunk sent to the radio
  overlap    \* history: two drainers had audio in hand when the last chunk was taken

clientVars == <<client, daxId, inPrime>>
keyVars    == <<txLan, keyed, txThread>>
txVars     == <<clientVars, keyVars, txRing, drainer, lastSent, overlap>>

None     == -1                \* no chunk
NoThread == "none"
Oldest   == TxRingMax + 2     \* ages from here on are not told apart
Off      == [pc |-> "off", stop |-> FALSE, grace |-> "none", hand |-> None]
Draining == {d \in Drainers : drainer[d].pc # "off"}

Older(age) == IF age \in {None, Oldest} THEN age ELSE age + 1

TxInit ==
  /\ client = FALSE /\ daxId = FALSE /\ inPrime = FALSE
  /\ txLan \in {"up", "none"} /\ keyed = FALSE /\ txThread = NoThread
  /\ txRing = <<>> /\ drainer = [d \in Drainers |-> Off]
  /\ lastSent = None /\ overlap = FALSE

-----------------------------------------------------------------------------
(* AetherSDR and the engine's prime loop. *)

Connect ==
  /\ ~client
  /\ client' = TRUE
  /\ UNCHANGED <<daxId, inPrime, keyVars, txRing, drainer, lastSent, overlap>>

DaxCreate ==
  /\ client
  /\ daxId' = TRUE
  /\ UNCHANGED <<client, inPrime, keyVars, txRing, drainer, lastSent, overlap>>

\* _udp_prime_loop: only a registered stream of the client that is connected.
PrimeTakes ==
  /\ client /\ daxId /\ ~inPrime
  /\ inPrime' = TRUE
  /\ UNCHANGED <<client, daxId, keyVars, txRing, drainer, lastSent, overlap>>

\* The new chunk at the end; over the cap the oldest goes.
Arrived ==
  LET ring == Append([i \in DOMAIN txRing |-> txRing[i] + 1], 0) IN
    IF Len(ring) > TxRingMax THEN Tail(ring) ELSE ring

\* _decode_dax_tx, which looks at the id again, before a disconnect or after it. No
\* drainer sleeps while the ring is filled anew (the model's bound).
Decode ==
  /\ inPrime
  /\ \A d \in Drainers : drainer[d].hand < Oldest - 1
  /\ inPrime' = FALSE
  /\ \/ /\ txRing' = Arrived
        /\ lastSent' = Older(lastSent)
        /\ drainer' = [d \in Drainers |-> [drainer[d] EXCEPT !.hand = Older(@)]]
     \/ ~daxId /\ UNCHANGED <<txRing, lastSent, drainer>>
  /\ UNCHANGED <<client, daxId, keyVars, overlap>>

-----------------------------------------------------------------------------
(* Keying and the drainers. *)

Session == txLan # "none"
ThreadAlive == txThread \in Draining

\* key_tx and _start_tx_audio: a new drainer, unless there is no session or the adapter's
\* thread still lives. (The bound: no over begins while all Drainers are alive.)
Key ==
  /\ client /\ ~keyed
  /\ keyed' = TRUE
  /\ \/ /\ Session /\ ~ThreadAlive
        /\ \E d \in Drainers \ Draining :
             /\ txThread' = d
             /\ drainer' = [drainer EXCEPT ![d] = [Off EXCEPT !.pc = "pull"]]
     \/ (ThreadAlive \/ ~Session) /\ UNCHANGED <<txThread, drainer>>
  /\ UNCHANGED <<txLan, clientVars, txRing, lastSent, overlap>>

\* _stop_tx_audio: the event is set and the thread forgotten, not joined.
Stopped ==
  [d \in Drainers |-> IF d = txThread THEN [drainer[d] EXCEPT !.stop = TRUE] ELSE drainer[d]]

\* unkey_tx, by AetherSDR or by the watchdog timer.
Unkey ==
  /\ keyed' = FALSE /\ txThread' = NoThread /\ drainer' = Stopped
  /\ UNCHANGED <<txLan, clientVars, txRing, lastSent, overlap>>

\* The finally clause of serve(): the radio is unkeyed, then the ring is emptied.
Disconnect ==
  /\ client
  /\ client' = FALSE /\ daxId' = FALSE /\ txRing' = <<>>
  /\ keyed' = FALSE /\ txThread' = NoThread /\ drainer' = Stopped
  /\ UNCHANGED <<txLan, inPrime, lastSent, overlap>>

\* The other drainers with audio in hand.
Held(d) == {o \in Drainers \ {d} : drainer[o].hand # None}

\* The drainer takes the newest audio.
PullBug(d) ==
  /\ drainer[d].pc = "pull" /\ txRing # <<>>
  /\ txRing' = SubSeq(txRing, 1, Len(txRing) - 1)
  /\ drainer' = [drainer EXCEPT ![d].pc = "send", ![d].grace = "none",
                                ![d].hand = txRing[Len(txRing)]]
  /\ overlap' = (Held(d) # {})
  /\ UNCHANGED <<clientVars, keyVars, lastSent>>

Pull(d) ==
  /\ drainer[d].pc = "pull" /\ txRing # <<>>
  /\ txRing' = Tail(txRing)
  /\ drainer' = [drainer EXCEPT ![d].pc = "send", ![d].grace = "none", ![d].hand = Head(txRing)]
  /\ overlap' = (Held(d) # {})
  /\ UNCHANGED <<clientVars, keyVars, lastSent>>

SendAudio(d) ==
  /\ drainer[d].pc = "send"
  /\ lastSent' = IF Session THEN drainer[d].hand ELSE lastSent
  /\ drainer' = [drainer EXCEPT ![d].pc = "pull", ![d].hand = None]
  /\ UNCHANGED <<clientVars, keyVars, txRing, overlap>>

\* An empty ring: silence. A drainer that is stopped starts its grace, and ends after it.
Dry(d) ==
  /\ drainer[d].pc = "pull" /\ txRing = <<>> /\ drainer[d].stop
  /\ drainer[d].grace # "running"
  /\ drainer' = [drainer EXCEPT ![d] = IF @.grace = "none" THEN [@ EXCEPT !.grace = "running"]
                                       ELSE Off]
  /\ UNCHANGED <<clientVars, keyVars, txRing, lastSent, overlap>>

GraceOver(d) ==
  /\ drainer[d].grace = "running"
  /\ drainer' = [drainer EXCEPT ![d].grace = "over"]
  /\ UNCHANGED <<clientVars, keyVars, txRing, lastSent, overlap>>

\* _close_lan: disarm_tx, then stop(), then the session is forgotten. A key that slips in
\* between finds the session (TxGuard has the latch that mostly forbids it).
CloseDisarm ==
  /\ txLan = "up"
  /\ txLan' = "closing" /\ keyed' = FALSE /\ txThread' = NoThread /\ drainer' = Stopped
  /\ UNCHANGED <<clientVars, txRing, lastSent, overlap>>

CloseTx ==
  /\ txLan = "closing"
  /\ txLan' = "none"
  /\ UNCHANGED <<clientVars, keyed, txThread, txRing, drainer, lastSent, overlap>>

Drain(d) == Pull(d) \/ SendAudio(d) \/ Dry(d)
Drains == \E d \in Drainers : Drain(d)
Graces == \E d \in Drainers : GraceOver(d)
TxAudioNext ==
  \/ Connect \/ DaxCreate \/ PrimeTakes \/ Decode
  \/ Key \/ Unkey \/ Disconnect \/ Drains \/ Graces \/ CloseDisarm \/ CloseTx

-----------------------------------------------------------------------------
(* Properties. *)

TxAudioTypeOK ==
  /\ txLan \in {"up", "closing", "none"}
  /\ {client, daxId, inPrime, keyed, overlap} \subseteq BOOLEAN
  /\ Len(txRing) <= TxRingMax /\ lastSent \in -1..Oldest
  /\ txThread \in Drainers \cup {NoThread}
  /\ drainer \in [Drainers -> [pc : {"off", "pull", "send"}, stop : BOOLEAN,
                               grace : {"none", "running", "over"},
                               hand : -1..(Oldest - 1)]]

(* A drainer that has not been told to stop is the adapter's own and the   *)
(* radio is keyed: no path of unkeying, not the watchdog, the lost client  *)
(* or the teardown, leaves one behind that pumps audio for ever.           *)
LiveDrainerIsKeyed == \A d \in Draining : ~drainer[d].stop => keyed /\ txThread = d

(* AetherSDR's audio goes to the radio in its order, unless two drainers   *)
(* had audio in hand at once (a re-key within the grace of the last over). *)
TxInOrder ==
  [][\A d \in Drainers : drainer[d].pc = "send" /\ drainer'[d].pc = "pull"
       => lastSent = None \/ drainer[d].hand < lastSent \/ overlap]_txVars

(* However an over ended, its drainer ends once no more audio comes.       *)
DrainersEnd == <>[](~keyed /\ ~inPrime) => <>[](Draining = {})

(* An over that lasts sends all the audio that came for it, whatever the   *)
(* drainer of the over before it is still doing.                           *)
KeyedAudioSent ==
  <>[](keyed /\ Session /\ ~inPrime)
    => <>[](txRing = <<>> /\ \A d \in Drainers : drainer[d].hand = None)
=============================================================================
