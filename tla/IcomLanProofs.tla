--------------------------- MODULE IcomLanProofs ---------------------------
(***************************************************************************)
(* What every LAN session may rely on, for rings and buffers of any size,  *)
(* any sequence span, any drainers and any senders.                        *)
(*                                                                         *)
(* Both audio rings keep the ages of their chunks in one form (Ring), so   *)
(* that "in order" is a matter of lengths: a chunk in a drainer's hand, or *)
(* sent, or heard, is at least as old as the ring is long.  The order of   *)
(* the transmit audio rests on one more fact, that audio is in one hand    *)
(* only unless the last drainer to take some found another's hand full     *)
(* (OneHand).  Of the sending side NewestKept and OneNumberOnePacket are   *)
(* inductive together: the window shows that a number about to be stamped  *)
(* is not among those stored.                                              *)
(***************************************************************************)
EXTENDS IcomLan, SequenceTheorems, WellFoundedInduction, TLAPS

-----------------------------------------------------------------------------
(* Rings of chunks by age. *)

Ring(r) == r \in Seq(Nat) /\ \A i \in 1..Len(r) : r[i] = Len(r) - i

\* A chunk comes in after chunks that have aged by one.
LEMMA RingAppend ==
  ASSUME NEW r \in Seq(Nat), \A i \in 1..Len(r) : r[i] = Len(r) - i + 1
  PROVE  Ring(Append(r, 0)) /\ Len(Append(r, 0)) = Len(r) + 1
<1>1. /\ Append(r, 0) \in Seq(Nat) /\ Len(Append(r, 0)) = Len(r) + 1
      /\ \A i \in 1..Len(r) : Append(r, 0)[i] = r[i]
      /\ Append(r, 0)[Len(r) + 1] = 0
  BY AppendProperties
<1>2. ASSUME NEW i \in 1..(Len(r) + 1)
      PROVE  Append(r, 0)[i] = Len(r) + 1 - i
  <2>1. CASE i \in 1..Len(r)
    BY <1>1, <2>1
  <2>2. CASE i = Len(r) + 1
    BY <1>1, <2>2
  <2>. QED  BY <2>1, <2>2
<1>. QED  BY <1>1, <1>2 DEF Ring

LEMMA RingAged ==
  ASSUME NEW r, Ring(r)
  PROVE  LET a == [i \in DOMAIN r |-> r[i] + 1] IN
           /\ a \in Seq(Nat) /\ Len(a) = Len(r)
           /\ \A i \in 1..Len(a) : a[i] = Len(a) - i + 1
<1>. DEFINE a == [i \in DOMAIN r |-> r[i] + 1]
<1>1. r \in Seq(Nat) /\ Len(r) \in Nat /\ DOMAIN r = 1..Len(r)
  BY LenProperties DEF Ring
<1>2. a \in Seq(Nat) /\ Len(a) = Len(r)
  BY <1>1
<1>3. \A i \in 1..Len(r) : a[i] = Len(r) - i + 1
  BY <1>1 DEF Ring
<1>. QED  BY <1>2, <1>3

LEMMA RingTail ==
  ASSUME NEW r, Ring(r), r # <<>>
  PROVE  Ring(Tail(r)) /\ Len(Tail(r)) = Len(r) - 1 /\ Head(r) = Len(r) - 1 /\ Len(r) \in Nat \ {0}
<1>1. /\ Tail(r) \in Seq(Nat) /\ Len(Tail(r)) = Len(r) - 1
      /\ \A i \in 1..Len(Tail(r)) : Tail(r)[i] = r[i + 1]
      /\ Len(r) \in Nat \ {0}
  BY HeadTailProperties, EmptySeq DEF Ring
<1>2. Head(r) = r[1]
  BY DEF Ring
<1>. QED  BY <1>1, <1>2 DEF Ring

\* Aged, and the oldest gone.
LEMMA RingAgedTail ==
  ASSUME NEW r \in Seq(Nat), r # <<>>, \A i \in 1..Len(r) : r[i] = Len(r) - i + 1
  PROVE  /\ Tail(r) \in Seq(Nat) /\ Len(Tail(r)) = Len(r) - 1
         /\ \A i \in 1..Len(Tail(r)) : Tail(r)[i] = Len(Tail(r)) - i + 1
<1>1. /\ Tail(r) \in Seq(Nat) /\ Len(Tail(r)) = Len(r) - 1
      /\ \A i \in 1..Len(Tail(r)) : Tail(r)[i] = r[i + 1]
      /\ Len(r) \in Nat \ {0}
  BY HeadTailProperties, EmptySeq
<1>. QED  BY <1>1

LEMMA RingSuffix ==
  ASSUME NEW r, Ring(r), NEW n \in 1..Len(r)
  PROVE  /\ Ring(SubSeq(r, n + 1, Len(r)))
         /\ Len(SubSeq(r, n + 1, Len(r))) = Len(r) - n
<1>1. r \in Seq(Nat) /\ Len(r) \in Nat
  BY LenProperties DEF Ring
<1>2. \A i \in (n + 1)..Len(r) : r[i] \in Nat
  BY <1>1, ElementOfSeq
<1>3. /\ SubSeq(r, n + 1, Len(r)) \in Seq(Nat)
      /\ Len(SubSeq(r, n + 1, Len(r))) =
           IF n + 1 <= Len(r) THEN Len(r) - (n + 1) + 1 ELSE 0
      /\ \A i \in 1..(Len(r) - (n + 1) + 1) : SubSeq(r, n + 1, Len(r))[i] = r[n + 1 + i - 1]
  BY <1>1, <1>2, SubSeqProperties
<1>4. Len(SubSeq(r, n + 1, Len(r))) = Len(r) - n
  BY <1>1, <1>3
<1>5. ASSUME NEW i \in 1..(Len(r) - n)
      PROVE  SubSeq(r, n + 1, Len(r))[i] = Len(r) - n - i
  <2>1. SubSeq(r, n + 1, Len(r))[i] = r[n + i] /\ n + i \in 1..Len(r)
    BY <1>1, <1>3
  <2>2. r[n + i] = Len(r) - (n + i)
    BY <2>1 DEF Ring
  <2>. QED  BY <1>1, <2>1, <2>2
<1>. QED  BY <1>3, <1>4, <1>5 DEF Ring

-----------------------------------------------------------------------------
(* CivStream. *)

LEMMA CivStep ==
  ASSUME CivTypeOK, CivNext
  PROVE  CivTypeOK'
<1>. USE DEF CivTypeOK
<1>0. Stalled \in BOOLEAN
  BY DEF Stalled
<1>1. {civHello', remote', stale'} \subseteq BOOLEAN
  BY <1>0, Zenon DEF CivNext, CivRadioHere, RadioPause, CivReader, ReaderHere, ReaderReady, ReaderData,
     Gate, GateRefire, GateHealthy, GateClose, GateDown, Watchdog, WatchdogArm, Retry
<1>2. {startOn', alerted'} \subseteq BOOLEAN
  BY Zenon DEF CivNext, CivRadioHere, RadioPause, CivReader, ReaderHere, ReaderReady, ReaderData,
     Gate, GateRefire, GateHealthy, GateClose, GateDown, Watchdog, WatchdogArm, Retry, Stalled
<1>3. freq' \in BOOLEAN
  BY Zenon DEF CivNext, CivRadioHere, RadioPause, CivReader, ReaderHere, ReaderReady, ReaderData,
     Gate, GateRefire, GateHealthy, GateClose, GateDown, Watchdog, WatchdogArm, Retry
<1>4. chan' \in BOOLEAN
  BY Zenon DEF CivNext, CivRadioHere, RadioPause, CivReader, ReaderHere, ReaderReady, ReaderData,
     Gate, GateRefire, GateHealthy, GateClose, GateDown, Watchdog, WatchdogArm, Retry,
     OpenClose, RetryOpens
<1>5. reply' \in {"none", "here", "ready"}
      /\ civGate' \in {"health", "healthy", "closing", "down"}
  BY DEF CivNext, CivRadioHere, RadioPause, CivReader, ReaderHere, ReaderReady, ReaderData,
     Gate, GateRefire, GateHealthy, GateClose, GateDown, Watchdog, WatchdogArm, Retry
<1>6. quiet' \in 0..(StallTicks + 1)
  <2>1. quiet' = quiet \/ quiet' = 0 \/ (quiet' = quiet + 1 /\ ~Stalled)
    BY Zenon DEF CivNext, CivRadioHere, RadioPause, CivReader, ReaderHere, ReaderReady, ReaderData,
       Gate, GateRefire, GateHealthy, GateClose, GateDown, Watchdog, WatchdogArm, Retry
  <2>2. {quiet} \subseteq 0..(StallTicks + 1) /\ StallTicks \in Nat
    BY PeriodsAssumption
  <2>. QED  BY <2>1, <2>2 DEF Stalled
<1>7. tries' \in 0..BringUpTries
  <2>1. tries' = tries \/ (tries' = tries + 1 /\ tries < BringUpTries)
    BY Zenon DEF CivNext, CivRadioHere, RadioPause, CivReader, ReaderHere, ReaderReady, ReaderData,
       Gate, GateRefire, GateHealthy, GateClose, GateDown, Watchdog, WatchdogArm, Retry, Refirable
  <2>2. {tries} \subseteq 0..BringUpTries /\ BringUpTries \in Nat
    BY PeriodsAssumption
  <2>. QED  BY <2>1, <2>2
<1>. QED  BY <1>1, <1>2, <1>3, <1>4, <1>5, <1>6, <1>7

-----------------------------------------------------------------------------
(* LanAudio: what was heard is older than all that waits to be heard. *)

HeardOlder == lastHeard = Unheard \/ Len(rxRing) <= lastHeard

AudioIInv == LanTypeOK /\ Ring(rxRing) /\ Len(rxRing) <= RxRingMax /\ HeardOlder

LEMMA AudioInitOK == LanInit => AudioIInv
<1>. SUFFICES ASSUME LanInit PROVE AudioIInv  OBVIOUS
<1>1. Ring(rxRing) /\ Len(rxRing) = 0
  BY DEF LanInit, Ring
<1>2. {lanUp, audioHello, radioId, synced} \subseteq BOOLEAN
  BY Zenon DEF LanInit
<1>. QED  BY <1>1, <1>2, RxRingAssumption DEF LanInit, AudioIInv, LanTypeOK, HeardOlder, Unheard

LEMMA AudioStep ==
  ASSUME AudioIInv, LanNext
  PROVE  AudioIInv'
<1>. USE DEF AudioIInv
<1>0. Ring(rxRing) /\ rxRing \in Seq(Nat) /\ Len(rxRing) \in Nat /\ Len(rxRing) <= RxRingMax
      /\ lastHeard \in -1..(RxRingMax + 1) /\ HeardOlder /\ RxRingMax \in Nat \ {0}
  BY RxRingAssumption DEF Ring, LanTypeOK
<1>1. {lanUp', audioHello', radioId', synced'} \subseteq BOOLEAN
  BY Zenon DEF LanTypeOK, LanNext, AudioAsks, AudioReader, OnAudioHere, OnAudioReady, OnAudio,
               ReadSamples, CloseAudio, helloVars
<1>2. audioReply' \in {"none", "here", "ready"}
  BY DEF LanTypeOK, LanNext, AudioAsks, AudioReader, OnAudioHere, OnAudioReady, OnAudio,
         ReadSamples, CloseAudio, helloVars
<1>3. ASSUME Ring(rxRing)', Len(rxRing') <= RxRingMax, {lastHeard'} \subseteq -1..(RxRingMax + 1),
             HeardOlder'
      PROVE  AudioIInv'
  BY <1>1, <1>2, <1>3 DEF LanTypeOK
<1>4. CASE AudioAsks \/ AudioReader \/ CloseAudio
  <2>1. rxRing' = rxRing /\ lastHeard' = lastHeard
    BY <1>4 DEF AudioAsks, AudioReader, OnAudioHere, OnAudioReady, CloseAudio, rxVars
  <2>. QED  BY <1>0, <1>3, <2>1 DEF Ring, HeardOlder
<1>5. CASE OnAudio
  <2>1. /\ Aged \in Seq(Nat) /\ Len(Aged) = Len(rxRing)
        /\ \A i \in 1..Len(Aged) : Aged[i] = Len(Aged) - i + 1
    BY <1>0, RingAged DEF Aged
  <2>2. CASE Len(rxRing) = RxRingMax
    <3>1. rxRing' = Append(Tail(Aged), 0)
      BY <1>5, <2>2 DEF OnAudio
    <3>2. Aged # <<>>
      BY <1>0, <2>1, <2>2
    <3>3. /\ Tail(Aged) \in Seq(Nat) /\ Len(Tail(Aged)) = Len(Aged) - 1
          /\ \A i \in 1..Len(Tail(Aged)) : Tail(Aged)[i] = Len(Tail(Aged)) - i + 1
      BY <2>1, <3>2, RingAgedTail
    <3>4. Ring(rxRing') /\ Len(rxRing') = Len(rxRing)
      <4>. DEFINE t == Tail(Aged)
      <4>1. Ring(Append(t, 0)) /\ Len(Append(t, 0)) = Len(t) + 1
        <5>. HIDE DEF t
        <5>. QED  BY <3>3, RingAppend DEF t
      <4>. QED  BY <1>0, <2>1, <3>1, <3>3, <4>1
    <3>5. lastHeard' = HeardAged
      BY <1>5 DEF OnAudio
    <3>6. {lastHeard'} \subseteq -1..(RxRingMax + 1) /\ HeardOlder'
      BY <1>0, <3>4, <3>5 DEF HeardOlder, HeardAged, Unheard
    <3>. QED  BY <1>0, <1>3, <3>4, <3>6
  <2>3. CASE Len(rxRing) # RxRingMax
    <3>1. rxRing' = Append(Aged, 0) /\ lastHeard' = HeardAged
      BY <1>5, <2>3 DEF OnAudio
    <3>2. Ring(rxRing') /\ Len(rxRing') = Len(rxRing) + 1
      BY <2>1, <3>1, RingAppend
    <3>3. {lastHeard'} \subseteq -1..(RxRingMax + 1) /\ HeardOlder'
      BY <1>0, <2>3, <3>1, <3>2 DEF HeardOlder, HeardAged, Unheard
    <3>. QED  BY <1>0, <1>3, <2>3, <3>2, <3>3
  <2>. QED  BY <2>2, <2>3
<1>6. CASE ReadSamples
  <2>1. PICK n \in 1..Len(rxRing) :
          rxRing' = SubSeq(rxRing, n + 1, Len(rxRing)) /\ lastHeard' = rxRing[n]
    BY <1>6 DEF ReadSamples
  <2>2. Ring(rxRing') /\ Len(rxRing') = Len(rxRing) - n
    BY <1>0, <2>1, RingSuffix
  <2>3. lastHeard' = Len(rxRing) - n
    BY <1>0, <2>1 DEF Ring
  <2>. QED  BY <1>0, <1>3, <2>2, <2>3 DEF HeardOlder
<1>. QED  BY <1>4, <1>5, <1>6 DEF LanNext

LEMMA AudioIInvImplies == AudioIInv => LanTypeOK /\ RxCurrent
<1>. SUFFICES ASSUME AudioIInv PROVE RxCurrent
  BY DEF AudioIInv
<1>1. DOMAIN rxRing = 1..Len(rxRing) /\ Len(rxRing) \in Nat
  BY LenProperties DEF AudioIInv, Ring
<1>. QED  BY <1>1 DEF AudioIInv, Ring, LanTypeOK, RxCurrent, HeardOlder, Unheard

-----------------------------------------------------------------------------
(* TxAudio: what is in a hand, or was sent, is older than the whole ring.  *)

DrainerType == [pc : {"off", "pull", "send"}, stop : BOOLEAN,
                grace : {"none", "running", "over"}, hand : -1..(Oldest - 1)]

HandsOlder == \A d \in Drainers : drainer[d].hand # None => Len(txRing) <= drainer[d].hand
SentOlder  == lastSent # None => Len(txRing) <= lastSent

\* Unless another hand was full when the last chunk was taken, one hand at most holds
\* audio, and it is newer than all that was sent.
OneHand ==
  ~overlap => \A d \in Drainers : drainer[d].hand # None =>
                /\ \A o \in Drainers \ {d} : drainer[o].hand = None
                /\ lastSent = None \/ drainer[d].hand < lastSent

TxScalars == /\ txLan \in {"up", "closing", "none"}
             /\ {client, daxId, inPrime, keyed, overlap} \subseteq BOOLEAN
             /\ txThread \in Drainers \cup {NoThread}

TxIInv ==
  /\ TxScalars /\ LiveDrainerIsKeyed
  /\ drainer \in [Drainers -> DrainerType] /\ {lastSent} \subseteq -1..Oldest
  /\ Ring(txRing) /\ Len(txRing) <= TxRingMax
  /\ HandsOlder /\ SentOlder /\ OneHand

InOrderStep ==
  \A d \in Drainers : drainer[d].pc = "send" /\ drainer'[d].pc = "pull"
    => lastSent = None \/ drainer[d].hand < lastSent \/ overlap

LEMMA TxInitOK == TxInit => TxIInv
<1>. SUFFICES ASSUME TxInit PROVE TxIInv  OBVIOUS
<1>1. Ring(txRing) /\ Len(txRing) = 0
  BY DEF TxInit, Ring
<1>2. {client, daxId, inPrime, keyed, overlap} \subseteq BOOLEAN
  BY Zenon DEF TxInit
<1>3. Oldest \in Nat /\ None \in -1..(Oldest - 1) /\ None \in -1..Oldest
  BY TxRingAssumption DEF Oldest, None
<1>4. Off \in DrainerType
  BY <1>3 DEF Off, DrainerType
<1>5. drainer \in [Drainers -> DrainerType]
  BY <1>4 DEF TxInit
<1>6. \A d \in Drainers : drainer[d].hand = None /\ drainer[d].pc = "off"
  BY DEF TxInit, Off
<1>7. LiveDrainerIsKeyed /\ HandsOlder /\ SentOlder /\ OneHand
  BY <1>6 DEF LiveDrainerIsKeyed, Draining, HandsOlder, SentOlder, OneHand, TxInit
<1>. QED  BY <1>1, <1>2, <1>3, <1>5, <1>7, TxRingAssumption DEF TxInit, TxIInv, TxScalars

\* The one drainer that moves.
LEMMA DrainerMoved ==
  ASSUME drainer \in [Drainers -> DrainerType], NEW d \in Drainers, NEW r \in DrainerType,
         drainer' = [drainer EXCEPT ![d] = r]
  PROVE  /\ drainer' \in [Drainers -> DrainerType]
         /\ drainer'[d] = r
         /\ \A o \in Drainers \ {d} : drainer'[o] = drainer[o]
  OBVIOUS

\* A step of one drainer by which it takes nothing: hands may empty, rings stay.
LEMMA DrainerRests ==
  ASSUME TxIInv, NEW d \in Drainers, NEW r \in DrainerType,
         drainer' = [drainer EXCEPT ![d] = r],
         r.hand = None, TxScalars', UNCHANGED <<txRing, overlap>>,
         {lastSent'} \subseteq -1..Oldest, SentOlder',
         lastSent' = lastSent \/ (drainer[d].hand # None),
         r.pc # "off" /\ ~r.stop => keyed' /\ txThread' = d,
         \A o \in Drainers \ {d} :
           drainer[o].pc # "off" /\ ~drainer[o].stop => keyed' /\ txThread' = o
  PROVE  TxIInv'
<1>. USE DEF TxIInv
<1>1. /\ drainer' \in [Drainers -> DrainerType]
      /\ drainer'[d] = r
      /\ \A o \in Drainers \ {d} : drainer'[o] = drainer[o]
  BY DrainerMoved
<1>2. Ring(txRing)' /\ Len(txRing') <= TxRingMax
  BY DEF Ring
<1>3. HandsOlder'
  BY <1>1 DEF HandsOlder
<1>4. LiveDrainerIsKeyed'
  BY <1>1 DEF LiveDrainerIsKeyed, Draining
<1>5. OneHand'
  BY <1>1 DEF OneHand
<1>. QED  BY <1>1, <1>2, <1>3, <1>4, <1>5

\* A step that leaves drainers and rings alone.
LEMMA TxQuiet ==
  ASSUME TxIInv, TxScalars', UNCHANGED <<txRing, drainer, lastSent, overlap, keyed, txThread>>
  PROVE  TxIInv' /\ InOrderStep
<1>1. Ring(txRing)'
  BY DEF TxIInv, Ring
<1>2. LiveDrainerIsKeyed'
  BY DEF TxIInv, LiveDrainerIsKeyed, Draining
<1>3. HandsOlder' /\ SentOlder' /\ OneHand'
  BY DEF TxIInv, HandsOlder, SentOlder, OneHand
<1>4. InOrderStep
  BY DEF InOrderStep
<1>. QED  BY <1>1, <1>2, <1>3, <1>4 DEF TxIInv

\* _stop_tx_audio leaves every drainer stopped, whoever unkeys, and the ring as it is or empty.
LEMMA TxStopped ==
  ASSUME TxIInv, TxScalars', drainer' = Stopped,
         txRing' = txRing \/ txRing' = <<>>, UNCHANGED <<lastSent, overlap>>
  PROVE  TxIInv' /\ InOrderStep
<1>. USE DEF TxIInv
<1>1. /\ drainer' \in [Drainers -> DrainerType]
      /\ \A d \in Drainers : /\ drainer'[d].pc = drainer[d].pc
                             /\ drainer'[d].hand = drainer[d].hand
                             /\ drainer'[d].stop = (drainer[d].stop \/ d = txThread)
  <2>1. ASSUME NEW d \in Drainers
        PROVE  /\ Stopped[d] \in DrainerType
               /\ Stopped[d].pc = drainer[d].pc /\ Stopped[d].hand = drainer[d].hand
               /\ Stopped[d].stop = (drainer[d].stop \/ d = txThread)
    <3>1. drainer[d] \in DrainerType
      OBVIOUS
    <3>2. Stopped[d] = IF d = txThread THEN [drainer[d] EXCEPT !.stop = TRUE] ELSE drainer[d]
      BY DEF Stopped
    <3>3. CASE d = txThread
      BY <3>1, <3>2, <3>3 DEF DrainerType
    <3>4. CASE d # txThread
      BY <3>1, <3>2, <3>4 DEF DrainerType
    <3>. QED  BY <3>3, <3>4
  <2>2. Stopped = [d \in Drainers |-> Stopped[d]]
    BY DEF Stopped
  <2>. QED  BY <2>1, <2>2
<1>2. Ring(txRing)' /\ Len(txRing') <= Len(txRing) /\ Len(txRing') \in Nat
  <2>1. Len(txRing) \in Nat
    BY LenProperties DEF Ring
  <2>2. CASE txRing' = txRing
    BY <2>1, <2>2 DEF Ring
  <2>3. CASE txRing' = <<>>
    BY <2>1, <2>3 DEF Ring
  <2>. QED  BY <2>2, <2>3
<1>3. LiveDrainerIsKeyed'
  BY <1>1 DEF LiveDrainerIsKeyed, Draining
<1>4. HandsOlder' /\ SentOlder'
  <2>1. \A d \in Drainers : drainer[d].hand \in Int
    BY DEF DrainerType
  <2>2. Len(txRing) \in Nat
    BY LenProperties DEF Ring
  <2>. QED  BY <1>1, <1>2, <2>1, <2>2 DEF HandsOlder, SentOlder
<1>5. OneHand'
  BY <1>1 DEF OneHand
<1>6. InOrderStep
  BY <1>1 DEF InOrderStep
<1>7. Len(txRing') <= TxRingMax
  <2>1. Len(txRing) \in Nat
    BY LenProperties DEF Ring
  <2>. QED  BY <1>2, <2>1, TxRingAssumption
<1>. QED  BY <1>1, <1>2, <1>3, <1>4, <1>5, <1>6, <1>7

LEMMA TxStepClient ==
  ASSUME TxIInv, Connect \/ DaxCreate \/ PrimeTakes \/ CloseTx \/ Unkey \/ Disconnect \/ CloseDisarm
  PROVE  TxIInv' /\ InOrderStep
<1>1. TxScalars'
  <2>1. {client', daxId', inPrime', keyed', overlap'} \subseteq BOOLEAN
    BY Zenon DEF TxIInv, TxScalars, Connect, DaxCreate, PrimeTakes, CloseTx, Unkey, Disconnect,
                 CloseDisarm, keyVars, clientVars
  <2>2. txLan' \in {"up", "closing", "none"} /\ txThread' \in Drainers \cup {NoThread}
    BY DEF TxIInv, TxScalars, Connect, DaxCreate, PrimeTakes, CloseTx, Unkey, Disconnect,
           CloseDisarm, keyVars, clientVars
  <2>. QED  BY <2>1, <2>2 DEF TxScalars
<1>2. CASE Connect \/ DaxCreate \/ PrimeTakes \/ CloseTx
  <2>1. UNCHANGED <<txRing, drainer, lastSent, overlap, keyed, txThread>>
    BY <1>2 DEF Connect, DaxCreate, PrimeTakes, CloseTx, keyVars, clientVars
  <2>. QED  BY <1>1, <2>1, TxQuiet
<1>3. CASE Unkey \/ Disconnect \/ CloseDisarm
  <2>1. /\ drainer' = Stopped /\ UNCHANGED <<lastSent, overlap>>
        /\ txRing' = txRing \/ txRing' = <<>>
    BY <1>3 DEF Unkey, Disconnect, CloseDisarm
  <2>. QED  BY <1>1, <2>1, TxStopped
<1>. QED  BY <1>2, <1>3

\* An over begins: its drainer is a new one, and no other has been left unstopped.
LEMMA TxStepKey ==
  ASSUME TxIInv, Key
  PROVE  TxIInv' /\ InOrderStep
<1>. USE DEF TxIInv
<1>0. /\ UNCHANGED <<txLan, client, daxId, inPrime, txRing, lastSent, overlap>>
      /\ keyed' = TRUE
  BY DEF Key, clientVars
<1>1. {client', daxId', inPrime', keyed', overlap'} \subseteq BOOLEAN
  BY <1>0, Zenon DEF TxScalars
<1>2. CASE ~ThreadAlive /\ \E d \in Drainers \ Draining :
              txThread' = d /\ drainer' = [drainer EXCEPT ![d] = [Off EXCEPT !.pc = "pull"]]
  <2>1. PICK d \in Drainers \ Draining :
              txThread' = d /\ drainer' = [drainer EXCEPT ![d] = [Off EXCEPT !.pc = "pull"]]
    BY <1>2
  <2>. DEFINE r == [Off EXCEPT !.pc = "pull"]
  <2>2. r \in DrainerType /\ r.hand = None /\ r.pc = "pull"
    <3>1. None \in -1..(Oldest - 1)
      BY TxRingAssumption DEF None, Oldest
    <3>2. Off \in DrainerType /\ Off.hand = None
      BY <3>1 DEF Off, DrainerType
    <3>. QED  BY <3>2 DEF DrainerType
  <2>3. TxScalars'
    BY <1>0, <1>1, <2>1 DEF TxScalars
  <2>4. SentOlder'
    BY <1>0 DEF SentOlder
  <2>5. \A o \in Drainers \ {d} : drainer[o].pc # "off" => drainer[o].stop
    BY <1>2 DEF LiveDrainerIsKeyed, ThreadAlive, Draining
  <2>6. drainer' = [drainer EXCEPT ![d] = r]
    BY <2>1
  <2>. HIDE DEF r
  <2>7. TxIInv'
    BY <1>0, <2>1, <2>2, <2>3, <2>4, <2>5, <2>6, DrainerRests
  <2>8. \A o \in Drainers : drainer[o].pc = "send" => drainer'[o].pc = "send"
    BY <2>1, <2>6, <2>2 DEF Draining
  <2>. QED  BY <2>7, <2>8 DEF InOrderStep
<1>3. CASE UNCHANGED <<txThread, drainer>>
  <2>1. TxScalars'
    BY <1>0, <1>1, <1>3 DEF TxScalars
  <2>2. LiveDrainerIsKeyed'
    BY <1>0, <1>3 DEF LiveDrainerIsKeyed, Draining
  <2>3. Ring(txRing)' /\ HandsOlder' /\ SentOlder' /\ OneHand' /\ InOrderStep
    BY <1>0, <1>3 DEF Ring, HandsOlder, SentOlder, OneHand, InOrderStep
  <2>. QED  BY <1>0, <1>3, <2>1, <2>2, <2>3
<1>. QED  BY <1>2, <1>3 DEF Key

\* A chunk comes in: whatever is in a hand or was sent grows older with the ring.
LEMMA TxStepDecode ==
  ASSUME TxIInv, Decode
  PROVE  TxIInv' /\ InOrderStep
<1>. USE DEF TxIInv
<1>1. TxScalars' /\ UNCHANGED <<keyed, txThread, overlap>>
  <2>1. {client', daxId', inPrime', keyed', overlap'} \subseteq BOOLEAN
    BY Zenon DEF TxScalars, Decode, keyVars
  <2>. QED  BY <2>1 DEF TxScalars, Decode, keyVars
<1>2. CASE UNCHANGED <<txRing, lastSent, drainer>>
  BY <1>1, <1>2, TxQuiet
<1>3. CASE /\ txRing' = Arrived
           /\ lastSent' = Older(lastSent)
           /\ drainer' = [d \in Drainers |-> [drainer[d] EXCEPT !.hand = Older(@)]]
  <2>0. TxRingMax \in Nat \ {0} /\ Len(txRing) \in Nat /\ Len(txRing) <= TxRingMax
        /\ Oldest = TxRingMax + 2 /\ None = -1
    BY TxRingAssumption, LenProperties DEF Ring, Oldest, None
  <2>1. Ring(txRing') /\ Len(txRing') <= TxRingMax /\ Len(txRing') <= Len(txRing) + 1
        /\ Len(txRing') \in Nat
    <3>. DEFINE a == [i \in DOMAIN txRing |-> txRing[i] + 1]
                b == Append(a, 0)
    <3>1. Ring(b) /\ Len(b) = Len(txRing) + 1
      <4>1. /\ a \in Seq(Nat) /\ Len(a) = Len(txRing)
            /\ \A i \in 1..Len(a) : a[i] = Len(a) - i + 1
        BY RingAged
      <4>. HIDE DEF a
      <4>. QED  BY <4>1, RingAppend
    <3>2. txRing' = IF Len(b) > TxRingMax THEN Tail(b) ELSE b
      BY <1>3 DEF Arrived
    <3>. HIDE DEF b
    <3>3. b # <<>>
      BY <2>0, <3>1
    <3>4. Ring(Tail(b)) /\ Len(Tail(b)) = Len(b) - 1
      BY <3>1, <3>3, RingTail
    <3>. QED  BY <2>0, <3>1, <3>2, <3>4
  <2>2. \A d \in Drainers : drainer[d].hand \in -1..(Oldest - 2)
    BY <2>0 DEF Decode, DrainerType
  <2>3. ASSUME NEW d \in Drainers
        PROVE  /\ drainer'[d] \in DrainerType
               /\ drainer'[d].pc = drainer[d].pc /\ drainer'[d].stop = drainer[d].stop
               /\ drainer'[d].hand = IF drainer[d].hand = None THEN None ELSE drainer[d].hand + 1
    <3>1. drainer'[d] = [drainer[d] EXCEPT !.hand = Older(@)] /\ drainer[d] \in DrainerType
      BY <1>3
    <3>2. Older(drainer[d].hand) = IF drainer[d].hand = None THEN None ELSE drainer[d].hand + 1
      BY <2>0, <2>2 DEF Older
    <3>3. Older(drainer[d].hand) \in -1..(Oldest - 1)
      BY <2>0, <2>2, <3>2
    <3>. QED  BY <3>1, <3>2, <3>3 DEF DrainerType
  <2>4. drainer' \in [Drainers -> DrainerType]
    <3>1. drainer' = [d \in Drainers |-> drainer'[d]]
      BY <1>3
    <3>. QED  BY <2>3, <3>1
  <2>5. /\ lastSent' = IF lastSent = None \/ lastSent = Oldest THEN lastSent ELSE lastSent + 1
        /\ {lastSent, lastSent'} \subseteq -1..Oldest
    BY <1>3, <2>0 DEF Older
  <2>6. HandsOlder'
    BY <2>0, <2>1, <2>2, <2>3 DEF HandsOlder
  <2>7. SentOlder'
    BY <2>0, <2>1, <2>5 DEF SentOlder
  <2>8. LiveDrainerIsKeyed'
    BY <1>1, <2>3 DEF LiveDrainerIsKeyed, Draining
  <2>9. OneHand'
    <3>. SUFFICES ASSUME ~overlap, NEW d \in Drainers, drainer'[d].hand # None
                  PROVE  /\ \A o \in Drainers \ {d} : drainer'[o].hand = None
                         /\ lastSent' = None \/ drainer'[d].hand < lastSent'
      BY <1>1 DEF OneHand
    <3>1. drainer[d].hand # None
      BY <2>3
    <3>2. /\ \A o \in Drainers \ {d} : drainer[o].hand = None
          /\ lastSent = None \/ drainer[d].hand < lastSent
      BY <3>1 DEF OneHand
    <3>3. \A o \in Drainers \ {d} : drainer'[o].hand = None
      BY <2>3, <3>2
    <3>4. drainer'[d].hand = drainer[d].hand + 1 /\ drainer[d].hand \in -1..(Oldest - 2)
      BY <2>2, <2>3, <3>1
    <3>5. lastSent' = None \/ drainer'[d].hand < lastSent'
      BY <2>0, <2>5, <3>2, <3>4
    <3>. QED  BY <3>3, <3>5
  <2>10. InOrderStep
    BY <2>3 DEF InOrderStep
  <2>. QED  BY <1>1, <2>1, <2>4, <2>5, <2>6, <2>7, <2>8, <2>9, <2>10
<1>. QED  BY <1>2, <1>3 DEF Decode

LEMMA TxStepDrain ==
  ASSUME TxIInv, NEW d \in Drainers, Drain(d) \/ GraceOver(d)
  PROVE  TxIInv' /\ InOrderStep
<1>. USE DEF TxIInv
<1>0. /\ TxRingMax \in Nat \ {0} /\ Len(txRing) \in Nat /\ Len(txRing) <= TxRingMax
      /\ Oldest = TxRingMax + 2 /\ None = -1
      /\ drainer[d] \in DrainerType
  BY TxRingAssumption, LenProperties DEF Ring, Oldest, None
<1>1. CASE Pull(d)
  <2>. DEFINE h == Head(txRing)
              r == [drainer[d] EXCEPT !.pc = "send", !.grace = "none", !.hand = h]
  <2>1. /\ Ring(txRing') /\ Len(txRing') = Len(txRing) - 1 /\ h = Len(txRing) - 1
        /\ Len(txRing) \in Nat \ {0}
    BY <1>1, RingTail DEF Pull
  <2>2. r \in DrainerType /\ r.hand = h /\ r.stop = drainer[d].stop /\ r.pc = "send"
    <3>1. h \in -1..(Oldest - 1)
      BY <1>0, <2>1
    <3>. HIDE DEF h
    <3>. QED  BY <1>0, <3>1 DEF DrainerType
  <2>3. drainer' = [drainer EXCEPT ![d] = r] /\ UNCHANGED <<lastSent, keyed, txThread>>
        /\ overlap' = (Held(d) # {}) /\ drainer[d].pc = "pull"
    BY <1>1 DEF Pull, keyVars
  <2>. HIDE DEF r
  <2>4. /\ drainer' \in [Drainers -> DrainerType] /\ drainer'[d] = r
        /\ \A o \in Drainers \ {d} : drainer'[o] = drainer[o]
    BY <2>2, <2>3, DrainerMoved
  <2>. HIDE DEF h
  <2>5. TxScalars'
    <3>1. {client', daxId', inPrime', keyed', overlap'} \subseteq BOOLEAN
      <4>1. overlap' \in BOOLEAN
        BY <2>3
      <4>2. {client', daxId', inPrime', keyed'} \subseteq BOOLEAN
        BY <1>1, Zenon DEF Pull, TxScalars, keyVars, clientVars
      <4>. QED  BY <4>1, <4>2
    <3>. QED  BY <1>1, <3>1 DEF TxScalars, Pull, keyVars, clientVars
  <2>6. HandsOlder'
    <3>1. \A o \in Drainers : drainer[o].hand \in Int
      BY DEF DrainerType
    <3>. QED  BY <1>0, <2>1, <2>2, <2>4, <3>1 DEF HandsOlder
  <2>7. SentOlder'
    BY <1>0, <2>1, <2>3 DEF SentOlder
  <2>8. LiveDrainerIsKeyed'
    BY <2>2, <2>3, <2>4 DEF LiveDrainerIsKeyed, Draining
  <2>9. OneHand'
    <3>. SUFFICES ASSUME ~overlap', NEW e \in Drainers, drainer'[e].hand # None
                  PROVE  /\ \A o \in Drainers \ {e} : drainer'[o].hand = None
                         /\ lastSent' = None \/ drainer'[e].hand < lastSent'
      BY DEF OneHand
    <3>1. \A o \in Drainers \ {d} : drainer'[o].hand = None
      BY <2>3, <2>4 DEF Held
    <3>2. e = d
      BY <3>1
    <3>3. lastSent = None \/ Len(txRing) - 1 < lastSent
      BY <1>0 DEF SentOlder
    <3>. QED  BY <2>1, <2>2, <2>3, <2>4, <3>1, <3>2, <3>3
  <2>10. InOrderStep
    BY <2>2, <2>3, <2>4 DEF InOrderStep
  <2>. QED  BY <1>0, <2>1, <2>3, <2>4, <2>5, <2>6, <2>7, <2>8, <2>9, <2>10
<1>2. CASE SendAudio(d)
  <2>. DEFINE r == [drainer[d] EXCEPT !.pc = "pull", !.hand = None]
  <2>1. r \in DrainerType /\ r.hand = None /\ r.stop = drainer[d].stop
    <3>1. None \in -1..(Oldest - 1)
      BY <1>0
    <3>. QED  BY <1>0, <3>1 DEF DrainerType
  <2>2. drainer' = [drainer EXCEPT ![d] = r]
        /\ UNCHANGED <<keyed, txThread, txRing, overlap>> /\ drainer[d].pc = "send"
        /\ (lastSent' = lastSent \/ lastSent' = drainer[d].hand)
    BY <1>2 DEF SendAudio, keyVars
  <2>. HIDE DEF r
  <2>3. TxScalars'
    <3>1. {client', daxId', inPrime', keyed', overlap'} \subseteq BOOLEAN
      BY <1>2, Zenon DEF SendAudio, TxScalars, keyVars, clientVars
    <3>. QED  BY <1>2, <3>1 DEF TxScalars, SendAudio, keyVars, clientVars
  <2>4. {lastSent'} \subseteq -1..Oldest
    BY <1>0, <2>2 DEF DrainerType
  <2>5. SentOlder'
    BY <2>2 DEF SentOlder, HandsOlder
  <2>6. /\ drainer' \in [Drainers -> DrainerType] /\ drainer'[d] = r
        /\ \A o \in Drainers \ {d} : drainer'[o] = drainer[o]
    BY <2>1, <2>2, DrainerMoved
  <2>7. HandsOlder' /\ LiveDrainerIsKeyed'
    BY <2>1, <2>2, <2>6 DEF HandsOlder, LiveDrainerIsKeyed, Draining
  <2>8. OneHand'
    <3>1. CASE drainer[d].hand = None
      <4>1. lastSent' = lastSent \/ lastSent' = None
        BY <2>2, <3>1
      <4>. QED  BY <2>1, <2>2, <2>6, <4>1 DEF OneHand
    <3>2. CASE drainer[d].hand # None
      BY <2>1, <2>2, <2>6, <3>2 DEF OneHand
    <3>. QED  BY <3>1, <3>2
  <2>9. InOrderStep
    <3>1. lastSent = None \/ drainer[d].hand < lastSent \/ overlap
      <4>1. CASE drainer[d].hand = None
        BY <1>0, <4>1 DEF SentOlder
      <4>2. CASE drainer[d].hand # None
        BY <4>2 DEF OneHand
      <4>. QED  BY <4>1, <4>2
    <3>2. \A o \in Drainers \ {d} : ~(drainer[o].pc = "send" /\ drainer'[o].pc = "pull")
      BY <2>6
    <3>. QED  BY <3>1, <3>2 DEF InOrderStep
  <2>10. Ring(txRing)' /\ Len(txRing') <= TxRingMax
    BY <2>2 DEF Ring
  <2>. QED  BY <2>3, <2>4, <2>5, <2>6, <2>7, <2>8, <2>9, <2>10
<1>3. CASE Dry(d) \/ GraceOver(d)
  <2>. DEFINE r == IF GraceOver(d) THEN [drainer[d] EXCEPT !.grace = "over"]
                   ELSE IF drainer[d].grace = "none" THEN [drainer[d] EXCEPT !.grace = "running"]
                   ELSE Off
  <2>1. drainer' = [drainer EXCEPT ![d] = r]
    BY <1>3 DEF Dry, GraceOver
  <2>2. r \in DrainerType /\ (r.hand = drainer[d].hand \/ r.hand = None)
        /\ ((r.pc = drainer[d].pc /\ r.stop = drainer[d].stop) \/ r.pc = "off")
    BY <1>0 DEF DrainerType, Off
  <2>. HIDE DEF r
  <2>3. UNCHANGED <<keyed, txThread, txRing, overlap, lastSent>>
    BY <1>3 DEF Dry, GraceOver, keyVars
  <2>4. TxScalars'
    <3>1. {client', daxId', inPrime', keyed', overlap'} \subseteq BOOLEAN
      BY <1>3, Zenon DEF Dry, GraceOver, TxScalars, keyVars, clientVars
    <3>. QED  BY <1>3, <3>1 DEF TxScalars, Dry, GraceOver, keyVars, clientVars
  <2>5. /\ drainer' \in [Drainers -> DrainerType] /\ drainer'[d] = r
        /\ \A o \in Drainers \ {d} : drainer'[o] = drainer[o]
    BY <2>1, <2>2, DrainerMoved
  <2>6. HandsOlder' /\ LiveDrainerIsKeyed' /\ SentOlder'
    BY <2>2, <2>3, <2>5 DEF HandsOlder, SentOlder, LiveDrainerIsKeyed, Draining
  <2>7. OneHand'
    BY <2>2, <2>3, <2>5 DEF OneHand
  <2>8. InOrderStep
    BY <2>2, <2>5 DEF InOrderStep
  <2>9. Ring(txRing)' /\ Len(txRing') <= TxRingMax
    BY <2>3 DEF Ring
  <2>. QED  BY <2>3, <2>4, <2>5, <2>6, <2>7, <2>8, <2>9
<1>. QED  BY <1>1, <1>2, <1>3 DEF Drain

LEMMA TxStep ==
  ASSUME TxIInv, TxAudioNext
  PROVE  TxIInv' /\ InOrderStep
BY TxStepClient, TxStepKey, TxStepDecode, TxStepDrain DEF TxAudioNext, Drains, Graces

LEMMA TxIInvImplies == TxIInv => TxAudioTypeOK /\ LiveDrainerIsKeyed
  BY DEF TxIInv, TxScalars, TxAudioTypeOK, DrainerType

-----------------------------------------------------------------------------
(* TxSeqBuf: the buffer is a window of numbers that ends before the next.  *)

Entry == [seq : Numbers, by : Senders, old : BOOLEAN]

Top == IF sendSeq = 0 THEN SeqSpan ELSE sendSeq

\* A run of numbers that ends just before top.
Window(buf, top) == \A i \in 1..Len(buf) : buf[i].seq = top - Len(buf) + i - 1

Packets(buf) == {[seq |-> buf[i].seq, by |-> buf[i].by] : i \in 1..Len(buf)}

Known == (Stored \cup {held[s] : s \in Senders} \cup {found}) \ {Nothing, NotAvailable}

SeqScalars ==
  /\ sendSeq \in Numbers
  /\ ask \in AskLists \cup {<<>>} /\ {listed, idleDue} \subseteq BOOLEAN
  /\ txOpen \in {"open", "bye", "closed"}

Holders == held \in [Senders -> Packet \cup {Nothing}]
           /\ found \in Packet \cup {Nothing, NotAvailable}

SeqIInv ==
  /\ SeqScalars /\ Holders
  /\ txBuf \in Seq(Entry) /\ Len(txBuf) <= BufSize + 1 /\ Window(txBuf, Top)
  /\ OneNumberOnePacket

LEMMA SeqConstants == BufSize \in Nat /\ SeqSpan \in Nat /\ 1 < SeqSpan /\ SeqSpan \notin Numbers
                      /\ MaxAsk \in Nat
  BY SeqBufAssumption DEF Numbers

LEMMA StoredIs ==
  ASSUME txBuf \in Seq(Entry)
  PROVE  Stored = Packets(txBuf) /\ Stored \subseteq Packet /\ Len(txBuf) \in Nat
<1>1. DOMAIN txBuf = 1..Len(txBuf) /\ Len(txBuf) \in Nat
  BY LenProperties
<1>2. \A i \in 1..Len(txBuf) : txBuf[i] \in Entry
  BY ElementOfSeq
<1>. QED  BY <1>1, <1>2 DEF Stored, Packets, Packet, Entry

LEMMA OneNumberIs == OneNumberOnePacket <=> \A p, q \in Known : p.seq = q.seq => p = q
  BY DEF OneNumberOnePacket, Known

\* Fewer packets known: their numbers stay apart.
LEMMA FewerKnown ==
  ASSUME OneNumberOnePacket, Known' \subseteq Known
  PROVE  OneNumberOnePacket'
<1>1. \A p, q \in Known : p.seq = q.seq => p = q
  BY OneNumberIs
<1>2. \A p, q \in Known' : p.seq = q.seq => p = q
  BY <1>1
<1>. QED  BY <1>2 DEF OneNumberOnePacket, Known

LEMMA SeqInitOK == SeqInit => SeqIInv
<1>. SUFFICES ASSUME SeqInit PROVE SeqIInv  OBVIOUS
<1>1. SeqScalars
  <2>1. {listed, idleDue} \subseteq BOOLEAN
    BY Zenon DEF SeqInit
  <2>. QED  BY <2>1, SeqConstants DEF SeqInit, SeqScalars, Numbers
<1>2. Holders
  BY DEF SeqInit, Holders
<1>3. txBuf \in Seq(Entry) /\ Len(txBuf) = 0
  BY DEF SeqInit
<1>4. OneNumberOnePacket
  <2>1. Stored = {}
    BY <1>3, StoredIs DEF Packets
  <2>2. Known = {}
    BY <2>1 DEF Known, SeqInit
  <2>. QED  BY <2>2, OneNumberIs
<1>. QED  BY <1>1, <1>2, <1>3, <1>4, SeqConstants DEF SeqIInv, Window

\* The reader, the timers and stop(): the buffer, the counter and the senders stay.
LEMMA SeqQuiet ==
  ASSUME SeqIInv, SeqScalars', UNCHANGED <<sendSeq, held, txBuf>>,
         found' \in Packet \cup {Nothing, NotAvailable},
         found' \in {found, Nothing, NotAvailable} \cup Stored
  PROVE  SeqIInv'
<1>. USE DEF SeqIInv
<1>1. Holders'
  BY DEF Holders
<1>2. Window(txBuf, Top)'
  BY DEF Window, Top
<1>3. Known' \subseteq Known
  <2>1. Stored' = Stored
    BY DEF Stored
  <2>. QED  BY <2>1 DEF Known
<1>4. OneNumberOnePacket'
  BY <1>3, FewerKnown
<1>. QED  BY <1>1, <1>2, <1>4

LEMMA AskRest ==
  ASSUME ask \in AskLists, ask # <<>>
  PROVE  Tail(ask) \in AskLists \cup {<<>>}
<1>1. PICK n \in 1..MaxAsk : ask \in [1..n -> Numbers]
  BY DEF AskLists
<1>2. MaxAsk \in Nat /\ n \in Nat
  BY SeqConstants
<1>3. ask \in Seq(Numbers) /\ Len(ask) = n
  BY <1>1, <1>2
<1>4. Tail(ask) \in Seq(Numbers) /\ Len(Tail(ask)) = n - 1
  BY <1>3, HeadTailProperties
<1>5. Tail(ask) \in [1..(n - 1) -> Numbers]
  BY <1>4, LenProperties
<1>6. CASE n = 1
  BY <1>3, <1>4, <1>6, EmptySeq
<1>7. CASE n # 1
  <2>1. n - 1 \in 1..MaxAsk
    BY <1>2, <1>7
  <2>. QED  BY <1>5, <2>1 DEF AskLists
<1>. QED  BY <1>6, <1>7

LEMMA SeqStepQuiet ==
  ASSUME SeqIInv, IdleTimer \/ RadioAsks \/ LookUp \/ Resend \/ StopBye \/ StopSocket
  PROVE  SeqIInv'
<1>. USE DEF SeqIInv
<1>1. UNCHANGED <<sendSeq, held, txBuf>>
  BY DEF IdleTimer, RadioAsks, LookUp, Resend, StopBye, StopSocket
<1>2. found' \in {found, Nothing, NotAvailable} \cup Stored
  BY DEF IdleTimer, RadioAsks, LookUp, Resend, StopBye, StopSocket
<1>3. found' \in Packet \cup {Nothing, NotAvailable}
  BY <1>2, StoredIs DEF Holders
<1>4. ask' \in AskLists \cup {<<>>}
  <2>1. CASE LookUp
    BY <2>1, AskRest DEF LookUp, SeqScalars
  <2>2. CASE ~LookUp
    BY <2>2 DEF IdleTimer, RadioAsks, Resend, StopBye, StopSocket, SeqScalars
  <2>. QED  BY <2>1, <2>2
<1>5. {listed', idleDue'} \subseteq BOOLEAN
  <2>1. listed' \in BOOLEAN
    <3>1. listed' = listed \/ listed' = TRUE \/ listed' = (Len(ask') > 1)
      BY DEF IdleTimer, RadioAsks, LookUp, Resend, StopBye, StopSocket
    <3>2. (Len(ask') > 1) \in BOOLEAN
      OBVIOUS
    <3>3. listed \in BOOLEAN
      BY Zenon DEF SeqScalars
    <3>. QED  BY <3>1, <3>2, <3>3, Zenon
  <2>2. idleDue' \in BOOLEAN
    BY Zenon DEF SeqScalars, IdleTimer, RadioAsks, LookUp, Resend, StopBye, StopSocket
  <2>. QED  BY <2>1, <2>2
<1>6. txOpen' \in {"open", "bye", "closed"}
  BY DEF SeqScalars, IdleTimer, RadioAsks, LookUp, Resend, StopBye, StopSocket
<1>7. SeqScalars'
  BY <1>1, <1>4, <1>5, <1>6 DEF SeqScalars
<1>. QED  BY <1>1, <1>2, <1>3, <1>7, SeqQuiet

\* Time passes over the buffer: no packet changes but for its age.
LEMMA SeqStepAge ==
  ASSUME SeqIInv, Age
  PROVE  SeqIInv'
<1>. USE DEF SeqIInv
<1>1. /\ DOMAIN txBuf = 1..Len(txBuf) /\ Len(txBuf) \in Nat
      /\ \A i \in 1..Len(txBuf) : txBuf[i] \in Entry
  BY LenProperties, ElementOfSeq
<1>2. txBuf' = [i \in 1..Len(txBuf) |-> [txBuf[i] EXCEPT !.old = TRUE]]
  BY <1>1 DEF Age
<1>3. \A i \in 1..Len(txBuf) :
        /\ txBuf'[i] \in Entry
        /\ txBuf'[i].seq = txBuf[i].seq /\ txBuf'[i].by = txBuf[i].by
  BY <1>1, <1>2 DEF Entry
<1>4. txBuf' \in Seq(Entry) /\ Len(txBuf') = Len(txBuf)
  BY <1>1, <1>2, <1>3
<1>5. UNCHANGED <<sendSeq, held, ask, listed, found, idleDue, txOpen>>
  BY DEF Age
<1>6. Window(txBuf, Top)'
  BY <1>1, <1>3, <1>4, <1>5 DEF Window, Top
<1>7. Known' \subseteq Known
  <2>1. Stored' = Packets(txBuf')
    <3>1. DOMAIN txBuf' = 1..Len(txBuf')
      BY <1>4, LenProperties
    <3>. QED  BY <3>1 DEF Stored, Packets
  <2>2. Packets(txBuf') = Packets(txBuf)
    BY <1>3, <1>4 DEF Packets
  <2>3. Stored' = Stored
    BY <2>1, <2>2, StoredIs
  <2>. QED  BY <1>5, <2>3 DEF Known
<1>8. SeqScalars' /\ Holders'
  BY <1>5 DEF SeqScalars, Holders
<1>9. OneNumberOnePacket'
  BY <1>7, FewerKnown
<1>. QED  BY <1>4, <1>6, <1>8, <1>9

LEMMA NextNumber ==
  ASSUME NEW n \in Numbers
  PROVE  (n + 1) % SeqSpan = IF n + 1 = SeqSpan THEN 0 ELSE n + 1
<1>1. SeqSpan \in Nat \ {0} /\ n \in 0..(SeqSpan - 1)
  BY SeqConstants DEF Numbers
<1>2. CASE n + 1 = SeqSpan
  BY <1>1, <1>2, SMTT(30)
<1>3. CASE n + 1 # SeqSpan
  <2>1. n + 1 \in 0..(SeqSpan - 1)
    BY <1>1, <1>3
  <2>. QED  BY <1>1, <1>3, <2>1, SMTT(30)
<1>. QED  BY <1>2, <1>3

\* What is left of the buffer before a packet is put in it: a window, of packets it had.
LEMMA KeptIs ==
  ASSUME SeqIInv
  PROVE  LET k == Kept(sendSeq) IN
           /\ k \in Seq(Entry) /\ Len(k) \in 0..BufSize
           /\ \A i \in 1..Len(k) : k[i].seq = sendSeq - Len(k) + i - 1
           /\ Packets(k) \subseteq Stored
<1>. USE DEF SeqIInv
<1>. DEFINE k == Kept(sendSeq)
<1>1. Stored = Packets(txBuf) /\ Len(txBuf) \in Nat /\ BufSize \in Nat /\ sendSeq \in Numbers
  BY StoredIs, SeqConstants DEF SeqScalars
<1>2. CASE sendSeq = 0
  BY <1>1, <1>2 DEF Kept, Packets
<1>3. CASE sendSeq # 0 /\ Len(txBuf) <= BufSize
  BY <1>1, <1>3 DEF Kept, Window, Top
<1>4. CASE sendSeq # 0 /\ Len(txBuf) > BufSize
  <2>1. k = Tail(txBuf) /\ txBuf # <<>>
    BY <1>1, <1>4 DEF Kept
  <2>2. /\ k \in Seq(Entry) /\ Len(k) = Len(txBuf) - 1
        /\ \A i \in 1..Len(k) : k[i] = txBuf[i + 1]
    BY <2>1, HeadTailProperties
  <2>. HIDE DEF k
  <2>3. \A i \in 1..Len(k) : i + 1 \in 1..Len(txBuf)
    BY <1>1, <2>2
  <2>4. \A i \in 1..Len(k) : k[i].seq = sendSeq - Len(k) + i - 1
    <3>. SUFFICES ASSUME NEW i \in 1..Len(k) PROVE k[i].seq = sendSeq - Len(k) + i - 1
      OBVIOUS
    <3>1. txBuf[i + 1].seq = sendSeq - Len(txBuf) + (i + 1) - 1
      BY <1>4, <2>3 DEF Window, Top
    <3>2. sendSeq \in Int /\ i \in Int
      BY <1>1 DEF Numbers
    <3>. QED  BY <1>1, <2>2, <3>1, <3>2
  <2>5. Packets(k) \subseteq Stored
    BY <1>1, <2>2, <2>3 DEF Packets
  <2>6. Len(k) \in 0..BufSize
    BY <1>1, <1>4, <2>2
  <2>. QED  BY <2>2, <2>4, <2>5, <2>6 DEF k
<1>. QED  BY <1>2, <1>3, <1>4, <1>1

\* A packet takes a number no packet of the window, of a sender or of the reader has.
LEMMA SeqStepStamp ==
  ASSUME SeqIInv, NEW s \in Senders, Stamp(s)
  PROVE  SeqIInv'
<1>. USE DEF SeqIInv
<1>. DEFINE k == Kept(sendSeq)
            e == [seq |-> sendSeq, by |-> s, old |-> FALSE]
            p == [seq |-> sendSeq, by |-> s]
<1>1. /\ k \in Seq(Entry) /\ Len(k) \in 0..BufSize
      /\ \A i \in 1..Len(k) : k[i].seq = sendSeq - Len(k) + i - 1
      /\ Packets(k) \subseteq Stored
  BY KeptIs
<1>2. sendSeq \in Numbers /\ BufSize \in Nat /\ SeqSpan \in Nat
  BY SeqConstants DEF SeqScalars
<1>3. e \in Entry /\ p \in Packet
  BY <1>2 DEF Entry, Packet
<1>4. /\ txBuf' = Append(k, e) /\ held' = [held EXCEPT ![s] = p]
      /\ sendSeq' = (sendSeq + 1) % SeqSpan
      /\ UNCHANGED <<ask, listed, found, idleDue, txOpen>>
      /\ sendSeq \notin {held[o].seq : o \in Senders} \cup {found.seq}
  BY DEF Stamp
<1>. HIDE DEF k
<1>5. /\ Len(k) \in Nat /\ txBuf' \in Seq(Entry) /\ Len(txBuf') = Len(k) + 1
      /\ \A i \in 1..Len(k) : txBuf'[i] = k[i]
      /\ txBuf'[Len(k) + 1] = e
  <2>. HIDE DEF e
  <2>. QED  BY <1>1, <1>3, <1>4, AppendProperties
<1>6. Top' = sendSeq + 1 /\ sendSeq' \in Numbers
  BY <1>2, <1>4, NextNumber DEF Top, Numbers
<1>7. Window(txBuf, Top)'
  <2>0. sendSeq \in Int
    BY <1>2 DEF Numbers
  <2>1. ASSUME NEW i \in 1..(Len(k) + 1)
        PROVE  txBuf'[i].seq = sendSeq + 1 - (Len(k) + 1) + i - 1
    <3>1. CASE i \in 1..Len(k)
      <4>1. txBuf'[i] = k[i]
        BY <1>5, <3>1
      <4>2. k[i].seq = sendSeq - Len(k) + i - 1
        BY <1>1, <3>1
      <4>3. Len(k) \in Int /\ i \in Int
        BY <1>5
      <4>. QED  BY <2>0, <4>1, <4>2, <4>3
    <3>2. CASE i = Len(k) + 1
      <4>1. txBuf'[i].seq = sendSeq
        BY <1>5, <3>2
      <4>2. Len(k) \in Int
        BY <1>5
      <4>. QED  BY <2>0, <3>2, <4>1, <4>2
    <3>. QED  BY <1>5, <3>1, <3>2
  <2>2. (IF sendSeq' = 0 THEN SeqSpan ELSE sendSeq') = sendSeq + 1
    BY <1>6 DEF Top
  <2>3. \A i \in 1..(Len(k) + 1) :
          txBuf'[i].seq = (IF sendSeq' = 0 THEN SeqSpan ELSE sendSeq') - (Len(k) + 1) + i - 1
    <3>1. Len(k) \in Int
      BY <1>5
    <3>. QED  BY <2>0, <2>1, <2>2, <3>1
  <2>4. Len(txBuf') = Len(k) + 1
    BY <1>5
  <2>. QED  BY <2>3, <2>4 DEF Window, Top
<1>8. Stored' \subseteq Packets(k) \cup {p}
  <2>1. Stored' = Packets(txBuf')
    <3>1. DOMAIN txBuf' = 1..Len(txBuf')
      BY <1>5, LenProperties
    <3>. QED  BY <3>1 DEF Stored, Packets
  <2>2. Packets(txBuf') \subseteq Packets(k) \cup {p}
    <3>. SUFFICES ASSUME NEW i \in 1..(Len(k) + 1)
                  PROVE  [seq |-> txBuf'[i].seq, by |-> txBuf'[i].by] \in Packets(k) \cup {p}
      BY <1>5 DEF Packets
    <3>1. CASE i \in 1..Len(k)
      BY <1>5, <3>1 DEF Packets
    <3>2. CASE i = Len(k) + 1
      BY <1>5, <3>2
    <3>. QED  BY <1>5, <3>1, <3>2
  <2>. QED  BY <2>1, <2>2
<1>9. Holders'
  BY <1>3, <1>4 DEF Holders
<1>10. \A q \in Known' : q = p \/ q \in Known
  <2>1. \A o \in Senders : held'[o] = p \/ held'[o] = held[o]
    BY <1>4 DEF Holders
  <2>. QED  BY <1>1, <1>4, <1>8, <2>1 DEF Known
<1>11. \A q \in Known' \ {p} : q.seq # sendSeq
  <2>. SUFFICES ASSUME NEW q \in Known', q # p PROVE q.seq # sendSeq
    OBVIOUS
  <2>1. CASE q \in Packets(k)
    <3>1. PICK i \in 1..Len(k) : q = [seq |-> k[i].seq, by |-> k[i].by]
      BY <2>1 DEF Packets
    <3>2. q.seq = sendSeq - Len(k) + i - 1
      BY <1>1, <3>1
    <3>3. sendSeq \in Int
      BY <1>2 DEF Numbers
    <3>. QED  BY <1>5, <3>2, <3>3
  <2>2. CASE q = found
    BY <1>4, <2>2
  <2>3. CASE \E o \in Senders : q = held[o]
    BY <1>4, <2>3
  <2>4. q \in Packets(k) \/ q = found \/ \E o \in Senders : q = held[o]
    <3>1. \A o \in Senders : held'[o] = p \/ held'[o] = held[o]
      BY <1>4 DEF Holders
    <3>. QED  BY <1>4, <1>8, <3>1 DEF Known
  <2>. QED  BY <2>1, <2>2, <2>3, <2>4
<1>12. \A q, r \in Known' : q.seq = r.seq => q = r
  <2>1. \A q, r \in Known : q.seq = r.seq => q = r
    BY OneNumberIs
  <2>2. p.seq = sendSeq
    OBVIOUS
  <2>. HIDE DEF p
  <2>. QED  BY <1>10, <1>11, <2>1, <2>2, Zenon
<1>13. OneNumberOnePacket'
  BY <1>12 DEF OneNumberOnePacket, Known
<1>14. SeqScalars'
  BY <1>4, <1>6 DEF SeqScalars
<1>. QED  BY <1>1, <1>2, <1>5, <1>7, <1>9, <1>13, <1>14

\* The purge stops at the first packet that is fresh, or at the end.
LEMMA PurgedIs ==
  ASSUME txBuf \in Seq(Entry)
  PROVE  Purged \in 0..Len(txBuf)
<1>. DEFINE S == {n \in 0..Len(txBuf) : n < Len(txBuf) => ~txBuf[n + 1].old}
<1>1. Len(txBuf) \in Nat /\ Len(txBuf) \in S /\ S \subseteq Nat
  BY LenProperties
<1>2. PICK n \in S : \A m \in S : ~ (<<m, n>> \in OpToRel(<, Nat))
  <2>. HIDE DEF S
  <2>. QED  BY <1>1, NatLessThanWellFounded, WFMin
<1>3. \A i \in 1..n : txBuf[i].old
  <2>. SUFFICES ASSUME NEW i \in 1..n, ~txBuf[i].old PROVE FALSE
    OBVIOUS
  <2>1. n \in 0..Len(txBuf) /\ i - 1 \in 0..Len(txBuf) /\ (i - 1) + 1 = i /\ i - 1 < n
    BY <1>1
  <2>2. i - 1 \in S
    BY <2>1
  <2>3. <<i - 1, n>> \in OpToRel(<, Nat)
    BY <1>1, <2>1 DEF OpToRel
  <2>. QED  BY <1>2, <2>2, <2>3
<1>4. \E m \in 0..Len(txBuf) : /\ \A i \in 1..m : txBuf[i].old
                               /\ m < Len(txBuf) => ~txBuf[m + 1].old
  BY <1>2, <1>3
<1>. QED  BY <1>4 DEF Purged

LEMMA FreshIs ==
  ASSUME SeqIInv
  PROVE  /\ Fresh \in Seq(Entry) /\ Len(Fresh) \in Nat /\ Len(Fresh) <= Len(txBuf)
         /\ Window(Fresh, Top) /\ Packets(Fresh) \subseteq Stored
<1>. USE DEF SeqIInv
<1>. DEFINE n == Purged
            L == Len(txBuf)
<1>1. n \in 0..L /\ L \in Nat /\ Stored = Packets(txBuf)
  BY PurgedIs, StoredIs
<1>2. \A i \in (n + 1)..L : txBuf[i] \in Entry
  BY <1>1, ElementOfSeq
<1>3. Fresh = SubSeq(txBuf, n + 1, L)
  BY DEF Fresh
<1>. HIDE DEF n
<1>4. /\ Fresh \in Seq(Entry)
      /\ Len(Fresh) = IF n + 1 <= L THEN L - (n + 1) + 1 ELSE 0
      /\ \A i \in 1..(L - (n + 1) + 1) : Fresh[i] = txBuf[n + 1 + i - 1]
  BY <1>1, <1>2, <1>3, SubSeqProperties
<1>5. Len(Fresh) = L - n
  BY <1>1, <1>4
<1>6. \A i \in 1..(L - n) : Fresh[i] = txBuf[n + i] /\ n + i \in 1..L
  BY <1>1, <1>4
<1>7. Window(Fresh, Top)
  <2>. SUFFICES ASSUME NEW i \in 1..(L - n)
                PROVE  Fresh[i].seq = Top - (L - n) + i - 1
    BY <1>5 DEF Window
  <2>1. txBuf[n + i].seq = Top - L + (n + i) - 1
    BY <1>6 DEF Window
  <2>2. Top \in Int
    BY SeqConstants DEF Top, SeqScalars, Numbers
  <2>. QED  BY <1>1, <1>6, <2>1, <2>2
<1>8. Packets(Fresh) \subseteq Stored
  BY <1>1, <1>5, <1>6 DEF Packets
<1>. QED  BY <1>1, <1>4, <1>5, <1>7, <1>8

LEMMA SeqStepWriteOut ==
  ASSUME SeqIInv, NEW s \in Senders, WriteOut(s)
  PROVE  SeqIInv'
<1>. USE DEF SeqIInv
<1>1. /\ txBuf' = Fresh /\ held' = [held EXCEPT ![s] = Nothing] /\ idleDue' = FALSE
      /\ UNCHANGED <<sendSeq, ask, listed, found, txOpen>>
  BY DEF WriteOut
<1>2. /\ Fresh \in Seq(Entry) /\ Len(Fresh) \in Nat /\ Len(Fresh) <= Len(txBuf)
      /\ Window(Fresh, Top) /\ Packets(Fresh) \subseteq Stored
  BY FreshIs
<1>3. Stored' \subseteq Stored
  <2>1. DOMAIN Fresh = 1..Len(Fresh)
    BY <1>2, LenProperties
  <2>. QED  BY <1>1, <1>2, <2>1 DEF Stored, Packets
<1>4. Known' \subseteq Known
  <2>1. \A o \in Senders : held'[o] = Nothing \/ held'[o] = held[o]
    BY <1>1 DEF Holders
  <2>. QED  BY <1>1, <1>3, <2>1 DEF Known
<1>5. OneNumberOnePacket'
  BY <1>4, FewerKnown
<1>6. Window(txBuf, Top)'
  BY <1>1, <1>2 DEF Window, Top
<1>7. Holders'
  BY <1>1 DEF Holders
<1>8. SeqScalars'
  <2>1. {listed', idleDue'} \subseteq BOOLEAN
    BY <1>1, Zenon DEF SeqScalars
  <2>. QED  BY <1>1, <2>1 DEF SeqScalars
<1>9. Len(txBuf') <= BufSize + 1
  BY <1>1, <1>2, StoredIs, SeqConstants
<1>. QED  BY <1>1, <1>2, <1>5, <1>6, <1>7, <1>8, <1>9

LEMMA SeqStep ==
  ASSUME SeqIInv, TxNext
  PROVE  SeqIInv'
BY SeqStepStamp, SeqStepWriteOut, SeqStepQuiet, SeqStepAge DEF TxNext, TxReader

LEMMA SeqStopped ==
  ASSUME SeqIInv, UNCHANGED seqVars
  PROVE  SeqIInv'
<1>. USE DEF SeqIInv
<1>1. SeqScalars' /\ Holders'
  BY DEF seqVars, SeqScalars, Holders
<1>2. Window(txBuf, Top)' /\ UNCHANGED txBuf
  BY DEF seqVars, Window, Top
<1>3. OneNumberOnePacket'
  BY DEF seqVars, OneNumberOnePacket, Stored
<1>. QED  BY <1>1, <1>2, <1>3

LEMMA SeqIInvImplies == SeqIInv => SeqTypeOK /\ NewestKept
<1>. SUFFICES ASSUME SeqIInv PROVE SeqTypeOK /\ NewestKept  OBVIOUS
<1>. USE DEF SeqIInv
<1>1. DOMAIN txBuf = 1..Len(txBuf)
  BY LenProperties
<1>. QED  BY <1>1, StoredIs DEF SeqTypeOK, NewestKept, SeqScalars, Holders, Window, Top

-----------------------------------------------------------------------------
(* The LAN session: one part moves, the others stay as they began.         *)

IcomIInv == part \in Parts /\ CivTypeOK /\ AudioIInv /\ TxIInv /\ SeqIInv

LEMMA CivRests ==
  ASSUME CivTypeOK, UNCHANGED civVars
  PROVE  CivTypeOK'
BY DEF CivTypeOK, civVars

LEMMA AudioRests ==
  ASSUME AudioIInv, UNCHANGED lanVars
  PROVE  AudioIInv'
BY DEF AudioIInv, LanTypeOK, Ring, HeardOlder, Unheard, lanVars, helloVars, rxVars

LEMMA TxRests ==
  ASSUME TxIInv, UNCHANGED txVars
  PROVE  TxIInv' /\ InOrderStep
<1>1. UNCHANGED <<txRing, drainer, lastSent, overlap, keyed, txThread>>
  BY DEF txVars, clientVars, keyVars
<1>2. TxScalars'
  BY DEF TxIInv, TxScalars, txVars, clientVars, keyVars
<1>. QED  BY <1>1, <1>2, TxQuiet

LEMMA InitOK == IcomInit => IcomIInv
<1>. SUFFICES ASSUME IcomInit PROVE IcomIInv  OBVIOUS
<1>1. CivTypeOK
  <2>1. {civHello, remote, startOn, alerted, stale, freq, chan} \subseteq BOOLEAN
    BY Zenon DEF IcomInit, CivInit
  <2>2. quiet = 0 /\ tries = 0 /\ reply = "none" /\ civGate = "health"
    BY DEF IcomInit, CivInit
  <2>. QED  BY <2>1, <2>2, PeriodsAssumption DEF CivTypeOK
<1>. QED  BY <1>1, AudioInitOK, TxInitOK, SeqInitOK DEF IcomInit, IcomIInv

LEMMA StepOK == IcomIInv /\ [IcomNext]_lanPartVars => IcomIInv' /\ InOrderStep
<1>. SUFFICES ASSUME IcomIInv, [IcomNext]_lanPartVars PROVE IcomIInv' /\ InOrderStep
  OBVIOUS
<1>. USE DEF IcomIInv
<1>1. CASE Civ(CivNext)
  BY <1>1, CivStep, AudioRests, TxRests, SeqStopped DEF Civ
<1>2. CASE RxPart(LanNext)
  BY <1>2, CivRests, AudioStep, TxRests, SeqStopped DEF RxPart
<1>3. CASE TxPart(TxAudioNext)
  BY <1>3, CivRests, AudioRests, TxStep, SeqStopped DEF TxPart
<1>4. CASE Sending(TxNext)
  BY <1>4, CivRests, AudioRests, TxRests, SeqStep DEF Sending
<1>5. CASE UNCHANGED lanPartVars
  BY <1>5, CivRests, AudioRests, TxRests, SeqStopped DEF lanPartVars
<1>. QED  BY <1>1, <1>2, <1>3, <1>4, <1>5 DEF IcomNext

-----------------------------------------------------------------------------
\* The inductive invariant holds in every reachable state of a LAN session.
THEOREM InvariantHolds == IcomSpec => []IcomIInv
<1>1. IcomIInv /\ [IcomNext]_lanPartVars => IcomIInv'
  BY StepOK
<1>. QED  BY <1>1, InitOK, PTL DEF IcomSpec

\* The types, and what every session may rely on: a drainer that nobody stopped is the
\* one of the over that is on (_tx_drain_loop, _stop_tx_audio); the receive ring is in
\* order and current (_on_audio, read_iq); the retransmit buffer is the newest run of
\* numbers, and a number names one packet (send_tracked, _purge_old_entries).
THEOREM LanInvHolds == IcomSpec => []LanInv
<1>1. IcomIInv => LanInv
  <2>. SUFFICES ASSUME IcomIInv PROVE LanInv  OBVIOUS
  <2>1. LanTypeOK /\ RxCurrent
    BY AudioIInvImplies DEF IcomIInv
  <2>2. TxAudioTypeOK /\ LiveDrainerIsKeyed
    BY TxIInvImplies DEF IcomIInv
  <2>3. SeqTypeOK /\ NewestKept /\ OneNumberOnePacket
    BY SeqIInvImplies DEF IcomIInv, SeqIInv
  <2>. QED  BY <2>1, <2>2, <2>3 DEF LanInv, IcomTypeOK, IcomIInv
<1>. QED  BY <1>1, InvariantHolds, PTL

\* The client's audio goes out in the order it came, through every re-key, unless two
\* drainers had audio in hand at once: the safety half of TxAudioServed.
THEOREM TxInOrderHolds == IcomSpec => TxInOrder
<1>1. IcomIInv /\ [IcomNext]_lanPartVars
      => [\A d \in Drainers : drainer[d].pc = "send" /\ drainer'[d].pc = "pull"
            => lastSent = None \/ drainer[d].hand < lastSent \/ overlap]_txVars
  BY StepOK DEF InOrderStep
<1>. QED  BY <1>1, InvariantHolds, PTL DEF IcomSpec, TxInOrder
=============================================================================
