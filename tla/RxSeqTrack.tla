---------------------------- MODULE RxSeqTrack ----------------------------
(***************************************************************************)
(* The receive window of one Icom LAN stream (UdpBase): which of the       *)
(* radio's 16-bit sequence numbers have come in, which are missing, and    *)
(* what is asked for again.                                                *)
(*                                                                         *)
(* The reader thread tracks datagrams, the cadence thread asks for missing *)
(* ones every 100 ms, and every thread that sends purges; each of the      *)
(* three holds _lock throughout, so each is one action.  The radio numbers *)
(* its packets in order; the network loses any of them, repeats and delays *)
(* them, and a retransmission is one more late copy.                       *)
(*                                                                         *)
(* Time is counted in cadence ticks: an entry of the buffer carries the    *)
(* ticks since it was inserted instead of its receive time.  rxMissing is  *)
(* a function from sequence numbers to request counts; its insertion order *)
(* (which the trim of an overlong list follows) is abstracted.             *)
(***************************************************************************)
EXTENDS Integers, Sequences, FiniteSets, FiniteSetsExt

CONSTANTS
  SeqMod,      \* sequence numbers are taken modulo 2^16
  MaxMissing,  \* MAX_MISSING, and the literal 50 of the purge
  TrimBy,      \* the literal 25 of the purge
  BufSize,     \* BUFSIZE
  MaxAsk,      \* requests for one packet: the literal 4
  PurgeTicks,  \* PURGE_SECONDS in cadence ticks (10 s of 100 ms)
  Late,        \* how many packets back the network may still deliver
  MaxOutage    \* how many packets in a row the network may lose: bounds ahead

ASSUME SizesAssumption ==
  /\ SeqMod \in Nat /\ MaxMissing \in Nat /\ TrimBy \in Nat /\ BufSize \in Nat
  /\ MaxAsk \in Nat /\ PurgeTicks \in Nat /\ Late \in Nat
  /\ MaxOutage \in Nat
  /\ SeqMod > 1

\* A packet is given up long before its entry is old enough to be purged.
ASSUME PurgeAssumption == MaxAsk < PurgeTicks

VARIABLES
  radio,     \* the sequence number the radio used last; 0 at the start
  wrapped,   \* the radio's numbers have wrapped
  ahead,     \* packets the radio sent after the newest that came in
  buf,       \* _rx_seq_buf in insertion order: the numbers and their ages
  missing,   \* _rx_missing: number -> requests sent
  heard,     \* history: the numbers in buf that did arrive
  gaveUp     \* history: those dropped from missing without arriving

vars == <<radio, wrapped, ahead, buf, missing, heard, gaveUp>>

SeqNos == 1..(SeqMod - 1)      \* 0 is never tracked
Entry  == [seq : SeqNos, age : 0..PurgeTicks]

Keys(b) == {b[i].seq : i \in DOMAIN b}
Fresh(s) == [seq |-> s, age |-> 0]
None == [k \in {} |-> 0]       \* an empty rxMissing
Only(f, S) == [k \in S |-> f[k]]

Init ==
  /\ radio = 0 /\ wrapped = FALSE /\ ahead = 0
  /\ buf = <<>>
  /\ missing = None
  /\ heard = {} /\ gaveUp = {}

-----------------------------------------------------------------------------
(* The radio and the network. *)

air == <<radio, wrapped, ahead>>

Send ==
  /\ ahead < MaxOutage
  /\ ahead' = ahead + 1
  /\ radio' = (radio + 1) % SeqMod
  /\ wrapped' = (wrapped \/ radio' = 0)
  /\ UNCHANGED <<buf, missing, heard, gaveUp>>

\* How many packets back the network may hand one over, and which one.
Delays == {d \in 0..Late : (wrapped \/ d < radio) /\ (radio - d) % SeqMod # 0}

Delayed(d) == (radio - d) % SeqMod

-----------------------------------------------------------------------------
(* _track_rx_seq. *)

FirstKey == Min(Keys(buf))
LastKey  == Max(Keys(buf))

AsS16(x) == LET y == x % SeqMod IN IF 2 * y < SeqMod THEN y ELSE y - SeqMod

OutOfWindowBug(s) == AsS16(s - LastKey) > AsS16(MaxMissing)   \* no rollback test

OutOfWindow(s) == s < FirstKey \/ AsS16(s - LastKey) > AsS16(MaxMissing)

\* Insertion pops the oldest entry once more than BUFSIZE are held.
Bounded(b) == SubSeq(b, Max({1, Len(b) - BufSize}), Len(b))

Run(from, to) == [i \in 1..(to - from + 1) |-> Fresh(from + i - 1)]

Seed(s) ==
  /\ buf' = <<Fresh(s)>>
  /\ heard' = {s} /\ gaveUp' = {}

\* The window is empty: the first number seeds it, rxMissing is left alone.
TrackSeed(s) == buf = <<>> /\ Seed(s) /\ UNCHANGED missing

TrackReset(s) ==
  /\ buf # <<>> /\ OutOfWindow(s)
  /\ Seed(s)
  /\ missing' = None

TrackGap(s) ==
  /\ buf # <<>> /\ ~OutOfWindow(s) /\ s \notin Keys(buf) /\ s > LastKey + 1
  /\ buf' = Bounded(buf \o Run(LastKey + 1, s))
  /\ missing' = [k \in DOMAIN missing \cup (LastKey + 1)..(s - 1) |->
                   IF k \in DOMAIN missing THEN missing[k] ELSE 0]
  /\ heard' = (heard \cup {s}) \cap Keys(buf')
  /\ gaveUp' = gaveUp \cap Keys(buf')

TrackNext(s) ==
  /\ buf # <<>> /\ ~OutOfWindow(s) /\ s \notin Keys(buf) /\ s <= LastKey + 1
  /\ buf' = Bounded(Append(buf, Fresh(s)))
  /\ heard' = (heard \cup {s}) \cap Keys(buf')
  /\ gaveUp' = gaveUp \cap Keys(buf')
  /\ UNCHANGED missing

\* A late or repeated packet fills its gap.
TrackKnown(s) ==
  /\ buf # <<>> /\ ~OutOfWindow(s) /\ s \in Keys(buf)
  /\ missing' = Only(missing, DOMAIN missing \ {s})
  /\ heard' = heard \cup {s}
  /\ gaveUp' = gaveUp \ {s}
  /\ UNCHANGED buf

Track(s) ==
  TrackSeed(s) \/ TrackReset(s) \/ TrackGap(s) \/ TrackNext(s) \/ TrackKnown(s)

Arrive ==
  \E d \in Delays :
    /\ Track(Delayed(d))
    /\ ahead' = IF d < ahead THEN d ELSE ahead
    /\ UNCHANGED <<radio, wrapped>>

-----------------------------------------------------------------------------
(* _send_retransmit_request, every cadence tick. *)

Older(b) == [i \in DOMAIN b |->
               [b[i] EXCEPT !.age = IF @ < PurgeTicks THEN @ + 1 ELSE @]]

Asked == {k \in DOMAIN missing : missing[k] < MaxAsk}

TickIdle ==
  /\ missing = None
  /\ buf' = Older(buf)
  /\ UNCHANGED <<air, missing, heard, gaveUp>>

\* The flush forgets the list of missing packets and keeps the window.
TickFlushBug ==
  /\ Cardinality(DOMAIN missing) > MaxMissing
  /\ missing' = None /\ buf' = Older(buf)
  /\ UNCHANGED <<air, heard, gaveUp>>

TickFlush ==
  /\ Cardinality(DOMAIN missing) > MaxMissing
  /\ missing' = None /\ buf' = <<>>
  /\ heard' = {} /\ gaveUp' = {}
  /\ UNCHANGED air

\* The count is not kept: a packet that never comes is asked for for ever.
TickAskBug ==
  /\ missing # None /\ Cardinality(DOMAIN missing) <= MaxMissing
  /\ buf' = Older(buf)
  /\ UNCHANGED <<air, missing, heard, gaveUp>>

TickAsk ==
  /\ missing # None /\ Cardinality(DOMAIN missing) <= MaxMissing
  /\ missing' = [k \in Asked |-> missing[k] + 1]
  /\ gaveUp' = gaveUp \cup ((DOMAIN missing \ Asked) \cap Keys(buf))
  /\ buf' = Older(buf)
  /\ UNCHANGED <<air, heard>>

Tick == TickIdle \/ TickFlush \/ TickAsk

-----------------------------------------------------------------------------
(* _purge_old_entries, after every tracked send. *)

\* n entries are stale, and the next one, if any, is still fresh.
StalePrefix(n) ==
  /\ \A i \in 1..n : buf[i].age >= PurgeTicks
  /\ n < Len(buf) => buf[n + 1].age < PurgeTicks

Dropped(D) ==
  IF Cardinality(DOMAIN missing) > MaxMissing
  THEN D \subseteq DOMAIN missing /\ Cardinality(D) = TrimBy
  ELSE D = {}

Purge ==
  /\ \E n \in 0..Len(buf) : StalePrefix(n) /\ buf' = SubSeq(buf, n + 1, Len(buf))
  /\ \E D \in SUBSET DOMAIN missing :
       /\ Dropped(D)
       /\ missing' = Only(missing, DOMAIN missing \ D)
       /\ gaveUp' = (gaveUp \cup D) \cap Keys(buf')
  /\ heard' = heard \cap Keys(buf')
  /\ UNCHANGED air

Next == Send \/ Arrive \/ Tick \/ Purge

Spec == Init /\ [][Next]_vars

-----------------------------------------------------------------------------
(* Properties. *)

AirTypeOK ==
  radio \in 0..(SeqMod - 1) /\ wrapped \in BOOLEAN /\ ahead \in 0..MaxOutage

WindowTypeOK ==
  /\ buf \in Seq(Entry) /\ Len(buf) <= BufSize + 1
  /\ DOMAIN missing \subseteq SeqNos
  /\ missing = [k \in DOMAIN missing |-> missing[k]]
  /\ \A k \in DOMAIN missing : missing[k] \in 0..MaxAsk
  /\ heard \subseteq SeqNos /\ gaveUp \subseteq SeqNos

TypeOK == AirTypeOK /\ WindowTypeOK

(* The window has no holes and is in order, whatever arrives in whatever   *)
(* order: the dictionary _track_rx_seq keeps, with its pops of the oldest  *)
(* insertion and its purge, is always one run of consecutive numbers.      *)
Contiguous == \A i \in DOMAIN buf : buf[i].seq = buf[1].seq + i - 1

(* No packet that has arrived is ever asked for again: rxMissing never     *)
(* holds a number that was received since the window was seeded.           *)
NeverAsksForHeard == DOMAIN missing \cap heard = {}

(* Nothing is lost silently: each number of the window has arrived, is     *)
(* being asked for, or was given up after MaxAsk requests or by the trim.  *)
Accounted == Keys(buf) = heard \cup gaveUp \cup (DOMAIN missing \cap Keys(buf))

(* An empty window has nothing missing: the seed of an empty window, which *)
(* leaves rxMissing alone, never leaves requests of an earlier window.     *)
EmptyHasNoMissing == buf = <<>> => missing = None

(* A missing packet does not stay missing: it comes, is given up, or the   *)
(* window is reset.                                                        *)
MissingResolved ==
  \A k \in SeqNos : k \in DOMAIN missing ~> k \notin DOMAIN missing
(* The window and the list of missing packets agree after any arrivals,    *)
(* trims, resets and purges: one run of consecutive numbers, nothing asked *)
(* for that has been heard, and no request left over from an older window. *)
WindowSound == TypeOK /\ Contiguous /\ NeverAsksForHeard /\ EmptyHasNoMissing
=============================================================================
