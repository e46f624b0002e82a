---------------------------- MODULE SoapyReader ----------------------------
(***************************************************************************)
(* The SoapySDR adapter: the reader thread that owns the device, and the   *)
(* mailboxes through which session thread, stream loop, audio thread and   *)
(* control panel ask it to tune, to set the gain and to change the sample  *)
(* rate (adapters/soapy.py), with the engine's span synchronisation.       *)
(*                                                                         *)
(* Frequencies and rates are small numbers of one unit.  A block of IQ is  *)
(* the rate it was taken at.  Failing and unchanged reads are counted, and *)
(* the count stands for the time since the first of them.                  *)
(*                                                                         *)
(* A client with a panadapter is there throughout, so that the stream loop *)
(* runs; it may have an audio stream or not.                               *)
(***************************************************************************)
EXTENDS Integers, Sequences, Functions, FiniteSetsExt

CONSTANTS Dials,       \* frequencies the client tunes to
          Rates,       \* sample rates the device offers
          Clearance,   \* _DC_CLEARANCE_HZ
          PerBlock,    \* rate at which one block lasts _AUDIO_BACKLOG_S
          RecoverAt, LostAt, GiveUpAt,   \* failing reads: _RECOVER_AFTER_S, ...
          StaleAt,     \* unchanged reads: _STALE_AFTER_S
          SoapyEvents          \* requests and faults together (a bound)

ASSUME SoapyAssumption ==
  /\ Dials \subseteq Nat \ {0} /\ Dials # {} /\ Rates \subseteq Nat \ {0} /\ Rates # {}
  /\ {Clearance, PerBlock} \subseteq Nat \ {0}
  /\ {RecoverAt, LostAt, GiveUpAt, StaleAt} \subseteq Nat \ {0}
  /\ RecoverAt <= LostAt /\ LostAt <= GiveUpAt
  /\ SoapyEvents \in Nat

NoAsk == 0             \* nothing in the mailbox
Gains == {1, 2}

\* _dc_offset_hz and the edge of the usable window of set_slice.
DcOffset(r) == Min({Clearance, r \div 4})
Edge(r)     == (4 * r) \div 10
Keep(r)     == Max({2, (r + PerBlock - 1) \div PerBlock})   \* blocks, rounded up
Off(f, g)   == IF f > g THEN f - g ELSE g - f

VARIABLES
  sdr,         \* the device: "live", "stalled" (resumes by itself), "gone"
  feed,        \* its stream: "up", "stuck" (same samples for ever), "mute" (reads of
               \* nothing), "dud" (reads fail, or there is none)
  reading,     \* self._run, and where the reader thread is in its loop
  stage,
  inHand,      \* the request the reader is carrying out
  tuner,       \* self.center_hz
  tuneTo,      \* self._retune_to
  dial,        \* the slice frequency of the engine, _slice_hz
  panAt,       \* the centre of the engine's panadapter
  panSeen,     \* self._ae_center_hz
  iqGo,        \* get_iq has found the mailbox empty and is about to retune
  gain, gainTo, gainAsked,
  gainMissed,  \* the newest request fell between the reader's look and its clearing
  rate,        \* self.samp_rate
  rateTo,      \* self._rate_to
  still,       \* the rate request is RATE_DEBOUNCE_S old
  told,        \* the span the client has been told
  ring,        \* rates of the blocks in _pan_ring
  audioQ,      \* rates of the blocks in _audio_q
  errs,        \* consec_err
  same,        \* unchanged blocks in a row
  owed,        \* need_recover
  cooled,      \* the wait after the last attempt is over
  gone,        \* self.device_lost
  faulted,     \* the link has failed once (for the properties)
  events

tuneVars == <<tuner, tuneTo, dial, panAt, panSeen, iqGo>>
gainVars == <<gain, gainTo, gainAsked, gainMissed>>
rateVars == <<rate, rateTo, still, told>>
dataVars == <<ring, audioQ>>
errVars  == <<errs, same, owed, cooled, gone>>
readVars == <<reading, stage, inHand>>
soapyVars == <<sdr, feed, readVars, tuneVars, gainVars, rateVars, dataVars, errVars,
               faulted, events>>
boundVars == <<faulted, events>>

Centres == Dials \cup {d + DcOffset(r) : d \in Dials, r \in Rates}
Stages  == {"tune", "tuning", "gain", "gainseen", "gaining", "rate", "rating", "ratedone",
            "recover", "read"}
Feeds   == {"up", "stuck", "mute", "dud"}

SoapyTypeOK ==
  /\ sdr \in {"live", "stalled", "gone"} /\ feed \in Feeds
  /\ reading \in BOOLEAN /\ stage \in Stages
  /\ inHand \in Centres \cup Gains \cup Rates \cup {NoAsk}
  /\ tuner \in Centres /\ tuneTo \in Centres \cup {NoAsk} /\ dial \in Dials
  /\ panAt \in Dials /\ panSeen \in Dials \cup {NoAsk} /\ iqGo \in BOOLEAN
  /\ gain \in Gains /\ gainTo \in Gains \cup {NoAsk} /\ gainAsked \in Gains
  /\ gainMissed \in BOOLEAN
  /\ rate \in Rates /\ rateTo \in Rates \cup {NoAsk} /\ still \in BOOLEAN
  /\ told \in Rates /\ ring \subseteq Rates /\ audioQ \in Seq(Rates)
  /\ errs \in 0..GiveUpAt /\ same \in 0..StaleAt
  /\ owed \in BOOLEAN /\ cooled \in BOOLEAN /\ gone \in BOOLEAN
  /\ faulted \in BOOLEAN /\ events \in 0..SoapyEvents

SoapyInit ==
  /\ sdr = "live" /\ feed = "up" /\ reading = TRUE /\ stage = "tune" /\ inHand = NoAsk
  /\ dial = Min(Dials) /\ panAt = dial /\ tuner = dial
  /\ tuneTo = NoAsk /\ panSeen = NoAsk /\ iqGo = FALSE
  /\ gain = Min(Gains) /\ gainTo = NoAsk /\ gainAsked = gain /\ gainMissed = FALSE
  /\ rate = Min(Rates) /\ rateTo = NoAsk /\ still = TRUE /\ told = rate
  /\ ring = {} /\ audioQ = <<>>
  /\ errs = 0 /\ same = 0 /\ owed = FALSE /\ cooled = TRUE /\ gone = FALSE
  /\ faulted = FALSE /\ events = 0

-----------------------------------------------------------------------------
(* Requests. *)

Event == events < SoapyEvents /\ events' = events + 1

\* set_slice: retune only when the slice leaves the window, and never onto it.
SetSlice(f) ==
  tuneTo' = IF Off(f, tuner) > Edge(rate) THEN f + DcOffset(rate) ELSE tuneTo

\* The client tunes the slice, or moves the panadapter and the slice with it.
SoapyTune(f) ==
  /\ reading /\ Event /\ dial' = f /\ SetSlice(f)
  /\ panAt' \in {panAt, f}
  /\ UNCHANGED <<sdr, feed, readVars, tuner, panSeen, iqGo, gainVars, rateVars,
                 dataVars, errVars, faulted>>

\* get_iq, every frame of the stream loop: the tuner follows a panadapter that has moved.
GetIqBug ==
  /\ ~iqGo /\ panAt # tuner /\ tuneTo = NoAsk
  /\ panSeen' = panAt /\ iqGo' = TRUE
  /\ UNCHANGED <<sdr, feed, readVars, tuner, tuneTo, dial, panAt, gainVars, rateVars,
                 dataVars, errVars, boundVars>>
GetIq ==
  /\ ~iqGo /\ panAt # panSeen /\ tuneTo = NoAsk
  /\ panSeen' = panAt /\ iqGo' = TRUE
  /\ UNCHANGED <<sdr, feed, readVars, tuner, tuneTo, dial, panAt, gainVars, rateVars,
                 dataVars, errVars, boundVars>>

\* retune: a centre too close to the slice is moved off it.
Retune ==
  /\ iqGo /\ iqGo' = FALSE
  /\ tuneTo' = IF Off(panSeen, dial) < DcOffset(rate) THEN dial + DcOffset(rate) ELSE panSeen
  /\ UNCHANGED <<sdr, feed, readVars, tuner, dial, panAt, panSeen, gainVars, rateVars,
                 dataVars, errVars, boundVars>>

\* get_audio, every 20 ms of the audio thread: set_slice again, then a block if there is one.
GetAudio ==
  /\ SetSlice(dial) /\ audioQ' = IF audioQ = <<>> THEN <<>> ELSE Tail(audioQ)
  /\ UNCHANGED <<sdr, feed, readVars, tuner, dial, panAt, panSeen, iqGo, gainVars,
                 rateVars, ring, errVars, boundVars>>

AskGain(g) ==
  /\ reading /\ Event /\ gainTo' = g /\ gainAsked' = g /\ gainMissed' = (stage = "gainseen")
  /\ UNCHANGED <<sdr, feed, readVars, tuneVars, gain, rateVars, dataVars, errVars, faulted>>

\* _request_rate for set_span and set_samp_rate; the client is told the rate of now.
AskRate(r) ==
  /\ reading /\ Event /\ rateTo' = r /\ still' = FALSE /\ told' = rate
  /\ UNCHANGED <<sdr, feed, readVars, tuneVars, gainVars, rate, dataVars, errVars, faulted>>

Settle ==
  /\ ~still /\ still' = TRUE
  /\ UNCHANGED <<sdr, feed, readVars, tuneVars, gainVars, rate, rateTo, told, dataVars,
                 errVars, boundVars>>

\* _sync_span of the stream loop.
SyncSpan ==
  /\ told # rate /\ told' = rate
  /\ UNCHANGED <<sdr, feed, readVars, tuneVars, gainVars, rate, rateTo, still, dataVars,
                 errVars, boundVars>>

-----------------------------------------------------------------------------
(* The device. *)

\* The USB link stalls, the device is pulled out, its driver repeats one buffer or returns
\* without samples.
Fault ==
  /\ Event /\ faulted' = TRUE
  /\ \/ sdr = "live" /\ sdr' = "stalled" /\ UNCHANGED feed
     \/ sdr # "gone" /\ sdr' = "gone" /\ feed' = "dud"
     \/ sdr = "live" /\ feed = "up" /\ feed' \in {"stuck", "mute"} /\ UNCHANGED sdr
  /\ UNCHANGED <<readVars, tuneVars, gainVars, rateVars, dataVars, errVars>>

Return ==
  /\ sdr # "live" /\ sdr' = "live"
  /\ UNCHANGED <<feed, readVars, tuneVars, gainVars, rateVars, dataVars, errVars, boundVars>>

\* _start_stream raises, or returns and the reads fail or bring nothing; unless the device
\* is gone samples may come, fresh or for ever the same.
StartStream == feed' \in IF sdr = "gone" THEN {"dud", "mute"} ELSE Feeds

-----------------------------------------------------------------------------
(* _read_loop. *)

At(s) == reading /\ stage = s

TakeTune ==
  /\ At("tune")
  /\ IF tuneTo = NoAsk THEN stage' = "gain" /\ UNCHANGED inHand
                       ELSE stage' = "tuning" /\ inHand' = tuneTo
  /\ UNCHANGED <<sdr, feed, reading, tuneVars, gainVars, rateVars, dataVars, errVars,
                 boundVars>>

\* setFrequency has returned, or raised; the mailbox is emptied after it.
TuneDone ==
  /\ At("tuning") /\ stage' = "gain" /\ inHand' = NoAsk /\ tuneTo' = NoAsk
  /\ tuner' \in IF sdr = "live" THEN {inHand} ELSE {inHand, tuner}
  /\ UNCHANGED <<sdr, feed, reading, dial, panAt, panSeen, iqGo, gainVars, rateVars,
                 dataVars, errVars, boundVars>>

\* Gain, antenna port and device settings: a request is read ...
TakeGain ==
  /\ At("gain")
  /\ IF gainTo = NoAsk THEN stage' = "rate" /\ UNCHANGED inHand
                       ELSE stage' = "gainseen" /\ inHand' = gainTo
  /\ UNCHANGED <<sdr, feed, reading, tuneVars, gainVars, rateVars, dataVars, errVars,
                 boundVars>>

\* ... and the mailbox is emptied, under no lock, before the setter is called.
GainClear ==
  /\ At("gainseen") /\ stage' = "gaining" /\ gainTo' = NoAsk
  /\ UNCHANGED <<sdr, feed, reading, inHand, tuneVars, gain, gainAsked, gainMissed,
                 rateVars, dataVars, errVars, boundVars>>

GainDone ==
  /\ At("gaining") /\ stage' = "rate" /\ inHand' = NoAsk
  /\ gain' \in IF sdr = "live" THEN {inHand} ELSE {inHand, gain}
  /\ UNCHANGED <<sdr, feed, reading, tuneVars, gainTo, gainAsked, gainMissed, rateVars,
                 dataVars, errVars, boundVars>>

\* A rate request that has sat still is applied: the stream is stopped and the rate set.
TakeRate ==
  /\ At("rate")
  /\ IF rateTo = NoAsk \/ ~still
       THEN stage' = "recover" /\ UNCHANGED <<inHand, rate, feed>>
       ELSE IF rateTo = rate
       THEN stage' = "ratedone" /\ UNCHANGED <<inHand, rate, feed>>
       ELSE /\ stage' = "rating" /\ inHand' = rateTo /\ feed' = "dud"
            /\ rate' \in IF sdr = "live" THEN {rateTo} ELSE {rateTo, rate}
  /\ UNCHANGED <<sdr, reading, tuneVars, gainVars, rateTo, still, told, dataVars, errVars,
                 boundVars>>

\* ... what was taken at the old rate is dropped and the stream restarted, well or not ...
RateDoneBug ==
  /\ At("rating") /\ stage' = "ratedone" /\ inHand' = NoAsk
  /\ audioQ' = <<>> /\ StartStream
  /\ UNCHANGED <<sdr, reading, tuneVars, gainVars, rateVars, ring, errVars, boundVars>>
RateDone ==
  /\ At("rating") /\ stage' = "ratedone" /\ inHand' = NoAsk
  /\ ring' = {} /\ audioQ' = <<>> /\ StartStream
  /\ UNCHANGED <<sdr, reading, tuneVars, gainVars, rateVars, errVars, boundVars>>

\* ... and the mailbox is emptied, last.
RateClear ==
  /\ At("ratedone") /\ stage' = "recover" /\ rateTo' = NoAsk
  /\ UNCHANGED <<sdr, feed, reading, inHand, tuneVars, gainVars, rate, still, told, dataVars,
                 errVars, boundVars>>

\* A reopen is owed but the wait after the last attempt is not over, or none is owed.
NoRecovery ==
  /\ At("recover") /\ (owed => ~cooled)
  /\ stage' = "read" /\ owed' = FALSE
  /\ UNCHANGED <<sdr, feed, reading, inHand, tuneVars, gainVars, rateVars, dataVars, errs,
                 same, cooled, gone, boundVars>>

\* readStream brings samples.
Samples == sdr = "live" /\ feed \in {"up", "stuck"}

\* _recover_device restarts the stream and reads from it for two seconds: any samples will
\* do, also the same ones as before.
RecoverBug ==                    \* activateStream's word is taken for them
  /\ At("recover") /\ owed /\ cooled
  /\ owed' = FALSE /\ cooled' = FALSE /\ StartStream
  /\ stage' = "tune" /\ errs' = 0 /\ same' = 0 /\ gone' = FALSE
  /\ UNCHANGED <<sdr, reading, inHand, tuneVars, gainVars, rateVars, dataVars, boundVars>>
Recover ==
  /\ At("recover") /\ owed /\ cooled
  /\ owed' = FALSE /\ cooled' = FALSE /\ StartStream
  /\ IF sdr = "live" /\ feed' \in {"up", "stuck"}
       THEN stage' = "tune" /\ errs' = 0 /\ same' = 0 /\ gone' = FALSE
       ELSE stage' = "read" /\ gone' = TRUE /\ UNCHANGED <<errs, same>>
  /\ UNCHANGED <<sdr, reading, inHand, tuneVars, gainVars, rateVars, dataVars, boundVars>>

CoolDown ==
  /\ ~cooled /\ cooled' = TRUE
  /\ UNCHANGED <<sdr, feed, readVars, tuneVars, gainVars, rateVars, dataVars, errs, same,
                 owed, gone, boundVars>>

\* _queue_audio keeps the newest blocks.
QueueAudio(q) ==
  LET all  == Append(q, rate)
      over == Len(all) - Keep(rate)
  IN  IF over > 0 THEN SubSeq(all, over + 1, Len(all)) ELSE all

\* readStream hands over a block: fresh samples, or the same ones once more.
ReadBlock ==
  /\ At("read") /\ Samples
  /\ stage' = "tune" /\ errs' = 0
  /\ IF feed = "up" THEN same' = 0 /\ UNCHANGED owed
     ELSE IF ~gone /\ same + 1 >= StaleAt THEN same' = 0 /\ owed' = TRUE
     ELSE same' = Min({same + 1, StaleAt}) /\ UNCHANGED owed
  /\ ring' = ring \cup {rate} /\ audioQ' = QueueAudio(audioQ)
  /\ UNCHANGED <<sdr, feed, reading, inHand, tuneVars, gainVars, rateVars, cooled, gone,
                 boundVars>>

\* readStream returns without samples: nothing is counted.
ReadNothing ==
  /\ At("read") /\ feed = "mute"
  /\ stage' = "tune"
  /\ UNCHANGED <<sdr, feed, reading, inHand, tuneVars, gainVars, rateVars, dataVars, errVars,
                 boundVars>>

\* readStream fails: owe a reopen, report the device lost, and in the end give up.
Failing == ~Samples /\ feed # "mute"
ReadError ==
  /\ At("read") /\ Failing
  /\ stage' = "tune" /\ errs' = errs + 1
  /\ owed' = (errs + 1 >= RecoverAt)
  /\ gone' = (gone \/ errs + 1 >= LostAt) /\ reading' = (errs + 1 < GiveUpAt)
  /\ UNCHANGED <<sdr, feed, inHand, tuneVars, gainVars, rateVars, dataVars, same, cooled,
                 boundVars>>

-----------------------------------------------------------------------------
ReadLoop == \/ TakeTune \/ TuneDone \/ TakeGain \/ GainClear \/ GainDone
            \/ TakeRate \/ RateDone \/ RateClear
            \/ NoRecovery \/ Recover \/ ReadBlock \/ ReadNothing \/ ReadError

SoapyNext ==
  \/ ReadLoop \/ CoolDown \/ Settle \/ SyncSpan \/ GetIq \/ Retune \/ GetAudio
  \/ \E f \in Dials : SoapyTune(f)
  \/ \E g \in Gains : AskGain(g)
  \/ \E r \in Rates : AskRate(r)
  \/ Fault \/ Return

\* The audio thread is there for a client with an audio stream only: it is not counted on.
SoapySpec ==
  SoapyInit /\ [][SoapyNext]_soapyVars
  /\ WF_soapyVars(ReadLoop) /\ WF_soapyVars(CoolDown) /\ WF_soapyVars(Settle)
  /\ WF_soapyVars(SyncSpan) /\ WF_soapyVars(GetIq) /\ WF_soapyVars(Retune)

-----------------------------------------------------------------------------
(* Properties. *)

\* Outside a rate change the demodulator's queue holds only blocks of the present rate
\* and no more than its backlog, and the panadapter's FFT never spans two rates.
BlocksOfOneRate ==
  stage # "rating" =>
    /\ ring \subseteq {rate} /\ Range(audioQ) \subseteq {rate}
    /\ Len(audioQ) <= Keep(rate)

\* No read fails for ever unreported: over stalls, restarts that return without an error
\* and bring nothing, and the wait between attempts, the client is told of the loss.  (A
\* stream that is mute does not fail, and is not reported.)
FailureReported == []<>(gone \/ ~Failing)

\* A stream that repeats itself is restarted over and over until it changes, unless the
\* device is taken for lost.
StuckRetried == []<>(~cooled \/ gone \/ ~(reading /\ sdr = "live" /\ feed = "stuck"))

\* Once the client leaves it alone the tuner comes to rest with the slice inside its
\* window, although two mailboxes' worth of requests share one and the reader empties it
\* after use.  That takes a client that listens: it is the audio thread that asks again.
TuningSettles ==
  WF_soapyVars(GetAudio) =>
    (<>[](sdr = "live" /\ reading) =>
       <>[](tuneTo = NoAsk /\ Off(dial, tuner) <= Edge(rate)))

\* On a link that never fails the gain asked for last is the gain set, whatever the reader
\* was doing when it came, unless it fell between the reader's look at the mailbox and its
\* clearing it. (A setter that raises takes the request with it, and a reader that has
\* given up leaves it.)
GainSettles == <>[](~faulted /\ reading) => <>[](gain = gainAsked \/ gainMissed)

\* The client ends up with the width the samples have, whatever it asked for.
SpanToldTrue == <>[](told = rate)
=============================================================================
