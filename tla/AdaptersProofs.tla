--------------------------- MODULE AdaptersProofs ---------------------------
(***************************************************************************)
(* For every set of frequencies, rates and modes, every threshold and any  *)
(* number of requests and faults: the types of the four adapters, what the *)
(* SoapySDR reader keeps in step with the sample rate, and that an HPSDR   *)
(* board is not said to be lost before the whole silence has passed.       *)
(*                                                                         *)
(* Each adapter has an inductive invariant of its own; in the composition  *)
(* three of them stand still.                                              *)
(***************************************************************************)
EXTENDS Adapters, SequenceTheorems, WellFoundedInduction, TLAPS

(* A set of naturals has a least element, which is what Min chooses. *)
LEMMA MinIsLeast ==
  ASSUME NEW S, S \subseteq Nat, S # {}
  PROVE  Min(S) \in S /\ \A y \in S : Min(S) <= y
<1>1. PICK x \in S : \A y \in S : ~ (<<y, x>> \in OpToRel(<, Nat))
  BY NatLessThanWellFounded, WFMin
<1>2. \A y \in S : x <= y
  <2> SUFFICES ASSUME NEW y \in S, y < x PROVE FALSE
    OBVIOUS
  <2>1. <<y, x>> \in OpToRel(<, Nat)
    BY DEF OpToRel
  <2> QED BY <1>1, <2>1
<1> QED BY <1>2 DEF Min

(* The lesser and the greater of two integers. *)
LEMMA OfTwo ==
  ASSUME NEW a \in Int, NEW b \in Int
  PROVE  /\ Min({a, b}) = IF a <= b THEN a ELSE b
         /\ Max({a, b}) = IF a >= b THEN a ELSE b
  BY DEF Min, Max

-----------------------------------------------------------------------------
(***************************************************************************)
(* SoapySDR. The request in hand is of the kind the stage says; get_iq     *)
(* goes on to retune only with a centre it has seen; a reader that goes on *)
(* has not failed GiveUpAt times yet.                                      *)
(***************************************************************************)
InHandOfKind ==
  /\ stage = "tuning" => inHand \in Centres
  /\ stage \in {"gainseen", "gaining"} => inHand \in Gains
  /\ stage = "rating" => inHand \in Rates
IqHasCentre == iqGo => panSeen \in Dials
NotGivenUp  == reading => errs < GiveUpAt

SoapyIInv == SoapyTypeOK /\ InHandOfKind /\ IqHasCentre /\ NotGivenUp /\ BlocksOfOneRate

\* The types in four parts, as the actions disturb them.
TuneTypes == /\ tuner \in Centres /\ tuneTo \in Centres \cup {NoAsk} /\ dial \in Dials
             /\ panAt \in Dials /\ panSeen \in Dials \cup {NoAsk}
AskTypes  == /\ gain \in Gains /\ gainTo \in Gains \cup {NoAsk} /\ gainAsked \in Gains
             /\ rate \in Rates /\ rateTo \in Rates \cup {NoAsk} /\ told \in Rates
             /\ inHand \in Centres \cup Gains \cup Rates \cup {NoAsk}
LoopTypes == /\ sdr \in {"live", "stalled", "gone"} /\ feed \in Feeds
             /\ stage \in Stages
             /\ {reading, iqGo, gainMissed, still, owed, cooled, gone, faulted} \subseteq BOOLEAN
DataTypes == ring \subseteq Rates /\ audioQ \in Seq(Rates)
CountTypes == errs \in 0..GiveUpAt /\ same \in 0..StaleAt /\ events \in 0..SoapyEvents

LEMMA SoapyTypes ==
  SoapyTypeOK <=> TuneTypes /\ AskTypes /\ LoopTypes /\ DataTypes /\ CountTypes
  BY Zenon DEF SoapyTypeOK, TuneTypes, AskTypes, LoopTypes, DataTypes, CountTypes

(* The centres the tuner is sent to. *)
LEMMA CentreKinds ==
  /\ Dials \subseteq Centres
  /\ \A f \in Dials, r \in Rates : f + DcOffset(r) \in Centres
  BY DEF Centres

LEMMA SetSliceType ==
  ASSUME TuneTypes, AskTypes, NEW f \in Dials, SetSlice(f)
  PROVE  tuneTo' \in Centres \cup {NoAsk}
  BY CentreKinds DEF TuneTypes, AskTypes, SetSlice

LEMMA TuneTypesKept ==
  ASSUME TuneTypes, AskTypes, InHandOfKind, IqHasCentre, [SoapyNext]_soapyVars
  PROVE  TuneTypes'
<1>1. CASE \E f \in Dials : SoapyTune(f)
  BY <1>1, SetSliceType DEF SoapyTune, TuneTypes
<1>2. CASE GetIq
  BY <1>2 DEF GetIq, TuneTypes
<1>3. CASE Retune
  BY <1>3, CentreKinds DEF Retune, TuneTypes, AskTypes, IqHasCentre
<1>4. CASE GetAudio
  <2>1. dial \in Dials
    BY DEF TuneTypes
  <2> QED BY <1>4, <2>1, SetSliceType DEF GetAudio, TuneTypes
<1>5. CASE TuneDone
  BY <1>5 DEF TuneDone, At, TuneTypes, InHandOfKind
<1>6. CASE UNCHANGED tuneVars
  BY <1>6 DEF tuneVars, TuneTypes
<1>7. [SoapyNext]_soapyVars =>
        \/ \E f \in Dials : SoapyTune(f)
        \/ GetIq \/ Retune \/ GetAudio \/ TuneDone \/ UNCHANGED tuneVars
  BY Zenon DEF SoapyNext, ReadLoop, TakeTune, TakeGain, GainClear, GainDone, TakeRate, RateDone,
        RateClear, NoRecovery, Recover, ReadBlock, ReadNothing, ReadError, CoolDown, Settle, SyncSpan, AskGain, AskRate, Fault, Return,
        soapyVars
<1> QED BY <1>1, <1>2, <1>3, <1>4, <1>5, <1>6, <1>7

LEMMA AskTypesKept ==
  ASSUME TuneTypes, AskTypes, InHandOfKind, [SoapyNext]_soapyVars
  PROVE  AskTypes'
<1>1. CASE TakeTune
  BY <1>1 DEF TakeTune, TuneTypes, AskTypes, gainVars, rateVars
<1>2. CASE TuneDone
  BY <1>2 DEF TuneDone, AskTypes, gainVars, rateVars
<1>3. CASE TakeGain \/ GainClear
  BY <1>3 DEF TakeGain, GainClear, AskTypes, gainVars, rateVars
<1>4. CASE GainDone
  BY <1>4 DEF GainDone, At, AskTypes, InHandOfKind, rateVars
<1>5. CASE TakeRate \/ RateClear
  BY <1>5 DEF TakeRate, RateClear, AskTypes, gainVars
<1>6. CASE RateDone
  BY <1>6 DEF RateDone, AskTypes, gainVars, rateVars
<1>7. CASE SyncSpan \/ \E r \in Rates : AskRate(r)
  BY <1>7 DEF SyncSpan, AskRate, AskTypes, gainVars, readVars
<1>8. CASE \E g \in Gains : AskGain(g)
  BY <1>8 DEF AskGain, AskTypes, rateVars, readVars
<1>9. CASE UNCHANGED <<inHand, gainVars, rate, rateTo, told>>
  BY <1>9 DEF AskTypes, gainVars
<1>10. [SoapyNext]_soapyVars =>
        \/ TakeTune \/ TuneDone \/ TakeGain \/ GainClear \/ GainDone \/ TakeRate \/ RateClear
        \/ RateDone
        \/ SyncSpan \/ (\E r \in Rates : AskRate(r)) \/ (\E g \in Gains : AskGain(g))
        \/ UNCHANGED <<inHand, gainVars, rate, rateTo, told>>
  BY Zenon DEF SoapyNext, ReadLoop, NoRecovery, Recover, ReadBlock, ReadNothing, ReadError, CoolDown, Settle,
        SoapyTune, GetIq, Retune, GetAudio, Fault, Return, soapyVars, readVars, rateVars
<1> QED BY <1>1, <1>2, <1>3, <1>4, <1>5, <1>6, <1>7, <1>8, <1>9, <1>10

(* The numbers of the thresholds and bounds. *)
LEMMA SoapyNumbers ==
  /\ GiveUpAt \in Nat /\ GiveUpAt > 0 /\ StaleAt \in Nat /\ StaleAt > 0
  /\ RecoverAt \in Nat /\ LostAt \in Nat /\ SoapyEvents \in Nat
  /\ PerBlock \in Nat /\ PerBlock > 0
  BY SoapyAssumption DEF SoapyAssumption

LEMMA LoopTypesKept ==
  ASSUME LoopTypes, CountTypes, [SoapyNext]_soapyVars
  PROVE  LoopTypes'
<1>1. sdr' \in {"live", "stalled", "gone"}
  BY DEF LoopTypes, SoapyNext, ReadLoop, TakeTune, TuneDone, TakeGain, GainClear, GainDone, TakeRate,
         RateDone, RateClear, NoRecovery, Recover, ReadBlock, ReadNothing, ReadError, CoolDown, Settle, SyncSpan,
         SoapyTune, GetIq, Retune, GetAudio, AskGain, AskRate, Fault, Return, soapyVars
<1>2. feed' \in Feeds
  BY DEF LoopTypes, SoapyNext, ReadLoop, TakeTune, TuneDone, TakeGain, GainClear, GainDone, TakeRate,
         RateDone, RateClear, NoRecovery, Recover, ReadBlock, ReadNothing, ReadError, CoolDown, Settle, SyncSpan,
         SoapyTune, GetIq, Retune, GetAudio, AskGain, AskRate, Fault, Return, soapyVars, StartStream, Feeds
<1>3. stage' \in Stages
  BY DEF LoopTypes, Stages, SoapyNext, ReadLoop, TakeTune, TuneDone, TakeGain, GainClear, GainDone, TakeRate,
         RateDone, RateClear, NoRecovery, Recover, ReadBlock, ReadNothing, ReadError, CoolDown, Settle, SyncSpan,
         SoapyTune, GetIq, Retune, GetAudio, AskGain, AskRate, Fault, Return, soapyVars, readVars
<1>4. CASE ReadError
  <2>1. /\ UNCHANGED <<iqGo, gainMissed, still, faulted, cooled>>
        /\ owed' = (errs + 1 >= RecoverAt) /\ gone' = (gone \/ errs + 1 >= LostAt)
        /\ reading' = (errs + 1 < GiveUpAt)
    BY <1>4, Zenon DEF ReadError, tuneVars, gainVars, rateVars, boundVars
  <2>2. {reading', owed', gone'} \subseteq BOOLEAN
    <3>1. \A a, b \in Int : (a < b) \in BOOLEAN /\ (a >= b) \in BOOLEAN
      OBVIOUS
    <3>2. errs + 1 \in Int /\ RecoverAt \in Int /\ GiveUpAt \in Int
      BY SoapyNumbers DEF CountTypes
    <3>3. owed' \in BOOLEAN /\ reading' \in BOOLEAN
      BY <2>1, <3>1, <3>2, Zenon
    <3>4. gone' \in BOOLEAN
      BY <2>1, Zenon
    <3> QED BY <3>3, <3>4, Zenon
  <2> QED BY <1>1, <1>2, <1>3, <2>1, <2>2, Zenon DEF LoopTypes
<1>5. CASE [SoapyNext]_soapyVars /\ ~ReadError
  <2>1. {reading', iqGo', gainMissed', still', faulted'} \subseteq BOOLEAN
    BY <1>5, Zenon DEF LoopTypes, SoapyNext, ReadLoop, TakeTune, TuneDone, TakeGain, GainClear, GainDone, TakeRate,
         RateDone, RateClear, NoRecovery, Recover, ReadBlock, ReadNothing, CoolDown, Settle, SyncSpan, SoapyTune, GetIq,
         Retune, GetAudio, AskGain, AskRate, Fault, Return, soapyVars,
         readVars, tuneVars, gainVars, rateVars, boundVars
  <2>2. {owed', cooled', gone'} \subseteq BOOLEAN
    BY <1>5, Zenon DEF LoopTypes, SoapyNext, ReadLoop, TakeTune, TuneDone, TakeGain, GainClear, GainDone, TakeRate,
         RateDone, RateClear, NoRecovery, Recover, ReadBlock, ReadNothing, CoolDown, Settle, SyncSpan, SoapyTune, GetIq,
         Retune, GetAudio, AskGain, AskRate, Fault, Return, soapyVars, errVars
  <2> QED BY <1>1, <1>2, <1>3, <2>1, <2>2, Zenon DEF LoopTypes
<1> QED BY <1>4, <1>5

(* A reader that goes on has failed fewer than GiveUpAt times in a row. *)
LEMMA CountsKept ==
  ASSUME CountTypes, NotGivenUp, [SoapyNext]_soapyVars
  PROVE  CountTypes' /\ NotGivenUp'
<1>1. events' \in 0..SoapyEvents
  <2>1. \/ Event
        \/ UNCHANGED events
    BY Zenon DEF SoapyNext, ReadLoop, TakeTune, TuneDone, TakeGain, GainClear, GainDone, TakeRate,
         RateDone, RateClear, NoRecovery, Recover, ReadBlock, ReadNothing, ReadError, CoolDown, Settle, SyncSpan,
         SoapyTune, GetIq, Retune, GetAudio, AskGain, AskRate, Fault, Return, soapyVars, boundVars
  <2> QED BY <2>1, SoapyNumbers DEF Event, CountTypes
<1>2. CASE ReadBlock
  <2>1. errs' = 0 /\ same' \in {0, Min({same + 1, StaleAt})}
    BY <1>2 DEF ReadBlock
  <2>2. Min({same + 1, StaleAt}) \in 0..StaleAt
    BY SoapyNumbers, OfTwo DEF CountTypes
  <2> QED BY <1>1, <2>1, <2>2, SoapyNumbers DEF CountTypes, NotGivenUp
<1>3. CASE ReadError
  <2>1. errs < GiveUpAt /\ errs' = errs + 1 /\ same' = same
    BY <1>3 DEF ReadError, At, NotGivenUp
  <2>2. reading' => errs + 1 < GiveUpAt
    BY <1>3 DEF ReadError
  <2> QED BY <1>1, <2>1, <2>2, SoapyNumbers DEF CountTypes, NotGivenUp
<1>4. CASE Recover
  <2>1. reading' = reading /\ ((errs' = 0 /\ same' = 0) \/ UNCHANGED <<errs, same>>)
    BY <1>4 DEF Recover
  <2> QED BY <1>1, <2>1, SoapyNumbers DEF CountTypes, NotGivenUp
<1>5. CASE UNCHANGED <<errs, same, reading>>
  BY <1>1, <1>5 DEF CountTypes, NotGivenUp
<1>6. [SoapyNext]_soapyVars =>
        ReadBlock \/ ReadError \/ Recover \/ UNCHANGED <<errs, same, reading>>
  BY Zenon DEF SoapyNext, ReadLoop, TakeTune, TuneDone, TakeGain, GainClear, GainDone, TakeRate,
         RateDone, RateClear, NoRecovery, ReadNothing, CoolDown, Settle, SyncSpan, SoapyTune, GetIq, Retune, GetAudio,
         AskGain, AskRate, Fault, Return, soapyVars, errVars, readVars
<1> QED BY <1>2, <1>3, <1>4, <1>5, <1>6

(* What the reader has taken out of a mailbox is what its stage carries out. *)
LEMMA InHandKept ==
  ASSUME TuneTypes, AskTypes, InHandOfKind, IqHasCentre, [SoapyNext]_soapyVars
  PROVE  InHandOfKind' /\ IqHasCentre'
<1>1. InHandOfKind'
  <2>1. CASE TakeTune
    BY <2>1 DEF TakeTune, InHandOfKind, TuneTypes
  <2>2. CASE TakeGain
    BY <2>2 DEF TakeGain, InHandOfKind, AskTypes
  <2>3. CASE TakeRate
    BY <2>3 DEF TakeRate, InHandOfKind, AskTypes
  <2>7. CASE GainClear
    BY <2>7 DEF GainClear, At, InHandOfKind
  <2>4. CASE stage' \in {"tune", "gain", "rate", "ratedone", "recover", "read"}
    BY <2>4 DEF InHandOfKind
  <2>5. CASE UNCHANGED <<stage, inHand>>
    BY <2>5 DEF InHandOfKind
  <2>6. [SoapyNext]_soapyVars =>
          \/ TakeTune \/ TakeGain \/ TakeRate \/ GainClear
          \/ stage' \in {"tune", "gain", "rate", "ratedone", "recover", "read"}
          \/ UNCHANGED <<stage, inHand>>
    BY DEF SoapyNext, ReadLoop, TuneDone, GainDone, RateDone, RateClear, NoRecovery, Recover, ReadBlock,
           ReadNothing, ReadError, CoolDown, Settle, SyncSpan, SoapyTune, GetIq, Retune, GetAudio, AskGain,
           AskRate, Fault, Return, soapyVars, readVars
  <2> QED BY <2>1, <2>2, <2>3, <2>4, <2>5, <2>6, <2>7
<1>2. IqHasCentre'
  <2>1. GetIq \/ Retune \/ UNCHANGED <<iqGo, panSeen>>
    BY Zenon DEF SoapyNext, ReadLoop, TakeTune, TuneDone, TakeGain, GainClear, GainDone, TakeRate,
         RateDone, RateClear, NoRecovery, Recover, ReadBlock, ReadNothing, ReadError, CoolDown, Settle, SyncSpan,
         SoapyTune, GetAudio, AskGain, AskRate, Fault, Return, soapyVars, tuneVars
  <2> QED BY <2>1 DEF GetIq, Retune, IqHasCentre, TuneTypes
<1> QED BY <1>1, <1>2

(* A queue of blocks of one rate is a sequence over that rate alone. *)
LEMMA OneRateSeq ==
  ASSUME NEW q, NEW r \in Rates
  PROVE  (q \in Seq(Rates) /\ Range(q) \subseteq {r}) <=> q \in Seq({r})
<1>1. ASSUME q \in Seq(Rates), Range(q) \subseteq {r} PROVE q \in Seq({r})
  <2>1. Len(q) \in Nat /\ DOMAIN q = 1..Len(q)
    BY <1>1, LenProperties
  <2>2. \A i \in 1..Len(q) : q[i] \in {r}
    BY <1>1, <2>1, Zenon DEF Range
  <2>3. SubSeq(q, 1, Len(q)) \in Seq({r})
    BY <2>1, <2>2, SubSeqProperties, 1 \in Int
  <2>4. SubSeq(q, 1, Len(q)) = q
    BY <1>1, SubSeqFull
  <2> QED BY <2>3, <2>4
<1>2. ASSUME q \in Seq({r}) PROVE q \in Seq(Rates) /\ Range(q) \subseteq {r}
  <2>1. q \in Seq(Rates)
    BY <1>2, SeqMonotonic, {r} \subseteq Rates
  <2>2. DOMAIN q = 1..Len(q) /\ \A i \in 1..Len(q) : q[i] \in {r}
    BY <1>2, LenProperties, ElementOfSeq
  <2> QED BY <2>1, <2>2, Zenon DEF Range
<1> QED BY <1>1, <1>2

LEMMA KeepIsPositive ==
  ASSUME NEW r \in Rates
  PROVE  Keep(r) \in Nat /\ Keep(r) >= 2
<1>1. r \in Int
  BY SoapyAssumption DEF SoapyAssumption
<1>2. (r + PerBlock - 1) \div PerBlock \in Int
  BY <1>1, SoapyNumbers
<1> DEFINE blocks == (r + PerBlock - 1) \div PerBlock
<1>3. Keep(r) = Max({2, blocks}) /\ blocks \in Int
  BY <1>2 DEF Keep
<1> HIDE DEF blocks
<1>4. Max({2, blocks}) = IF 2 >= blocks THEN 2 ELSE blocks
  BY <1>3, OfTwo
<1> QED BY <1>3, <1>4

(* _queue_audio appends a block of the present rate and keeps the backlog. *)
LEMMA QueueAudioIs ==
  ASSUME rate \in Rates, NEW q \in Seq({rate})
  PROVE  QueueAudio(q) \in Seq({rate}) /\ Len(QueueAudio(q)) <= Keep(rate)
<1> DEFINE all == Append(q, rate)
           keep == Keep(rate)
<1>1. all \in Seq({rate}) /\ Len(all) \in Nat
  BY LenProperties
<1>2. keep \in Nat
  BY KeepIsPositive
<1>3. QueueAudio(q) = IF Len(all) - keep > 0 THEN SubSeq(all, Len(all) - keep + 1, Len(all)) ELSE all
  BY DEF QueueAudio
<1> HIDE DEF all, keep
<1>4. CASE Len(all) - keep > 0
  <2> DEFINE m == Len(all) - keep + 1
  <2>1. m \in Int /\ Len(all) \in Int /\ m >= 1 /\ m <= Len(all) + 1 /\ Len(all) - m + 1 = keep
    BY <1>1, <1>2, <1>4
  <2>2. QueueAudio(q) = SubSeq(all, m, Len(all))
    BY <1>3, <1>4
  <2> HIDE DEF m
  <2>3. \A i \in m..Len(all) : all[i] \in {rate}
    BY <1>1, <2>1, ElementOfSeq
  <2>4. SubSeq(all, m, Len(all)) \in Seq({rate})
    BY <2>1, <2>3, SubSeqProperties
  <2>5. Len(SubSeq(all, m, Len(all))) = IF m <= Len(all) THEN Len(all) - m + 1 ELSE 0
    BY <2>1, <2>3, SubSeqProperties
  <2>6. Len(SubSeq(all, m, Len(all))) <= keep
    BY <2>1, <2>5, <1>2
  <2> QED BY <2>2, <2>4, <2>6 DEF keep
<1>5. CASE ~(Len(all) - keep > 0)
  BY <1>1, <1>2, <1>3, <1>5 DEF keep
<1> QED BY <1>4, <1>5

(* No block mixes two rates: the rate changes on the way into the stage "rating", and what *)
(* was taken at the old one is dropped on the way out.                                     *)
LEMMA DataKept ==
  ASSUME AskTypes, DataTypes, BlocksOfOneRate, [SoapyNext]_soapyVars
  PROVE  DataTypes' /\ BlocksOfOneRate'
<1>0. rate \in Rates
  BY DEF AskTypes
<1>1. CASE ReadBlock
  <2>1. /\ stage = "read" /\ rate' = rate
        /\ ring' = ring \cup {rate} /\ audioQ' = QueueAudio(audioQ)
    BY <1>1 DEF ReadBlock, At, rateVars
  <2>2. audioQ \in Seq({rate}) /\ ring \subseteq {rate}
    BY <1>0, <2>1, OneRateSeq DEF BlocksOfOneRate, DataTypes
  <2>3. audioQ' \in Seq({rate}) /\ Len(audioQ') <= Keep(rate)
    BY <1>0, <2>1, <2>2, QueueAudioIs
  <2>4. audioQ' \in Seq(Rates) /\ Range(audioQ') \subseteq {rate}
    BY <1>0, <2>3, OneRateSeq
  <2> QED BY <1>0, <2>1, <2>2, <2>3, <2>4 DEF DataTypes, BlocksOfOneRate
<1>2. CASE GetAudio
  <2>1. /\ UNCHANGED <<ring, rate, stage>>
        /\ audioQ' = IF audioQ = <<>> THEN <<>> ELSE Tail(audioQ)
    BY <1>2 DEF GetAudio, rateVars, readVars
  <2>2. CASE audioQ = <<>>
    BY <2>1, <2>2 DEF DataTypes, BlocksOfOneRate
  <2>3. CASE audioQ # <<>>
    <3>1. audioQ' \in Seq(Rates) /\ Len(audioQ') = Len(audioQ) - 1 /\ Len(audioQ) \in Nat
      BY <2>1, <2>3, HeadTailProperties, LenProperties DEF DataTypes
    <3>2. ASSUME audioQ \in Seq({rate}) PROVE audioQ' \in Seq({rate})
      BY <2>1, <2>3, <3>2, HeadTailProperties
    <3>3. Range(audioQ) \subseteq {rate} => Range(audioQ') \subseteq {rate}
      BY <1>0, <3>2, OneRateSeq DEF DataTypes
    <3>4. Keep(rate) \in Nat
      BY <1>0, KeepIsPositive
    <3>5. Len(audioQ) <= Keep(rate) => Len(audioQ') <= Keep(rate)
      BY <3>1, <3>4
    <3> QED BY <2>1, <3>1, <3>3, <3>5 DEF DataTypes, BlocksOfOneRate
  <2> QED BY <2>2, <2>3
<1>3. CASE RateDone
  <2>1. ring' = {} /\ audioQ' = <<>> /\ rate' = rate
    BY <1>3 DEF RateDone, rateVars
  <2>2. Range(<<>>) = {} /\ Len(<<>>) = 0 /\ Keep(rate) \in Nat /\ Keep(rate) >= 2
    BY <1>0, KeepIsPositive DEF Range
  <2> QED BY <2>1, <2>2 DEF DataTypes, BlocksOfOneRate
<1>4. CASE TakeRate
  <2>1. /\ stage = "rate" /\ UNCHANGED <<ring, audioQ>>
        /\ stage' = "rating" \/ rate' = rate
    BY <1>4 DEF TakeRate, At, dataVars
  <2> QED BY <2>1 DEF DataTypes, BlocksOfOneRate
<1>5. CASE UNCHANGED <<ring, audioQ, rate>> /\ (stage' = "rating" <=> stage = "rating")
  BY <1>5 DEF DataTypes, BlocksOfOneRate
<1>6. [SoapyNext]_soapyVars =>
        \/ ReadBlock \/ GetAudio \/ RateDone \/ TakeRate
        \/ UNCHANGED <<ring, audioQ, rate>> /\ (stage' = "rating" <=> stage = "rating")
  BY DEF SoapyNext, ReadLoop, TakeTune, TuneDone, TakeGain, GainClear, GainDone, RateClear, NoRecovery, Recover,
         ReadNothing, ReadError, CoolDown, Settle, SyncSpan, SoapyTune, GetIq, Retune, AskGain, AskRate, Fault,
         Return, soapyVars, readVars, dataVars, rateVars, At
<1> QED BY <1>1, <1>2, <1>3, <1>4, <1>5, <1>6

LEMMA SoapyStep ==
  ASSUME SoapyIInv, [SoapyNext]_soapyVars
  PROVE  SoapyIInv'
<1>1. /\ TuneTypes /\ AskTypes /\ LoopTypes /\ DataTypes /\ CountTypes
      /\ InHandOfKind /\ IqHasCentre /\ NotGivenUp /\ BlocksOfOneRate
  BY SoapyTypes, Zenon DEF SoapyIInv
<1>2. TuneTypes' /\ AskTypes' /\ LoopTypes' /\ DataTypes' /\ CountTypes'
  BY <1>1, TuneTypesKept, AskTypesKept, LoopTypesKept, DataKept, CountsKept, Zenon
<1>3. SoapyTypeOK'
  BY <1>2, Zenon DEF SoapyTypeOK, TuneTypes, AskTypes, LoopTypes, DataTypes, CountTypes
<1>4. InHandOfKind' /\ IqHasCentre' /\ NotGivenUp' /\ BlocksOfOneRate'
  BY <1>1, InHandKept, CountsKept, DataKept, Zenon
<1> QED BY <1>3, <1>4, Zenon DEF SoapyIInv

LEMMA SoapyStart == SoapyInit => SoapyIInv
<1> SUFFICES ASSUME SoapyInit PROVE SoapyIInv
  OBVIOUS
<1>1. Min(Dials) \in Dials /\ Min(Rates) \in Rates /\ Min(Gains) \in Gains
  <2>1. Dials \subseteq Nat /\ Dials # {} /\ Rates \subseteq Nat /\ Rates # {}
    BY SoapyAssumption DEF SoapyAssumption
  <2>2. Gains \subseteq Nat /\ Gains # {}
    BY DEF Gains
  <2> QED BY <2>1, <2>2, MinIsLeast
<1>2. TuneTypes
  BY <1>1, CentreKinds DEF SoapyInit, TuneTypes
<1>3. AskTypes
  BY <1>1 DEF SoapyInit, AskTypes
<1>4. LoopTypes
  BY Zenon DEF SoapyInit, LoopTypes, Stages, Feeds
<1>5. DataTypes
  BY DEF SoapyInit, DataTypes
<1>6. CountTypes
  BY SoapyNumbers DEF SoapyInit, CountTypes
<1>7. InHandOfKind /\ IqHasCentre
  BY DEF SoapyInit, InHandOfKind, IqHasCentre
<1>8. NotGivenUp
  BY SoapyNumbers DEF SoapyInit, NotGivenUp
<1>9. BlocksOfOneRate
  <2>1. Range(<<>>) = {} /\ Len(<<>>) = 0
    BY DEF Range
  <2>2. Keep(rate) \in Nat /\ Keep(rate) >= 2
    BY <1>3, KeepIsPositive DEF AskTypes
  <2> QED BY <2>1, <2>2 DEF SoapyInit, BlocksOfOneRate
<1> QED BY <1>2, <1>3, <1>4, <1>5, <1>6, <1>7, <1>8, <1>9, SoapyTypes, Zenon DEF SoapyIInv

-----------------------------------------------------------------------------
(***************************************************************************)
(* HPSDR. Its types are inductive as they stand.                           *)
(***************************************************************************)
SpotTypes == /\ {boardNco, nco, freqReg, pan, slice} \subseteq Spots
             /\ {ncoTo, partial} \subseteq Spots \cup {NoSpot} /\ block \subseteq Spots
FlagTypes == /\ {board, resettle, settling, checked, seeded, boardLost} \subseteq BOOLEAN
             /\ ccAt \in {"check", "taken", "send"}
TimeTypes == silent \in 0..SilentAt /\ hpsdrAsks \in 0..HpsdrAsks /\ hpsdrFaults \in 0..HpsdrFaults

LEMMA HpsdrTypes == HpsdrTypeOK <=> SpotTypes /\ FlagTypes /\ TimeTypes
<1>1. HpsdrTypeOK => SpotTypes
  BY DEF HpsdrTypeOK, SpotTypes
<1>2. HpsdrTypeOK => FlagTypes /\ TimeTypes
  BY Zenon DEF HpsdrTypeOK, FlagTypes, TimeTypes
<1>3. SpotTypes /\ FlagTypes /\ TimeTypes => HpsdrTypeOK
  BY Zenon DEF HpsdrTypeOK, SpotTypes, FlagTypes, TimeTypes
<1> QED BY <1>1, <1>2, <1>3

LEMMA HpsdrNumbers ==
  /\ SilentAt \in Nat /\ SilentAt > 0 /\ HpsdrAsks \in Nat /\ HpsdrFaults \in Nat
  /\ Spots \subseteq Nat /\ Spots # {}
  BY HpsdrAssumption DEF HpsdrAssumption

LEMMA SpotTypesKept ==
  ASSUME SpotTypes, [HpsdrNext]_hpsdrVars
  PROVE  SpotTypes'
<1>1. CASE HpsdrTune
  BY <1>1 DEF HpsdrTune, SpotTypes, ccVars, iqVars
<1>2. CASE FrameTunes \/ AudioTunes
  BY <1>2 DEF FrameTunes, AudioTunes, SpotTypes, ccVars, iqVars, askVars
<1>3. CASE CcLoop
  BY <1>3 DEF CcLoop, CcTake, CcLatch, CcSend, PacketLost, SpotTypes, iqVars, askVars
<1>4. CASE PowerCycle
  BY <1>4 DEF PowerCycle, SpotTypes, ccVars, iqVars, askVars
<1>5. CASE HpsdrRead
  BY <1>5 DEF HpsdrRead, ReadCheck, ReadPacket, ReadTimeout, SpotTypes, ccVars, askVars
<1>6. CASE SettleEnds \/ UNCHANGED hpsdrVars
  BY <1>6 DEF SettleEnds, SpotTypes, ccVars, iqVars, askVars, hpsdrVars
<1> QED BY <1>1, <1>2, <1>3, <1>4, <1>5, <1>6 DEF HpsdrNext

LEMMA FlagTypesKept ==
  ASSUME FlagTypes, TimeTypes, [HpsdrNext]_hpsdrVars
  PROVE  FlagTypes'
<1>1. ccAt' \in {"check", "taken", "send"}
  BY DEF FlagTypes, HpsdrNext, HpsdrTune, FrameTunes, AudioTunes, CcLoop, CcTake, CcLatch, CcSend,
         PacketLost, PowerCycle, HpsdrRead, ReadCheck, ReadPacket, ReadTimeout, SettleEnds, ccVars,
         hpsdrVars
<1>2. {board', resettle', settling', checked', seeded'} \subseteq BOOLEAN
  BY Zenon DEF FlagTypes, HpsdrNext, HpsdrTune, FrameTunes, AudioTunes, CcLoop, CcTake, CcLatch,
         CcSend, PacketLost, PowerCycle, HpsdrRead, ReadCheck, ReadPacket, ReadTimeout, SettleEnds,
         iqVars, hpsdrVars
<1>3. boardLost' \in BOOLEAN
  BY Zenon DEF FlagTypes, HpsdrNext, HpsdrTune, FrameTunes, AudioTunes, CcLoop, CcTake, CcLatch,
         CcSend, PacketLost, PowerCycle, HpsdrRead, ReadCheck, ReadPacket, ReadTimeout, SettleEnds,
         iqVars, hpsdrVars
<1> QED BY <1>1, <1>2, <1>3, Zenon DEF FlagTypes

LEMMA TimeTypesKept ==
  ASSUME TimeTypes, [HpsdrNext]_hpsdrVars
  PROVE  TimeTypes'
<1>1. silent' \in 0..SilentAt
  <2>1. silent' \in {0, silent, Min({silent + 1, SilentAt})}
    BY DEF HpsdrNext, HpsdrTune, FrameTunes, AudioTunes, CcLoop, CcTake, CcLatch, CcSend, PacketLost,
         PowerCycle, HpsdrRead, ReadCheck, ReadPacket, ReadTimeout, SettleEnds, iqVars, hpsdrVars
  <2>2. Min({silent + 1, SilentAt}) \in 0..SilentAt
    BY HpsdrNumbers, OfTwo DEF TimeTypes
  <2> QED BY <2>1, <2>2, HpsdrNumbers DEF TimeTypes
<1>2. hpsdrAsks' \in 0..HpsdrAsks
  <2>1. \/ hpsdrAsks < HpsdrAsks /\ hpsdrAsks' = hpsdrAsks + 1
        \/ UNCHANGED hpsdrAsks
    BY DEF HpsdrNext, HpsdrTune, FrameTunes, AudioTunes, CcLoop, CcTake, CcLatch, CcSend, PacketLost,
         PowerCycle, HpsdrRead, ReadCheck, ReadPacket, ReadTimeout, SettleEnds, askVars, hpsdrVars
  <2> QED BY <2>1, HpsdrNumbers DEF TimeTypes
<1>3. hpsdrFaults' \in 0..HpsdrFaults
  <2>1. \/ hpsdrFaults < HpsdrFaults /\ hpsdrFaults' = hpsdrFaults + 1
        \/ UNCHANGED hpsdrFaults
    BY DEF HpsdrNext, HpsdrTune, FrameTunes, AudioTunes, CcLoop, CcTake, CcLatch, CcSend, PacketLost,
         PowerCycle, HpsdrRead, ReadCheck, ReadPacket, ReadTimeout, SettleEnds, hpsdrVars
  <2> QED BY <2>1, HpsdrNumbers DEF TimeTypes
<1> QED BY <1>1, <1>2, <1>3 DEF TimeTypes

LEMMA HpsdrStep ==
  ASSUME HpsdrTypeOK, [HpsdrNext]_hpsdrVars
  PROVE  HpsdrTypeOK'
<1>1. SpotTypes' /\ FlagTypes' /\ TimeTypes'
  BY HpsdrTypes, SpotTypesKept, FlagTypesKept, TimeTypesKept, Zenon
<1> QED BY <1>1, Zenon DEF HpsdrTypeOK, SpotTypes, FlagTypes, TimeTypes

LEMMA HpsdrStart == HpsdrInit => HpsdrTypeOK
<1> SUFFICES ASSUME HpsdrInit PROVE HpsdrTypeOK
  OBVIOUS
<1>1. Min(Spots) \in Spots
  BY HpsdrNumbers, MinIsLeast
<1>2. SpotTypes
  BY <1>1 DEF HpsdrInit, SpotTypes
<1>3. FlagTypes
  BY Zenon DEF HpsdrInit, FlagTypes
<1>4. TimeTypes
  BY HpsdrNumbers DEF HpsdrInit, TimeTypes
<1> QED BY <1>2, <1>3, <1>4, HpsdrTypes

(* note_device_silent gives the board up when the threshold is reached, and nobody else does. *)
LEMMA LostStep ==
  ASSUME HpsdrTypeOK, [HpsdrNext]_hpsdrVars, ~boardLost, boardLost'
  PROVE  silent' = SilentAt
<1>1. ReadTimeout
  BY Zenon DEF HpsdrNext, HpsdrTune, FrameTunes, AudioTunes, CcLoop, CcTake, CcLatch, CcSend,
       PacketLost, PowerCycle, HpsdrRead, ReadCheck, ReadPacket, SettleEnds, iqVars, hpsdrVars
<1>2. silent' = Min({silent + 1, SilentAt}) /\ silent + 1 >= SilentAt
  BY <1>1 DEF ReadTimeout
<1> QED BY <1>2, HpsdrNumbers, HpsdrTypes, OfTwo DEF TimeTypes

-----------------------------------------------------------------------------
(***************************************************************************)
(* The serial radio. Its types are inductive: every frame a request takes  *)
(* out of the list leaves a list of frames, and what is filed, shown or    *)
(* set is a frequency that was on the wire.                                *)
(***************************************************************************)
SerialFrame   == Acks \cup {FreqMsg(f) : f \in SerialFreqs}
SerialCommand == {FreqMsg(NoHz), LevelMsg} \cup {SetMsg(f) : f \in SerialFreqs}

QueueTypes == wire \in Seq(SerialCommand) /\ air \in Seq(SerialFrame) /\ frames \in Seq(SerialFrame)
HzTypes    == {radioHz, sliceHz} \subseteq SerialFreqs
              /\ {cacheHz, targetHz, pollHz} \subseteq SerialFreqs \cup {NoHz}
ThreadTypes == /\ {plugged, panel, held} \subseteq BOOLEAN /\ port \in {"open", "dead", "err"}
               /\ poll \in {"idle", "set", "ask", "read", "init"}
TallyTypes == asked \in 0..SerialAsks /\ failed \in 0..SerialFaults

LEMMA SerialTypes == SerialTypeOK <=> QueueTypes /\ HzTypes /\ ThreadTypes /\ TallyTypes
<1>1. SerialTypeOK => QueueTypes
  BY DEF SerialTypeOK, QueueTypes, SerialFrame, SerialCommand
<1>2. SerialTypeOK => HzTypes
  BY DEF SerialTypeOK, HzTypes
<1>3. SerialTypeOK => ThreadTypes /\ TallyTypes
  BY Zenon DEF SerialTypeOK, ThreadTypes, TallyTypes
<1>4. QueueTypes /\ HzTypes /\ ThreadTypes /\ TallyTypes => SerialTypeOK
  BY Zenon DEF SerialTypeOK, QueueTypes, SerialFrame, SerialCommand, HzTypes, ThreadTypes, TallyTypes
<1> QED BY <1>1, <1>2, <1>3, <1>4

(* The frames and the commands by kind. *)
LEMMA MessageKinds ==
  /\ Ack \in SerialFrame /\ Nack \in SerialFrame /\ \A f \in SerialFreqs : FreqMsg(f) \in SerialFrame
  /\ \A f \in SerialFrame : f.kind = "freq" => f.hz \in SerialFreqs
  /\ FreqMsg(NoHz) \in SerialCommand /\ LevelMsg \in SerialCommand
  /\ \A f \in SerialFreqs : SetMsg(f) \in SerialCommand
  /\ \A c \in SerialCommand : c.kind = "set" => c.hz \in SerialFreqs
<1>1. \A f \in SerialFrame : f.kind = "freq" => f.hz \in SerialFreqs
  BY DEF SerialFrame, Acks, Ack, Nack, FreqMsg
<1>2. \A c \in SerialCommand : c.kind = "set" => c.hz \in SerialFreqs
  BY DEF SerialCommand, FreqMsg, LevelMsg, SetMsg
<1> QED BY <1>1, <1>2, Zenon DEF SerialFrame, SerialCommand, Acks

LEMMA SerialNumbers == SerialAsks \in Nat /\ SerialFaults \in Nat
                       /\ SerialFreqs \subseteq Nat /\ SerialFreqs # {}
  BY SerialAssumption DEF SerialAssumption

(* A sequence without one of its elements is a sequence of the others. *)
LEMMA RemovalType ==
  ASSUME NEW S, NEW q \in Seq(S), NEW i \in 1..Len(q)
  PROVE  RemoveAt(q, i) \in Seq(S)
<1>1. Len(q) \in Nat /\ 1 \in Int /\ i - 1 \in Int /\ i + 1 \in Int
  BY LenProperties
<1>2. SubSeq(q, 1, i - 1) \in Seq(S)
  BY <1>1, SubSeqProperties, ElementOfSeq
<1>3. SubSeq(q, i + 1, Len(q)) \in Seq(S)
  BY <1>1, SubSeqProperties, ElementOfSeq
<1> QED BY <1>2, <1>3, ConcatProperties DEF RemoveAt

(* The first frame a request accepts is one of the list, and it is accepted. *)
LEMMA FirstIs ==
  ASSUME QueueTypes, NEW ok, FirstOf(ok) # 0
  PROVE  FirstOf(ok) \in 1..Len(frames) /\ frames[FirstOf(ok)] \in ok
<1> DEFINE I == {i \in 1..Len(frames) : frames[i] \in ok}
<1>1. FirstOf(ok) = IF I # {} THEN Min(I) ELSE 0
  BY DEF FirstOf, SelectInSeq
<1>2. I # {} /\ I \subseteq Nat
  BY <1>1
<1>3. Min(I) \in I
  BY <1>2, MinIsLeast
<1> QED BY <1>1, <1>2, <1>3

LEMMA TakeReplyType ==
  ASSUME QueueTypes, NEW ok, TakeReply(ok)
  PROVE  frames' \in Seq(SerialFrame)
  BY FirstIs, RemovalType DEF TakeReply, QueueTypes

(* A request writes its command and forgets the frames that were collected. *)
LEMMA RequestTypes ==
  ASSUME QueueTypes, NEW c \in SerialCommand, Request(c)
  PROVE  wire' \in Seq(SerialCommand) /\ frames' \in Seq(SerialFrame)
  BY DEF Request, QueueTypes

(* One more frame from the radio. *)
LEMMA AnswerType ==
  ASSUME QueueTypes, NEW f \in SerialFrame
  PROVE  Append(air, f) \in Seq(SerialFrame)
  BY DEF QueueTypes

LEMMA QueueTypesKept ==
  ASSUME QueueTypes, HzTypes, ThreadTypes, [SerialNext]_serialVars
  PROVE  QueueTypes'
<1>1. CASE PollTakes
  <2>1. targetHz \notin {NoHz, cacheHz} => SetMsg(targetHz) \in SerialCommand
    BY MessageKinds DEF HzTypes
  <2>2. air' = air /\ (UNCHANGED <<wire, frames>> \/ \E c \in SerialCommand : Request(c))
    BY <1>1, <2>1, Zenon DEF PollTakes, PollRaises
  <2> QED BY <2>2, RequestTypes DEF QueueTypes
<1>2. CASE PollSetDone \/ PollReads \/ PanelDone
  <2>1. UNCHANGED <<wire, air>>
    BY <1>2 DEF PollSetDone, PollReads, PanelDone
  <2>2. \E ok : TakeReply(ok) \/ GiveUp(ok)
    BY <1>2, Zenon DEF PollSetDone, PollReads, PanelDone
  <2>3. \A ok : GiveUp(ok) => frames' = frames
    BY DEF GiveUp
  <2> QED BY <2>1, <2>2, <2>3, TakeReplyType DEF QueueTypes
<1>3. CASE PollAsks
  <2>1. air' = air /\ (UNCHANGED <<wire, frames>> \/ Request(FreqMsg(NoHz)))
    BY <1>3, Zenon DEF PollAsks, PollRaises
  <2> QED BY <2>1, RequestTypes, MessageKinds DEF QueueTypes
<1>4. CASE Reopen
  <2>1. <<FreqMsg(NoHz)>> \in Seq(SerialCommand) /\ <<>> \in Seq(SerialFrame)
    BY MessageKinds
  <2>2. air' = air /\ (UNCHANGED <<wire, frames>> \/ (wire' = <<FreqMsg(NoHz)>> /\ frames' = <<>>))
    BY <1>4, Zenon DEF Reopen
  <2> QED BY <2>1, <2>2 DEF QueueTypes
<1>5. CASE PanelSets
  <2>1. air' = air /\ Request(LevelMsg)
    BY <1>5 DEF PanelSets
  <2> QED BY <2>1, RequestTypes, MessageKinds DEF QueueTypes
<1>6. CASE RadioAnswers
  <2>1. wire' \in Seq(SerialCommand) /\ frames' = frames
    BY <1>6, HeadTailProperties DEF RadioAnswers, QueueTypes
  <2>2. \E f \in SerialFrame : air' = Append(air, f)
    BY <1>6, MessageKinds DEF RadioAnswers, HzTypes
  <2> QED BY <2>1, <2>2, AnswerType DEF QueueTypes
<1>7. CASE DialTurned
  <2>1. UNCHANGED <<wire, frames>> /\ radioHz' \in SerialFreqs
        /\ air' \in {air, Append(air, FreqMsg(radioHz'))}
    BY <1>7 DEF DialTurned
  <2>2. FreqMsg(radioHz') \in SerialFrame
    BY <2>1, MessageKinds
  <2> QED BY <2>1, <2>2, AnswerType DEF QueueTypes
<1>8. CASE ReaderFiles
  <2>1. Head(air) \in SerialFrame /\ Tail(air) \in Seq(SerialFrame)
    BY <1>8, HeadTailProperties DEF ReaderFiles, QueueTypes
  <2> QED BY <1>8, <2>1 DEF ReaderFiles, QueueTypes
<1>9. CASE Unplug
  BY <1>9 DEF Unplug, QueueTypes
<1>10. CASE UNCHANGED lineVars
  BY <1>10 DEF lineVars, QueueTypes
<1>11. [SerialNext]_serialVars =>
         \/ PollTakes \/ PollSetDone \/ PollReads \/ PanelDone \/ PollAsks \/ Reopen \/ PanelSets
         \/ RadioAnswers \/ DialTurned \/ ReaderFiles \/ Unplug \/ UNCHANGED lineVars
  BY Zenon DEF SerialNext, PollLoop, SerialRead, SerialTune, SerialHoldEnds, SerialFollow,
       ReopenTooSoon, ReaderFails, Replug, serialVars
<1> QED BY <1>1, <1>2, <1>3, <1>4, <1>5, <1>6, <1>7, <1>8, <1>9, <1>10, <1>11

LEMMA HzTypesKept ==
  ASSUME QueueTypes, HzTypes, [SerialNext]_serialVars
  PROVE  HzTypes'
<1>1. CASE SerialTune
  BY <1>1 DEF SerialTune, HzTypes
<1>2. CASE SerialFollow
  BY <1>2 DEF SerialFollow, HzTypes
<1>3. CASE PollTakes
  BY <1>3 DEF PollTakes, HzTypes, engineVars
<1>4. CASE PollSetDone
  <2>1. /\ UNCHANGED <<radioHz, sliceHz, targetHz>> /\ pollHz' = NoHz
        /\ cacheHz' \in {pollHz, cacheHz}
    BY <1>4, Zenon DEF PollSetDone, engineVars
  <2> QED BY <2>1 DEF HzTypes
<1>5. CASE Reopen \/ ReopenTooSoon
  BY <1>5 DEF Reopen, ReopenTooSoon, HzTypes, engineVars
<1>6. CASE RadioAnswers
  <2>1. Head(wire) \in SerialCommand
    BY <1>6, HeadTailProperties DEF RadioAnswers, QueueTypes
  <2>2. Head(wire).kind = "set" => Head(wire).hz \in SerialFreqs
    BY <2>1, MessageKinds
  <2>3. /\ UNCHANGED <<cacheHz, targetHz, pollHz, sliceHz>>
        /\ radioHz' = radioHz \/ (Head(wire).kind = "set" /\ radioHz' = Head(wire).hz)
    BY <1>6 DEF RadioAnswers, engineVars
  <2> QED BY <2>2, <2>3 DEF HzTypes
<1>7. CASE DialTurned
  BY <1>7 DEF DialTurned, HzTypes, engineVars
<1>8. CASE ReaderFiles
  <2>1. Head(air) \in SerialFrame
    BY <1>8, HeadTailProperties DEF ReaderFiles, QueueTypes
  <2>2. Head(air).kind = "freq" => Head(air).hz \in SerialFreqs
    BY <2>1, MessageKinds
  <2>3. /\ UNCHANGED <<radioHz, sliceHz, targetHz, pollHz>>
        /\ cacheHz' = cacheHz \/ (Head(air).kind = "freq" /\ cacheHz' = Head(air).hz)
    BY <1>8 DEF ReaderFiles, engineVars
  <2> QED BY <2>2, <2>3 DEF HzTypes
<1>9. CASE UNCHANGED <<radioHz, sliceHz, cacheHz, targetHz, pollHz>>
  BY <1>9 DEF HzTypes
<1>10. [SerialNext]_serialVars =>
         \/ SerialTune \/ SerialFollow \/ PollTakes \/ PollSetDone \/ Reopen \/ ReopenTooSoon
         \/ RadioAnswers \/ DialTurned \/ ReaderFiles
         \/ UNCHANGED <<radioHz, sliceHz, cacheHz, targetHz, pollHz>>
  BY Zenon DEF SerialNext, PollLoop, SerialRead, SerialHoldEnds, PollAsks, PollReads, PanelSets,
       PanelDone, ReaderFails, Unplug, Replug, serialVars, engineVars
<1> QED BY <1>1, <1>2, <1>3, <1>4, <1>5, <1>6, <1>7, <1>8, <1>9, <1>10

LEMMA ThreadTypesKept ==
  ASSUME ThreadTypes, [SerialNext]_serialVars
  PROVE  ThreadTypes'
<1>1. {plugged', panel', held'} \subseteq BOOLEAN
  BY Zenon DEF ThreadTypes, SerialNext, SerialTune, SerialHoldEnds, SerialFollow, PollLoop,
       PollTakes, PollSetDone, PollAsks, PollReads, Reopen, ReopenTooSoon, PanelSets, PanelDone,
       RadioAnswers, DialTurned, SerialRead, ReaderFiles, ReaderFails, Unplug, Replug, serialVars,
       engineVars
<1>2. port' \in {"open", "dead", "err"}
  BY Zenon DEF ThreadTypes, SerialNext, SerialTune, SerialHoldEnds, SerialFollow, PollLoop,
       PollTakes, PollRaises, PollSetDone, PollAsks, PollReads, Reopen, ReopenTooSoon, PanelSets,
       PanelDone, RadioAnswers, DialTurned, SerialRead, ReaderFiles, ReaderFails, Unplug, Replug,
       serialVars
<1>3. poll' \in {"idle", "set", "ask", "read", "init"}
  BY Zenon DEF ThreadTypes, SerialNext, SerialTune, SerialHoldEnds, SerialFollow, PollLoop,
       PollTakes, PollRaises, PollSetDone, PollAsks, PollReads, Reopen, ReopenTooSoon, PanelSets,
       PanelDone, RadioAnswers, DialTurned, SerialRead, ReaderFiles, ReaderFails, Unplug, Replug,
       serialVars
<1> QED BY <1>1, <1>2, <1>3, Zenon DEF ThreadTypes

LEMMA TallyTypesKept ==
  ASSUME TallyTypes, [SerialNext]_serialVars
  PROVE  TallyTypes'
<1>1. asked' \in 0..SerialAsks
  <2>1. (asked < SerialAsks /\ asked' = asked + 1) \/ UNCHANGED asked
    BY Zenon DEF SerialNext, SerialTune, SerialHoldEnds, SerialFollow, PollLoop,
       PollTakes, PollSetDone, PollAsks, PollReads, Reopen, ReopenTooSoon, PanelSets, PanelDone,
       RadioAnswers, DialTurned, SerialRead, ReaderFiles, ReaderFails, Unplug, Replug, serialVars,
       countVars
  <2> QED BY <2>1, SerialNumbers DEF TallyTypes
<1>2. failed' \in 0..SerialFaults
  <2>1. (failed < SerialFaults /\ failed' = failed + 1) \/ UNCHANGED failed
    BY Zenon DEF SerialNext, SerialTune, SerialHoldEnds, SerialFollow, PollLoop,
       PollTakes, PollSetDone, PollAsks, PollReads, Reopen, ReopenTooSoon, PanelSets, PanelDone,
       GiveUp, RadioAnswers, DialTurned, SerialRead, ReaderFiles, ReaderFails, Unplug, Replug,
       serialVars, countVars
  <2> QED BY <2>1, SerialNumbers DEF TallyTypes
<1> QED BY <1>1, <1>2 DEF TallyTypes

LEMMA SerialStep ==
  ASSUME SerialTypeOK, [SerialNext]_serialVars
  PROVE  SerialTypeOK'
<1>1. QueueTypes' /\ HzTypes' /\ ThreadTypes' /\ TallyTypes'
  BY SerialTypes, QueueTypesKept, HzTypesKept, ThreadTypesKept, TallyTypesKept, Zenon
<1> QED
  BY <1>1, Zenon DEF SerialTypeOK, QueueTypes, SerialFrame, SerialCommand, HzTypes, ThreadTypes,
                     TallyTypes

LEMMA SerialStart == SerialInit => SerialTypeOK
<1> SUFFICES ASSUME SerialInit PROVE SerialTypeOK
  OBVIOUS
<1>1. QueueTypes
  BY DEF SerialInit, QueueTypes
<1>2. HzTypes
  BY DEF SerialInit, HzTypes
<1>3. ThreadTypes
  BY Zenon DEF SerialInit, ThreadTypes
<1>4. TallyTypes
  BY SerialNumbers DEF SerialInit, TallyTypes
<1> QED BY <1>1, <1>2, <1>3, <1>4, SerialTypes

-----------------------------------------------------------------------------
(***************************************************************************)
(* The rig behind rigctld. Besides its types the invariant has that late   *)
(* replies and restarts are counts, of which the types know only the sum.  *)
(***************************************************************************)
LinkTypes == /\ todo \in Seq(RigCommands) /\ replies \in Seq(RigReplies)
             /\ work \in RigCommands \cup {Blank}
KnobTypes == /\ rigHz \in RigFreqs /\ {rigMode, hamMode, rigSliceMode} \subseteq RigModes
             /\ {hamHz, rigSliceHz} \subseteq RigFreqs \cup {Junk}
             /\ hzTarget \in RigFreqs \cup {NoFreq} /\ modeTarget \in RigModes \cup {NoMode}
StateTypes == {daemon, driven, rigHeld} \subseteq BOOLEAN /\ sock \in {"none", "up", "stale"}
RigCounted == /\ turnNo \in 0..5 /\ rigAsks \in 0..RigAsks
              /\ lateReplies \in 0..RigFaults /\ restarts \in 0..RigFaults
              /\ lateReplies + restarts \in 0..RigFaults

RigIInv == LinkTypes /\ KnobTypes /\ StateTypes /\ RigCounted

LEMMA RigTypes == RigIInv => RigTypeOK
<1> SUFFICES ASSUME RigIInv PROVE RigTypeOK
  OBVIOUS
<1>1. /\ rigHz \in RigFreqs /\ rigMode \in RigModes /\ hamHz \in RigFreqs \cup {Junk}
      /\ hamMode \in RigModes /\ rigSliceMode \in RigModes /\ rigSliceHz \in RigFreqs \cup {Junk}
      /\ hzTarget \in RigFreqs \cup {NoFreq} /\ modeTarget \in RigModes \cup {NoMode}
  BY DEF RigIInv, KnobTypes
<1>2. /\ daemon \in BOOLEAN /\ driven \in BOOLEAN /\ rigHeld \in BOOLEAN
      /\ sock \in {"none", "up", "stale"}
  BY Zenon DEF RigIInv, StateTypes
<1>3. LinkTypes /\ RigCounted
  BY DEF RigIInv
<1> QED BY <1>1, <1>2, <1>3, Zenon DEF RigTypeOK, LinkTypes, RigCounted

LEMMA RigNumbers == /\ RigAsks \in Nat /\ RigFaults \in Nat
                    /\ RigFreqs \subseteq Nat /\ RigFreqs # {} /\ RigModes \subseteq Nat /\ RigModes # {}
  BY RigAssumption DEF RigAssumption

(* What a command or a reply carries, by its kind. *)
LEMMA RigMessageParts ==
  /\ \A c \in RigCommands : /\ c.kind = "F" => c.val \in RigFreqs
                            /\ c.kind = "M" => c.val \in RigModes
  /\ \A r \in RigReplies : /\ r.kind = "freq" => r.val \in RigFreqs
                           /\ r.kind = "mode" => r.val \in RigModes
  BY DEF RigCommands, RigReplies

(* The commands and the replies that are sent. *)
LEMMA RigMessages ==
  /\ \A f \in RigFreqs : /\ [kind |-> "F", val |-> f] \in RigCommands
                         /\ [kind |-> "freq", val |-> f] \in RigReplies
  /\ \A m \in RigModes : /\ [kind |-> "M", val |-> m] \in RigCommands
                         /\ [kind |-> "mode", val |-> m] \in RigReplies
  /\ \A k \in {"f", "m", "l"} : [kind |-> k, val |-> NoFreq] \in RigCommands
  /\ \A k \in {"ok", "error", "meter"} : [kind |-> k, val |-> NoFreq] \in RigReplies
  BY Zenon DEF RigCommands, RigReplies

(* What a round of the worker sends is a command. *)
LEMMA WantedType ==
  ASSUME KnobTypes
  PROVE  Wanted \in RigCommands
<1>1. CASE hzTarget # NoFreq
  <2>1. hzTarget \in RigFreqs
    BY <1>1 DEF KnobTypes
  <2>2. Wanted = [kind |-> "F", val |-> hzTarget]
    BY <1>1 DEF Wanted
  <2> QED BY <2>1, <2>2, RigMessages
<1>2. CASE hzTarget = NoFreq /\ modeTarget # NoMode
  <2>1. modeTarget \in RigModes
    BY <1>2 DEF KnobTypes
  <2>2. Wanted = [kind |-> "M", val |-> modeTarget]
    BY <1>2 DEF Wanted
  <2> QED BY <2>1, <2>2, RigMessages
<1>3. CASE hzTarget = NoFreq /\ modeTarget = NoMode
  <2> DEFINE k == ReadTurn((turnNo + 1) % 6)
  <2>1. Wanted = [kind |-> k, val |-> NoFreq]
    BY <1>3 DEF Wanted
  <2>2. k \in {"f", "m", "l"}
    BY DEF ReadTurn
  <2> HIDE DEF k
  <2> QED BY <2>1, <2>2, RigMessages
<1> QED BY <1>1, <1>2, <1>3

(* Whatever reply a command is given, the adapter then shows a frequency or the junk of a *)
(* meter reading, and a mode.                                                             *)
LEMMA AbsorbTypes ==
  ASSUME LinkTypes, KnobTypes, NEW r \in RigReplies \cup {Blank}, Absorb(r)
  PROVE  hamHz' \in RigFreqs \cup {Junk} /\ hamMode' \in RigModes /\ work' = Blank
<1>1. /\ work.kind = "F" => work.val \in RigFreqs
      /\ work.kind = "M" => work.val \in RigModes
  BY RigMessageParts DEF LinkTypes, Blank
<1>2. /\ r.kind = "freq" => r.val \in RigFreqs
      /\ r.kind = "mode" => r.val \in RigModes
  BY RigMessageParts DEF Blank
<1> QED BY <1>1, <1>2 DEF Absorb, KnobTypes

LEMMA LinkTypesKept ==
  ASSUME LinkTypes, KnobTypes, [RigNext]_rigVars
  PROVE  LinkTypes'
<1>1. CASE WorkerSends
  <2>1. Append(todo, Wanted) \in Seq(RigCommands) /\ <<Wanted>> \in Seq(RigCommands)
        /\ Wanted \in RigCommands
    BY WantedType DEF LinkTypes
  <2>2. /\ todo' \in {todo, Append(todo, Wanted), <<Wanted>>} /\ replies' \in {replies, <<>>}
        /\ work' \in {work, Wanted}
    BY <1>1, Zenon DEF WorkerSends
  <2>3. todo' \in Seq(RigCommands)
    BY <2>1, <2>2, Zenon DEF LinkTypes
  <2>4. replies' \in Seq(RigReplies)
    <3>1. <<>> \in Seq(RigReplies)
      OBVIOUS
    <3> QED BY <2>2, <3>1, Zenon DEF LinkTypes
  <2>5. work' \in RigCommands \cup {Blank}
    BY <2>1, <2>2, Zenon DEF LinkTypes
  <2> QED BY <2>3, <2>4, <2>5 DEF LinkTypes
<1>2. CASE WorkerReads
  <2>1. todo' = todo /\ work' = Blank /\ replies' \in {Tail(replies), <<>>} /\ replies # <<>>
    BY <1>2 DEF WorkerReads, Absorb
  <2>2. Tail(replies) \in Seq(RigReplies) /\ <<>> \in Seq(RigReplies)
    BY <2>1, HeadTailProperties DEF LinkTypes
  <2>3. replies' \in Seq(RigReplies) /\ work' \in RigCommands \cup {Blank}
    BY <2>1, <2>2, Zenon
  <2> QED BY <2>1, <2>3 DEF LinkTypes
<1>3. CASE WorkerTimesOut \/ WorkerReadsEnd
  <2>1. UNCHANGED <<todo, replies>> /\ work' = Blank
    BY <1>3 DEF WorkerTimesOut, WorkerReadsEnd, Absorb, linkVars
  <2> QED BY <2>1 DEF LinkTypes
<1>4. CASE DaemonAnswers
  <2>1. todo' \in Seq(RigCommands) /\ work' = work
    BY <1>4, HeadTailProperties DEF DaemonAnswers, LinkTypes
  <2>2. PICK r \in RigReplies : replies' = Append(replies, r)
    <3>1. rigHz \in RigFreqs /\ rigMode \in RigModes
      BY DEF KnobTypes
    <3>2. \/ replies' = Append(replies, [kind |-> "freq", val |-> rigHz])
          \/ replies' = Append(replies, [kind |-> "mode", val |-> rigMode])
          \/ \E k \in {"ok", "error", "meter"} :
               replies' = Append(replies, [kind |-> k, val |-> NoFreq])
      BY <1>4, Zenon DEF DaemonAnswers
    <3> QED BY <3>1, <3>2, RigMessages
  <2> QED BY <2>1, <2>2 DEF LinkTypes
<1>5. CASE DaemonStops
  <2>1. todo' = <<>> /\ replies' = <<>> /\ work' = work
    BY <1>5 DEF DaemonStops
  <2> QED BY <2>1 DEF LinkTypes
<1>6. CASE UNCHANGED <<todo, replies, work>>
  BY <1>6 DEF LinkTypes
<1>7. [RigNext]_rigVars =>
        \/ WorkerSends \/ WorkerReads \/ WorkerTimesOut \/ WorkerReadsEnd \/ DaemonAnswers
        \/ DaemonStops \/ UNCHANGED <<todo, replies, work>>
  BY Zenon DEF RigNext, RigWorker, RigTune, RigSetMode, RigHoldEnds, RigFollow, DrivenEnds,
       DaemonStarts, RigTurned, rigVars, linkVars
<1> QED BY <1>1, <1>2, <1>3, <1>4, <1>5, <1>6, <1>7

LEMMA KnobTypesKept ==
  ASSUME LinkTypes, KnobTypes, [RigNext]_rigVars
  PROVE  KnobTypes'
<1>1. CASE RigTune
  BY <1>1 DEF RigTune, KnobTypes, rigState, hamVars
<1>2. CASE RigSetMode
  BY <1>2 DEF RigSetMode, KnobTypes, rigState
<1>3. CASE RigFollow
  BY <1>3 DEF RigFollow, KnobTypes, rigState, hamVars, targetVars
<1>4. CASE WorkerSends
  <2>1. hzTarget' = NoFreq /\ modeTarget' \in {modeTarget, NoMode}
        /\ UNCHANGED <<rigState, hamVars, rigSliceVars>>
    BY <1>4, Zenon DEF WorkerSends
  <2> QED BY <2>1 DEF KnobTypes, rigState, hamVars, rigSliceVars
<1>5. CASE WorkerReads \/ WorkerTimesOut \/ WorkerReadsEnd
  <2>1. UNCHANGED <<rigState, targetVars, rigSliceVars>>
    BY <1>5 DEF WorkerReads, WorkerTimesOut, WorkerReadsEnd
  <2>2. PICK r \in RigReplies \cup {Blank} : Absorb(r)
    <3>1. CASE WorkerReads
      BY <3>1, HeadTailProperties DEF WorkerReads, LinkTypes
    <3>2. CASE WorkerTimesOut \/ WorkerReadsEnd
      BY <3>2 DEF WorkerTimesOut, WorkerReadsEnd
    <3> QED BY <1>5, <3>1, <3>2
  <2>3. hamHz' \in RigFreqs \cup {Junk} /\ hamMode' \in RigModes
    BY <2>2, AbsorbTypes
  <2> QED BY <2>1, <2>3 DEF KnobTypes, rigState, targetVars, rigSliceVars
<1>6. CASE DaemonAnswers
  <2>1. Head(todo) \in RigCommands
    BY <1>6, HeadTailProperties DEF DaemonAnswers, LinkTypes
  <2>2. /\ UNCHANGED <<hamVars, targetVars, rigSliceVars>>
        /\ rigHz' = rigHz \/ (Head(todo).kind = "F" /\ rigHz' = Head(todo).val)
        /\ rigMode' = rigMode \/ (Head(todo).kind = "M" /\ rigMode' = Head(todo).val)
    BY <1>6, Zenon DEF DaemonAnswers, rigState
  <2>3. rigHz' \in RigFreqs /\ rigMode' \in RigModes
    BY <2>1, <2>2, RigMessageParts DEF KnobTypes
  <2> QED BY <2>2, <2>3 DEF KnobTypes, hamVars, targetVars, rigSliceVars
<1>7. CASE RigTurned
  BY <1>7 DEF RigTurned, KnobTypes, hamVars, targetVars, rigSliceVars
<1>8. CASE UNCHANGED <<rigState, hamVars, targetVars, rigSliceHz, rigSliceMode>>
  BY <1>8 DEF KnobTypes, rigState, hamVars, targetVars
<1>9. [RigNext]_rigVars =>
        \/ RigTune \/ RigSetMode \/ RigFollow \/ WorkerSends \/ WorkerReads \/ WorkerTimesOut
        \/ WorkerReadsEnd \/ DaemonAnswers \/ RigTurned
        \/ UNCHANGED <<rigState, hamVars, targetVars, rigSliceHz, rigSliceMode>>
  BY Zenon DEF RigNext, RigWorker, RigHoldEnds, DrivenEnds, DaemonStops, DaemonStarts, rigVars,
       rigSliceVars
<1> QED BY <1>1, <1>2, <1>3, <1>4, <1>5, <1>6, <1>7, <1>8, <1>9

LEMMA StateTypesKept ==
  ASSUME StateTypes, [RigNext]_rigVars
  PROVE  StateTypes'
<1>1. {daemon', driven', rigHeld'} \subseteq BOOLEAN
  BY Zenon DEF StateTypes, RigNext, RigWorker, RigTune, RigSetMode, RigHoldEnds, RigFollow, DrivenEnds,
       WorkerSends, WorkerReads, WorkerTimesOut, WorkerReadsEnd, Absorb, DaemonAnswers, DaemonStops,
       DaemonStarts, RigTurned, rigVars, linkVars, rigSliceVars
<1>2. sock' \in {"none", "up", "stale"}
  BY Zenon DEF StateTypes, RigNext, RigWorker, RigTune, RigSetMode, RigHoldEnds, RigFollow, DrivenEnds,
       WorkerSends, WorkerReads, WorkerTimesOut, WorkerReadsEnd, DaemonAnswers, DaemonStops,
       DaemonStarts, RigTurned, rigVars, linkVars
<1> QED BY <1>1, <1>2, Zenon DEF StateTypes

LEMMA RigCountedKept ==
  ASSUME RigCounted, [RigNext]_rigVars
  PROVE  RigCounted'
<1>1. turnNo' \in 0..5
  <2>1. turnNo' \in {turnNo, (turnNo + 1) % 6}
    BY Zenon DEF RigNext, RigWorker, RigTune, RigSetMode, RigHoldEnds, RigFollow, DrivenEnds,
       WorkerSends, WorkerReads, WorkerTimesOut, WorkerReadsEnd, DaemonAnswers, DaemonStops,
       DaemonStarts, RigTurned, rigVars
  <2> QED BY <2>1 DEF RigCounted
<1>2. rigAsks' \in 0..RigAsks
  <2>1. (rigAsks < RigAsks /\ rigAsks' = rigAsks + 1) \/ UNCHANGED rigAsks
    BY Zenon DEF RigNext, RigWorker, RigTune, RigSetMode, RigHoldEnds, RigFollow, DrivenEnds,
       WorkerSends, WorkerReads, WorkerTimesOut, WorkerReadsEnd, DaemonAnswers, DaemonStops,
       DaemonStarts, RigTurned, rigVars, rigCounts
  <2> QED BY <2>1, RigNumbers DEF RigCounted
<1>3. /\ lateReplies' \in 0..RigFaults /\ restarts' \in 0..RigFaults
      /\ lateReplies' + restarts' \in 0..RigFaults
  <2>1. \/ lateReplies + restarts < RigFaults /\ lateReplies' = lateReplies + 1 /\ restarts' = restarts
        \/ lateReplies + restarts < RigFaults /\ restarts' = restarts + 1 /\ lateReplies' = lateReplies
        \/ UNCHANGED <<lateReplies, restarts>>
    BY Zenon DEF RigNext, RigWorker, RigTune, RigSetMode, RigHoldEnds, RigFollow, DrivenEnds,
       WorkerSends, WorkerReads, WorkerTimesOut, WorkerReadsEnd, DaemonAnswers, DaemonStops,
       DaemonStarts, RigTurned, rigVars, rigCounts
  <2> QED BY <2>1, RigNumbers DEF RigCounted
<1> QED BY <1>1, <1>2, <1>3 DEF RigCounted

LEMMA RigStep ==
  ASSUME RigIInv, [RigNext]_rigVars
  PROVE  RigIInv'
  BY LinkTypesKept, KnobTypesKept, StateTypesKept, RigCountedKept, Zenon DEF RigIInv

LEMMA RigStart == RigInit => RigIInv
<1> SUFFICES ASSUME RigInit PROVE RigIInv
  OBVIOUS
<1>1. LinkTypes
  BY DEF RigInit, LinkTypes
<1>2. KnobTypes
  BY DEF RigInit, KnobTypes
<1>3. StateTypes
  BY Zenon DEF RigInit, StateTypes
<1>4. RigCounted
  BY RigNumbers DEF RigInit, RigCounted
<1> QED BY <1>1, <1>2, <1>3, <1>4 DEF RigIInv

-----------------------------------------------------------------------------
(* The four in one. *)

AdaptersIInv ==
  /\ adapter \in {"soapy", "hpsdr", "icom7300", "rigctld"}
  /\ SoapyIInv /\ HpsdrTypeOK /\ SerialTypeOK /\ RigIInv

(* A step of the composition is one of the chosen adapter; the others stand still. *)
LEMMA OneMoves ==
  ASSUME [AdaptersNext]_adapterVars
  PROVE  /\ adapter' = adapter /\ [SoapyNext]_soapyVars /\ [HpsdrNext]_hpsdrVars
         /\ [SerialNext]_serialVars /\ [RigNext]_rigVars
  BY Zenon DEF AdaptersNext, Soapy, Hpsdr, Serial, Rig, adapterVars

(* The invariant of each adapter, whichever of them is chosen. *)
THEOREM AdaptersInvariantHolds == AdaptersSpec => []AdaptersIInv
<1>1. AdaptersInit => AdaptersIInv
  BY SoapyStart, HpsdrStart, SerialStart, RigStart, Zenon DEF AdaptersInit, AdaptersIInv
<1>2. AdaptersIInv /\ [AdaptersNext]_adapterVars => AdaptersIInv'
  BY OneMoves, SoapyStep, HpsdrStep, SerialStep, RigStep, Zenon DEF AdaptersIInv
<1> QED BY <1>1, <1>2, PTL DEF AdaptersSpec

(* The states of the adapters are what the code can hold; and over rate changes, restarts and *)
(* losses of the SoapySDR device no block of IQ or audio mixes two sample rates.              *)
THEOREM AdaptersInvHolds == AdaptersSpec => []AdaptersInv
<1>1. AdaptersIInv => AdaptersInv
  BY RigTypes, Zenon DEF AdaptersIInv, SoapyIInv, AdaptersInv, AdaptersTypeOK
<1> QED BY <1>1, AdaptersInvariantHolds, PTL

(* The HPSDR board is given up only after a silence of the whole threshold. *)
THEOREM LostAfterSilenceHolds == AdaptersSpec => LostAfterSilence
<1>1. AdaptersIInv /\ [AdaptersNext]_adapterVars
        => [~boardLost /\ boardLost' => silent' = SilentAt]_hpsdrVars
  BY OneMoves, LostStep, Zenon DEF AdaptersIInv
<1> QED BY <1>1, AdaptersInvariantHolds, PTL DEF AdaptersSpec, LostAfterSilence
=============================================================================
