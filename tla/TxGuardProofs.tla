--------------------------- MODULE TxGuardProofs ---------------------------
(***************************************************************************)
(* Machine-checked proofs about TxGuard, for every set of bands and of     *)
(* timers and every setting of the flags.                                  *)
(***************************************************************************)
EXTENDS TxGuard, TLAPS

USE DEF ae, key, tuning, session, Threads, CmdPcs, RecPcs, Goto, CmdIdle

(* The form of the assumption on MaxAttempts the provers use. *)
LEMMA MaxAttemptsNat == MaxAttempts \in Nat /\ MaxAttempts > 0
  BY AttemptsAssumption

(* Type correctness: every variable keeps the type its code gives it, and   *)
(* the reconnect thread never makes more than MaxAttempts attempts.         *)
TypeInv ==
  /\ TypeOK
  /\ pc["rec"] = "open" => attempts < MaxAttempts

(* Answers overtaken by a tune are answers all the same. *)
LEMMA OvertakenTyped ==
  ASSUME TypeInv PROVE Overtaken \subseteq [band : Bands, new : BOOLEAN]
BY DEF TypeInv, TypeOK, Overtaken

(* The steps of the session thread keep the types. *)
LEMMA TypeCmd == ASSUME TypeInv, CmdStep PROVE TypeInv'
<1> USE DEF TypeInv, TypeOK
<1>1. CASE Connect BY <1>1 DEF Connect, Arm
<1>2. CASE Disconnect BY <1>2 DEF Disconnect
<1>3. CASE DropUnkey BY <1>3 DEF DropUnkey, Unkey, Cancelled, PttRaw
<1>4. CASE DropLatch BY <1>4 DEF DropLatch
<1>5. ASSUME NEW on \in BOOLEAN, Xmit(on) PROVE TypeInv'
  BY <1>5 DEF Xmit, RequestTx
<1>6. ASSUME NEW on \in BOOLEAN, SetMode(on) PROVE TypeInv'
  BY <1>6 DEF SetMode
<1>7. ASSUME NEW m \in BOOLEAN, NEW t \in BOOLEAN, TransmitSet(m, t) PROVE TypeInv'
  BY <1>7 DEF TransmitSet, RequestTx
<1>8. CASE KeyCheck BY <1>8 DEF KeyCheck
<1>9. CASE KeyPtt BY <1>9 DEF KeyPtt, KeyRaises, PttRaw
<1>10. CASE KeyWatch BY <1>10 DEF KeyWatch, KeyRaises
<1>11. CASE CmdUnkey BY <1>11 DEF CmdUnkey, Unkey, Cancelled, PttRaw
<1>12. CASE CreateDaxTx BY <1>12 DEF CreateDaxTx
<1>13. ASSUME NEW b \in Bands, SliceTune(b) PROVE TypeInv'
  BY <1>13, OvertakenTyped DEF SliceTune, SendTune
<1> QED
  BY <1>1, <1>2, <1>3, <1>4, <1>5, <1>6, <1>7, <1>8, <1>9, <1>10, <1>11, <1>12, <1>13
     DEF CmdStep

(* ... of the watchdog timers, *)
LEMMA TypeTimer == ASSUME TypeInv, TimerStep PROVE TypeInv'
<1> USE DEF TypeInv, TypeOK
<1>1. ASSUME NEW i \in Timers, TimerFire(i) PROVE TypeInv'
  BY <1>1 DEF TimerFire
<1>2. ASSUME NEW i \in Timers, TimerUnkey(i) PROVE TypeInv'
  BY <1>2 DEF TimerUnkey, Unkey, Cancelled, PttRaw
<1> QED BY <1>1, <1>2 DEF TimerStep

(* ... of the CI-V reader, the tuner and the dial, *)
LEMMA TypeRig == ASSUME TypeInv, RigStep PROVE TypeInv'
<1> USE DEF TypeInv, TypeOK
<1>1. CASE RigTells
  <2>1. (sent = {}) \in BOOLEAN
    OBVIOUS
  <2>2. [band |-> rig, new |-> sent = {}] \in [band : Bands, new : BOOLEAN]
    BY <2>1
  <2>3. told' \subseteq [band : Bands, new : BOOLEAN]
    BY <1>1, <2>2 DEF RigTells
  <2> QED BY <1>1, <2>3 DEF RigTells
<1>2. CASE TunerTake BY <1>2, OvertakenTyped DEF TunerTake, SendTune
<1>3. ASSUME NEW a \in told, FreqReply(a) PROVE TypeInv'
  BY <1>3 DEF FreqReply
<1>4. ASSUME NEW b \in sent, RigTakes(b) PROVE TypeInv'
  BY <1>4 DEF RigTakes
<1>5. ASSUME NEW refused \in BOOLEAN, TunerDone(refused) PROVE TypeInv'
  BY <1>5 DEF TunerDone
<1>6. ASSUME NEW b \in Bands, NEW heard \in BOOLEAN, Dial(b, heard) PROVE TypeInv'
  <2>1. (sent = {}) \in BOOLEAN
    OBVIOUS
  <2>2. [band |-> b, new |-> sent = {}] \in [band : Bands, new : BOOLEAN]
    BY <2>1
  <2>3. told' \subseteq [band : Bands, new : BOOLEAN]
    BY <1>6, <2>2, OvertakenTyped DEF Dial
  <2> QED BY <1>6, <2>3 DEF Dial
<1> QED BY <1>1, <1>2, <1>3, <1>4, <1>5, <1>6 DEF RigStep

(* ... and of the reconnect thread. *)
LEMMA TypeRec == ASSUME TypeInv, RecStep PROVE TypeInv'
<1> USE DEF TypeInv, TypeOK
<1>1. CASE Kick BY <1>1 DEF Kick
<1>2. CASE StartReconnect
  <2>1. attempts' \in 0..MaxAttempts
    BY <1>2, MaxAttemptsNat DEF StartReconnect
  <2> QED
    BY <1>2, <2>1 DEF StartReconnect
<1>3. CASE RecUnkey BY <1>3 DEF RecUnkey, Unkey, Cancelled, PttRaw
<1>4. CASE RecLatch BY <1>4 DEF RecLatch
<1>5. CASE RecStop BY <1>5 DEF RecStop
<1>6. CASE RecDrop BY <1>6, MaxAttemptsNat DEF RecDrop
<1>7. ASSUME NEW ok \in BOOLEAN, RecOpen(ok) PROVE TypeInv'
  <2>1. attempts' \in 0..MaxAttempts
    BY <1>7, MaxAttemptsNat DEF RecOpen
  <2>2. pc' \in [Threads -> CmdPcs \cup RecPcs] /\ pc'["cmd"] = pc["cmd"]
        /\ pc'["rec"] \in {"health", "unkey"}
    BY <1>7 DEF RecOpen
  <2> QED BY <1>7, <2>1, <2>2 DEF RecOpen
<1>8. CASE RecHealth BY <1>8 DEF RecHealth
<1> QED BY <1>1, <1>2, <1>3, <1>4, <1>5, <1>6, <1>7, <1>8 DEF RecStep

(* Every behaviour of the guard keeps the types and the bound on attempts.  *)
THEOREM TypeCorrect == Spec => []TypeInv
<1>1. Init => TypeInv
  <2> SUFFICES ASSUME Init PROVE TypeInv
    OBVIOUS
  <2>1. attempts \in 0..MaxAttempts
    BY MaxAttemptsNat DEF Init
  <2>2. pc \in [Threads -> CmdPcs \cup RecPcs] /\ pc["cmd"] = "idle" /\ pc["rec"] = "idle"
    BY DEF Init
  <2> QED
    BY <2>1, <2>2 DEF Init, TypeInv, TypeOK
<1>2. TypeInv /\ [Next]_vars => TypeInv'
  <2> SUFFICES ASSUME TypeInv, [Next]_vars PROVE TypeInv'
    OBVIOUS
  <2>1. CASE UNCHANGED vars
    BY <2>1 DEF vars, TypeInv, TypeOK
  <2> QED
    BY <2>1, TypeCmd, TypeTimer, TypeRig, TypeRec DEF Next
<1> QED
  BY <1>1, <1>2, PTL DEF Spec

(* The type invariant the runs check: the lock, the timers, the session and *)
(* the threads only ever hold values the code gives them.                   *)
THEOREM TypesHold == Spec => []TypeOK
<1>1. TypeInv => TypeOK
  BY DEF TypeInv
<1> QED
  BY <1>1, TypeCorrect, PTL

-----------------------------------------------------------------------------
(***************************************************************************)
(* The guard's inductive invariant, with or without session losses.        *)
(* Mutual exclusion ties the lock to the thread inside key_tx; the latch   *)
(* belongs to a connected client; a watchdog exists only for a key-down    *)
(* that has left key_tx, which is why a second one can never be forgotten. *)
(***************************************************************************)
KeyingUnderLock == lock = "cmd" <=> pc["cmd"] \in {"keyPtt", "keyWatch"}

LatchOfClient == ~conn => ~armed /\ pc["cmd"] = "idle"

WatchdogOfKey ==
  /\ watchdog # NoTimer => keyed /\ lock = "free"
  /\ pc["cmd"] = "keyPtt" => ~keyed
  /\ pc["cmd"] = "keyWatch" => keyed
  /\ RxOnly => pc["cmd"] \notin {"keyPtt", "keyWatch"}

GuardInv ==
  /\ KeyingUnderLock
  /\ LatchOfClient
  /\ WatchdogOfKey
  /\ OneWatchdog
  /\ RxOnlyInert

(* Each thread in turn keeps the invariant of the guard. *)
LEMMA GuardCmd == ASSUME TypeInv, GuardInv, CmdStep PROVE GuardInv'
<1> USE DEF TypeInv, TypeOK, GuardInv, KeyingUnderLock, LatchOfClient,
            WatchdogOfKey, OneWatchdog, RxOnlyInert
<1>1. CASE Connect BY <1>1 DEF Connect, Arm
<1>2. CASE Disconnect BY <1>2 DEF Disconnect
<1>3. CASE DropUnkey BY <1>3 DEF DropUnkey, Unkey, Cancelled, PttRaw
<1>4. CASE DropLatch BY <1>4 DEF DropLatch
<1>5. ASSUME NEW on \in BOOLEAN, Xmit(on) PROVE GuardInv'
  BY <1>5 DEF Xmit, RequestTx
<1>6. ASSUME NEW on \in BOOLEAN, SetMode(on) PROVE GuardInv'
  BY <1>6 DEF SetMode
<1>7. ASSUME NEW m \in BOOLEAN, NEW t \in BOOLEAN, TransmitSet(m, t) PROVE GuardInv'
  BY <1>7 DEF TransmitSet, RequestTx
<1>8. CASE KeyCheck BY <1>8 DEF KeyCheck, KeyRefused
<1>9. CASE KeyPtt BY <1>9 DEF KeyPtt, KeyRaises, PttRaw
<1>10. CASE KeyWatch BY <1>10, TimersAssumption DEF KeyWatch, KeyRaises
<1>11. CASE CmdUnkey BY <1>11 DEF CmdUnkey, Unkey, Cancelled, PttRaw
<1>12. CASE CreateDaxTx BY <1>12 DEF CreateDaxTx
<1>13. ASSUME NEW b \in Bands, SliceTune(b) PROVE GuardInv'
  BY <1>13 DEF SliceTune, SendTune
<1> QED
  BY <1>1, <1>2, <1>3, <1>4, <1>5, <1>6, <1>7, <1>8, <1>9, <1>10, <1>11, <1>12, <1>13
     DEF CmdStep

(* A timer unkeys under the lock, so never inside key_tx. *)
LEMMA GuardTimer == ASSUME TypeInv, GuardInv, TimerStep PROVE GuardInv'
<1> USE DEF TypeInv, TypeOK, GuardInv, KeyingUnderLock, LatchOfClient,
            WatchdogOfKey, OneWatchdog, RxOnlyInert
<1>1. ASSUME NEW i \in Timers, TimerFire(i) PROVE GuardInv'
  BY <1>1 DEF TimerFire
<1>2. ASSUME NEW i \in Timers, TimerUnkey(i) PROVE GuardInv'
  BY <1>2 DEF TimerUnkey, Unkey, Cancelled, PttRaw
<1> QED BY <1>1, <1>2 DEF TimerStep

(* The rig's and the tuner's steps touch nothing the invariant speaks of.   *)
LEMMA GuardRig == ASSUME GuardInv, RigStep PROVE GuardInv'
  BY DEF RigStep, RigTells, FreqReply, RigTakes, TunerTake, TunerDone, Dial, GuardInv,
         KeyingUnderLock, LatchOfClient, WatchdogOfKey, OneWatchdog, RxOnlyInert

(* The reconnect thread only unkeys and latches. *)
LEMMA GuardRec == ASSUME TypeInv, GuardInv, RecStep PROVE GuardInv'
<1> USE DEF TypeInv, TypeOK, GuardInv, KeyingUnderLock, LatchOfClient,
            WatchdogOfKey, OneWatchdog, RxOnlyInert
<1>1. CASE Kick BY <1>1 DEF Kick
<1>2. CASE StartReconnect BY <1>2 DEF StartReconnect
<1>3. CASE RecUnkey BY <1>3 DEF RecUnkey, Unkey, Cancelled, PttRaw
<1>4. CASE RecLatch BY <1>4 DEF RecLatch
<1>5. CASE RecStop BY <1>5 DEF RecStop
<1>6. CASE RecDrop BY <1>6 DEF RecDrop
<1>7. ASSUME NEW ok \in BOOLEAN, RecOpen(ok) PROVE GuardInv'
  BY <1>7 DEF RecOpen
<1>8. CASE RecHealth BY <1>8 DEF RecHealth
<1> QED BY <1>1, <1>2, <1>3, <1>4, <1>5, <1>6, <1>7, <1>8 DEF RecStep

(* Mutual exclusion, the latch and the single watchdog hold in every        *)
(* behaviour of key_tx, unkey_tx, disarm_tx and reconnect.                  *)
THEOREM GuardHolds == Spec => []GuardInv
<1>1. Init => GuardInv
  BY DEF Init, GuardInv, KeyingUnderLock, LatchOfClient, WatchdogOfKey,
         OneWatchdog, RxOnlyInert
<1>2. TypeInv /\ GuardInv /\ [Next]_vars => GuardInv'
  <2> SUFFICES ASSUME TypeInv, GuardInv, [Next]_vars PROVE GuardInv'
    OBVIOUS
  <2>1. CASE UNCHANGED vars
    BY <2>1 DEF vars, GuardInv, KeyingUnderLock, LatchOfClient, WatchdogOfKey,
         OneWatchdog, RxOnlyInert
  <2> QED
    BY <2>1, GuardCmd, GuardTimer, GuardRig, GuardRec DEF Next
<1> QED
  BY <1>1, <1>2, TypeCorrect, PTL DEF Spec

(* At most one watchdog timer is ever waiting, and unkey_tx would cancel it. *)
THEOREM OneWatchdogHolds == Spec => []OneWatchdog
<1>1. GuardInv => OneWatchdog
  BY DEF GuardInv
<1> QED
  BY <1>1, GuardHolds, PTL

(* An --rx-only gate never arms, never believes itself keyed, never keys.   *)
THEOREM RxOnlyHolds == Spec => []RxOnlyInert
<1>1. GuardInv => RxOnlyInert
  BY DEF GuardInv
<1> QED
  BY <1>1, GuardHolds, PTL

(* Without a client the latch is down, whatever the reconnect thread does.  *)
THEOREM LatchHolds == Spec => []LostClientLatched
<1>1. GuardInv => LostClientLatched
  BY DEF GuardInv, LatchOfClient, LostClientLatched
<1> QED
  BY <1>1, GuardHolds, PTL

-----------------------------------------------------------------------------
(***************************************************************************)
(* A radio that keeps its session.  Then the CI-V transport stays, the     *)
(* gate's belief and the wire agree in every state, and each key-down is   *)
(* backed by its timer from the moment key_tx releases the lock.           *)
(***************************************************************************)
SessionKept == ~want /\ pc["rec"] = "idle" /\ civ = "live"

BeliefIsWire == keyed <=> ptt

WatchdogBehindKey ==
  keyed /\ lock = "free" => watchdog # NoTimer /\ timers[watchdog] # "unused"

KeyNeedsClient ==
  /\ ~conn => ~keyed
  /\ pc["cmd"] = "dropLatch" => ~keyed
  /\ pc["cmd"] = "keyPtt" => armed

QuietInv == SessionKept /\ BeliefIsWire /\ WatchdogBehindKey /\ KeyNeedsClient

(* The session thread keeps belief and wire together. *)
LEMMA QuietCmd ==
  ASSUME TypeInv, GuardInv, QuietInv, CmdStep PROVE QuietInv'
<1> USE DEF TypeInv, TypeOK, GuardInv, KeyingUnderLock, LatchOfClient, WatchdogOfKey,
            QuietInv, SessionKept, BeliefIsWire, WatchdogBehindKey, KeyNeedsClient
<1>1. CASE Connect BY <1>1 DEF Connect, Arm
<1>2. CASE Disconnect BY <1>2 DEF Disconnect
<1>3. CASE DropUnkey BY <1>3 DEF DropUnkey, Unkey, Cancelled, PttRaw
<1>4. CASE DropLatch BY <1>4 DEF DropLatch
<1>5. ASSUME NEW on \in BOOLEAN, Xmit(on) PROVE QuietInv'
  BY <1>5 DEF Xmit, RequestTx
<1>6. ASSUME NEW on \in BOOLEAN, SetMode(on) PROVE QuietInv'
  BY <1>6 DEF SetMode
<1>7. ASSUME NEW m \in BOOLEAN, NEW t \in BOOLEAN, TransmitSet(m, t) PROVE QuietInv'
  BY <1>7 DEF TransmitSet, RequestTx
<1>8. CASE KeyCheck BY <1>8 DEF KeyCheck, KeyRefused
<1>9. CASE KeyPtt BY <1>9 DEF KeyPtt, KeyRaises, PttRaw
<1>10. CASE KeyWatch BY <1>10, TimersAssumption DEF KeyWatch, KeyRaises
<1>11. CASE CmdUnkey BY <1>11 DEF CmdUnkey, Unkey, Cancelled, PttRaw
<1>12. CASE CreateDaxTx BY <1>12 DEF CreateDaxTx
<1>13. ASSUME NEW b \in Bands, SliceTune(b) PROVE QuietInv'
  BY <1>13 DEF SliceTune, SendTune
<1> QED
  BY <1>1, <1>2, <1>3, <1>4, <1>5, <1>6, <1>7, <1>8, <1>9, <1>10, <1>11, <1>12, <1>13
     DEF CmdStep

(* So do the timers, *)
LEMMA QuietTimer ==
  ASSUME TypeInv, GuardInv, QuietInv, TimerStep PROVE QuietInv'
<1> USE DEF TypeInv, TypeOK, GuardInv, KeyingUnderLock, WatchdogOfKey,
            QuietInv, SessionKept, BeliefIsWire, WatchdogBehindKey, KeyNeedsClient
<1>1. ASSUME NEW i \in Timers, TimerFire(i) PROVE QuietInv'
  BY <1>1 DEF TimerFire
<1>2. ASSUME NEW i \in Timers, TimerUnkey(i) PROVE QuietInv'
  BY <1>2 DEF TimerUnkey, Unkey, Cancelled, PttRaw
<1> QED BY <1>1, <1>2 DEF TimerStep

(* ... and the tuner touches neither. *)
LEMMA QuietRig == ASSUME QuietInv, RigStep PROVE QuietInv'
  BY DEF RigStep, RigTells, FreqReply, RigTakes, TunerTake, TunerDone, Dial, QuietInv,
         SessionKept, BeliefIsWire, WatchdogBehindKey, KeyNeedsClient

(* With the session kept the reconnect thread has no step to take.          *)
LEMMA QuietRec == ASSUME ~RadioMayKick, QuietInv, RecStep PROVE FALSE
  BY DEF RecStep, Kick, StartReconnect, RecUnkey, RecLatch, RecStop, RecDrop,
         RecOpen, RecHealth, QuietInv, SessionKept

(* While the radio keeps its session no reconnect starts, belief is wire,   *)
(* and a keyed rig has a client and a timer (key_tx, unkey_tx).             *)
THEOREM QuietHolds == ASSUME ~RadioMayKick PROVE Spec => []QuietInv
<1>1. Init => QuietInv
  BY DEF Init, QuietInv, SessionKept, BeliefIsWire, WatchdogBehindKey, KeyNeedsClient
<1>2. TypeInv /\ GuardInv /\ QuietInv /\ [Next]_vars => QuietInv'
  <2> SUFFICES ASSUME TypeInv, GuardInv, QuietInv, [Next]_vars PROVE QuietInv'
    OBVIOUS
  <2>1. CASE UNCHANGED vars
    BY <2>1 DEF vars, QuietInv, SessionKept, BeliefIsWire, WatchdogBehindKey, KeyNeedsClient
  <2> QED
    BY <2>1, QuietCmd, QuietTimer, QuietRig, QuietRec DEF Next
<1> QED
  BY <1>1, <1>2, TypeCorrect, GuardHolds, PTL DEF Spec

(* While the radio keeps its session, _tx_keyed and the wire agree whenever *)
(* nobody is inside key_tx or unkey_tx.                                     *)
THEOREM KeyedMatchesWireHolds ==
  ASSUME ~RadioMayKick PROVE Spec => []KeyedMatchesWire
<1>1. QuietInv => KeyedMatchesWire
  BY DEF QuietInv, BeliefIsWire, KeyedMatchesWire
<1> QED
  BY <1>1, QuietHolds, PTL

(* ... every key-down is backed by a timer that will unkey it.              *)
THEOREM WatchdogBacksKeyHolds ==
  ASSUME ~RadioMayKick PROVE Spec => []WatchdogBacksKey
<1>1. QuietInv => WatchdogBacksKey
  BY DEF QuietInv, WatchdogBehindKey, WatchdogBacksKey
<1> QED
  BY <1>1, QuietHolds, PTL

(* ... and a lost client leaves the transmitter unkeyed and latched.        *)
THEOREM LostClientDisarmsHolds ==
  ASSUME ~RadioMayKick PROVE Spec => []LostClientDisarms
<1>1. TypeInv /\ GuardInv /\ QuietInv => LostClientDisarms
  BY DEF TypeInv, TypeOK, GuardInv, LatchOfClient, KeyingUnderLock, QuietInv, BeliefIsWire,
         KeyNeedsClient, LostClientDisarms
<1> QED
  BY <1>1, TypeCorrect, GuardHolds, QuietHolds, PTL

-----------------------------------------------------------------------------
(***************************************************************************)
(* The safety part of the refinement: every step of the guard is a step of *)
(* TxPromise or leaves it where it was.                                    *)
(***************************************************************************)
LEMMA PromiseStep ==
  ASSUME ~RadioMayKick, TypeInv, GuardInv, QuietInv, [Next]_vars
  PROVE  [TP!Next]_(TP!promise)
<1> USE DEF TP!Next, TP!promise, TP!ClientComes, TP!StartRf, TP!EndRf, TP!ClientGoes
<1>1. CASE CmdStep
  <2> USE DEF TypeInv, TypeOK, GuardInv, KeyingUnderLock, LatchOfClient, WatchdogOfKey,
              QuietInv, SessionKept, BeliefIsWire, KeyNeedsClient
  <2>1. CASE Connect BY <2>1 DEF Connect, Arm
  <2>2. CASE Disconnect \/ CreateDaxTx BY <2>2 DEF Disconnect, CreateDaxTx
  <2>3. CASE DropUnkey \/ CmdUnkey BY <2>3 DEF DropUnkey, CmdUnkey, Unkey, PttRaw
  <2>4. CASE DropLatch BY <2>4 DEF DropLatch
  <2>5. CASE KeyCheck \/ KeyWatch BY <2>5 DEF KeyCheck, KeyWatch, KeyRaises
  <2>6. CASE KeyPtt BY <2>6 DEF KeyPtt, KeyRaises, PttRaw
  <2>7. CASE \/ \E on \in BOOLEAN : Xmit(on) \/ SetMode(on)
             \/ \E m, t \in BOOLEAN : TransmitSet(m, t)
             \/ \E b \in Bands : SliceTune(b)
    BY <2>7 DEF Xmit, SetMode, TransmitSet, SliceTune
  <2> QED BY <1>1, <2>1, <2>2, <2>3, <2>4, <2>5, <2>6, <2>7 DEF CmdStep
<1>2. CASE TimerStep
  BY <1>2 DEF TimerStep, TimerFire, TimerUnkey, Unkey, PttRaw, QuietInv, SessionKept,
              TypeInv, TypeOK
<1>3. CASE RigStep
  BY <1>3 DEF RigStep, RigTells, FreqReply, RigTakes, TunerTake, TunerDone, Dial
<1>4. CASE UNCHANGED vars
  BY <1>4 DEF vars
<1> QED
  BY <1>1, <1>2, <1>3, <1>4, QuietRec DEF Next

(* While the radio keeps its session TxGuard implements TxPromise's safety: *)
(* RF only for a connected client with the latch lifted, and silence and a  *)
(* latch behind one that goes.                                              *)
THEOREM ImplementsPromise == ASSUME ~RadioMayKick PROVE Spec => TP!Safety
<1>1. Init => TP!Init
  BY DEF Init, TP!Init
<1>2. TypeInv /\ GuardInv /\ QuietInv /\ [Next]_vars => [TP!Next]_(TP!promise)
  BY PromiseStep
<1> QED
  BY <1>1, <1>2, TypeCorrect, GuardHolds, QuietHolds, PTL DEF Spec, TP!Safety
-----------------------------------------------------------------------------
(***************************************************************************)
(* What the gate believes about the rig's band.  An answer the rig gave    *)
(* with no tune on its way is the rig's band until a tune is sent or the   *)
(* dial is turned, and so is freq_hz from such an answer; stale answers,   *)
(* tunes believed accepted and new sessions only ever end that.            *)
(***************************************************************************)
AnswersTrue == \A a \in told : a.new => sent = {} /\ a.band = rig

CacheTrue == read => sent = {} /\ freq = rig

TunedInv == AnswersTrue /\ CacheTrue

(* What a tune or a turn of the dial overtakes claims nothing more.         *)
LEMMA OvertakenOld == ASSUME TypeInv PROVE \A a \in Overtaken : a.new = FALSE
BY DEF TypeInv, TypeOK, Overtaken

(* Nothing but the reader, the tuner, a tune, the dial and the reconnect    *)
(* thread touches any of it.                                                *)
LEMMA TunedUntouched == ASSUME TunedInv, UNCHANGED tuning PROVE TunedInv'
BY DEF TunedInv, AnswersTrue, CacheTrue

(* Each step keeps it. *)
LEMMA TunedStep ==
  ASSUME TypeInv, TunedInv, [Next]_vars
  PROVE  TunedInv'
<1> USE DEF TunedInv, AnswersTrue, CacheTrue
<1>0. told \subseteq [band : Bands, new : BOOLEAN]
  BY DEF TypeInv, TypeOK
<1>1. CASE CmdStep
  <2>1. ASSUME NEW b \in Bands, SliceTune(b)
        PROVE  TunedInv'
    BY <2>1, OvertakenOld DEF SliceTune, SendTune
  <2>2. CASE \A b \in Bands : ~SliceTune(b)
    <3>1. UNCHANGED tuning
      BY <1>1, <2>2
         DEF CmdStep, Connect, Disconnect, DropUnkey, DropLatch, Xmit, SetMode, TransmitSet,
             RequestTx, KeyCheck, KeyPtt, KeyWatch, KeyRaises, CmdUnkey, CreateDaxTx
    <3> QED BY <3>1, TunedUntouched
  <2> QED BY <2>1, <2>2
<1>2. CASE TimerStep
  <2>1. UNCHANGED tuning
    BY <1>2 DEF TimerStep, TimerFire, TimerUnkey
  <2> QED BY <2>1, TunedUntouched
<1>3. CASE RigStep
  <2>1. CASE RigTells
    <3>1. /\ told' = told \cup {[band |-> rig, new |-> sent = {}]}
          /\ sent' = sent /\ rig' = rig /\ freq' = freq /\ read' = read
      BY <2>1 DEF RigTells
    <3>2. ASSUME NEW a \in told', a.new PROVE sent = {} /\ a.band = rig
      <4>1. CASE a \in told BY <3>2, <4>1
      <4>2. CASE a = [band |-> rig, new |-> sent = {}]
        <5>1. a.new = (sent = {}) /\ a.band = rig BY <4>2
        <5> QED BY <5>1, <3>2
      <4> QED BY <3>1, <4>1, <4>2
    <3> QED BY <3>1, <3>2
  <2>2. ASSUME NEW a \in told, FreqReply(a) PROVE TunedInv'
    BY <2>2, <1>0 DEF FreqReply
  <2>3. ASSUME NEW b \in sent, RigTakes(b) PROVE TunedInv'
    <3>1. \A a \in told : ~a.new
      BY <2>3
    <3>2. ~read
      BY <2>3
    <3> QED BY <2>3, <3>1, <3>2 DEF RigTakes
  <2>4. ASSUME NEW b \in Bands, NEW heard \in BOOLEAN, Dial(b, heard) PROVE TunedInv'
    <3>1. told' = Overtaken \cup
                   {a \in {[band |-> b, new |-> sent = {}]} : heard /\ civ = "live"}
          /\ sent' = sent /\ rig' = b /\ ~read'
      BY <2>4 DEF Dial
    <3>2. ASSUME NEW a \in told', a.new PROVE sent = {} /\ a.band = b
      <4>1. CASE a \in Overtaken BY <3>2, <4>1, OvertakenOld
      <4>2. CASE a = [band |-> b, new |-> sent = {}]
        <5>1. a.new = (sent = {}) /\ a.band = b BY <4>2
        <5> QED BY <5>1, <3>2
      <4> QED BY <3>1, <4>1, <4>2
    <3> QED BY <3>1, <3>2
  <2>5. CASE TunerTake
    BY <2>5, OvertakenOld DEF TunerTake, SendTune
  <2>6. ASSUME NEW refused \in BOOLEAN, TunerDone(refused) PROVE TunedInv'
    BY <2>6 DEF TunerDone
  <2> QED BY <1>3, <2>1, <2>2, <2>3, <2>4, <2>5, <2>6 DEF RigStep
<1>4. CASE RecStep
  <2>1. CASE Kick \/ StartReconnect \/ RecUnkey \/ RecLatch \/ RecDrop \/ RecHealth
    BY <2>1, TunedUntouched DEF Kick, StartReconnect, RecUnkey, RecLatch, RecDrop, RecHealth
  <2>2. CASE RecStop
    BY <2>2 DEF RecStop
  <2>3. ASSUME NEW ok \in BOOLEAN, RecOpen(ok) PROVE TunedInv'
    BY <2>3 DEF RecOpen
  <2> QED BY <1>4, <2>1, <2>2, <2>3 DEF RecStep
<1>5. CASE UNCHANGED vars
  BY <1>5, TunedUntouched DEF vars
<1> QED BY <1>1, <1>2, <1>3, <1>4, <1>5 DEF Next

(* A key_tx that passes its guards on an answer the rig has not outlived    *)
(* passes them on a TX band, whatever the radio, the dial, the USB channel  *)
(* and late or lost tunes do.                                               *)
THEOREM BandCheckSoundHolds == Spec => BandCheckSoundWhenRead
<1>1. Init => TunedInv
  BY DEF Init, TunedInv, AnswersTrue, CacheTrue
<1>2. TypeInv /\ TunedInv /\ [Next]_vars => TunedInv'
  BY TunedStep
<1>3. TypeInv /\ TunedInv /\ [Next]_vars
      => (pc["cmd"] = "keyWait" /\ pc'["cmd"] = "keyPtt" /\ read => rig \in TxBands)
  <2> SUFFICES ASSUME TypeInv, TunedInv, [Next]_vars, pc["cmd"] = "keyWait",
                      pc'["cmd"] = "keyPtt", read
               PROVE  rig \in TxBands
    OBVIOUS
  <2>1. KeyCheck /\ ~KeyRefused
    <3>1. CASE CmdStep
      BY <3>1 DEF CmdStep, Connect, Disconnect, DropUnkey, DropLatch, Xmit, SetMode, TransmitSet,
             RequestTx, KeyCheck, KeyPtt, KeyWatch, KeyRaises, CmdUnkey, CreateDaxTx, SliceTune,
             TypeInv, TypeOK
    <3>2. CASE TimerStep \/ RigStep \/ UNCHANGED vars
      BY <3>2 DEF TimerStep, TimerFire, TimerUnkey, RigStep, RigTells, FreqReply, RigTakes,
                  TunerTake, TunerDone, Dial, vars
    <3>3. CASE RecStep
      BY <3>3 DEF RecStep, Kick, StartReconnect, RecUnkey, RecLatch, RecStop, RecDrop, RecOpen,
                  RecHealth, TypeInv, TypeOK
    <3> QED BY <3>1, <3>2, <3>3 DEF Next
  <2>2. freq \in TxBands
    BY <2>1 DEF KeyRefused
  <2> QED BY <2>2 DEF TunedInv, CacheTrue
<1> QED
  BY <1>1, <1>2, <1>3, TypeCorrect, PTL DEF Spec, BandCheckSoundWhenRead
=============================================================================
