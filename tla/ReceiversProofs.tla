-------------------------- MODULE ReceiversProofs --------------------------
(***************************************************************************)
(* The slices of a session and the two receivers behind them, for any      *)
(* frequencies, any number of commands and of turns of the dial, and any   *)
(* debounce limit.                                                         *)
(*                                                                         *)
(* Three relations carry the proof.  The debounce count, with the reading  *)
(* in hand that lacks SUB, never exceeds the readings in a row without SUB *)
(* (GoneCounted).  A client whose first slice is still to come has not     *)
(* been told that the radio's frequency was claimed (FreshUnclaimed).  And *)
(* the panadapters made so far are paid for by commands and turns of the   *)
(* dial (PansPaid): a loop that drops SUB's slice cannot make it again     *)
(* unless somebody turned SUB on meanwhile, so that what the stream loop   *)
(* makes by itself is bounded by what client and operator do.              *)
(***************************************************************************)
EXTENDS Receivers, SequenceTheorems, WellFoundedInduction, TLAPS

PlanOK(plan)         == DOMAIN plan \subseteq Indices /\ \A i \in DOMAIN plan : plan[i] \in Slice
OneActive(plan, act) == \A i \in DOMAIN plan : plan[i].active => i = act

PansOK == /\ panSeq \in Nat /\ DOMAIN pans \subseteq 1..panSeq
          /\ \A p \in DOMAIN pans : pans[p] \in Indices \cup {NoSlice}
TuneOK == /\ sliceFreq \in Freqs
          /\ toMain \in Freqs \cup {None} /\ toSub \in Freqs \cup {None}
DialOK == main \in Freqs /\ sub \in Freqs \cup {None}
SyncOK == /\ reading \in Seq(Freqs) /\ Len(reading) <= 2
          /\ gone \in 0..(GoneLimit - 1) /\ goneRun \in 0..GoneLimit
CountOK == cmds \in 0..MaxCmds /\ turns \in 0..MaxTurns
FlagsOK == conn \in BOOLEAN /\ claimed \in BOOLEAN /\ fresh \in BOOLEAN /\ hold \in BOOLEAN

GoneCounted == IF Len(reading) = 2 THEN goneRun = 0 ELSE gone + Len(reading) <= goneRun

FreshUnclaimed == ~conn \/ fresh => ~claimed

\* A panadapter the stream loop may still make without a turn of the dial.
Owed == IF \/ Len(reading) = 2 /\ SUB \notin DOMAIN slices
           \/ sub # None /\ (SUB \notin DOMAIN slices \/ Len(reading) = 1)
          THEN 1 ELSE 0
PansPaid == panSeq + Owed <= cmds + turns + 1

Typed == PlanOK(slices) /\ PansOK /\ TuneOK /\ DialOK /\ SyncOK /\ CountOK /\ FlagsOK
         /\ active \in Indices

ReceiversIInv ==
  Typed /\ OneActive(slices, active) /\ GoneCounted /\ FreshUnclaimed /\ PansPaid

-----------------------------------------------------------------------------
(* The operators the commands are built from. *)

\* A non-empty set of naturals has the least element that Min chooses.
LEMMA MinIsLeast ==
  ASSUME NEW S, S \subseteq Nat, S # {}
  PROVE  Min(S) \in S /\ \A y \in S : Min(S) <= y
<1>1. PICK x \in S : \A y \in S : ~ (<<y, x>> \in OpToRel(<, Nat))
  BY NatLessThanWellFounded, WFMin
<1>2. \A y \in S : x <= y
  <2>. SUFFICES ASSUME NEW y \in S, y < x PROVE FALSE
    OBVIOUS
  <2>1. <<y, x>> \in OpToRel(<, Nat)
    BY DEF OpToRel
  <2>. QED  BY <1>1, <2>1
<1>. QED  BY <1>2 DEF Min

LEMMA Frequencies == Freqs \subseteq Nat /\ None \notin Freqs
  BY ReceiversAssumption DEF None

\* A slice is put: the plan has it, and every other slice as before.
LEMMA PutIs ==
  ASSUME NEW plan, NEW i, NEW s
  PROVE  /\ DOMAIN Put(plan, i, s) = DOMAIN plan \cup {i}
         /\ Put(plan, i, s)[i] = s
         /\ \A k \in DOMAIN plan \ {i} : Put(plan, i, s)[k] = plan[k]
  BY DEF Put

LEMMA PutOK ==
  ASSUME NEW plan, PlanOK(plan), NEW i \in Indices, NEW s \in Slice
  PROVE  PlanOK(Put(plan, i, s))
<1>1. ASSUME NEW k \in DOMAIN Put(plan, i, s)
      PROVE  k \in Indices /\ Put(plan, i, s)[k] \in Slice
  BY <1>1 DEF Put, PlanOK
<1>. QED  BY <1>1 DEF PlanOK

LEMMA WithoutIs ==
  ASSUME NEW plan, NEW gones
  PROVE  /\ DOMAIN Without(plan, gones) = DOMAIN plan \ gones
         /\ \A k \in DOMAIN plan \ gones : Without(plan, gones)[k] = plan[k]
  BY DEF Without

LEMMA WithoutOK ==
  ASSUME NEW plan, PlanOK(plan), NEW gones
  PROVE  PlanOK(Without(plan, gones))
<1>1. ASSUME NEW k \in DOMAIN Without(plan, gones)
      PROVE  k \in Indices /\ Without(plan, gones)[k] \in Slice
  BY <1>1 DEF Without, PlanOK
<1>. QED  BY <1>1 DEF PlanOK

LEMMA NoneActiveIs ==
  ASSUME NEW plan, PlanOK(plan)
  PROVE  /\ DOMAIN NoneActive(plan) = DOMAIN plan
         /\ PlanOK(NoneActive(plan))
         /\ \A k \in DOMAIN plan : ~NoneActive(plan)[k].active
<1>1. DOMAIN NoneActive(plan) = DOMAIN plan
  BY DEF NoneActive
<1>2. ASSUME NEW k \in DOMAIN plan
      PROVE  NoneActive(plan)[k] \in Slice /\ ~NoneActive(plan)[k].active
  <2>1. NoneActive(plan)[k] = [plan[k] EXCEPT !.active = FALSE] /\ plan[k] \in Slice
    BY DEF NoneActive, PlanOK
  <2>. QED  BY <2>1 DEF Slice
<1>. QED  BY <1>1, <1>2 DEF PlanOK

LEMMA RetunedIs ==
  ASSUME NEW plan, PlanOK(plan), NEW i \in DOMAIN plan, NEW f \in Freqs
  PROVE  /\ DOMAIN [plan EXCEPT ![i].freq = f] = DOMAIN plan
         /\ PlanOK([plan EXCEPT ![i].freq = f])
         /\ \A k \in DOMAIN plan : [plan EXCEPT ![i].freq = f][k].active = plan[k].active
<1>1. DOMAIN [plan EXCEPT ![i].freq = f] = DOMAIN plan
  OBVIOUS
<1>2. ASSUME NEW k \in DOMAIN plan
      PROVE  /\ [plan EXCEPT ![i].freq = f][k] \in Slice
             /\ [plan EXCEPT ![i].freq = f][k].active = plan[k].active
  <2>1. plan[k] \in Slice
    BY DEF PlanOK
  <2>2. [plan[k] EXCEPT !.freq = f] \in Slice /\ [plan[k] EXCEPT !.freq = f].active = plan[k].active
    BY <2>1 DEF Slice
  <2>3. [plan EXCEPT ![i].freq = f][k] = IF k = i THEN [plan[k] EXCEPT !.freq = f] ELSE plan[k]
    OBVIOUS
  <2>. QED  BY <2>1, <2>2, <2>3
<1>. QED  BY <1>1, <1>2 DEF PlanOK

\* Only the tune of slice 0 reaches MAIN.
LEMMA SyncActiveOK ==
  ASSUME TuneOK, FlagsOK, NEW plan, PlanOK(plan), NEW act \in Indices, SyncActive(plan, act)
  PROVE  TuneOK' /\ hold' \in BOOLEAN /\ (toMain' # toMain => act = MAIN)
<1>1. CASE act \in DOMAIN plan
  <2>1. plan[act].freq \in Freqs
    BY <1>1 DEF PlanOK, Slice
  <2>. QED  BY <1>1, <2>1 DEF SyncActive, Drive, TuneOK, Indices, MAIN, SUB
<1>2. CASE act \notin DOMAIN plan
  BY <1>2 DEF SyncActive, TuneOK, FlagsOK
<1>. QED  BY <1>1, <1>2

-----------------------------------------------------------------------------
(* The client's commands. *)

\* A command pays for one panadapter, or for the slice of SUB that it removes.
LEMMA AfterCommand ==
  ASSUME ReceiversIInv, Command, UNCHANGED <<main, sub, syncVars, turns, conn>>,
         PlanOK(slices'), OneActive(slices', active'), active' \in Indices,
         PansOK', TuneOK', hold' \in BOOLEAN, claimed' \in BOOLEAN, fresh' \in BOOLEAN,
         FreshUnclaimed',
         panSeq' = panSeq \/ (panSeq' = panSeq + 1 /\ slices' = slices)
  PROVE  ReceiversIInv'
<1>. USE DEF ReceiversIInv, Typed, syncVars
<1>1. CountOK'
  BY ReceiversAssumption DEF Command, CountOK
<1>2. DialOK' /\ SyncOK' /\ GoneCounted'
  BY DEF DialOK, SyncOK, GoneCounted
<1>3. FlagsOK'
  BY Zenon DEF FlagsOK, Command
<1>4. PansPaid'
  <2>1. Owed \in {0, 1} /\ Owed' \in {0, 1} /\ (slices' = slices => Owed' = Owed)
    BY DEF Owed
  <2>2. cmds' = cmds + 1 /\ turns' = turns /\ {cmds, turns, panSeq} \subseteq Nat
    BY DEF Command, CountOK, PansOK
  <2>. QED  BY <2>1, <2>2 DEF PansPaid
<1>. QED  BY <1>1, <1>2, <1>3, <1>4

LEMMA CommandUnclaimed ==
  ASSUME ReceiversIInv, Command, UNCHANGED <<conn, claimed, fresh>>
  PROVE  FreshUnclaimed' /\ claimed' \in BOOLEAN /\ fresh' \in BOOLEAN
  BY DEF ReceiversIInv, Typed, FlagsOK, FreshUnclaimed

LEMMA StepPanCreate ==
  ASSUME ReceiversIInv, PanCreate
  PROVE  ReceiversIInv'
<1>. USE DEF ReceiversIInv, Typed, tuneVars
<1>1. PansOK'
  <2>1. panSeq' = panSeq + 1 /\ panSeq \in Nat /\ DOMAIN pans \subseteq 1..panSeq
    BY DEF PanCreate, PansOK
  <2>2. DOMAIN pans' = DOMAIN pans \cup {panSeq + 1}
    BY DEF PanCreate, Put
  <2>3. \A p \in DOMAIN pans' : pans'[p] \in Indices \cup {NoSlice}
    BY DEF PanCreate, Put, PansOK
  <2>. QED  BY <2>1, <2>2, <2>3 DEF PansOK
<1>2. PlanOK(slices') /\ OneActive(slices', active') /\ active' \in Indices
  BY DEF PanCreate, PlanOK, OneActive
<1>3. TuneOK'
  BY DEF PanCreate, TuneOK
<1>4. hold' \in BOOLEAN
  BY Zenon DEF PanCreate, FlagsOK
<1>5. Command /\ UNCHANGED <<main, sub, syncVars, turns, conn, claimed, fresh>>
  BY DEF PanCreate
<1>6. panSeq' = panSeq + 1 /\ slices' = slices
  BY DEF PanCreate
<1>. QED  BY <1>1, <1>2, <1>3, <1>4, <1>5, <1>6, AfterCommand, CommandUnclaimed

LEMMA StepPanRemove ==
  ASSUME ReceiversIInv, NEW p \in DOMAIN pans, PanRemove(p)
  PROVE  ReceiversIInv'
<1>. USE DEF ReceiversIInv, Typed, tuneVars
<1>1. PansOK'
  <2>1. DOMAIN pans' \subseteq DOMAIN pans /\ \A q \in DOMAIN pans' : pans'[q] = pans[q]
    BY DEF PanRemove, Without
  <2>. QED  BY <2>1 DEF PansOK, PanRemove
<1>2. PlanOK(slices')
  BY WithoutOK DEF PanRemove
<1>3. OneActive(slices', active')
  BY DEF PanRemove, OneActive, Without
<1>4. TuneOK' /\ active' \in Indices
  BY DEF PanRemove, TuneOK
<1>5. hold' \in BOOLEAN
  BY Zenon DEF PanRemove, FlagsOK
<1>6. Command /\ UNCHANGED <<main, sub, syncVars, turns, conn, claimed, fresh, panSeq>>
  BY DEF PanRemove
<1>. QED  BY <1>1, <1>2, <1>3, <1>4, <1>5, <1>6, AfterCommand, CommandUnclaimed

\* What `slice create` puts: on the least free index, at the radio's frequency for the
\* first slice of a connection.
LEMMA StepSliceCreate ==
  ASSUME ReceiversIInv, NEW p \in DOMAIN pans, NEW f \in Freqs, SliceCreate(p, f)
  PROVE  /\ ReceiversIInv'
         /\ toMain' # toMain => active' = MAIN
         /\ fresh => slices'[active'].freq = main
<1>. USE DEF ReceiversIInv, Typed
<1>. DEFINE idx  == Min(Indices \ DOMAIN slices)
            freq == IF claimed THEN f ELSE main
            s    == [freq |-> freq, active |-> TRUE, pan |-> p]
            plan == Put(NoneActive(slices), idx, s)
<1>0. /\ slices' = plan /\ active' = idx
      /\ pans' = [pans EXCEPT ![p] = idx]
      /\ SyncActive(plan, idx)
      /\ Command /\ claimed' = TRUE /\ fresh' = FALSE
      /\ UNCHANGED <<conn, panSeq, main, sub, syncVars, turns>>
  BY DEF SliceCreate
<1>1. idx \in Indices /\ idx \notin DOMAIN slices
  <2>1. Indices \ DOMAIN slices \subseteq Nat /\ Indices \ DOMAIN slices # {}
    BY DEF SliceCreate, Indices, MAIN, SUB
  <2>. QED  BY <2>1, MinIsLeast, Zenon
<1>2. freq \in Freqs
  BY DEF DialOK
<1>3. s \in Slice
  <2>1. p \in PanIds
    <3>1. p \in 1..panSeq /\ panSeq \in Nat
      BY DEF PansOK
    <3>2. panSeq <= MaxCmds + MaxTurns + 1
      <4>1. Owed \in {0, 1}
        BY DEF Owed
      <4>. QED  BY <4>1, <3>1, ReceiversAssumption DEF PansPaid, CountOK
    <3>. QED  BY <3>1, <3>2, ReceiversAssumption DEF PanIds
  <2>. HIDE DEF freq
  <2>. QED  BY <2>1, <1>2 DEF Slice
<1>4. PlanOK(plan)
  <2>. HIDE DEF s, idx
  <2>. QED  BY <1>1, <1>3, NoneActiveIs, PutOK
<1>5. OneActive(plan, idx)
  <2>. HIDE DEF s, idx
  <2>. QED  BY NoneActiveIs DEF OneActive, Put
<1>6. plan[idx] = s
  <2>. HIDE DEF s, idx
  <2>. QED  BY DEF Put
<1>. HIDE DEF plan, idx
<1>7. TuneOK' /\ hold' \in BOOLEAN /\ (toMain' # toMain => idx = MAIN)
  BY <1>0, <1>1, <1>4, SyncActiveOK
<1>8. PansOK'
  BY <1>0, <1>1 DEF PansOK
<1>9. FreshUnclaimed'
  BY <1>0 DEF FreshUnclaimed, Command
<1>10. ReceiversIInv'
  BY <1>0, <1>1, <1>4, <1>5, <1>7, <1>8, <1>9, AfterCommand
<1>11. fresh => slices'[active'].freq = main
  BY <1>0, <1>6 DEF FreshUnclaimed
<1>. QED  BY <1>0, <1>7, <1>10, <1>11

LEMMA StepSliceRemove ==
  ASSUME ReceiversIInv, NEW i \in DOMAIN slices, SliceRemove(i)
  PROVE  ReceiversIInv' /\ (toMain' # toMain => active' = MAIN)
<1>. USE DEF ReceiversIInv, Typed
<1>. DEFINE plan == Without(slices, {i})
            act  == IF i = active /\ plan # Empty THEN Min(DOMAIN plan) ELSE active
<1>0. /\ slices' = plan /\ active' = act
      /\ pans' = Without(pans, {slices[i].pan})
      /\ SyncActive(plan, act)
      /\ Command
      /\ UNCHANGED <<conn, panSeq, claimed, fresh, main, sub, syncVars, turns>>
  BY DEF SliceRemove
<1>1. PlanOK(plan)
  BY WithoutOK
<1>2. act \in Indices
  <2>1. CASE i = active /\ plan # Empty
    <3>1. DOMAIN plan # {}
      BY <2>1 DEF Without, Empty
    <3>2. DOMAIN plan \subseteq Nat /\ DOMAIN plan \subseteq Indices
      BY <1>1 DEF PlanOK, Indices, MAIN, SUB
    <3>. HIDE DEF plan
    <3>. QED  BY <2>1, <3>1, <3>2, MinIsLeast
  <2>. QED  BY <2>1
<1>3. OneActive(plan, act)
  BY DEF OneActive, Without
<1>4. PansOK'
  <2>1. DOMAIN pans' \subseteq DOMAIN pans /\ \A q \in DOMAIN pans' : pans'[q] = pans[q]
    BY <1>0 DEF Without
  <2>. QED  BY <2>1, <1>0 DEF PansOK
<1>. HIDE DEF plan, act
<1>5. TuneOK' /\ hold' \in BOOLEAN /\ (toMain' # toMain => act = MAIN)
  BY <1>0, <1>1, <1>2, SyncActiveOK
<1>. QED  BY <1>0, <1>1, <1>2, <1>3, <1>4, <1>5, AfterCommand, CommandUnclaimed

LEMMA StepSliceSet ==
  ASSUME ReceiversIInv, NEW i \in Indices, NEW f \in Freqs, NEW activate \in BOOLEAN,
         SliceSet(i, f, activate)
  PROVE  ReceiversIInv' /\ (toMain' # toMain => active' = MAIN)
<1>. USE DEF ReceiversIInv, Typed
<1>. DEFINE old  == IF i \in DOMAIN slices THEN slices[i]
                    ELSE [freq |-> sliceFreq, active |-> FALSE, pan |-> PrimaryPan]
            rest == IF activate THEN NoneActive(slices) ELSE slices
            s    == [old EXCEPT !.freq = f, !.active = (@ \/ activate)]
            plan == Put(rest, i, s)
            act  == IF activate THEN i ELSE active
<1>0. /\ slices' = plan /\ active' = act
      /\ IF i = SUB THEN Drive(SUB, f) /\ UNCHANGED sliceFreq ELSE SyncActive(plan, act)
      /\ Command
      /\ UNCHANGED <<conn, pans, panSeq, claimed, fresh, main, sub, syncVars, turns>>
  BY DEF SliceSet
<1>1. old \in Slice
  <2>1. PrimaryPan \in PanIds \cup {None}
    <3>1. CASE DOMAIN pans # {}
      <4>1. DOMAIN pans \subseteq Nat /\ DOMAIN pans \subseteq 1..panSeq /\ panSeq \in Nat
        BY DEF PansOK
      <4>2. Min(DOMAIN pans) \in 1..panSeq
        BY <3>1, <4>1, MinIsLeast
      <4>3. panSeq <= MaxCmds + MaxTurns + 1
        <5>1. Owed \in {0, 1}
          BY DEF Owed
        <5>. QED  BY <5>1, <4>1, ReceiversAssumption DEF PansPaid, CountOK
      <4>. QED  BY <4>1, <4>2, <4>3, ReceiversAssumption DEF PrimaryPan, PanIds
    <3>2. CASE DOMAIN pans = {}
      BY <3>2 DEF PrimaryPan, Empty
    <3>. QED  BY <3>1, <3>2
  <2>2. CASE i \in DOMAIN slices
    BY <2>2 DEF PlanOK
  <2>3. CASE i \notin DOMAIN slices
    BY <2>1, <2>3 DEF Slice, TuneOK
  <2>. QED  BY <2>2, <2>3
<1>2. s \in Slice
  <2>. HIDE DEF old
  <2>. QED  BY <1>1 DEF Slice
<1>3. PlanOK(rest) /\ DOMAIN rest = DOMAIN slices
  BY NoneActiveIs
<1>4. PlanOK(plan)
  <2>. HIDE DEF rest, s
  <2>. QED  BY <1>2, <1>3, PutOK
<1>5. OneActive(plan, act)
  <2>1. CASE activate
    <3>1. \A k \in DOMAIN rest : ~rest[k].active
      BY <2>1, NoneActiveIs
    <3>. HIDE DEF rest, s
    <3>. QED  BY <2>1, <3>1 DEF OneActive, Put
  <2>2. CASE ~activate
    <3>1. s.active => i \in DOMAIN slices /\ slices[i].active
      BY <2>2, <1>1 DEF Slice
    <3>2. rest = slices /\ act = active
      BY <2>2
    <3>. HIDE DEF rest, s, act
    <3>. QED  BY <3>1, <3>2 DEF OneActive, Put
  <2>. QED  BY <2>1, <2>2
<1>6. act \in Indices
  OBVIOUS
<1>. HIDE DEF plan, act
<1>7. TuneOK' /\ hold' \in BOOLEAN /\ (toMain' # toMain => act = MAIN)
  <2>1. CASE i = SUB
    BY <2>1, <1>0 DEF Drive, TuneOK
  <2>2. CASE i # SUB
    BY <2>2, <1>0, <1>4, <1>6, SyncActiveOK
  <2>. QED  BY <2>1, <2>2
<1>8. PansOK'
  BY <1>0 DEF PansOK
<1>. QED  BY <1>0, <1>4, <1>5, <1>6, <1>7, <1>8, AfterCommand, CommandUnclaimed

LEMMA StepPanCentre ==
  ASSUME ReceiversIInv, NEW p \in DOMAIN pans, NEW f \in Freqs, PanCentre(p, f)
  PROVE  ReceiversIInv' /\ (toMain' # toMain => active' = MAIN)
<1>. USE DEF ReceiversIInv, Typed
<1>. DEFINE i    == pans[p]
            plan == [slices EXCEPT ![i].freq = f]
<1>0. /\ i \in DOMAIN slices /\ slices' = plan /\ SyncActive(plan, active)
      /\ Command
      /\ UNCHANGED <<conn, pans, panSeq, active, claimed, fresh, main, sub, syncVars, turns>>
  BY DEF PanCentre
<1>2. PlanOK(plan)
  <2>. HIDE DEF i
  <2>. QED  BY <1>0, RetunedIs
<1>3. OneActive(plan, active)
  <2>1. DOMAIN plan = DOMAIN slices /\ \A k \in DOMAIN slices : plan[k].active = slices[k].active
    <3>. HIDE DEF i
    <3>. QED  BY <1>0, RetunedIs
  <2>. HIDE DEF plan
  <2>. QED  BY <2>1 DEF OneActive
<1>. HIDE DEF plan
<1>4. TuneOK' /\ hold' \in BOOLEAN /\ (toMain' # toMain => active = MAIN)
  BY <1>0, <1>2, SyncActiveOK
<1>5. PansOK'
  BY <1>0 DEF PansOK
<1>. QED  BY <1>0, <1>2, <1>3, <1>4, <1>5, AfterCommand, CommandUnclaimed

-----------------------------------------------------------------------------
(* The session, the radio and the stream loop. *)

LEMMA StepConnect ==
  ASSUME ReceiversIInv, Connect \/ Disconnect \/ HoldEnds
  PROVE  ReceiversIInv'
<1>. USE DEF ReceiversIInv, Typed, aeVars, tuneVars, syncVars
<1>1. CASE Connect \/ HoldEnds
  <2>. USE <1>1 DEF Connect, HoldEnds
  <2>1. PlanOK(slices)' /\ OneActive(slices, active)' /\ active' \in Indices /\ PansOK'
        /\ TuneOK' /\ DialOK' /\ SyncOK' /\ CountOK' /\ GoneCounted' /\ PansPaid'
    BY DEF PlanOK, OneActive, PansOK, TuneOK, DialOK, SyncOK, CountOK, GoneCounted, PansPaid,
           Owed
  <2>2. FlagsOK'
    BY Zenon DEF FlagsOK
  <2>3. FreshUnclaimed'
    BY DEF FreshUnclaimed
  <2>. QED  BY <2>1, <2>2, <2>3
<1>2. CASE Disconnect
  <2>. USE <1>2 DEF Disconnect
  <2>1. PlanOK(slices)' /\ OneActive(slices, active)' /\ active' \in Indices /\ PansOK'
    BY DEF PlanOK, OneActive, PansOK, Empty, Indices
  <2>2. TuneOK' /\ DialOK' /\ SyncOK' /\ CountOK' /\ GoneCounted'
    BY DEF TuneOK, DialOK, SyncOK, CountOK, GoneCounted
  <2>3. PansPaid'
    <3>1. Owed' \in {0, 1}
      BY DEF Owed
    <3>2. panSeq' = 0 /\ {cmds', turns'} \subseteq Nat
      BY DEF CountOK
    <3>. QED  BY <3>1, <3>2 DEF PansPaid
  <2>4. FlagsOK'
    BY Zenon DEF FlagsOK
  <2>5. FreshUnclaimed'
    BY DEF FreshUnclaimed
  <2>. QED  BY <2>1, <2>2, <2>3, <2>4, <2>5
<1>. QED  BY <1>1, <1>2

\* The slices and what is kept of the session are left alone.
LEMMA SlicesKept ==
  ASSUME ReceiversIInv, UNCHANGED <<aeVars, conn, claimed, fresh, hold>>
  PROVE  PlanOK(slices)' /\ OneActive(slices, active)' /\ active' \in Indices /\ PansOK'
         /\ FlagsOK' /\ FreshUnclaimed' /\ sliceFreq' \in Freqs
<1>1. FlagsOK'
  BY Zenon DEF ReceiversIInv, Typed, FlagsOK
<1>. QED  BY <1>1 DEF ReceiversIInv, Typed, aeVars, PlanOK, OneActive, PansOK, TuneOK,
                      FreshUnclaimed

LEMMA StepTuner ==
  ASSUME ReceiversIInv, TunerSets
  PROVE  ReceiversIInv' /\ (toMain' # None => toMain' = toMain)
<1>. USE DEF ReceiversIInv, Typed
<1>1. DialOK' /\ toMain' \in Freqs \cup {None} /\ toSub' \in Freqs \cup {None}
      /\ (sub' = None <=> sub = None)
  BY Frequencies DEF TunerSets, DialOK, TuneOK
<1>2. SyncOK' /\ CountOK' /\ GoneCounted'
  BY DEF TunerSets, syncVars, SyncOK, CountOK, GoneCounted
<1>3. PansPaid'
  BY <1>1 DEF TunerSets, syncVars, aeVars, PansPaid, Owed
<1>4. toMain' # None => toMain' = toMain
  BY DEF TunerSets
<1>5. UNCHANGED <<aeVars, conn, claimed, fresh, hold>>
  BY DEF TunerSets
<1>. QED  BY <1>1, <1>2, <1>3, <1>4, <1>5, SlicesKept DEF TuneOK

LEMMA StepTurn ==
  ASSUME ReceiversIInv, Turn
  PROVE  ReceiversIInv'
<1>. USE DEF ReceiversIInv, Typed
<1>1. DialOK' /\ TuneOK'
  BY DEF Turn, DialOK, TuneOK, aeVars
<1>2. SyncOK' /\ GoneCounted'
  BY DEF Turn, syncVars, SyncOK, GoneCounted
<1>3. CountOK'
  BY ReceiversAssumption DEF Turn, CountOK
<1>4. PansPaid'
  <2>1. Owed \in {0, 1} /\ Owed' \in {0, 1}
    BY DEF Owed
  <2>2. /\ turns' = turns + 1 /\ cmds' = cmds /\ panSeq' = panSeq
        /\ {cmds, turns, panSeq} \subseteq Nat
    BY DEF Turn, aeVars, CountOK, PansOK
  <2>3. panSeq + Owed <= cmds + turns + 1
    BY DEF PansPaid
  <2>. QED  BY <2>1, <2>2, <2>3 DEF PansPaid
<1>5. UNCHANGED <<aeVars, conn, claimed, fresh, hold>>
  BY DEF Turn
<1>. QED  BY <1>1, <1>2, <1>3, <1>4, <1>5, SlicesKept

\* A reading is taken: with SUB in it the count of those without it starts again.
LEMMA StepSyncRead ==
  ASSUME ReceiversIInv, SyncRead
  PROVE  ReceiversIInv'
<1>. USE DEF ReceiversIInv, Typed
<1>1. reading' \in Seq(Freqs) /\ Len(reading') \in {1, 2} /\ (Len(reading') = 2 <=> sub # None)
  <2>1. CASE sub = None
    <3>1. reading' = <<main>>
      BY <2>1 DEF SyncRead
    <3>. QED  BY <2>1, <3>1 DEF DialOK
  <2>2. CASE sub # None
    <3>1. reading' = <<main, sub>>
      BY <2>2 DEF SyncRead
    <3>. QED  BY <2>2, <3>1 DEF DialOK
  <2>. QED  BY <2>1, <2>2
<1>2. Min({goneRun + 1, GoneLimit}) =
        IF goneRun + 1 <= GoneLimit THEN goneRun + 1 ELSE GoneLimit
  <2>1. {goneRun + 1, GoneLimit} \subseteq Nat /\ {goneRun + 1, GoneLimit} # {}
    BY ReceiversAssumption DEF SyncOK
  <2>2. Min({goneRun + 1, GoneLimit}) \in {goneRun + 1, GoneLimit}
        /\ \A y \in {goneRun + 1, GoneLimit} : Min({goneRun + 1, GoneLimit}) <= y
    BY <2>1, MinIsLeast
  <2>. QED  BY <2>1, <2>2
<1>a. /\ Len(reading') = 2 => goneRun' = 0
      /\ Len(reading') = 1 => \/ goneRun' = goneRun + 1 /\ goneRun + 1 <= GoneLimit
                              \/ goneRun' = GoneLimit
      /\ gone' = gone /\ Len(reading) = 0
  <2>1. goneRun' = IF Len(reading') = 2 THEN 0 ELSE Min({goneRun + 1, GoneLimit})
    BY <1>1 DEF SyncRead
  <2>2. gone' = gone /\ Len(reading) = 0
    BY DEF SyncRead
  <2>. QED  BY <1>2, <2>1, <2>2
<1>b. {gone} \subseteq 0..(GoneLimit - 1) /\ {goneRun} \subseteq 0..GoneLimit
      /\ GoneLimit \in Nat \ {0}
  BY ReceiversAssumption DEF SyncOK
<1>3. SyncOK'
  <2>1. goneRun' \in 0..GoneLimit
    BY <1>1, <1>a, <1>b
  <2>2. gone' \in 0..(GoneLimit - 1)
    BY <1>a, <1>b
  <2>3. reading' \in Seq(Freqs) /\ Len(reading') <= 2
    <3>1. CASE Len(reading') = 1
      BY <1>1, <3>1
    <3>2. CASE Len(reading') = 2
      BY <1>1, <3>2
    <3>. QED  BY <1>1, <3>1, <3>2
  <2>. QED  BY <2>1, <2>2, <2>3, Zenon DEF SyncOK
<1>4. GoneCounted'
  <2>1. gone <= goneRun
    BY <1>a, <1>b DEF GoneCounted
  <2>2. gone' + 1 <= GoneLimit /\ gone' = gone
    BY <1>a, <1>b
  <2>3. CASE Len(reading') = 2
    BY <1>a, <2>3 DEF GoneCounted
  <2>4. CASE Len(reading') = 1
    <3>1. gone' + 1 <= goneRun'
      BY <1>a, <1>b, <2>1, <2>2, <2>4
    <3>. QED  BY <2>4, <3>1 DEF GoneCounted
  <2>. QED  BY <1>1, <2>3, <2>4
<1>5. CountOK' /\ DialOK' /\ TuneOK'
  BY ReceiversAssumption DEF SyncRead, tuneVars, aeVars, CountOK, DialOK, TuneOK
<1>6. PansPaid'
  <2>1. Len(reading) = 0
    BY DEF SyncRead
  <2>2. UNCHANGED <<sub, slices, cmds, turns, panSeq>>
    BY DEF SyncRead, tuneVars, aeVars
  <2>3. CASE sub = None
    <3>1. Len(reading') # 2 /\ Len(reading) # 2 /\ sub' = None
      BY <1>1, <2>1, <2>2, <2>3
    <3>2. Owed' = 0 /\ Owed = 0
      BY <2>3, <3>1, Zenon DEF Owed
    <3>. QED  BY <2>2, <3>2 DEF PansPaid
  <2>4. CASE sub # None
    <3>a. Len(reading') = 2 /\ sub' # None /\ slices' = slices
      BY <1>1, <2>2, <2>4
    <3>1. Len(reading') # 1 /\ Len(reading) # 1 /\ Len(reading) # 2 /\ sub' # None
          /\ slices' = slices
      BY <2>1, <3>a
    <3>2. Owed' = (IF SUB \notin DOMAIN slices THEN 1 ELSE 0)
      BY <3>1, Zenon DEF Owed
    <3>3. Owed = (IF SUB \notin DOMAIN slices THEN 1 ELSE 0)
      BY <2>4, <3>1, Zenon DEF Owed
    <3>. QED  BY <2>2, <3>2, <3>3 DEF PansPaid
  <2>. QED  BY <2>3, <2>4
<1>7. UNCHANGED <<aeVars, conn, claimed, fresh, hold>>
  BY DEF SyncRead
<1>. QED  BY <1>3, <1>4, <1>5, <1>6, <1>7, SlicesKept

\* The reading is applied: the slices follow, SUB's slice is made or goes.
LEMMA StepSyncApply ==
  ASSUME ReceiversIInv, SyncApply
  PROVE  /\ ReceiversIInv'
         /\ SUB \in DOMAIN slices \ DOMAIN slices' => goneRun = GoneLimit
<1>. USE DEF ReceiversIInv, Typed
<1>. DEFINE r    == MainFirst(reading)
            plan == FollowMain(r[1])
<1>0. /\ sliceFreq' = IF active = MAIN /\ MAIN \in DOMAIN plan THEN r[1] ELSE sliceFreq
      /\ IF Len(r) = 2
           THEN FollowSub(plan, r[2])
           ELSE IF SUB \in DOMAIN plan
                  THEN DropSub(plan)
                  ELSE slices' = plan /\ UNCHANGED <<pans, panSeq, active, gone>>
      /\ reading' = <<>>
      /\ UNCHANGED <<conn, claimed, fresh, tuneVars, hold, goneRun, cmds, turns>>
  BY DEF SyncApply
<1>1. /\ r \in Seq(Freqs) /\ Len(r) = Len(reading) /\ Len(r) \in {1, 2}
      /\ r[1] \in Freqs /\ (Len(r) = 2 => r[2] \in Freqs)
  <2>1. reading \in Seq(Freqs) /\ Len(reading) \in {1, 2}
    <3>1. reading \in Seq(Freqs) /\ Len(reading) <= 2 /\ reading # <<>>
      BY DEF SyncApply, SyncOK
    <3>2. Len(reading) # 0
      BY <3>1, EmptySeq
    <3>3. \A n \in Nat : n <= 2 /\ n # 0 => n \in {1, 2}
      OBVIOUS
    <3>4. Len(reading) \in Nat
      BY <3>1, LenProperties
    <3>. QED  BY <3>1, <3>2, <3>3, <3>4
  <2>2. reading[1] \in Freqs /\ (Len(reading) = 2 => reading[2] \in Freqs)
    BY <2>1
  <2>3. r = reading \/ (Len(reading) = 2 /\ r = <<reading[2], reading[1]>>)
    BY DEF MainFirst
  <2>4. CASE r = reading
    BY <2>1, <2>2, <2>4
  <2>5. CASE Len(reading) = 2 /\ r = <<reading[2], reading[1]>>
    <3>. HIDE DEF r
    <3>. QED  BY <2>2, <2>5
  <2>. QED  BY <2>3, <2>4, <2>5
<1>. HIDE DEF r
<1>2. PlanOK(plan) /\ DOMAIN plan = DOMAIN slices /\ OneActive(plan, active)
  <2>1. CASE MAIN \in DOMAIN slices
    <3>1. plan = [slices EXCEPT ![MAIN].freq = r[1]]
      BY <2>1 DEF FollowMain
    <3>2. /\ DOMAIN [slices EXCEPT ![MAIN].freq = r[1]] = DOMAIN slices
          /\ PlanOK([slices EXCEPT ![MAIN].freq = r[1]])
          /\ \A k \in DOMAIN slices :
               [slices EXCEPT ![MAIN].freq = r[1]][k].active = slices[k].active
      BY <1>1, <2>1, RetunedIs
    <3>. HIDE DEF plan
    <3>. QED  BY <3>1, <3>2 DEF OneActive
  <2>2. CASE MAIN \notin DOMAIN slices
    BY <2>2 DEF FollowMain
  <2>. QED  BY <2>1, <2>2
<1>. HIDE DEF plan
<1>3. DialOK' /\ TuneOK' /\ CountOK'
  BY <1>0, <1>1 DEF tuneVars, DialOK, TuneOK, CountOK
<1>4. FlagsOK'
  BY <1>0, Zenon DEF FlagsOK
<1>5. FreshUnclaimed'
  BY <1>0 DEF FreshUnclaimed
<1>6. reading' \in Seq(Freqs) /\ Len(reading') = 0 /\ goneRun' = goneRun
  BY <1>0
<1>7. panSeq + 1 \in PanIds \/ ~(Len(r) = 2 /\ SUB \notin DOMAIN slices)
  BY <1>1, ReceiversAssumption DEF PansPaid, Owed, CountOK, PansOK, PanIds
<1>8. ASSUME PlanOK(slices'), OneActive(slices', active'), active' \in Indices, PansOK',
             {gone'} \subseteq 0..(GoneLimit - 1), gone' <= goneRun, PansPaid'
      PROVE  ReceiversIInv'
  <2>1. SyncOK' /\ GoneCounted'
    <3>1. goneRun \in 0..GoneLimit
      BY DEF SyncOK
    <3>2. SyncOK'
      BY <1>6, <1>8, <3>1 DEF SyncOK
    <3>. QED  BY <1>6, <1>8, <3>1, <3>2, ReceiversAssumption DEF GoneCounted
  <2>. QED  BY <1>3, <1>4, <1>5, <1>8, <2>1
<1>9. ASSUME Len(r) = 2 /\ SUB \in DOMAIN plan
      PROVE  ReceiversIInv'
  <2>1. /\ slices' = [plan EXCEPT ![SUB].freq = r[2]] /\ gone' = 0
        /\ UNCHANGED <<pans, panSeq, active>>
    BY <1>0, <1>9 DEF FollowSub
  <2>2. PlanOK(slices') /\ OneActive(slices', active') /\ DOMAIN slices' = DOMAIN slices
    <3>1. /\ DOMAIN [plan EXCEPT ![SUB].freq = r[2]] = DOMAIN plan
          /\ PlanOK([plan EXCEPT ![SUB].freq = r[2]])
          /\ \A k \in DOMAIN plan :
               [plan EXCEPT ![SUB].freq = r[2]][k].active = plan[k].active
      <4>1. r[2] \in Freqs /\ SUB \in DOMAIN plan /\ PlanOK(plan)
        BY <1>1, <1>2, <1>9
      <4>. QED  BY <4>1, RetunedIs
    <3>. QED  BY <2>1, <3>1, <1>2 DEF OneActive
  <2>3. PansOK'
    BY <2>1 DEF PansOK
  <2>4. PansPaid'
    BY <1>0, <1>1, <1>2, <1>6, <1>9, <2>1, <2>2 DEF PansPaid, Owed, tuneVars, CountOK, PansOK
  <2>. QED  BY <1>8, <2>1, <2>2, <2>3, <2>4, <1>1, <1>9, ReceiversAssumption DEF SyncOK
<1>10. ASSUME Len(r) = 2 /\ SUB \notin DOMAIN plan
       PROVE  ReceiversIInv'
  <2>. DEFINE s == [freq |-> r[2], active |-> FALSE, pan |-> panSeq + 1]
  <2>1. /\ slices' = Put(plan, SUB, s) /\ gone' = 0 /\ active' = active
        /\ panSeq' = panSeq + 1 /\ pans' = Put(pans, panSeq + 1, SUB)
    BY <1>0, <1>10 DEF FollowSub
  <2>2. s \in Slice
    BY <1>1, <1>2, <1>7, <1>10 DEF Slice
  <2>3. PlanOK(slices') /\ OneActive(slices', active') /\ SUB \in DOMAIN slices'
    <3>1. s.active = FALSE
      OBVIOUS
    <3>2. PlanOK(slices')
      <4>. HIDE DEF s
      <4>. QED  BY <1>2, <2>1, <2>2, PutOK DEF Indices
    <3>3. OneActive(slices', active') /\ SUB \in DOMAIN slices'
      <4>. HIDE DEF s
      <4>. QED  BY <1>2, <2>1, <3>1 DEF Put, OneActive
    <3>. QED  BY <3>2, <3>3
  <2>4. PansOK'
    <3>1. DOMAIN pans' = DOMAIN pans \cup {panSeq + 1}
      BY <2>1 DEF Put
    <3>2. \A p \in DOMAIN pans' : pans'[p] \in Indices \cup {NoSlice}
      BY <2>1 DEF Put, PansOK, Indices
    <3>. QED  BY <2>1, <3>1, <3>2 DEF PansOK
  <2>5. PansPaid'
    <3>1. Owed = 1 /\ Owed' = 0
      BY <1>1, <1>2, <1>6, <1>10, <2>3 DEF Owed
    <3>. QED  BY <1>0, <2>1, <3>1 DEF PansPaid, CountOK, PansOK
  <2>. QED  BY <1>8, <2>1, <2>3, <2>4, <2>5, ReceiversAssumption DEF SyncOK
<1>11. ASSUME Len(r) # 2 /\ SUB \in DOMAIN plan /\ gone + 1 < GoneLimit
       PROVE  ReceiversIInv'
  <2>1. gone' = gone + 1 /\ slices' = plan /\ UNCHANGED <<pans, panSeq, active>>
    BY <1>0, <1>11 DEF DropSub
  <2>2. PansOK' /\ PansPaid'
    BY <1>0, <1>1, <1>2, <1>6, <1>11, <2>1 DEF PansOK, PansPaid, Owed, tuneVars, CountOK
  <2>3. gone + 1 <= goneRun
    BY <1>1, <1>11 DEF GoneCounted
  <2>4. {gone'} \subseteq 0..(GoneLimit - 1) /\ gone' <= goneRun
    BY <1>11, <2>1, <2>3, ReceiversAssumption DEF SyncOK
  <2>5. PlanOK(slices') /\ OneActive(slices', active') /\ active' \in Indices
    BY <1>2, <2>1 DEF PlanOK, OneActive
  <2>. QED  BY <1>8, <2>2, <2>4, <2>5, Zenon
<1>12. ASSUME Len(r) # 2 /\ SUB \in DOMAIN plan /\ ~(gone + 1 < GoneLimit)
       PROVE  ReceiversIInv'
  <2>1. /\ slices' = Without(plan, {SUB}) /\ gone' = 0 /\ panSeq' = panSeq
        /\ pans' = IF plan[SUB].pan = PrimaryPan THEN pans
                   ELSE Without(pans, {plan[SUB].pan})
        /\ active' = IF active = SUB /\ MAIN \in DOMAIN plan THEN MAIN ELSE active
    BY <1>0, <1>12 DEF DropSub
  <2>2. PlanOK(slices')
    BY <1>2, <2>1, WithoutOK
  <2>3. OneActive(slices', active')
    BY <1>2, <2>1 DEF OneActive, Without
  <2>4. PansOK'
    <3>1. DOMAIN pans' \subseteq DOMAIN pans /\ \A q \in DOMAIN pans' : pans'[q] = pans[q]
      BY <2>1 DEF Without
    <3>. QED  BY <2>1, <3>1 DEF PansOK
  <2>5. PansPaid'
    <3>1. Owed' <= Owed /\ {Owed, Owed'} \subseteq {0, 1}
      BY <1>0, <1>1, <1>6, <1>12 DEF Owed, tuneVars
    <3>. QED  BY <1>0, <2>1, <3>1 DEF PansPaid, CountOK, PansOK
  <2>6. active' \in Indices
    BY <2>1 DEF Indices
  <2>7. {gone'} \subseteq 0..(GoneLimit - 1) /\ gone' <= goneRun
    BY <2>1, ReceiversAssumption DEF SyncOK
  <2>. QED  BY <1>8, <2>2, <2>3, <2>4, <2>5, <2>6, <2>7, Zenon
<1>13. ASSUME Len(r) # 2 /\ SUB \notin DOMAIN plan
       PROVE  ReceiversIInv'
  <2>1. slices' = plan /\ UNCHANGED <<pans, panSeq, active, gone>>
    BY <1>0, <1>13
  <2>2. PansOK' /\ PansPaid'
    BY <1>0, <1>1, <1>2, <1>6, <1>13, <2>1 DEF PansOK, PansPaid, Owed, tuneVars, CountOK
  <2>3. gone <= goneRun
    BY <1>1, <1>13 DEF GoneCounted, SyncOK
  <2>4. {gone'} \subseteq 0..(GoneLimit - 1) /\ gone' <= goneRun
    BY <2>1, <2>3 DEF SyncOK
  <2>5. PlanOK(slices') /\ OneActive(slices', active') /\ active' \in Indices
    BY <1>2, <2>1 DEF PlanOK, OneActive
  <2>. QED  BY <1>8, <2>2, <2>4, <2>5, Zenon
<1>14. SUB \in DOMAIN slices \ DOMAIN slices' => goneRun = GoneLimit
  <2>. SUFFICES ASSUME SUB \in DOMAIN slices, SUB \notin DOMAIN slices'
                PROVE  goneRun = GoneLimit
    OBVIOUS
  <2>1. Len(r) # 2
    <3>1. Len(r) = 2 => slices' = [plan EXCEPT ![SUB].freq = r[2]]
      BY <1>0, <1>2 DEF FollowSub
    <3>2. DOMAIN [plan EXCEPT ![SUB].freq = r[2]] = DOMAIN plan
      OBVIOUS
    <3>. QED  BY <1>2, <3>1, <3>2
  <2>2. ~(gone + 1 < GoneLimit)
    BY <1>0, <1>2, <2>1 DEF DropSub
  <2>. QED  BY <1>1, <2>1, <2>2, ReceiversAssumption DEF GoneCounted, SyncOK
<1>. QED  BY <1>1, <1>9, <1>10, <1>11, <1>12, <1>13, <1>14

-----------------------------------------------------------------------------
(* Every step. *)

LEMMA InitOK == Init => ReceiversIInv
<1>. SUFFICES ASSUME Init PROVE ReceiversIInv  OBVIOUS
<1>1. PlanOK(slices) /\ OneActive(slices, active) /\ PansOK /\ active \in Indices
  BY DEF Init, Empty, PlanOK, OneActive, PansOK, Indices
<1>2. TuneOK /\ DialOK
  BY Frequencies DEF Init, TuneOK, DialOK
<1>3. SyncOK /\ GoneCounted
  BY ReceiversAssumption DEF Init, SyncOK, GoneCounted
<1>4. CountOK /\ FreshUnclaimed
  BY ReceiversAssumption DEF Init, CountOK, FreshUnclaimed
<1>5. FlagsOK
  BY Zenon DEF Init, FlagsOK
<1>6. PansPaid
  BY DEF Init, PansPaid, Owed
<1>. QED  BY <1>1, <1>2, <1>3, <1>4, <1>5, <1>6 DEF ReceiversIInv, Typed

LEMMA StutterOK ==
  ASSUME ReceiversIInv, UNCHANGED vars
  PROVE  ReceiversIInv'
<1>. USE DEF vars, aeVars, tuneVars, syncVars, ReceiversIInv, Typed
<1>1. FlagsOK'
  BY Zenon DEF FlagsOK
<1>2. PansPaid' /\ GoneCounted' /\ FreshUnclaimed'
  BY DEF PansPaid, Owed, GoneCounted, FreshUnclaimed
<1>. QED  BY <1>1, <1>2 DEF PlanOK, OneActive, PansOK, TuneOK, DialOK, SyncOK, CountOK

\* What each action does to the invariant, to the tune of MAIN, to SUB's slice and to
\* the first slice of a connection.
StepFacts ==
  /\ ReceiversIInv'
  /\ toMain' # toMain /\ toMain' # None => active' = MAIN
  /\ reading # <<>> /\ reading' = <<>> /\ SUB \in DOMAIN slices \ DOMAIN slices'
       => goneRun = GoneLimit
  /\ fresh /\ ~fresh' => slices'[active'].freq = main

LEMMA StepOK == ReceiversIInv /\ [Next]_vars => StepFacts
<1>. SUFFICES ASSUME ReceiversIInv, [Next]_vars PROVE StepFacts
  OBVIOUS
\* A step that leaves the reading and the connection's first slice alone.
<1>0. ASSUME ReceiversIInv', toMain' # toMain /\ toMain' # None => active' = MAIN,
             reading' = reading \/ reading = <<>>, fresh' = fresh \/ fresh' = TRUE
      PROVE  StepFacts
  BY <1>0 DEF StepFacts
<1>1. CASE Connect \/ Disconnect \/ HoldEnds
  <2>1. toMain' = toMain /\ reading' = reading /\ (fresh' = fresh \/ fresh' = TRUE)
    BY <1>1 DEF Connect, Disconnect, HoldEnds, tuneVars, syncVars
  <2>. QED  BY <1>0, <1>1, <2>1, StepConnect
<1>2. CASE PanCreate
  <2>1. toMain' = toMain /\ reading' = reading /\ fresh' = fresh
    BY <1>2 DEF PanCreate, tuneVars, syncVars
  <2>. QED  BY <1>0, <1>2, <2>1, StepPanCreate
<1>3. ASSUME NEW p \in DOMAIN pans, PanRemove(p)
      PROVE  StepFacts
  <2>1. toMain' = toMain /\ reading' = reading /\ fresh' = fresh
    BY <1>3 DEF PanRemove, tuneVars, syncVars
  <2>. QED  BY <1>0, <1>3, <2>1, StepPanRemove
<1>4. ASSUME NEW p \in DOMAIN pans, NEW f \in Freqs, SliceCreate(p, f)
      PROVE  StepFacts
  <2>1. reading' = reading
    BY <1>4 DEF SliceCreate, syncVars
  <2>2. /\ ReceiversIInv'
        /\ toMain' # toMain => active' = MAIN
        /\ fresh => slices'[active'].freq = main
    BY <1>4, StepSliceCreate
  <2>. QED  BY <2>1, <2>2 DEF StepFacts
<1>5. ASSUME NEW p \in DOMAIN pans, NEW f \in Freqs, PanCentre(p, f)
      PROVE  StepFacts
  <2>1. reading' = reading /\ fresh' = fresh
    BY <1>5 DEF PanCentre, syncVars
  <2>. QED  BY <1>0, <1>5, <2>1, StepPanCentre
<1>6. ASSUME NEW i \in DOMAIN slices, SliceRemove(i)
      PROVE  StepFacts
  <2>1. reading' = reading /\ fresh' = fresh
    BY <1>6 DEF SliceRemove, syncVars
  <2>. QED  BY <1>0, <1>6, <2>1, StepSliceRemove
<1>7. ASSUME NEW i \in Indices, NEW f \in Freqs, NEW b \in BOOLEAN, SliceSet(i, f, b)
      PROVE  StepFacts
  <2>1. reading' = reading /\ fresh' = fresh
    BY <1>7 DEF SliceSet, syncVars
  <2>. QED  BY <1>0, <1>7, <2>1, StepSliceSet
<1>9. CASE TunerSets
  <2>1. reading' = reading /\ fresh' = fresh
    BY <1>9 DEF TunerSets, syncVars
  <2>. QED  BY <1>0, <1>9, <2>1, StepTuner
<1>10. CASE Turn
  <2>1. toMain' = toMain /\ reading' = reading /\ fresh' = fresh
    BY <1>10 DEF Turn, syncVars
  <2>. QED  BY <1>0, <1>10, <2>1, StepTurn
<1>11. CASE SyncRead
  <2>1. toMain' = toMain /\ reading = <<>> /\ fresh' = fresh
    BY <1>11 DEF SyncRead, tuneVars
  <2>. QED  BY <1>0, <1>11, <2>1, StepSyncRead
<1>12. CASE SyncApply
  <2>1. toMain' = toMain /\ fresh' = fresh
    BY <1>12 DEF SyncApply, tuneVars
  <2>2. ReceiversIInv' /\ (SUB \in DOMAIN slices \ DOMAIN slices' => goneRun = GoneLimit)
    BY <1>12, StepSyncApply
  <2>. QED  BY <2>1, <2>2 DEF StepFacts
<1>13. CASE UNCHANGED vars
  <2>1. toMain' = toMain /\ reading' = reading /\ fresh' = fresh
    BY <1>13 DEF vars, tuneVars, syncVars
  <2>. QED  BY <1>0, <1>13, <2>1, StutterOK
<1>. QED  BY <1>1, <1>2, <1>3, <1>4, <1>5, <1>6, <1>7, <1>9, <1>10, <1>11, <1>12, <1>13
          DEF Next

-----------------------------------------------------------------------------
\* The inductive invariant holds in every reachable state.
THEOREM InvariantHolds == Spec => []ReceiversIInv
<1>1. StepFacts => ReceiversIInv'
  BY DEF StepFacts
<1>. QED  BY <1>1, InitOK, StepOK, PTL DEF Spec

\* The invariant of the run: the types, with panadapter numbers that never leave their
\* range, and that the slice AE is told is active is the one the radio is tuned by.
THEOREM SlicesInvHolds == Spec => []SlicesInv
<1>1. ReceiversIInv => SlicesInv
  <2>. SUFFICES ASSUME ReceiversIInv PROVE SlicesInv  OBVIOUS
  <2>. USE DEF ReceiversIInv, Typed
  <2>1. panSeq \in PanIds \cup {0}
    <3>1. Owed \in {0, 1}
      BY DEF Owed
    <3>. QED  BY <3>1, ReceiversAssumption DEF PansPaid, CountOK, PansOK, PanIds
  <2>2. \A k \in DOMAIN reading : reading[k] \in Freqs
    BY DEF SyncOK
  <2>3. TypeOK
    BY <2>1, <2>2, Zenon
       DEF TypeOK, PlanOK, PansOK, TuneOK, DialOK, SyncOK, CountOK, FlagsOK
  <2>. QED  BY <2>3 DEF SlicesInv, ActiveIsDriven, OneActive
<1>. QED  BY <1>1, InvariantHolds, PTL

\* Nothing a client does with SUB's slice retunes MAIN: slice 0 is the active one whenever
\* MAIN is given a new frequency to go to.
THEOREM SubNeverMovesMainHolds == Spec => SubNeverMovesMain
<1>1. StepFacts => [toMain' # toMain /\ toMain' # None => active' = MAIN]_vars
  BY DEF StepFacts
<1>. QED  BY <1>1, InvariantHolds, StepOK, PTL DEF Spec, SubNeverMovesMain

\* SUB's slice goes only after GoneLimit readings in a row without SUB, over reconnections,
\* slices the client removed and made itself, and lapses of the cache.
THEOREM SubDebouncedHolds == Spec => SubDebounced
<1>1. StepFacts => [reading # <<>> /\ reading' = <<>> /\ SUB \in DOMAIN slices \ DOMAIN slices'
                      => goneRun = GoneLimit]_vars
  BY DEF StepFacts
<1>. QED  BY <1>1, InvariantHolds, StepOK, PTL DEF Spec, SubDebounced

\* The first slice of every connection opens where the radio is: the safety half of
\* RadioLeads.
THEOREM RadioWinsHolds == Spec => RadioWins
<1>1. StepFacts => [fresh /\ ~fresh' => slices'[active'].freq = main]_vars
  BY DEF StepFacts
<1>. QED  BY <1>1, InvariantHolds, StepOK, PTL DEF Spec, RadioWins
=============================================================================
