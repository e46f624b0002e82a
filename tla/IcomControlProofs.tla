------------------------- MODULE IcomControlProofs -------------------------
(***************************************************************************)
(* The USB channel and the LAN controls of the IC-9700.                    *)
(*                                                                         *)
(* The swap of UsbSwap restores MAIN, leaves MAIN's frequency alone and    *)
(* tells RX2 from MAIN, for any bands and any number of tries, for as long *)
(* as it is Calm: the radio has missed fewer commands than there are tries *)
(* and answered every read, and the engine has not tuned MAIN.             *)
(*                                                                         *)
(* A read of the SET menu is of now, for any number of commands and        *)
(* replies on the wire: what it will be answered with is what the item was *)
(* at some moment since the read began. In the composition each part does  *)
(* what it does alone.                                                     *)
(***************************************************************************)
EXTENDS IcomControl, SequenceTheorems, TLAPS

(***************************************************************************)
(* The types hold whatever the radio does.                                 *)
(***************************************************************************)

(* 07 B0, taken or missed. *)
LEMMA ToggleType ==
  ASSUME TunesAssumption, TypeOK, Toggle
  PROVE  swapped' \in BOOLEAN /\ missed' \in 0..MaxMissed
<1>1. swapped' \in BOOLEAN
  BY Zenon DEF TypeOK, Toggle
<1>2. missed' \in 0..MaxMissed
  BY TunesAssumption DEF TunesAssumption, TypeOK, Toggle
<1> QED
  BY <1>1, <1>2

(* A read yields a band or nothing. *)
LEMMA AnswerType ==
  ASSUME TunesAssumption, TypeOK, NEW f, NEW sw \in BOOLEAN, Answer(f, sw)
  PROVE  f \in Bands \cup {None} /\ unread' \in 0..MaxUnread
BY SMT DEF TunesAssumption, TypeOK, Answer

(* A tune leaves both receivers on bands. *)
LEMMA TuneType ==
  ASSUME TunesAssumption, TypeOK, NEW b \in Bands, NEW done, Tune(b, done)
  PROVE  main' \in Bands /\ sub' \in Bands /\ missed' \in 0..MaxMissed
<1>1. main' \in Bands /\ sub' \in Bands
  BY DEF TypeOK, Tune, Tuned
<1>2. missed' \in 0..MaxMissed
  BY DEF TunesAssumption, TypeOK, Tune
<1> QED
  BY <1>1, <1>2

(* The end of a transaction. *)
LEMMA ReleaseType ==
  ASSUME TypeOK, Release
  PROVE  /\ phase' \in Phases /\ left' \in 0..Tries /\ (left' = 0 <=> phase' = "free")
         /\ {write', home', found', mainCache', rx2Cache'} \subseteq Bands \cup {None}
         /\ present' \in BOOLEAN
<1>1. Tries \in Nat \ {0}
  BY TunesAssumption DEF TunesAssumption
<1>2. phase' \in Phases /\ left' \in 0..Tries /\ (left' = 0 <=> phase' = "free")
  BY <1>1 DEF Release, Phases
<1>3. {write', home', found', mainCache', rx2Cache'} \subseteq Bands \cup {None}
  BY DEF TypeOK, Release
<1>4. present' \in BOOLEAN
  <2>1. CASE present' = present
    BY <2>1 DEF TypeOK
  <2>2. CASE present' = (home = None \/ Differ(found, home))
    BY <2>2 DEF Differ
  <2> QED
    BY <2>1, <2>2 DEF Release
<1> QED
  BY <1>2, <1>3, <1>4

(* The first state is typed, *)
LEMMA InitType == Init => TypeOK
<1>1. Tries \in Nat \ {0} /\ MaxMissed \in Nat /\ MaxUnread \in Nat
  BY TunesAssumption DEF TunesAssumption
<1> SUFFICES ASSUME Init PROVE TypeOK
  OBVIOUS
<1>2. missed \in 0..MaxMissed /\ unread \in 0..MaxUnread /\ left \in 0..Tries
  BY <1>1 DEF Init
<1>3. {main, sub} \subseteq Bands /\ {swapped, present} \subseteq BOOLEAN
  BY DEF Init
<1>4. phase \in Phases /\ (left = 0 <=> Free)
  BY DEF Init, Phases, Free
<1>5. {write, home, found, mainCache, rx2Cache} \subseteq Bands \cup {None}
  BY DEF Init
<1> QED
  BY <1>2, <1>3, <1>4, <1>5 DEF Init, TypeOK

(* ... and every step keeps it so. *)
LEMMA StepType == TypeOK /\ [Next]_vars => TypeOK'
<1> USE TunesAssumption DEF TunesAssumption
<1> SUFFICES ASSUME TypeOK, [Next]_vars PROVE TypeOK'
  OBVIOUS
<1>1. CASE UNCHANGED vars
  BY <1>1 DEF vars, rig, job, cache, queued, TypeOK, Free
<1>2. CASE ReadMain
  <2>1. PICK f \in Bands \cup {None} :
          Answer(f, swapped) /\ mainCache' = IF f = None THEN mainCache ELSE f
    BY <1>2 DEF ReadMain
  <2>2. unread' \in 0..MaxUnread
    BY <2>1, AnswerType DEF TypeOK
  <2> QED
    BY <1>2, <2>1, <2>2 DEF ReadMain, TypeOK, Idle, Free, queued
<1>3. CASE BeginRead
  <2>1. PICK f \in Bands \cup {None} :
          /\ Answer(f, swapped) /\ Begin(None, f)
          /\ mainCache' = IF f = None THEN mainCache ELSE f
    BY <1>3 DEF BeginRead
  <2>2. unread' \in 0..MaxUnread
    BY <2>1, AnswerType DEF TypeOK
  <2> QED
    BY <1>3, <2>1, <2>2 DEF BeginRead, Begin, TypeOK, Free, Phases, queued
<1>4. CASE SwapOut
  <2>1. PICK f \in Bands \cup {None} :
          /\ Answer(f, swapped')
          /\ IF home = None \/ Differ(f, home) THEN phase' = "there" /\ left' = Tries
             ELSE IF left = 1 THEN phase' = "back" /\ left' = Tries
             ELSE left' = left - 1 /\ UNCHANGED phase
    BY <1>4 DEF SwapOut
  <2>2. swapped' \in BOOLEAN /\ missed' \in 0..MaxMissed
    BY <1>4, ToggleType DEF SwapOut
  <2>3. unread' \in 0..MaxUnread
    BY <2>1, <2>2, AnswerType
  <2>4. phase' \in Phases /\ left' \in 0..Tries /\ (left' = 0 <=> phase' = "free")
    BY <1>4, <2>1 DEF SwapOut, TypeOK, Free, Phases
  <2> QED
    BY <1>4, <2>2, <2>3, <2>4 DEF SwapOut, TypeOK, Free, cache, queued
<1>5. CASE ReadThere
  <2>1. PICK f \in Bands \cup {None} : Answer(f, swapped) /\ found' = f
    BY <1>5 DEF ReadThere
  <2>2. unread' \in 0..MaxUnread
    BY <2>1, AnswerType DEF TypeOK
  <2> QED
    BY <1>5, <2>1, <2>2 DEF ReadThere, TypeOK, Free, Phases, cache, queued
<1>6. CASE WriteThere
  <2>1. PICK done \in BOOLEAN : Tune(write, done) /\ found' = IF done THEN write ELSE None
    BY <1>6 DEF WriteThere
  <2>2. main' \in Bands /\ sub' \in Bands /\ missed' \in 0..MaxMissed
    BY <1>6, <2>1, TuneType DEF WriteThere, TypeOK
  <2> QED
    BY <1>6, <2>1, <2>2 DEF WriteThere, TypeOK, Free, Phases, cache, queued
<1>7. CASE SwapBack
  <2>1. PICK f \in Bands \cup {None} :
          /\ Answer(f, swapped')
          /\ IF f = home \/ left = 1 THEN Release
             ELSE left' = left - 1 /\ UNCHANGED <<phase, write, home, found, cache>>
    BY <1>7 DEF SwapBack
  <2>2. swapped' \in BOOLEAN /\ missed' \in 0..MaxMissed
    BY <1>7, ToggleType DEF SwapBack
  <2>3. unread' \in 0..MaxUnread
    BY <2>1, <2>2, AnswerType
  <2>4. CASE Release
    BY <1>7, <2>2, <2>3, <2>4, ReleaseType DEF SwapBack, TypeOK, Free, queued
  <2>5. CASE left # 1 /\ left' = left - 1 /\ UNCHANGED <<phase, write, home, found, cache>>
    BY <1>7, <2>2, <2>3, <2>5 DEF SwapBack, TypeOK, Free, queued, cache
  <2> QED
    BY <2>1, <2>4, <2>5
<1>8. CASE SwapBackBlind
  <2>2. swapped' \in BOOLEAN /\ missed' \in 0..MaxMissed
    BY <1>8, ToggleType DEF SwapBackBlind
  <2> QED
    BY <1>8, <2>2, ReleaseType DEF SwapBackBlind, TypeOK, Free, queued
<1>9. ASSUME NEW b \in MainTunes, Retune(b) \/ TuneMain(b) PROVE TypeOK'
  <2>1. CASE Retune(b)
    BY <2>1 DEF Retune, TypeOK, Free, rig, job
  <2>2. CASE TuneMain(b)
    <3>1. PICK done \in BOOLEAN : Tune(b, done) /\ mainCache' = IF done THEN b ELSE mainCache
      BY <2>2 DEF TuneMain
    <3>2. main' \in Bands /\ sub' \in Bands /\ missed' \in 0..MaxMissed
      BY <3>1, TuneType
    <3> QED
      BY <2>2, <3>1, <3>2 DEF TuneMain, TypeOK, Idle, Free
  <2> QED
    BY <1>9, <2>1, <2>2
<1>10. ASSUME NEW b \in SubTunes, SetSub(b) \/ BeginWrite(b) PROVE TypeOK'
  <2>1. CASE SetSub(b)
    BY <2>1 DEF SetSub, TypeOK, Free, rig, job
  <2>2. CASE BeginWrite(b)
    BY <2>2 DEF BeginWrite, Begin, TypeOK, Free, Phases, rig, cache
  <2> QED
    BY <1>10, <2>1, <2>2
<1> QED
  BY <1>1, <1>2, <1>3, <1>4, <1>5, <1>6, <1>7, <1>8, <1>9, <1>10 DEF Next, Swap

\* The caches, the transaction and the fault counts keep their types.
THEOREM TypeCorrect == Spec => []TypeOK
BY InitType, StepType, PTL DEF Spec

(***************************************************************************)
(* While it is Calm, the swap knows where it is: on the way out every try    *)
(* gone has cost a missed command; there and on the way back, until it is  *)
(* done, RX2 is selected; and the band to return to is MAIN's.             *)
(***************************************************************************)

Places ==
  /\ main # sub
  /\ mainCache = main
  /\ mainJobs = {}
  /\ phase # "free" => home = main
  /\ phase \in {"free", "out"} => swapped = FALSE
  /\ phase \in {"there", "back"} => swapped = TRUE
  /\ phase \in {"out", "back"} => missed >= Tries - left
  /\ phase = "there" => left = Tries
  /\ write = None /\ found # None => found = sub

IInv == TypeOK /\ (Calm => Places)

Sound == TypeOK /\ Calm /\ Places

(* At the start MAIN is selected and no transaction is open. *)
LEMMA InitPlaces == Init => Places
BY DEF Init, Places

\* What is not Calm never becomes it.
LEMMA CalmBefore == TypeOK /\ [Next]_vars /\ Calm' => Calm
<1> USE TunesAssumption DEF TunesAssumption
<1> SUFFICES ASSUME TypeOK, [Next]_vars, Calm' PROVE Calm
  OBVIOUS
<1>1. mainTuned' = FALSE => mainTuned = FALSE
  BY DEF Next, vars, queued, ReadMain, BeginRead, Swap, SwapOut, ReadThere, WriteThere, SwapBack,
     SwapBackBlind, Retune, TuneMain, SetSub, BeginWrite
<1>2. unread' = unread \/ unread' = unread + 1
  BY DEF Next, vars, rig, Answer, ReadMain, BeginRead, Swap, SwapOut, ReadThere, WriteThere,
     SwapBack, SwapBackBlind, Retune, TuneMain, SetSub, BeginWrite
<1>3. missed' = missed \/ missed' = missed + 1
  BY DEF Next, vars, rig, Toggle, Tune, ReadMain, BeginRead, Swap, SwapOut, ReadThere, WriteThere,
     SwapBack, SwapBackBlind, Retune, TuneMain, SetSub, BeginWrite
<1>4. missed \in Nat /\ unread \in Nat /\ Tries \in Nat /\ mainTuned \in BOOLEAN
  BY DEF TypeOK
<1> QED
  BY <1>1, <1>2, <1>3, <1>4 DEF Calm

\* Every read is answered, and with the receiver that is selected.
LEMMA AnswerTrue ==
  ASSUME TunesAssumption, Sound, NEW f, NEW sw \in BOOLEAN, Answer(f, sw), Calm'
  PROVE  f = (IF sw THEN sub ELSE main)
BY DEF TunesAssumption, Sound, Calm, TypeOK, Answer

(* A calm step of the swap goes where the reads say it goes. *)
LEMMA StepPlaces == Sound /\ [Next]_vars /\ Calm' => Places'
<1> USE TunesAssumption DEF TunesAssumption
<1> SUFFICES ASSUME Sound, [Next]_vars, Calm' PROVE Places'
  OBVIOUS
<1>a. /\ main \in Bands /\ sub \in Bands /\ swapped \in BOOLEAN
      /\ missed \in 0..MaxMissed /\ left \in 0..Tries /\ phase \in Phases
      /\ write \in Bands \cup {None} /\ (left = 0 <=> phase = "free")
  BY DEF Sound, TypeOK, Free
<1>b. Tries \in Nat \ {0} /\ MaxMissed \in Nat /\ missed' < Tries
  BY DEF Calm
<1>1. CASE UNCHANGED vars
  BY <1>1 DEF vars, rig, job, cache, queued, Sound, Places
<1>2. CASE ReadMain
  <2>1. PICK f \in Bands \cup {None} :
          Answer(f, swapped) /\ mainCache' = IF f = None THEN mainCache ELSE f
    BY <1>2 DEF ReadMain
  <2>2. swapped = FALSE
    BY <1>2 DEF ReadMain, Idle, Free, Sound, Places
  <2>3. f = main
    BY <2>1, <2>2, <1>a, AnswerTrue
  <2> QED
    BY <1>2, <2>1, <2>3 DEF ReadMain, Sound, Places, Idle, Free, queued
<1>3. CASE BeginRead
  <2>1. PICK f \in Bands \cup {None} :
          /\ Answer(f, swapped) /\ Begin(None, f)
          /\ mainCache' = IF f = None THEN mainCache ELSE f
    BY <1>3 DEF BeginRead
  <2>2. swapped = FALSE
    BY <1>3 DEF BeginRead, Free, Sound, Places
  <2>3. f = main
    BY <2>1, <2>2, <1>a, AnswerTrue
  <2>4. missed' >= Tries - left'
    BY <1>3, <2>1, <1>a, <1>b DEF BeginRead, Begin
  <2> QED
    BY <1>3, <2>1, <2>3, <2>4, <2>2 DEF BeginRead, Begin, Sound, Places, Free, queued
<1>4. CASE SwapOut
  <2>1. PICK f \in Bands \cup {None} :
          /\ Answer(f, swapped')
          /\ IF home = None \/ Differ(f, home) THEN phase' = "there" /\ left' = Tries
             ELSE IF left = 1 THEN phase' = "back" /\ left' = Tries
             ELSE left' = left - 1 /\ UNCHANGED phase
    BY <1>4 DEF SwapOut
  <2>2. swapped = FALSE /\ home = main /\ missed >= Tries - left /\ main # sub
    BY <1>4 DEF SwapOut, Sound, Places
  <2>3. swapped' \in BOOLEAN
    BY <1>4, ToggleType DEF SwapOut, Sound
  <2>4. f = (IF swapped' THEN sub ELSE main)
    BY <2>1, <2>3, AnswerTrue
  <2>5. CASE swapped' = TRUE
    <3>1. Differ(f, home)
      BY <2>2, <2>4, <2>5, <1>a DEF Differ
    <3>2. phase' = "there" /\ left' = Tries
      BY <2>1, <3>1
    <3> QED
      BY <1>4, <2>2, <2>4, <2>5, <3>2 DEF SwapOut, Sound, Places, cache, queued
  <2>6. CASE swapped' = FALSE
    <3>1. missed' = missed + 1
      BY <1>4, <2>2, <2>6 DEF SwapOut, Toggle
    <3>2. left # 1
      BY <1>a, <1>b, <2>2, <3>1
    <3>3. ~Differ(f, home) /\ home # None
      BY <2>2, <2>4, <2>6, <1>a DEF Differ
    <3>4. left' = left - 1 /\ phase' = phase
      BY <2>1, <3>2, <3>3
    <3>5. missed' >= Tries - left'
      BY <1>a, <1>b, <2>2, <3>1, <3>4
    <3> QED
      BY <1>4, <2>2, <2>4, <2>6, <3>4, <3>5 DEF SwapOut, Sound, Places, cache, queued
  <2> QED
    BY <2>3, <2>5, <2>6
<1>5. CASE ReadThere
  <2>1. PICK f \in Bands \cup {None} : Answer(f, swapped) /\ found' = f
    BY <1>5 DEF ReadThere
  <2>2. swapped = TRUE /\ left = Tries
    BY <1>5 DEF ReadThere, Sound, Places
  <2>3. f = sub
    BY <2>1, <2>2, <1>a, AnswerTrue
  <2>4. missed' >= Tries - left'
    BY <1>5, <2>2, <1>a, <1>b DEF ReadThere
  <2> QED
    BY <1>5, <2>1, <2>2, <2>3, <2>4 DEF ReadThere, Sound, Places, cache, queued
<1>6. CASE WriteThere
  <2>1. swapped = TRUE /\ left = Tries
    BY <1>6 DEF WriteThere, Sound, Places
  <2>2. main' = main /\ main' # sub'
    BY <1>6, <2>1 DEF WriteThere, Tune, Tuned, Accepts, Sound, Places
  <2>3. missed' \in Nat
    BY <1>6, TuneType, <1>a DEF WriteThere, Sound
  <2>4. missed' >= Tries - left'
    BY <1>6, <2>1, <2>3, <1>b DEF WriteThere
  <2> QED
    BY <1>6, <2>1, <2>2, <2>4 DEF WriteThere, Sound, Places, cache, queued
<1>7. CASE SwapBack
  <2>1. PICK f \in Bands \cup {None} :
          /\ Answer(f, swapped')
          /\ IF f = home \/ left = 1 THEN Release
             ELSE left' = left - 1 /\ UNCHANGED <<phase, write, home, found, cache>>
    BY <1>7 DEF SwapBack
  <2>2. swapped = TRUE /\ home = main /\ missed >= Tries - left /\ main # sub
    BY <1>7 DEF SwapBack, Sound, Places
  <2>3. swapped' \in BOOLEAN
    BY <1>7, ToggleType DEF SwapBack, Sound
  <2>4. f = (IF swapped' THEN sub ELSE main)
    BY <2>1, <2>3, AnswerTrue
  <2>5. CASE swapped' = FALSE
    <3>1. Release
      BY <2>1, <2>2, <2>4, <2>5
    <3> QED
      BY <1>7, <2>2, <2>4, <2>5, <3>1 DEF SwapBack, Release, Sound, Places, queued
  <2>6. CASE swapped' = TRUE
    <3>1. missed' = missed + 1
      BY <1>7, <2>2, <2>6 DEF SwapBack, Toggle
    <3>2. left # 1 /\ f # home
      BY <1>a, <1>b, <2>2, <2>4, <2>6, <3>1
    <3>3. left' = left - 1 /\ UNCHANGED <<phase, write, home, found, cache>>
      BY <2>1, <3>2
    <3>4. missed' >= Tries - left'
      BY <1>a, <1>b, <2>2, <3>1, <3>3
    <3> QED
      BY <1>7, <2>2, <2>4, <2>6, <3>3, <3>4 DEF SwapBack, Sound, Places, cache, queued
  <2> QED
    BY <2>3, <2>5, <2>6
<1>8. CASE SwapBackBlind
  BY <1>8, <1>a DEF SwapBackBlind, Sound, Places
<1>9. ASSUME NEW b \in MainTunes, Retune(b) \/ TuneMain(b) PROVE Places'
  BY <1>9 DEF Retune, TuneMain, Calm, Sound, Places
<1>10. ASSUME NEW b \in SubTunes, SetSub(b) \/ BeginWrite(b) PROVE Places'
  <2>1. CASE SetSub(b)
    BY <2>1 DEF SetSub, Sound, Places, rig, job
  <2>2. CASE BeginWrite(b)
    <3>1. missed' >= Tries - left'
      BY <2>2, <1>a, <1>b DEF BeginWrite, Begin, rig
    <3> QED
      BY <2>2, <3>1 DEF BeginWrite, Begin, Sound, Places, Free, rig, cache
  <2> QED
    BY <1>10, <2>1, <2>2
<1> QED
  BY <1>1, <1>2, <1>3, <1>4, <1>5, <1>6, <1>7, <1>8, <1>9, <1>10 DEF Next, Swap

(* For as long as the swap is calm the selected receiver is known in every  *)
(* phase of read_rx2 and write_rx2.                                         *)
THEOREM Invariant == Spec => []IInv
<1>1. Init => IInv
  BY InitType, InitPlaces DEF IInv
<1>2. IInv /\ [Next]_vars => IInv'
  BY StepType, StepPlaces, CalmBefore DEF IInv, Sound
<1> QED
  BY <1>1, <1>2, PTL DEF Spec

\* However the radio misses commands, fewer than there are tries, MAIN is
\* selected whenever the lock is free.
THEOREM RestoresMainHolds == Spec => []RestoresMain
<1>1. IInv => RestoresMain
  BY DEF IInv, Places, RestoresMain, Free
<1> QED
  BY <1>1, Invariant, PTL

\* Tuning RX2 never moves MAIN.
THEOREM MainUntouchedHolds == Spec => MainUntouched
<1>1. ASSUME IInv, [Next]_vars, Calm', write # None PROVE main' = main
  <2>1. Places
    BY <1>1, CalmBefore DEF IInv
  <2>2. ASSUME WriteThere PROVE main' = main
    BY <2>1, <2>2, <1>1 DEF WriteThere, Tune, Tuned, Places
  <2>3. ASSUME NEW b \in MainTunes PROVE ~Retune(b) /\ ~TuneMain(b)
    BY <2>1, <1>1 DEF Retune, TuneMain, Calm, Places
  <2> QED
    BY <1>1, <2>2, <2>3 DEF Next, Swap, vars, rig, job, ReadMain, BeginRead, SwapOut,
       ReadThere, SwapBack, SwapBackBlind, SetSub, BeginWrite
<1>2. IInv /\ [Next]_vars => [Calm' /\ write # None => main' = main]_vars
  BY <1>1
<1> QED
  BY <1>2, Invariant, PTL DEF Spec, MainUntouched

\* What read_rx2 found is RX2.
THEOREM ReadTellsRx2Holds == Spec => ReadTellsRx2
<1>1. ASSUME IInv, [Next]_vars, Calm', phase = "back", phase' = "free", write = None, found # None
      PROVE  rx2Cache' = sub
  <2>1. found = sub
    BY <1>1, CalmBefore DEF IInv, Places
  <2>2. Release
    BY <1>1 DEF Next, Swap, vars, rig, job, ReadMain, Idle, Free, BeginRead, SwapOut,
       ReadThere, WriteThere, SwapBack, SwapBackBlind, SetSub, BeginWrite, Retune, TuneMain
  <2> QED
    BY <1>1, <2>1, <2>2 DEF Release
<1>2. IInv /\ [Next]_vars =>
        [Calm' /\ phase = "back" /\ phase' = "free" /\ write = None /\ found # None
           => rx2Cache' = sub]_vars
  BY <1>1
<1> QED
  BY <1>2, Invariant, PTL DEF Spec, ReadTellsRx2

\* The verified toggle: outside a transaction the radio is as UsbCiv found it.
THEOREM SwapInvHolds == Spec => []SwapInv
<1>1. TypeOK /\ RestoresMain => SwapInv
  BY DEF SwapInv
<1> QED
  BY <1>1, TypeCorrect, RestoresMainHolds, PTL

\* What write_rx2 and read_rx2 do is done to RX2, and told of it.
THEOREM SwapSafeHolds == Spec => SwapSafe
BY MainUntouchedHolds, ReadTellsRx2Holds DEF SwapSafe

(***************************************************************************)
(* ModeEcho: the types.  A request that is under way has a name (echo).    *)
(***************************************************************************)

ModeIInv ==
  /\ rigMode \in RigModes /\ modeBy \in {"panel", "ae"} /\ {changes} \subseteq 0..MaxModes
  /\ modeOut \in Seq(RigModes \cup {"read"}) /\ Len(modeOut) <= ModeWire
  /\ modeIn \in Seq(RigModes) /\ Len(modeIn) <= ModeWire
  /\ {mode, base} \subseteq RigModes \cup {NoMode} /\ echo \in AeModes \cup {NoMode}
  /\ asking \in {"idle", "base", "send", "note"} /\ (asking # "idle" => echo # NoMode)
  /\ (base = NoMode => echo = NoMode \/ asking = "base")
  /\ {turn} \subseteq 0..2 /\ askLost \in BOOLEAN

LEMMA Queued ==
  ASSUME NEW S, NEW q \in Seq(S), NEW x \in S
  PROVE  /\ Append(q, x) \in Seq(S) /\ Len(Append(q, x)) = Len(q) + 1 /\ Len(q) \in Nat
         /\ \A i \in 1..Len(q) : Append(q, x)[i] = q[i]
         /\ Append(q, x)[Len(q) + 1] = x
  BY AppendProperties

LEMMA Dequeued ==
  ASSUME NEW S, NEW q \in Seq(S), q # <<>>
  PROVE  /\ Tail(q) \in Seq(S) /\ Len(Tail(q)) = Len(q) - 1 /\ Len(q) \in Nat \ {0}
         /\ \A i \in 1..Len(Tail(q)) : i + 1 \in 1..Len(q) /\ Tail(q)[i] = q[i + 1]
         /\ Head(q) = q[1] /\ Head(q) \in S
  BY HeadTailProperties, EmptySeq

LEMMA ModeInitOK == ModeInit => ModeIInv
<1>. SUFFICES ASSUME ModeInit PROVE ModeIInv  OBVIOUS
<1>1. {changes} \subseteq 0..MaxModes /\ Len(modeOut) <= ModeWire /\ Len(modeIn) <= ModeWire
  BY ModesAssumption DEF ModeInit
<1>2. askLost \in BOOLEAN
  BY Zenon DEF ModeInit
<1>3. /\ rigMode \in RigModes /\ modeBy \in {"panel", "ae"} /\ modeOut = <<>> /\ modeIn = <<>>
      /\ mode = NoMode /\ echo = NoMode /\ base = NoMode /\ asking = "idle" /\ turn = 0
  BY DEF ModeInit
<1>. QED  BY <1>1, <1>2, <1>3 DEF ModeIInv

LEMMA ModeStep ==
  ASSUME ModeIInv, ModeNext
  PROVE  ModeIInv'
<1>. USE DEF ModeIInv
<1>0. MaxModes \in Nat /\ ModeWire \in Nat
  BY ModesAssumption
<1>1. askLost' \in BOOLEAN
  BY Zenon DEF ModeNext, AskMode, Asking, AskBase, AskSend, AskNote, Poll, PanelMode, RigSetsMode,
               RigTellsMode, ModeCmdLost, DispatchMode
<1>2. {changes'} \subseteq 0..MaxModes
  <2>1. changes' = changes \/ (changes < MaxModes /\ changes' = changes + 1)
    BY Zenon DEF ModeNext, AskMode, Asking, AskBase, AskSend, AskNote, Poll, PanelMode, RigSetsMode,
               RigTellsMode, ModeCmdLost, DispatchMode, Change, modeEnds
  <2>. QED  BY <1>0, <2>1
<1>3. {turn'} \subseteq 0..2
  <2>1. turn' = turn \/ turn' = (turn + 1) % 3
    BY DEF ModeNext, AskMode, Asking, AskBase, AskSend, AskNote, Poll, PanelMode, RigSetsMode,
           RigTellsMode, ModeCmdLost, DispatchMode, Reads
  <2>. QED  BY <2>1
<1>4. /\ modeOut' \in Seq(RigModes \cup {"read"}) /\ Len(modeOut') <= ModeWire
  <2>1. ASSUME NEW c \in RigModes \cup {"read"}, SendMode(c)
        PROVE  modeOut' \in Seq(RigModes \cup {"read"}) /\ Len(modeOut') <= ModeWire
    BY <1>0, <2>1, Queued DEF SendMode
  <2>2. ASSUME modeOut # <<>>, modeOut' = Tail(modeOut)
        PROVE  modeOut' \in Seq(RigModes \cup {"read"}) /\ Len(modeOut') <= ModeWire
    BY <1>0, <2>2, Dequeued
  <2>3. asking = "send" => BaseOf(echo) \in RigModes \cup {"read"}
    BY DEF BaseOf, AeModes, RigModes, NoMode
  <2>. QED  BY <2>1, <2>2, <2>3 DEF ModeNext, AskMode, Asking, AskBase, AskSend, AskNote, Poll,
               PanelMode, RigSetsMode, RigTellsMode, ModeCmdLost, DispatchMode
<1>5. modeIn' \in Seq(RigModes) /\ Len(modeIn') <= ModeWire
  <2>1. ASSUME NEW m \in RigModes, ModeSent(m)
        PROVE  modeIn' \in Seq(RigModes) /\ Len(modeIn') <= ModeWire
    BY <1>0, <2>1, Queued DEF ModeSent
  <2>2. ASSUME modeIn # <<>>, modeIn' = Tail(modeIn)
        PROVE  modeIn' \in Seq(RigModes) /\ Len(modeIn') <= ModeWire
    BY <1>0, <2>2, Dequeued
  <2>. QED  BY <2>1, <2>2 DEF ModeNext, AskMode, Asking, AskBase, AskSend, AskNote, Poll,
               PanelMode, RigSetsMode, RigTellsMode, ModeCmdLost, DispatchMode
<1>6. rigMode' \in RigModes /\ modeBy' \in {"panel", "ae"}
  <2>1. modeOut # <<>> => Head(modeOut) \in RigModes \cup {"read"}
    BY Dequeued
  <2>. QED  BY <2>1 DEF ModeNext, AskMode, Asking, AskBase, AskSend, AskNote, Poll,
               PanelMode, RigSetsMode, RigTellsMode, ModeCmdLost, DispatchMode, modeEnds
<1>7. /\ {mode', base'} \subseteq RigModes \cup {NoMode} /\ echo' \in AeModes \cup {NoMode}
      /\ asking' \in {"idle", "base", "send", "note"} /\ (asking' # "idle" => echo' # NoMode)
      /\ (base' = NoMode => echo' = NoMode \/ asking' = "base")
  <2>1. modeIn # <<>> => Head(modeIn) \in RigModes
    BY Dequeued
  <2>2. asking # "idle" => BaseOf(echo) \in RigModes
    BY DEF BaseOf, AeModes, RigModes, NoMode
  <2>3. \A a \in AeModes : a # NoMode
    BY DEF AeModes, RigModes, NoMode
  <2>4. NoMode \notin RigModes
    BY DEF RigModes, NoMode
  <2>. QED  BY <2>1, <2>2, <2>3, <2>4 DEF ModeNext, AskMode, Asking, AskBase, AskSend, AskNote, Poll,
               PanelMode, RigSetsMode, RigTellsMode, ModeCmdLost, DispatchMode
<1>. QED  BY <1>1, <1>2, <1>3, <1>4, <1>5, <1>6, <1>7

LEMMA ModeRests ==
  ASSUME ModeIInv, UNCHANGED modeVars
  PROVE  ModeIInv'
BY DEF ModeIInv, modeVars, modeEnds

LEMMA ModeIInvImplies == ModeIInv => ModeTypeOK
  BY DEF ModeIInv, ModeTypeOK, Reads

(***************************************************************************)
(* MenuSettings.  The entry of _menu_replies tells of the item alone, so a *)
(* read is current only because no other is under way: until one times out *)
(* there is one answer on its way at most, and only to the holder of the   *)
(* lock (OneAnswer).  The level only rises, to the minimum: what says it   *)
(* is there is true, and the write that brings it there is not lost        *)
(* (OnlyUp).                                                               *)
(***************************************************************************)

Steps    == {"idle", "read", "reading", "judge", "write", "settle"}
Commands == {<<"read">>} \cup {<<"write", v>> : v \in 0..TooHigh}
Answers  == {<<"FA">>} \cup {<<"level", v>> : v \in Levels}

IsRead(cmd)  == cmd = <<"read">>
IsRaise(cmd) == cmd = <<"write", LevelMin>>
IsLevel(r)   == r # <<"FA">>

Wires == /\ menuOut \in Seq(Commands) /\ Len(menuOut) <= MenuWire
         /\ menuIn \in Seq(Answers) /\ Len(menuIn) <= MenuWire

\* What the steps of the callers say of what they have read or are to write.
Held ==
  /\ pc \in [Callers -> Steps] /\ val \in [Callers -> 0..TooHigh \cup {Unread}]
  /\ \A c \in Callers : pc[c] = "reading" <=> holder = c
  /\ pc["web"] # "judge" /\ (pc["web"] = "write" => val["web"] \in {0, TooHigh})
  /\ pc["open"] = "write" => val["open"] = LevelMin
  /\ pc["open"] \in {"judge", "idle"} => val["open"] \in Levels \cup {Unread}

Flags == again \in [Callers -> BOOLEAN] /\ refused \in [Callers -> BOOLEAN]

MenuScalars ==
  /\ level \in Levels /\ menu \in Levels \cup {Unread} /\ holder \in Callers \cup {NoOne}
  /\ {accesses} \subseteq 0..MaxWeb /\ span \subseteq Levels
  /\ mishap \subseteq {"late", "lost", "web"}

OneAnswer ==
  "late" \notin mishap =>
    /\ holder # NoOne => level \in span /\ (menu # Unread => menu \in span)
    /\ \A i \in 1..Len(menuOut) : IsRead(menuOut[i]) =>
         /\ holder # NoOne /\ menu = Unread
         /\ \A j \in 1..Len(menuOut) : IsRead(menuOut[j]) => i = j
         /\ \A j \in 1..Len(menuIn) : ~IsLevel(menuIn[j])
    /\ \A i \in 1..Len(menuIn) : IsLevel(menuIn[i]) =>
         /\ holder # NoOne /\ menu = Unread /\ menuIn[i][2] \in span
         /\ \A j \in 1..Len(menuIn) : IsLevel(menuIn[j]) => i = j

Raised == level = LevelMin \/ \E i \in 1..Len(menuOut) : IsRaise(menuOut[i])

Clean == "lost" \notin mishap /\ "web" \notin mishap

OnlyUp ==
  Clean =>
    /\ \A i \in 1..Len(menuOut) : IsRead(menuOut[i]) \/ IsRaise(menuOut[i])
    /\ pc["open"] = "settle" \/ again["open"] => Raised
    /\ \A i \in 1..Len(menuIn) :
         IsLevel(menuIn[i]) /\ menuIn[i][2] = LevelMin => level = LevelMin
    /\ menu = LevelMin => level = LevelMin
    /\ pc["open"] \in {"judge", "idle"} /\ val["open"] = LevelMin => level = LevelMin
    /\ pc["open"] = "idle" /\ ~again["open"] => val["open"] \in {Unread, LevelMin}

MenuIInv == Wires /\ Held /\ Flags /\ MenuScalars /\ OneAnswer /\ OnlyUp

LEMMA MenuConstants ==
  /\ LevelMin \in Nat \ {0} /\ MaxWeb \in Nat /\ MenuWire \in Nat
  /\ Unread = -1 /\ TooHigh = LevelMin + 1 /\ Levels = 0..LevelMin
  /\ Levels \subseteq 0..TooHigh /\ Unread \notin Levels /\ LevelMin \in Levels
  /\ "open" \in Callers /\ "web" \in Callers /\ NoOne \notin Callers
  BY MenuAssumption DEF Unread, TooHigh, Levels, Callers, NoOne

LEMMA CommandIs ==
  ASSUME NEW cmd \in Commands
  PROVE  /\ IsRead(cmd) \/ (cmd[2] \in 0..TooHigh /\ cmd = <<"write", cmd[2]>>)
         /\ IsRaise(cmd) => ~IsRead(cmd) /\ cmd[2] = LevelMin
  BY DEF Commands, IsRead, IsRaise

LEMMA AnswerIs ==
  ASSUME NEW r \in Answers
  PROVE  IsLevel(r) => r[2] \in Levels /\ r = <<"level", r[2]>>
  BY DEF Answers, IsLevel

LEMMA MenuWords ==
  /\ <<"read">> \in Commands /\ IsRead(<<"read">>)
  /\ \A v \in 0..TooHigh : <<"write", v>> \in Commands /\ ~IsRead(<<"write", v>>)
  /\ IsRaise(<<"write", LevelMin>>)
  /\ <<"FA">> \in Answers /\ ~IsLevel(<<"FA">>)
  /\ \A v \in Levels : /\ <<"level", v>> \in Answers /\ IsLevel(<<"level", v>>)
                       /\ <<"level", v>>[2] = v
  BY DEF Commands, Answers, IsRead, IsRaise, IsLevel

LEMMA MenuInitOK == MenuInit => MenuIInv
<1>. SUFFICES ASSUME MenuInit PROVE MenuIInv  OBVIOUS
<1>1. menuOut = <<>> /\ menuIn = <<>> /\ menu = Unread /\ holder = NoOne /\ level \in Levels
      /\ accesses = 0 /\ span = {} /\ mishap = {}
  BY DEF MenuInit
<1>2. Wires /\ MenuScalars /\ OneAnswer
  BY <1>1, MenuConstants DEF Wires, MenuScalars, OneAnswer
<1>3. /\ pc \in [Callers -> Steps] /\ val = [c \in Callers |-> Unread]
      /\ pc["open"] = "read" /\ pc["web"] = "idle"
  BY MenuConstants DEF MenuInit, Steps
<1>4. again = [c \in Callers |-> FALSE] /\ refused = [c \in Callers |-> FALSE]
  BY DEF MenuInit
<1>5. Flags
  BY <1>4 DEF Flags
<1>6. Held
  BY <1>1, <1>3, MenuConstants DEF Held, Callers
<1>7. OnlyUp
  BY <1>1, <1>3, <1>4, MenuConstants DEF OnlyUp, Callers
<1>. QED  BY <1>2, <1>5, <1>6, <1>7 DEF MenuIInv

LEMMA MenuRests ==
  ASSUME MenuIInv, UNCHANGED menuVars
  PROVE  MenuIInv'
<1>1. Wires' /\ Held' /\ Flags' /\ MenuScalars'
  BY DEF MenuIInv, menuVars, callVars, Wires, Held, Flags, MenuScalars
<1>2. OneAnswer' /\ OnlyUp'
  BY DEF MenuIInv, menuVars, callVars, OneAnswer, OnlyUp, Clean, Raised
<1>. QED  BY <1>1, <1>2 DEF MenuIInv

LEMMA MenuIInvImplies == MenuIInv => MenuTypeOK /\ ReadIsCurrent /\ LevelRaised
<1>. SUFFICES ASSUME MenuIInv PROVE MenuTypeOK /\ ReadIsCurrent /\ LevelRaised  OBVIOUS
<1>. USE DEF MenuIInv
<1>1. \A c \in Callers : {again[c], refused[c]} \subseteq BOOLEAN
  BY DEF Flags
<1>2. MenuTypeOK
  BY <1>1 DEF MenuTypeOK, Wires, Held, MenuScalars, Steps
<1>3. ReadIsCurrent
  BY DEF ReadIsCurrent, OneAnswer
<1>4. LevelRaised
  <2>. SUFFICES ASSUME pc["open"] = "idle", val["open"] # Unread, Clean,
                       level < LevelMin
                PROVE  \E i \in DOMAIN menuOut : menuOut[i] = <<"write", LevelMin>>
    BY MenuConstants DEF LevelRaised, Clean, MenuScalars
  <2>1. level # LevelMin
    BY MenuConstants DEF MenuScalars
  <2>2. again["open"]
    BY <2>1 DEF OnlyUp, Flags, Callers
  <2>3. Raised
    BY <2>2 DEF OnlyUp
  <2>4. DOMAIN menuOut = 1..Len(menuOut)
    BY LenProperties DEF Wires
  <2>. QED  BY <2>1, <2>3, <2>4 DEF Raised, IsRaise
<1>. QED  BY <1>2, <1>3, <1>4

\* The steps that leave the wires, the item and its entry alone.
LEMMA MenuQuiet ==
  ASSUME MenuIInv, Held', Flags', MenuScalars',
         UNCHANGED <<level, menuOut, menuIn, menu>>, mishap \subseteq mishap',
         UNCHANGED <<holder, span>> \/ "late" \in mishap'
           \/ (holder' = NoOne /\ menu # Unread),
         Clean' => (pc'["open"] = "settle" \/ again'["open"] => Raised),
         Clean' => (pc'["open"] \in {"judge", "idle"} /\ val'["open"] = LevelMin => level = LevelMin),
         Clean' => (pc'["open"] = "idle" /\ ~again'["open"] => val'["open"] \in {Unread, LevelMin})
  PROVE  MenuIInv'
<1>. USE DEF MenuIInv
<1>1. Wires'
  BY DEF Wires
<1>2. OneAnswer'
  <2>1. CASE UNCHANGED <<holder, span>>
    BY <2>1 DEF OneAnswer
  <2>2. CASE "late" \in mishap'
    BY <2>2 DEF OneAnswer
  <2>3. CASE holder' = NoOne /\ menu # Unread
    BY <2>3 DEF OneAnswer
  <2>. QED  BY <2>1, <2>2, <2>3
<1>3. OnlyUp'
  <2>1. Clean' => Clean
    BY DEF Clean
  <2>2. Raised' = Raised
    BY DEF Raised
  <2>. QED  BY <2>1, <2>2 DEF OnlyUp
<1>. QED  BY <1>1, <1>2, <1>3

LEMMA StepReadEnds ==
  ASSUME MenuIInv, NEW c \in Callers, ReadGot(c) \/ ReadTimeout(c)
  PROVE  MenuIInv'
<1>. USE DEF MenuIInv
<1>1. PICK v \in Levels \cup {Unread} :
        /\ ReadEnds(c, v) /\ v \in {menu, Unread} /\ mishap \subseteq mishap'
        /\ mishap' \subseteq {"late", "lost", "web"}
        /\ "late" \in mishap' \/ menu # Unread
        /\ Clean' => Clean
  BY DEF ReadGot, ReadTimeout, MenuScalars, Clean
<1>2. /\ pc' = [pc EXCEPT ![c] = IF c = "open" /\ ~again[c] THEN "judge" ELSE "idle"]
      /\ val' = [val EXCEPT ![c] = IF c = "open" THEN v ELSE Unread]
      /\ holder' = NoOne /\ span' = {} /\ pc[c] = "reading" /\ holder = c
      /\ UNCHANGED <<level, menuOut, menuIn, menu, again, refused, accesses>>
  BY <1>1 DEF ReadEnds, Held
<1>3. MenuScalars'
  BY <1>1, <1>2 DEF MenuScalars
<1>4. Flags'
  BY <1>2 DEF Flags
<1>5. Held'
  <2>1. pc' \in [Callers -> Steps]
    BY <1>2 DEF Held, Steps
  <2>2. val' \in [Callers -> 0..TooHigh \cup {Unread}]
    BY <1>1, <1>2, MenuConstants DEF Held
  <2>3. \A o \in Callers : pc'[o] # "reading" /\ holder' # o
    BY <1>2, MenuConstants DEF Held
  <2>. QED  BY <1>1, <1>2, <2>1, <2>2, <2>3, MenuConstants DEF Held
<1>6. Clean' => (pc'["open"] = "settle" \/ again'["open"] => Raised)
  BY <1>1, <1>2 DEF OnlyUp, Held
<1>7. Clean' => (pc'["open"] \in {"judge", "idle"} /\ val'["open"] = LevelMin => level = LevelMin)
  BY <1>1, <1>2, MenuConstants DEF OnlyUp, Held
<1>8. pc'["open"] = "idle" /\ ~again'["open"] => c # "open"
  BY <1>2 DEF Held, Flags
<1>9. Clean' => (pc'["open"] = "idle" /\ ~again'["open"] => val'["open"] \in {Unread, LevelMin})
  BY <1>1, <1>2, <1>8 DEF OnlyUp, Held
<1>. QED  BY <1>1, <1>2, <1>3, <1>4, <1>5, <1>6, <1>7, <1>9, MenuQuiet

LEMMA StepJudge ==
  ASSUME MenuIInv, Judge
  PROVE  MenuIInv'
<1>. USE DEF MenuIInv
<1>1. /\ pc["open"] = "judge" /\ val["open"] \in Levels \cup {Unread}
      /\ \/ /\ val["open"] = Unread \/ val["open"] >= LevelMin
            /\ pc' = [pc EXCEPT !["open"] = "idle"] /\ val' = val
         \/ /\ pc' = [pc EXCEPT !["open"] = "write"]
            /\ val' = [val EXCEPT !["open"] = LevelMin]
      /\ UNCHANGED <<level, menuOut, menuIn, menu, holder, again, refused, accesses, span, mishap>>
  BY DEF Judge, Held
<1>2. MenuScalars' /\ Flags'
  BY <1>1 DEF MenuScalars, Flags
<1>3. val["open"] >= LevelMin => val["open"] \in {Unread, LevelMin}
  BY <1>1, MenuConstants
<1>4. Held'
  <2>1. pc' \in [Callers -> Steps]
    BY <1>1 DEF Held, Steps
  <2>2. val' \in [Callers -> 0..TooHigh \cup {Unread}]
    BY <1>1, MenuConstants DEF Held
  <2>. QED  BY <1>1, <2>1, <2>2, MenuConstants DEF Held, Callers
<1>5. pc'["open"] \in {"idle", "write"} /\ again' = again /\ mishap' = mishap
      /\ (pc'["open"] = "idle" => val' = val /\ val["open"] \in {Unread, LevelMin})
  BY <1>1, <1>3, MenuConstants DEF Held
<1>6. Clean' => (pc'["open"] = "settle" \/ again'["open"] => Raised)
  BY <1>5 DEF OnlyUp, Clean
<1>7. Clean' => (pc'["open"] \in {"judge", "idle"} /\ val'["open"] = LevelMin => level = LevelMin)
  BY <1>1, <1>5 DEF OnlyUp, Clean
<1>8. Clean' => (pc'["open"] = "idle" /\ ~again'["open"] => val'["open"] \in {Unread, LevelMin})
  BY <1>5
<1>. QED  BY <1>1, <1>2, <1>4, <1>6, <1>7, <1>8, MenuQuiet

LEMMA StepSettle ==
  ASSUME MenuIInv, NEW c \in Callers, Settle(c)
  PROVE  MenuIInv'
<1>. USE DEF MenuIInv
<1>1. /\ pc[c] = "settle" /\ pc' = [pc EXCEPT ![c] = "read"]
      /\ again' = [again EXCEPT ![c] = TRUE] /\ refused' = [refused EXCEPT ![c] = FALSE]
      /\ val' = [val EXCEPT ![c] = Unread]
      /\ UNCHANGED <<level, menuOut, menuIn, menu, holder, accesses, span, mishap>>
  BY DEF Settle
<1>2. MenuScalars' /\ Flags'
  BY <1>1 DEF MenuScalars, Flags
<1>3. Held'
  <2>1. pc' \in [Callers -> Steps]
    BY <1>1 DEF Held, Steps
  <2>2. val' \in [Callers -> 0..TooHigh \cup {Unread}]
    BY <1>1, MenuConstants DEF Held
  <2>. QED  BY <1>1, <2>1, <2>2, MenuConstants DEF Held
<1>4. Clean' => (pc'["open"] = "settle" \/ again'["open"] => Raised)
  BY <1>1, MenuConstants DEF OnlyUp, Clean, Held, Flags
<1>5. Clean' => (pc'["open"] \in {"judge", "idle"} /\ val'["open"] = LevelMin => level = LevelMin)
  BY <1>1, MenuConstants DEF OnlyUp, Clean, Held
<1>6. Clean' => (pc'["open"] = "idle" /\ ~again'["open"] => val'["open"] \in {Unread, LevelMin})
  BY <1>1, MenuConstants DEF OnlyUp, Clean, Held, Flags
<1>. QED  BY <1>1, <1>2, <1>3, <1>4, <1>5, <1>6, MenuQuiet

LEMMA StepWeb ==
  ASSUME MenuIInv, WebGet \/ \E v \in {0, TooHigh} : WebSet(v)
  PROVE  MenuIInv'
<1>. USE DEF MenuIInv
<1>1. /\ pc["web"] = "idle"
      /\ \/ pc' = [pc EXCEPT !["web"] = "read"] /\ val' = val
         \/ \E v \in {0, TooHigh} : /\ pc' = [pc EXCEPT !["web"] = "write"]
                                    /\ val' = [val EXCEPT !["web"] = v]
      /\ UNCHANGED <<level, menuOut, menuIn, menu, holder, again, refused, span, mishap>>
  BY DEF WebGet, WebSet, Access
<1>2. {accesses'} \subseteq 0..MaxWeb
  BY MenuConstants DEF WebGet, WebSet, Access, MenuScalars
<1>3. MenuScalars' /\ Flags'
  BY <1>1, <1>2 DEF MenuScalars, Flags
<1>4. pc'["open"] = pc["open"] /\ val'["open"] = val["open"]
  BY <1>1, MenuConstants DEF Held
<1>5. Held'
  <2>1. pc' \in [Callers -> Steps]
    BY <1>1 DEF Held, Steps
  <2>2. val' \in [Callers -> 0..TooHigh \cup {Unread}] /\ (pc'["web"] = "write" => val'["web"] \in {0, TooHigh})
    BY <1>1, MenuConstants DEF Held
  <2>3. pc'["web"] \in {"read", "write"}
    BY <1>1, MenuConstants DEF Held
  <2>. QED  BY <1>1, <1>4, <2>1, <2>2, <2>3, MenuConstants DEF Held, Callers
<1>. QED  BY <1>1, <1>3, <1>4, <1>5, MenuQuiet DEF OnlyUp, Clean

\* A read begins with no answer under way, and with no entry left of the one before.
LEMMA StepRead ==
  ASSUME MenuIInv, NEW c \in Callers, Read(c)
  PROVE  MenuIInv'
<1>. USE DEF MenuIInv
<1>1. /\ pc[c] = "read" /\ holder = NoOne
      /\ Len(menuOut) < MenuWire /\ menuOut' = Append(menuOut, <<"read">>)
      /\ holder' = c /\ menu' = Unread /\ span' = {level}
      /\ pc' = [pc EXCEPT ![c] = "reading"]
      /\ UNCHANGED <<level, menuIn, again, val, refused, accesses, mishap>>
  BY DEF Read, SendMenu
<1>. DEFINE r == <<"read">>
<1>2. /\ menuOut' \in Seq(Commands) /\ Len(menuOut') = Len(menuOut) + 1 /\ Len(menuOut) \in Nat
      /\ \A i \in 1..Len(menuOut) : menuOut'[i] = menuOut[i]
      /\ menuOut'[Len(menuOut) + 1] = r
  BY <1>1, Queued, MenuWords DEF Wires
<1>3. IsRead(r)
  BY MenuWords
<1>. HIDE DEF r
<1>4. Wires'
  BY <1>1, <1>2, MenuConstants DEF Wires
<1>5. MenuScalars' /\ Flags'
  BY <1>1, MenuConstants DEF MenuScalars, Flags
<1>6. Held'
  <2>1. pc' \in [Callers -> Steps]
    BY <1>1 DEF Held, Steps
  <2>2. \A o \in Callers : pc'[o] = "reading" <=> holder' = o
    BY <1>1, MenuConstants DEF Held
  <2>. QED  BY <1>1, <2>1, <2>2, MenuConstants DEF Held
<1>7. OneAnswer'
  <2>. SUFFICES ASSUME "late" \notin mishap PROVE OneAnswer'
    BY <1>1 DEF OneAnswer
  <2>1. \A i \in 1..Len(menuOut) : ~IsRead(menuOut'[i])
    BY <1>1, <1>2 DEF OneAnswer
  <2>2. \A i \in 1..Len(menuOut') : IsRead(menuOut'[i]) => i = Len(menuOut) + 1
    BY <1>2, <2>1
  <2>3. \A i \in 1..Len(menuIn') : ~IsLevel(menuIn'[i])
    BY <1>1 DEF OneAnswer
  <2>4. holder' # NoOne
    BY <1>1, MenuConstants
  <2>. QED  BY <1>1, <2>2, <2>3, <2>4 DEF OneAnswer
<1>8. OnlyUp'
  <2>. SUFFICES ASSUME Clean PROVE OnlyUp'
    BY <1>1 DEF OnlyUp, Clean
  <2>1. Raised => Raised'
    BY <1>1, <1>2 DEF Raised
  <2>2. \A i \in 1..Len(menuOut') : IsRead(menuOut'[i]) \/ IsRaise(menuOut'[i])
    BY <1>2, <1>3 DEF OnlyUp
  <2>3. pc'["open"] = pc["open"] \/ pc'["open"] = "reading"
    BY <1>1, MenuConstants DEF Held
  <2>4. menu' # LevelMin
    BY <1>1, MenuConstants
  <2>. QED  BY <1>1, <2>1, <2>2, <2>3, <2>4 DEF OnlyUp
<1>. QED  BY <1>4, <1>5, <1>6, <1>7, <1>8

\* The connect's write raises the level; a page's spoils it, and is told of.
LEMMA StepWrite ==
  ASSUME MenuIInv, NEW c \in Callers, Write(c)
  PROVE  MenuIInv'
<1>. USE DEF MenuIInv
<1>. DEFINE w == <<"write", val[c]>>
<1>1. /\ pc[c] = "write"
      /\ Len(menuOut) < MenuWire /\ menuOut' = Append(menuOut, w)
      /\ pc' = [pc EXCEPT ![c] = "settle"] /\ refused' = [refused EXCEPT ![c] = FALSE]
      /\ mishap' = mishap \cup ({c} \cap {"web"})
      /\ UNCHANGED <<level, menuIn, menu, holder, again, val, accesses, span>>
  BY DEF Write, SendMenu
<1>2. val[c] \in 0..TooHigh /\ (c = "open" => val[c] = LevelMin)
  BY <1>1, MenuConstants DEF Held, Callers
<1>3. w \in Commands /\ ~IsRead(w) /\ (c = "open" => IsRaise(w))
  BY <1>2, MenuWords
<1>. HIDE DEF w
<1>4. /\ menuOut' \in Seq(Commands) /\ Len(menuOut') = Len(menuOut) + 1 /\ Len(menuOut) \in Nat
      /\ \A i \in 1..Len(menuOut) : menuOut'[i] = menuOut[i]
      /\ menuOut'[Len(menuOut) + 1] = w
  BY <1>1, <1>3, Queued DEF Wires
<1>5. Wires'
  BY <1>1, <1>4, MenuConstants DEF Wires
<1>6. MenuScalars' /\ Flags'
  BY <1>1 DEF MenuScalars, Flags
<1>7. Held'
  <2>1. pc' \in [Callers -> Steps]
    BY <1>1 DEF Held, Steps
  <2>2. \A o \in Callers : pc'[o] = "reading" <=> holder' = o
    BY <1>1 DEF Held
  <2>. QED  BY <1>1, <2>1, <2>2, MenuConstants DEF Held
<1>8. OneAnswer'
  <2>. SUFFICES ASSUME "late" \notin mishap PROVE OneAnswer'
    BY <1>1 DEF OneAnswer
  <2>1. \A i \in 1..Len(menuOut') : IsRead(menuOut'[i]) =>
          i \in 1..Len(menuOut) /\ menuOut'[i] = menuOut[i]
    BY <1>3, <1>4
  <2>. QED  BY <1>1, <2>1 DEF OneAnswer
<1>9. OnlyUp'
  <2>. SUFFICES ASSUME Clean' PROVE OnlyUp'
    BY DEF OnlyUp
  <2>1. c = "open" /\ Clean /\ IsRaise(w)
    BY <1>1, <1>3 DEF Clean, Callers
  <2>2. Raised'
    BY <1>4, <2>1 DEF Raised
  <2>3. \A i \in 1..Len(menuOut') : IsRead(menuOut'[i]) \/ IsRaise(menuOut'[i])
    BY <1>4, <2>1 DEF OnlyUp
  <2>4. pc'["open"] = "settle"
    BY <1>1, <2>1, MenuConstants DEF Held
  <2>. QED  BY <1>1, <2>1, <2>2, <2>3, <2>4 DEF OnlyUp
<1>. QED  BY <1>5, <1>6, <1>7, <1>8, <1>9

LEMMA StepWriteLost ==
  ASSUME MenuIInv, WriteLost
  PROVE  MenuIInv'
<1>. USE DEF MenuIInv
<1>1. /\ menuOut # <<>> /\ menuOut' = Tail(menuOut) /\ mishap' = mishap \cup {"lost"}
      /\ UNCHANGED <<level, menuIn, menu, holder, pc, again, val, refused, accesses, span>>
  BY DEF WriteLost, callVars
<1>2. /\ menuOut' \in Seq(Commands) /\ Len(menuOut') = Len(menuOut) - 1
      /\ \A i \in 1..Len(menuOut') : i + 1 \in 1..Len(menuOut) /\ menuOut'[i] = menuOut[i + 1]
      /\ Len(menuOut) \in Nat \ {0}
  BY <1>1, Dequeued DEF Wires
<1>3. Wires'
  BY <1>1, <1>2, MenuConstants DEF Wires
<1>4. MenuScalars' /\ Flags' /\ Held'
  BY <1>1 DEF MenuScalars, Flags, Held
<1>5. OneAnswer'
  <2>. SUFFICES ASSUME "late" \notin mishap PROVE OneAnswer'
    BY <1>1 DEF OneAnswer
  <2>1. \A i, j \in 1..Len(menuOut') : i + 1 = j + 1 => i = j
    BY <1>2
  <2>. QED  BY <1>1, <1>2, <2>1 DEF OneAnswer
<1>6. OnlyUp'
  BY <1>1 DEF OnlyUp, Clean
<1>. QED  BY <1>3, <1>4, <1>5, <1>6

LEMMA StepDispatch ==
  ASSUME MenuIInv, Dispatch
  PROVE  MenuIInv'
<1>. USE DEF MenuIInv
<1>1. /\ menuIn # <<>> /\ menuIn' = Tail(menuIn)
      /\ \/ menu' = menu /\ ~IsLevel(menuIn[1])
            /\ refused' = [c \in Callers |-> refused[c] \/ pc[c] = "settle"]
         \/ menu' = menuIn[1][2] /\ IsLevel(menuIn[1]) /\ refused' = refused
      /\ UNCHANGED <<level, menuOut, holder, pc, again, val, accesses, span, mishap>>
  BY Dequeued DEF Dispatch, callVars, IsLevel, Wires
<1>2. /\ menuIn' \in Seq(Answers) /\ Len(menuIn') = Len(menuIn) - 1
      /\ \A i \in 1..Len(menuIn') : i + 1 \in 1..Len(menuIn) /\ menuIn'[i] = menuIn[i + 1]
      /\ Len(menuIn) \in Nat \ {0} /\ 1 \in 1..Len(menuIn) /\ menuIn[1] \in Answers
  BY <1>1, Dequeued DEF Wires
<1>3. Wires'
  BY <1>1, <1>2, MenuConstants DEF Wires
<1>4. MenuScalars' /\ Held'
  BY <1>1, <1>2, AnswerIs DEF MenuScalars, Held
<1>5. Flags'
  <2>1. refused' \in [Callers -> BOOLEAN]
    BY <1>1 DEF Flags
  <2>. QED  BY <1>1, <2>1 DEF Flags
<1>6. OneAnswer'
  <2>. SUFFICES ASSUME "late" \notin mishap PROVE OneAnswer'
    BY <1>1 DEF OneAnswer
  <2>1. \A i, j \in 1..Len(menuIn') : i + 1 = j + 1 => i = j
    BY <1>2
  <2>2. CASE ~IsLevel(menuIn[1])
    BY <1>1, <1>2, <2>1, <2>2 DEF OneAnswer
  <2>3. CASE IsLevel(menuIn[1])
    <3>1. \A i \in 1..Len(menuIn') : ~IsLevel(menuIn'[i])
      <4>1. \A i \in 1..Len(menuIn') : i + 1 # 1
        BY <1>2
      <4>. QED  BY <1>2, <2>3, <4>1 DEF OneAnswer
    <3>2. \A i \in 1..Len(menuOut) : ~IsRead(menuOut[i])
      BY <1>2, <2>3 DEF OneAnswer
    <3>3. menu' \in span /\ level \in span
      BY <1>1, <1>2, <2>3 DEF OneAnswer
    <3>. QED  BY <1>1, <3>1, <3>2, <3>3 DEF OneAnswer
  <2>. QED  BY <2>2, <2>3
<1>7. OnlyUp'
  <2>1. Raised' = Raised
    BY <1>1 DEF Raised
  <2>. QED  BY <1>1, <1>2, <2>1 DEF OnlyUp, Clean
<1>. QED  BY <1>3, <1>4, <1>5, <1>6, <1>7

\* The radio takes a command: it answers a read, refuses a level too high, has the others.
LEMMA StepRigTakes ==
  ASSUME MenuIInv, RigTakes
  PROVE  MenuIInv'
<1>. USE DEF MenuIInv
<1>. DEFINE cmd == menuOut[1]
            said == <<"level", level>>
<1>1. /\ menuOut # <<>> /\ menuOut' = Tail(menuOut)
      /\ UNCHANGED <<menu, holder, pc, again, val, refused, accesses, mishap>>
  BY DEF RigTakes, callVars
<1>2. /\ menuOut' \in Seq(Commands) /\ Len(menuOut') = Len(menuOut) - 1
      /\ \A i \in 1..Len(menuOut') : i + 1 \in 1..Len(menuOut) /\ menuOut'[i] = menuOut[i + 1]
      /\ Len(menuOut) \in Nat \ {0} /\ 1 \in 1..Len(menuOut) /\ cmd \in Commands
      /\ Head(menuOut) = cmd
  BY <1>1, Dequeued DEF Wires
<1>3. \A i \in 1..Len(menuOut) : i = 1 \/ i - 1 \in 1..Len(menuOut')
  BY <1>2
<1>4. \A i, j \in 1..Len(menuOut') : i + 1 # 1 /\ (i + 1 = j + 1 => i = j)
  BY <1>2
<1>5. Flags' /\ Held'
  BY <1>1 DEF Flags, Held
<1>6. ASSUME menuIn' \in Seq(Answers), Len(menuIn') <= MenuWire,
             level' \in Levels, span' \subseteq Levels, OneAnswer', OnlyUp'
      PROVE  MenuIInv'
  <2>1. Wires'
    BY <1>1, <1>2, <1>6, MenuConstants DEF Wires
  <2>2. MenuScalars'
    BY <1>1, <1>6 DEF MenuScalars
  <2>. QED  BY <1>5, <1>6, <2>1, <2>2
<1>7. /\ menuIn \in Seq(Answers) /\ Len(menuIn) <= MenuWire /\ Len(menuIn) \in Nat
      /\ level \in Levels /\ span \subseteq Levels
  BY LenProperties DEF Wires, MenuScalars
\* Of a queue that has lost its head.
<1>8. ASSUME IsRead(cmd) \/ ~IsRaise(cmd) \/ level' = LevelMin, level' = level \/ level' = LevelMin, Clean
      PROVE  Raised => Raised'
  <2>1. CASE level = LevelMin
    BY <1>8, <2>1 DEF Raised
  <2>2. ASSUME NEW i \in 1..Len(menuOut), IsRaise(menuOut[i]) PROVE Raised'
    <3>1. CASE i = 1
      BY <1>2, <1>8, <2>2, <3>1, CommandIs DEF Raised
    <3>2. CASE i # 1
      <4>1. i - 1 \in 1..Len(menuOut') /\ (i - 1) + 1 = i
        BY <1>3, <3>2
      <4>2. menuOut'[i - 1] = menuOut[i]
        BY <1>2, <4>1
      <4>. QED  BY <2>2, <4>1, <4>2 DEF Raised
    <3>. QED  BY <3>1, <3>2
  <2>. QED  BY <2>1, <2>2 DEF Raised
<1>9. CASE IsRead(cmd)
  <2>1. Replies(said) /\ UNCHANGED <<level, span>>
    BY <1>2, <1>9, MenuWords DEF RigTakes, IsRead
  <2>2. said \in Answers /\ IsLevel(said) /\ said[2] = level
    BY <1>7, MenuWords
  <2>. HIDE DEF said, cmd
  <2>3. CASE menuIn' = menuIn
    <3>1. OneAnswer'
      BY <1>1, <1>2, <1>4, <2>1, <2>3 DEF OneAnswer
    <3>2. OnlyUp'
      BY <1>1, <1>2, <1>8, <1>9, <2>1, <2>3 DEF OnlyUp, Clean
    <3>. QED  BY <1>6, <1>7, <2>1, <2>3, <3>1, <3>2
  <2>4. CASE Len(menuIn) < MenuWire /\ menuIn' = Append(menuIn, said)
    <3>1. /\ menuIn' \in Seq(Answers) /\ Len(menuIn') = Len(menuIn) + 1
          /\ \A i \in 1..Len(menuIn) : menuIn'[i] = menuIn[i]
          /\ menuIn'[Len(menuIn) + 1] = said
      BY <1>7, <2>2, <2>4, Queued
    <3>2. OneAnswer'
      <4>. SUFFICES ASSUME "late" \notin mishap PROVE OneAnswer'
        BY <1>1 DEF OneAnswer
      <4>1. /\ holder # NoOne /\ menu = Unread /\ level \in span
            /\ \A i \in 1..Len(menuIn) : ~IsLevel(menuIn[i])
            /\ \A i \in 1..Len(menuOut) : IsRead(menuOut[i]) => i = 1
        BY <1>2, <1>9 DEF OneAnswer, cmd
      <4>2. \A i \in 1..Len(menuOut') : ~IsRead(menuOut'[i])
        BY <1>2, <1>4, <4>1
      <4>3. \A i \in 1..Len(menuIn') : IsLevel(menuIn'[i]) =>
              i = Len(menuIn) + 1 /\ menuIn'[i][2] = level
        BY <1>7, <2>2, <3>1, <4>1
      <4>. QED  BY <1>1, <2>1, <4>1, <4>2, <4>3 DEF OneAnswer
    <3>3. OnlyUp'
      <4>. SUFFICES ASSUME Clean PROVE OnlyUp'
        BY <1>1 DEF OnlyUp, Clean
      <4>1. \A i \in 1..Len(menuIn') :
              IsLevel(menuIn'[i]) /\ menuIn'[i][2] = LevelMin => level = LevelMin
        BY <1>7, <2>2, <3>1 DEF OnlyUp
      <4>2. Raised => Raised'
        BY <1>8, <1>9, <2>1
      <4>. QED  BY <1>1, <1>2, <2>1, <4>1, <4>2 DEF OnlyUp
    <3>4. Len(menuIn') <= MenuWire
      BY <1>7, <2>4, <3>1, MenuConstants
    <3>. QED  BY <1>6, <1>7, <2>1, <3>1, <3>2, <3>3, <3>4
  <2>. QED  BY <2>1, <2>3, <2>4 DEF Replies
<1>10. CASE cmd = <<"write", TooHigh>>
  <2>1. Replies(<<"FA">>) /\ UNCHANGED <<level, span>>
    BY <1>2, <1>10 DEF RigTakes
  <2>2. <<"FA">> \in Answers /\ ~IsLevel(<<"FA">>)
    BY MenuWords
  <2>3. ~IsRead(cmd) /\ ~IsRaise(cmd)
    <3>1. TooHigh \in 0..TooHigh /\ TooHigh # LevelMin
      BY MenuConstants
    <3>. QED  BY <1>10, <3>1, MenuWords DEF IsRaise
  <2>4. ~Clean
    BY <1>2, <2>3 DEF OnlyUp
  <2>5. OnlyUp'
    BY <1>1, <2>4 DEF OnlyUp, Clean
  <2>6. /\ menuIn' \in Seq(Answers) /\ Len(menuIn') <= MenuWire
        /\ \A i \in 1..Len(menuIn') : IsLevel(menuIn'[i]) => i \in 1..Len(menuIn) /\ menuIn'[i] = menuIn[i]
        /\ Len(menuIn) <= Len(menuIn')
    <3>. DEFINE fa == <<"FA">>
    <3>1. Replies(fa) /\ fa \in Answers /\ ~IsLevel(fa)
      BY <2>1, <2>2
    <3>. HIDE DEF fa
    <3>2. CASE menuIn' = menuIn
      BY <1>7, <3>2
    <3>3. CASE Len(menuIn) < MenuWire /\ menuIn' = Append(menuIn, fa)
      <4>1. /\ menuIn' \in Seq(Answers) /\ Len(menuIn') = Len(menuIn) + 1
            /\ \A i \in 1..Len(menuIn) : menuIn'[i] = menuIn[i]
            /\ menuIn'[Len(menuIn) + 1] = fa
        BY <1>7, <3>1, <3>3, Queued
      <4>. QED  BY <1>7, <3>1, <3>3, <4>1, MenuConstants
    <3>. QED  BY <3>1, <3>2, <3>3 DEF Replies
  <2>7. OneAnswer'
    <3>. HIDE DEF cmd
    <3>. SUFFICES ASSUME "late" \notin mishap PROVE OneAnswer'
      BY <1>1 DEF OneAnswer
    <3>1. \A i \in 1..Len(menuOut') : IsRead(menuOut'[i]) =>
            /\ holder # NoOne /\ menu = Unread
            /\ \A j \in 1..Len(menuOut') : IsRead(menuOut'[j]) => i = j
            /\ \A j \in 1..Len(menuIn') : ~IsLevel(menuIn'[j])
      <4>1. \A i \in 1..Len(menuOut') : IsRead(menuOut'[i]) =>
              \A j \in 1..Len(menuIn') : ~IsLevel(menuIn'[j])
        BY <1>2, <2>6 DEF OneAnswer
      <4>. QED  BY <1>2, <1>4, <4>1 DEF OneAnswer
    <3>2. \A i \in 1..Len(menuIn') : IsLevel(menuIn'[i]) =>
            /\ holder # NoOne /\ menu = Unread /\ menuIn'[i][2] \in span
            /\ \A j \in 1..Len(menuIn') : IsLevel(menuIn'[j]) => i = j
      BY <2>6 DEF OneAnswer
    <3>. QED  BY <1>1, <2>1, <3>1, <3>2 DEF OneAnswer
  <2>. QED  BY <1>6, <1>7, <2>1, <2>5, <2>6, <2>7
<1>11. CASE ~IsRead(cmd) /\ cmd # <<"write", TooHigh>>
  <2>1. /\ level' = cmd[2] /\ menuIn' = menuIn
        /\ span' = IF holder = NoOne THEN {} ELSE span \cup {cmd[2]}
    BY <1>2, <1>11 DEF RigTakes, IsRead
  <2>2. cmd[2] \in Levels
    <3>1. cmd[2] \in 0..TooHigh /\ cmd = <<"write", cmd[2]>>
      BY <1>2, <1>11, CommandIs
    <3>2. cmd[2] # TooHigh
      BY <1>11, <3>1
    <3>. QED  BY <3>1, <3>2, MenuConstants
  <2>3. IsRaise(cmd) => level' = LevelMin
    BY <1>2, <2>1, CommandIs
  <2>4. Clean => IsRaise(cmd)
    BY <1>2, <1>11 DEF OnlyUp
  <2>5. level' \in Levels /\ span' \subseteq Levels /\ (holder # NoOne => level' \in span' /\ span \subseteq span')
    BY <1>7, <2>1, <2>2
  <2>. HIDE DEF cmd
  <2>6. OneAnswer'
    <3>. SUFFICES ASSUME "late" \notin mishap PROVE OneAnswer'
      BY <1>1 DEF OneAnswer
    <3>. QED  BY <1>1, <1>2, <1>4, <2>1, <2>5 DEF OneAnswer
  <2>7. OnlyUp'
    <3>. SUFFICES ASSUME Clean PROVE OnlyUp'
      BY <1>1 DEF OnlyUp, Clean
    <3>1. level' = LevelMin /\ Raised'
      BY <2>3, <2>4 DEF Raised
    <3>. QED  BY <1>1, <1>2, <2>1, <3>1 DEF OnlyUp
  <2>. QED  BY <1>6, <1>7, <2>1, <2>5, <2>6, <2>7
<1>. QED  BY <1>9, <1>10, <1>11

LEMMA MenuStep ==
  ASSUME MenuIInv, MenuNext
  PROVE  MenuIInv'
BY StepRead, StepReadEnds, StepWrite, StepSettle, StepJudge, StepWeb, StepRigTakes,
   StepWriteLost, StepDispatch DEF MenuNext, Caller

(***************************************************************************)
(* The three parts, of which one moves.                                    *)
(***************************************************************************)

ControlIInv == ModeIInv /\ MenuIInv

LEMMA ControlStep == ControlIInv /\ [ControlNext]_controlVars => ControlIInv'
<1>. SUFFICES ASSUME ControlIInv, [ControlNext]_controlVars PROVE ControlIInv'
  OBVIOUS
<1>. USE DEF ControlIInv
<1>1. CASE UsbPart(Next)
  BY <1>1, ModeRests, MenuRests DEF UsbPart
<1>2. CASE ModePart(ModeNext)
  BY <1>2, ModeStep, MenuRests DEF ModePart
<1>3. CASE MenuPart(MenuNext)
  BY <1>3, ModeRests, MenuStep DEF MenuPart
<1>4. CASE UNCHANGED controlVars
  BY <1>4, ModeRests, MenuRests DEF controlVars
<1>. QED  BY <1>1, <1>2, <1>3, <1>4 DEF ControlNext

\* The mode and the menu: their inductive invariant holds in every reachable state.
THEOREM ControlInvariantHolds == ControlSpec => []ControlIInv
<1>1. ControlInit => ControlIInv
  BY ModeInitOK, MenuInitOK DEF ControlInit, ControlIInv
<1>. QED  BY <1>1, ControlStep, PTL DEF ControlSpec

\* The types; a read of the menu returns what the item has been since it began, until one
\* has timed out (read_menu); and a connect that has read the LAN MOD Level leaves it at
\* the minimum, or the write on its way, unless that is lost or a page writes too
\* (_ensure_lan_mod_ready).
THEOREM MenuInvHolds == ControlSpec => []MenuInv
<1>1. ControlIInv => MenuInv
  BY ModeIInvImplies, MenuIInvImplies DEF ControlIInv, MenuInv, ControlTypeOK
<1>. QED  BY <1>1, ControlInvariantHolds, PTL

\* In the composition the USB channel does what it does alone: ControlSpec implements the
\* specification the theorems on the swap are about.
THEOREM ControlHasTheSwap == ControlSpec => Spec
<1>1. ControlInit => Init
  BY DEF ControlInit
<1>2. [ControlNext]_controlVars => [Next]_vars
  BY DEF ControlNext, UsbPart, ModePart, MenuPart, controlVars
<1>. QED  BY <1>1, <1>2, PTL DEF ControlSpec, Spec

\* The verified toggle, in the composition: outside a transaction that went calmly MAIN is
\* selected, as UsbCiv found it.
THEOREM ControlSwapInvHolds == ControlSpec => []SwapInv
  BY ControlHasTheSwap, SwapInvHolds, PTL

\* ... and RX2's tunes and reads touch and show RX2 alone.
THEOREM ControlSwapSafeHolds == ControlSpec => SwapSafe
  BY ControlHasTheSwap, SwapSafeHolds, PTL
=============================================================================
