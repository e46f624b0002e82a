----------------------------- MODULE Receivers -----------------------------
(***************************************************************************)
(* The slices and panadapters of a session and how they follow a radio     *)
(* with two receivers: the slice and pan commands of on_line(), the        *)
(* routing of a tune in _sync_active_slice(), and _sync_receivers(), which *)
(* the stream loop runs when the client has not tuned for two seconds.     *)
(*                                                                         *)
(* Slice 0 is to be the MAIN receiver, slice 1 the SUB.  Of a slice's      *)
(* settings only the frequency is kept, as a small number.  Where the      *)
(* receivers are is what the adapter's caches say (main_freq_hz and        *)
(* rx2_freq_hz of its USB channel): receivers() asks the radio nothing.    *)
(* Session thread, stream loop, the adapter's tuners and its poller take   *)
(* turns; the loop's reading may be old when it is applied.                *)
(***************************************************************************)
EXTENDS Integers, Sequences, FiniteSets, FiniteSetsExt

CONSTANTS Freqs,       \* frequencies of all bands: either receiver may be on any
          MaxCmds,     \* commands of all clients (a bound)
          MaxTurns,    \* changes of the caches that no client has asked for (a bound)
          GoneLimit    \* readings without SUB before its slice goes

None    == 0                   \* no frequency, no panadapter, no slice
MAIN    == 0
SUB     == 1
Indices == {MAIN, SUB}
PanIds  == 1..(MaxCmds + MaxTurns + 1)
NoSlice == 2                   \* no slice on a panadapter
Distance(f, g) == IF f > g THEN f - g ELSE g - f

ASSUME ReceiversAssumption ==
  /\ Freqs \subseteq Nat \ {0} /\ Freqs # {}
  /\ {MaxCmds, MaxTurns} \subseteq Nat /\ GoneLimit \in Nat \ {0}

VARIABLES
  conn,        \* a client is connected
  slices,      \* self.slices: index -> [freq, active, pan]
  pans,        \* self.pans: id -> the slice last put on it
  panSeq,      \* self.pan_seq
  active,      \* self.active_slice
  sliceFreq,   \* self.slice_freq
  claimed,     \* self._radio_state_claimed
  fresh,       \* this client has created no slice yet
  main, sub,   \* where the caches have the receivers; None: no SUB
  toMain,      \* the frequency the tuner has still to set, or None
  toSub,
  hold,        \* the client has tuned within the last two seconds
  reading,     \* what receivers() answered, until it is applied
  gone,        \* self._sub_gone_count
  goneRun,     \* readings in a row without SUB
  cmds, turns

aeVars    == <<slices, pans, panSeq, active, sliceFreq>>
tuneVars  == <<main, sub, toMain, toSub>>
syncVars  == <<reading, gone, goneRun>>
vars == <<conn, aeVars, claimed, fresh, tuneVars, hold, syncVars, cmds, turns>>

Slice == [freq : Freqs, active : BOOLEAN, pan : PanIds \cup {None}]

TypeOK ==
  /\ conn \in BOOLEAN /\ claimed \in BOOLEAN /\ fresh \in BOOLEAN /\ hold \in BOOLEAN
  /\ DOMAIN slices \subseteq Indices /\ \A i \in DOMAIN slices : slices[i] \in Slice
  /\ panSeq \in PanIds \cup {0} /\ DOMAIN pans \subseteq 1..panSeq
  /\ \A p \in DOMAIN pans : pans[p] \in Indices \cup {NoSlice}
  /\ active \in Indices /\ sliceFreq \in Freqs
  /\ main \in Freqs /\ sub \in Freqs \cup {None}
  /\ toMain \in Freqs \cup {None} /\ toSub \in Freqs \cup {None}
  /\ \A k \in DOMAIN reading : reading[k] \in Freqs
  /\ Len(reading) <= 2
  /\ gone \in 0..(GoneLimit - 1) /\ goneRun \in 0..GoneLimit
  /\ cmds \in 0..MaxCmds /\ turns \in 0..MaxTurns

Empty == [i \in {} |-> None]

Init ==
  /\ conn = FALSE /\ slices = Empty /\ pans = Empty /\ panSeq = 0
  /\ active = MAIN /\ claimed = FALSE /\ fresh = TRUE
  /\ main \in Freqs /\ sub \in Freqs \cup {None}
  /\ sliceFreq = main
  /\ toMain = None /\ toSub = None /\ hold = FALSE
  /\ reading = <<>> /\ gone = 0 /\ goneRun = 0
  /\ cmds = 0 /\ turns = 0

-----------------------------------------------------------------------------
PrimaryPan == IF pans = Empty THEN None ELSE Min(DOMAIN pans)

\* Slices and panadapters come and go.
Put(plan, i, s)      == [k \in DOMAIN plan \cup {i} |-> IF k = i THEN s ELSE plan[k]]
Without(plan, gones) == [k \in DOMAIN plan \ gones |-> plan[k]]
NoneActive(plan)     == [k \in DOMAIN plan |-> [plan[k] EXCEPT !.active = FALSE]]

\* A tune reaches the receiver of slice i: retune() for MAIN, set_sub_freq_hz() for SUB.
Drive(i, f) ==
  /\ hold' = TRUE
  /\ IF i = SUB THEN toSub' = f /\ UNCHANGED toMain
                ELSE toMain' = f /\ UNCHANGED toSub

\* _sync_active_slice: whatever command calls it, the active slice is what is tuned.
SyncActiveBug(plan, act) ==
  IF act \in DOMAIN plan
    THEN sliceFreq' = plan[act].freq /\ Drive(MAIN, plan[act].freq)
    ELSE UNCHANGED <<sliceFreq, hold, toMain, toSub>>
SyncActive(plan, act) ==
  IF act \in DOMAIN plan
    THEN sliceFreq' = plan[act].freq /\ Drive(act, plan[act].freq)
    ELSE UNCHANGED <<sliceFreq, hold, toMain, toSub>>

-----------------------------------------------------------------------------
(* The client's session. *)

Connect ==
  /\ ~conn /\ conn' = TRUE /\ fresh' = TRUE
  /\ UNCHANGED <<aeVars, claimed, tuneVars, hold, syncVars, cmds, turns>>

\* The client goes, or a command raises: serve() frees what the session held.  The
\* reading a stream loop has in hand, and the debounce count, stay.
DisconnectBug ==
  /\ conn /\ conn' = FALSE
  /\ slices' = Empty /\ pans' = Empty /\ panSeq' = 0 /\ active' = MAIN
  /\ UNCHANGED <<sliceFreq, claimed, fresh, tuneVars, hold, syncVars, cmds, turns>>
Disconnect ==
  /\ conn /\ conn' = FALSE
  /\ slices' = Empty /\ pans' = Empty /\ panSeq' = 0 /\ active' = MAIN
  /\ claimed' = FALSE
  /\ UNCHANGED <<sliceFreq, fresh, tuneVars, hold, syncVars, cmds, turns>>

Command == conn /\ cmds < MaxCmds /\ cmds' = cmds + 1

\* `display panafall create`.
PanCreate ==
  /\ Command
  /\ panSeq' = panSeq + 1 /\ pans' = Put(pans, panSeq + 1, NoSlice)
  /\ UNCHANGED <<conn, slices, active, sliceFreq, claimed, fresh, tuneVars, hold,
                 syncVars, turns>>

\* `display pan remove` takes the slices on it along.
PanRemove(p) ==
  /\ Command /\ p \in DOMAIN pans
  /\ pans' = Without(pans, {p})
  /\ slices' = Without(slices, {i \in DOMAIN slices : slices[i].pan = p})
  /\ UNCHANGED <<conn, panSeq, active, sliceFreq, claimed, fresh, tuneVars, hold,
                 syncVars, turns>>

\* `slice create` on panadapter p.  The client sends the frequency it remembers; for the
\* first slice of a connection the radio's own frequency wins.  (Without any panadapter
\* the command raises, which is a Disconnect.)
SliceCreate(p, f) ==
  /\ Command /\ p \in DOMAIN pans /\ Indices \ DOMAIN slices # {}
  /\ LET idx  == Min(Indices \ DOMAIN slices)
         freq == IF claimed THEN f ELSE main
         plan == Put(NoneActive(slices), idx,
                           [freq |-> freq, active |-> TRUE, pan |-> p])
     IN  /\ slices' = plan /\ active' = idx
         /\ pans' = [pans EXCEPT ![p] = idx]
         /\ SyncActive(plan, idx)
  /\ claimed' = TRUE /\ fresh' = FALSE
  /\ UNCHANGED <<conn, panSeq, main, sub, syncVars, turns>>

\* `slice remove` frees its panadapter; another slice becomes the active one.
SliceRemove(i) ==
  /\ Command /\ i \in DOMAIN slices
  /\ LET plan == Without(slices, {i})
         act  == IF i = active /\ plan # Empty THEN Min(DOMAIN plan) ELSE active
     IN  /\ slices' = plan /\ active' = act
         /\ pans' = Without(pans, {slices[i].pan})
         /\ SyncActive(plan, act)
  /\ UNCHANGED <<conn, panSeq, claimed, fresh, main, sub, syncVars, turns>>

\* `slice set` and `slice tune`: the slice is made if it is not there.  SUB's tune goes to
\* its receiver whichever slice is active; otherwise the active slice is tuned.
SliceSetBug(i, f, activate) ==
  /\ Command
  /\ LET old  == IF i \in DOMAIN slices THEN slices[i]
                 ELSE [freq |-> sliceFreq, active |-> FALSE, pan |-> PrimaryPan]
         plan == Put(slices, i,
                           [old EXCEPT !.freq = f, !.active = (@ \/ activate)])
         act  == IF activate THEN i ELSE active
     IN  /\ slices' = plan /\ active' = act
         /\ IF i = SUB THEN Drive(SUB, f) /\ UNCHANGED sliceFreq
                       ELSE SyncActive(plan, act)
  /\ UNCHANGED <<conn, pans, panSeq, claimed, fresh, main, sub, syncVars, turns>>
SliceSet(i, f, activate) ==
  /\ Command
  /\ LET old  == IF i \in DOMAIN slices THEN slices[i]
                 ELSE [freq |-> sliceFreq, active |-> FALSE, pan |-> PrimaryPan]
         rest == IF activate THEN NoneActive(slices) ELSE slices
         plan == Put(rest, i, [old EXCEPT !.freq = f, !.active = (@ \/ activate)])
         act  == IF activate THEN i ELSE active
     IN  /\ slices' = plan /\ active' = act
         /\ IF i = SUB THEN Drive(SUB, f) /\ UNCHANGED sliceFreq
                       ELSE SyncActive(plan, act)
  /\ UNCHANGED <<conn, pans, panSeq, claimed, fresh, main, sub, syncVars, turns>>

\* `display pan set center=`: the panadapter's slice moves along.
PanCentre(p, f) ==
  /\ Command /\ p \in DOMAIN pans /\ pans[p] \in DOMAIN slices
  /\ LET plan == [slices EXCEPT ![pans[p]].freq = f]
     IN  slices' = plan /\ SyncActive(plan, active)
  /\ UNCHANGED <<conn, pans, panSeq, active, claimed, fresh, main, sub, syncVars, turns>>

\* Two seconds pass without a tune of the client.
HoldEnds ==
  /\ hold /\ hold' = FALSE
  /\ UNCHANGED <<conn, aeVars, claimed, fresh, tuneVars, syncVars, cmds, turns>>

-----------------------------------------------------------------------------
(* The radio. *)

\* The adapter's tuner sets what it was asked for last, and stores it; or the radio, or
\* the adapter itself, refuses it.
TunerSets ==
  /\ \/ toMain # None /\ toMain' = None /\ main' \in {main, toMain}
        /\ UNCHANGED <<toSub, sub>>
     \/ toSub # None /\ toSub' = None
        /\ sub' \in (IF sub = None THEN {None} ELSE {sub, toSub})
        /\ UNCHANGED <<toMain, main>>
  /\ UNCHANGED <<conn, aeVars, claimed, fresh, hold, syncVars, cmds, turns>>

\* The poller stores what it has read: the operator has turned a dial, changed a band,
\* exchanged MAIN and SUB or switched SUB on or off, a tune stored before it was sent has
\* not reached the radio, SUB could not be read for once.  Either cache is stored alone.
Turn ==
  /\ turns < MaxTurns /\ turns' = turns + 1
  /\ \/ main' \in Freqs \ {main} /\ UNCHANGED sub
     \/ sub' \in (Freqs \cup {None}) \ {sub} /\ UNCHANGED main
  /\ UNCHANGED <<conn, aeVars, claimed, fresh, toMain, toSub, hold, syncVars, cmds>>

-----------------------------------------------------------------------------
(* _sync_receivers, on the stream loop's thread. *)

\* A panadapter has started a stream loop; the client has left the dial alone.  What
\* receivers() answers: MAIN first, then SUB if there is one.
SyncRead ==
  /\ conn /\ pans # Empty /\ ~hold /\ reading = <<>>
  /\ reading' = IF sub = None THEN <<main>> ELSE <<main, sub>>
  /\ goneRun' = IF sub # None THEN 0 ELSE Min({goneRun + 1, GoneLimit})
  /\ UNCHANGED <<conn, aeVars, claimed, fresh, tuneVars, hold, gone, cmds, turns>>

\* Of two receivers the one nearer to slice 0 is taken for MAIN.
MainFirst(r) ==
  LET near == IF MAIN \in DOMAIN slices THEN slices[MAIN].freq ELSE r[1]
  IN  IF Len(r) = 2 /\ Distance(r[2], near) < Distance(r[1], near)
        THEN <<r[2], r[1]>> ELSE r

FollowMain(f) ==
  IF MAIN \in DOMAIN slices THEN [slices EXCEPT ![MAIN].freq = f] ELSE slices

\* SUB is missing: its slice stays for GoneLimit - 1 readings, then goes with its
\* panadapter, unless that is the primary one.
DropSubBug(plan) ==
  /\ slices' = Without(plan, {SUB}) /\ gone' = 0
  /\ pans' = IF plan[SUB].pan = PrimaryPan THEN pans ELSE Without(pans, {plan[SUB].pan})
  /\ active' = IF active = SUB /\ MAIN \in DOMAIN plan THEN MAIN ELSE active
  /\ UNCHANGED panSeq
DropSub(plan) ==
  IF gone + 1 < GoneLimit
    THEN gone' = gone + 1 /\ slices' = plan /\ UNCHANGED <<pans, panSeq, active>>
    ELSE /\ slices' = Without(plan, {SUB}) /\ gone' = 0
         /\ pans' = IF plan[SUB].pan = PrimaryPan THEN pans ELSE Without(pans, {plan[SUB].pan})
         /\ active' = IF active = SUB /\ MAIN \in DOMAIN plan THEN MAIN ELSE active
         /\ UNCHANGED panSeq

\* SUB is there: its slice follows it, and is made on a panadapter of its own.
FollowSub(plan, f) ==
  /\ gone' = 0 /\ UNCHANGED active
  /\ IF SUB \in DOMAIN plan
       THEN slices' = [plan EXCEPT ![SUB].freq = f] /\ UNCHANGED <<pans, panSeq>>
       ELSE /\ panSeq' = panSeq + 1 /\ pans' = Put(pans, panSeq + 1, SUB)
            /\ slices' = Put(plan, SUB,
                                   [freq |-> f, active |-> FALSE, pan |-> panSeq + 1])

SyncApply ==
  /\ reading # <<>>
  /\ LET r    == MainFirst(reading)
         plan == FollowMain(r[1])
     IN  /\ sliceFreq' = IF active = MAIN /\ MAIN \in DOMAIN plan THEN r[1] ELSE sliceFreq
         /\ IF Len(r) = 2
              THEN FollowSub(plan, r[2])
              ELSE IF SUB \in DOMAIN plan
                     THEN DropSub(plan)
                     ELSE slices' = plan /\ UNCHANGED <<pans, panSeq, active, gone>>
  /\ reading' = <<>>
  /\ UNCHANGED <<conn, claimed, fresh, tuneVars, hold, goneRun, cmds, turns>>

-----------------------------------------------------------------------------
Next ==
  \/ Connect \/ Disconnect \/ PanCreate \/ HoldEnds
  \/ \E p \in DOMAIN pans : \/ PanRemove(p)
                          \/ \E f \in Freqs : SliceCreate(p, f) \/ PanCentre(p, f)
  \/ \E i \in DOMAIN slices : SliceRemove(i)
  \/ \E i \in Indices, f \in Freqs, b \in BOOLEAN : SliceSet(i, f, b)
  \/ TunerSets \/ Turn \/ SyncRead \/ SyncApply

\* Time passes, the tuner and the stream loop run; client and operator need not act.
Spec == Init /\ [][Next]_vars /\ WF_vars(HoldEnds) /\ WF_vars(TunerSets)
             /\ WF_vars(SyncRead) /\ WF_vars(SyncApply)

-----------------------------------------------------------------------------
(* Properties. *)

\* The slice that is flagged to the client as the active one, and with it as the one to
\* transmit on, is the slice whose frequency the radio is driven to.
ActiveIsDriven == \A i \in DOMAIN slices : slices[i].active => i = active

\* Nothing a client does with SUB's slice retunes MAIN.
SubNeverMovesMain ==
  [][toMain' # toMain /\ toMain' # None => active' = MAIN]_vars

\* The first slice of every connection opens where the radio is, whatever the client
\* remembers and whoever was connected before.
RadioWins == [][fresh /\ ~fresh' => slices'[active'].freq = main]_vars

\* SUB's slice goes only after GoneLimit readings in a row without SUB, over
\* reconnections and slices the client made itself.
SubDebounced ==
  [][reading # <<>> /\ reading' = <<>> /\ SUB \in DOMAIN slices \ DOMAIN slices'
       => goneRun = GoneLimit]_vars

\* Once client and operator leave them alone the slices show the receivers there are: the
\* one receiver in slice 0, or each of two in a slice of its own.  Which one is in slice 0
\* depends on where that slice was; PinnedToMain is about that.
SlicesFollow ==
  <>[](conn /\ pans # Empty /\ MAIN \in DOMAIN slices =>
         IF sub = None
           THEN DOMAIN slices = {MAIN} /\ slices[MAIN].freq = main
           ELSE DOMAIN slices = Indices
                /\ {slices[i].freq : i \in Indices} = {main, sub})

\* Whatever AE makes, moves and removes: the slice it is told is active is the one that
\* the radio is tuned by.
SlicesInv == TypeOK /\ ActiveIsDriven

\* The slices follow the radio: the first one at the connect, all of them in the end.
RadioLeads == RadioWins /\ SlicesFollow

=============================================================================
