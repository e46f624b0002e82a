------------------------- MODULE GateManagerProofs -------------------------
(***************************************************************************)
(* For any number of request threads, of releases and of faults: a version *)
(* that has been seen to load is never lost, the tree between updates      *)
(* loads, an update that fails leaves the tree it found, and one that      *)
(* succeeds takes effect at once (UpdatePromise). The argument is that     *)
(* _update_busy lets one request at a time near the tree, and that this    *)
(* request's backup is what is missing from it.                            *)
(***************************************************************************)
EXTENDS GateManager, TLAPS

(***************************************************************************)
(* The inductive invariant.                                                *)
(***************************************************************************)

Working(r) == inst[r].pc \notin {"idle", "found"}

\* _update_busy stands for one request that has been let in.
BusyHasOneOwner ==
  /\ busy <=> \E r \in Requests : Working(r)
  /\ \A q, r \in Requests : Working(q) /\ Working(r) => q = r

\* Before it renames anything, a request has the tree it found in front of it.
FoundInPlace(r) == inst[r].pc \in {"fetch", "staged"} => inst[r].from = live

\* A release that is unpacked is a version.
ReleaseKnown(r) == inst[r].pc \in {"staged"} \cup Swapping => inst[r].rel \in Versions

\* From the first rename to the end, the tree it found is its backup, and loads if there
\* was nothing wrong with the tree.
BackupHeld(r) ==
  inst[r].pc \in Swapping =>
    /\ inst[r].backup = inst[r].from /\ inst[r].backup \in backups
    /\ working \in backups
    /\ ~hurt => Loads(inst[r].backup)

\* What lies in the place of the tree meanwhile.
PlaceKnown(r) ==
  /\ inst[r].pc = "moved" => live = NoTree
  /\ inst[r].pc \in {"verify", "remove"} => live = inst[r].rel
  /\ inst[r].pc = "restore" => live = NoTree \/ (live = Torn /\ hurt)

StepSound(r) == FoundInPlace(r) /\ ReleaseKnown(r) /\ BackupHeld(r) /\ PlaceKnown(r)

\* No request swaps, and nothing was hurt: the tree loads.
QuietTreeLoads == ~hurt /\ (\A r \in Requests : inst[r].pc \notin Swapping) => Loads(live)

ManagerIInv ==
  /\ ManagerTypeOK /\ WorkingKept /\ BusyHasOneOwner
  /\ \A r \in Requests : StepSound(r)
  /\ QuietTreeLoads
-----------------------------------------------------------------------------
(* What a step does to the record of its request, and to those of the others. *)

Pcs == {"idle", "found", "fetch", "staged"} \cup Swapping
ReqRecord == [pc : Pcs, tag : 0..MaxV, rel : 0..MaxV, backup : Trees, from : Trees]

OthersKept(r) ==
  /\ inst' \in [Requests -> ReqRecord]
  /\ \A q \in Requests \ {r} : inst'[q] = inst[q]

SameRelease(r) ==
  inst'[r].rel = inst[r].rel /\ inst'[r].backup = inst[r].backup /\ inst'[r].from = inst[r].from

(* The finally of an update clears its request. *)
LEMMA FinishEffect ==
  ASSUME ManagerAssumption, ManagerTypeOK, NEW r \in Requests, inst' = [inst EXCEPT ![r] = Idle]
  PROVE  OthersKept(r) /\ inst'[r].pc = "idle"
<1>1. Idle \in ReqRecord /\ Idle.pc = "idle"
  BY DEF Idle, ReqRecord, Pcs, Trees, Versions, ManagerAssumption
<1>2. inst \in [Requests -> ReqRecord]
  BY DEF ManagerTypeOK, ReqRecord, Pcs
<1> QED
  BY <1>1, <1>2 DEF OthersKept

(* A step that goes on changes nothing but where the request is. *)
LEMMA GoOnEffect ==
  ASSUME ManagerTypeOK, NEW r \in Requests, NEW pc \in Pcs, GoOn(r, pc)
  PROVE  OthersKept(r) /\ inst'[r].pc = pc /\ SameRelease(r)
<1>1. inst \in [Requests -> ReqRecord] /\ inst' = [inst EXCEPT ![r].pc = pc]
  BY DEF ManagerTypeOK, ReqRecord, Pcs, GoOn
<1> QED
  BY <1>1 DEF OthersKept, SameRelease, ReqRecord

(* A request that asks notes the tag its tab shows. *)
LEMMA AskEffect ==
  ASSUME ManagerTypeOK, NEW r \in Requests,
         inst' = [inst EXCEPT ![r].pc = "found", ![r].tag = shown]
  PROVE  OthersKept(r) /\ inst'[r].pc = "found"
<1>1. inst \in [Requests -> ReqRecord] /\ shown \in 0..MaxV /\ "found" \in Pcs
  BY DEF ManagerTypeOK, ReqRecord, Pcs
<1> QED
  BY <1>1 DEF OthersKept, ReqRecord

(* A request that is let in notes the tree it finds. *)
LEMMA AdmitEffect ==
  ASSUME ManagerTypeOK, NEW r \in Requests,
         inst' = [inst EXCEPT ![r].pc = "fetch", ![r].from = live]
  PROVE  OthersKept(r) /\ inst'[r].pc = "fetch" /\ inst'[r].from = live
<1>1. inst \in [Requests -> ReqRecord] /\ live \in Trees /\ "fetch" \in Pcs
  BY DEF ManagerTypeOK, ReqRecord, Pcs
<1> QED
  BY <1>1 DEF OthersKept, ReqRecord

(* A download that succeeds notes the release. *)
LEMMA FetchEffect ==
  ASSUME ManagerAssumption, ManagerTypeOK, NEW r \in Requests,
         inst' = [inst EXCEPT ![r].pc = "staged", ![r].rel = latest]
  PROVE  /\ OthersKept(r) /\ inst'[r].pc = "staged" /\ inst'[r].rel \in Versions
         /\ inst'[r].from = inst[r].from /\ inst'[r].rel = latest
<1>1. inst \in [Requests -> ReqRecord] /\ latest \in Versions /\ "staged" \in Pcs
  BY DEF ManagerTypeOK, ReqRecord, Pcs
<1>2. latest \in 0..MaxV
  BY <1>1 DEF ManagerAssumption, Versions
<1> QED
  BY <1>1, <1>2 DEF OthersKept, ReqRecord

(* A tree moved away is noted as the backup. *)
LEMMA MoveEffect ==
  ASSUME ManagerTypeOK, NEW r \in Requests,
         inst' = [inst EXCEPT ![r].pc = "moved", ![r].backup = live]
  PROVE  /\ OthersKept(r) /\ inst'[r].pc = "moved" /\ inst'[r].backup = live
         /\ inst'[r].from = inst[r].from /\ inst'[r].rel = inst[r].rel
<1>1. inst \in [Requests -> ReqRecord] /\ live \in Trees /\ "moved" \in Pcs
  BY DEF ManagerTypeOK, ReqRecord, Pcs, Swapping
<1> QED
  BY <1>1 DEF OthersKept, ReqRecord

-----------------------------------------------------------------------------
(* Types *)

(* Two bounded counters that a step increments or leaves alone. *)
LEMMA Counted ==
  ASSUME ManagerAssumption, ManagerTypeOK
  PROVE  /\ AskedFor => asks' \in 0..MaxAsks
         /\ Fault => faults' \in 0..MaxFaults
BY DEF ManagerAssumption, ManagerTypeOK, AskedFor, Fault

(* The steps of an update keep the types. *)
LEMMA InstallTypes ==
  ASSUME ManagerAssumption, ManagerTypeOK, NEW r \in Requests, InstallStep(r)
  PROVE  ManagerTypeOK'
<1>0. inst[r] \in ReqRecord
  BY DEF ManagerTypeOK, ReqRecord, Pcs
<1>1. inst' \in [Requests -> ReqRecord]
  <2>1. CASE Admit(r)
    BY <2>1, FinishEffect, AdmitEffect DEF Admit, OthersKept
  <2>2. CASE Fetch(r)
    BY <2>2, FinishEffect, FetchEffect DEF Fetch, Finish, OthersKept
  <2>3. CASE MoveAway(r)
    BY <2>3, FinishEffect, MoveEffect DEF MoveAway, Finish, OthersKept
  <2>4. CASE Place(r) \/ Verify(r) \/ Remove(r) \/ Restore(r)
    <3>1. Finish(r) \/ \E pc \in {"verify", "remove", "restore"} : GoOn(r, pc)
      BY <2>4 DEF Place, Verify, Remove, Restore
    <3> QED
      BY <3>1, FinishEffect, GoOnEffect DEF Finish, OthersKept, Pcs, Swapping
  <2> QED
    BY <2>1, <2>2, <2>3, <2>4 DEF InstallStep
<1>2. live' \in Trees /\ backups' \subseteq Trees \ {NoTree}
  <2>1. {inst[r].rel, inst[r].backup, NoTree, Torn} \subseteq Trees
    BY <1>0 DEF ReqRecord, Trees, Versions, NoTree, ManagerAssumption
  <2> QED
    BY <2>1 DEF ManagerTypeOK, InstallStep, Admit, Fetch, MoveAway, Place, Verify, Remove, Restore,
                PutBack, treeVars
<1>3. working' \in Versions \ Broken
  BY DEF ManagerTypeOK, InstallStep, Admit, Fetch, MoveAway, Place, Verify, Remove, Restore,
         Loads, treeVars
<1>4. busy' \in BOOLEAN /\ hurt' \in BOOLEAN
  BY Zenon DEF ManagerTypeOK, InstallStep, Admit, Fetch, MoveAway, Place, Verify, Remove, Restore,
         Finish, GoOn, treeVars
<1>5. faults' \in 0..MaxFaults
  BY Counted DEF ManagerTypeOK, InstallStep, Admit, Fetch, MoveAway, Place, Verify, Remove, Restore
<1>6. UNCHANGED <<page, latest, shown, gate, wedged, term, stopping, service, asks>>
  BY DEF InstallStep, Admit, Fetch, MoveAway, Place, Verify, Remove, Restore, At, procVars
<1> QED
  BY <1>1, <1>2, <1>3, <1>4, <1>5, <1>6 DEF ManagerTypeOK, ReqRecord, Pcs
(* Every step keeps the types. *)
LEMMA TypesKept ==
  ASSUME ManagerAssumption, ManagerTypeOK, [ManagerNext]_managerVars
  PROVE  ManagerTypeOK'
<1>1. inst \in [Requests -> ReqRecord]
  BY DEF ManagerTypeOK, ReqRecord, Pcs
<1>2. ASSUME NEW r \in Requests, Ask(r)
      PROVE  ManagerTypeOK'
  <2>1. inst' \in [Requests -> ReqRecord]
    BY <1>1, <1>2, AskEffect DEF Ask, OthersKept
  <2> QED
    BY <1>2, <2>1, Counted DEF Ask, ManagerTypeOK, ReqRecord, Pcs, treeVars, procVars
<1>3. ASSUME NEW r \in Requests, InstallStep(r)
      PROVE  ManagerTypeOK'
  BY <1>3, InstallTypes
<1>4. CASE Publish \/ Check
  BY <1>4 DEF Publish, Check, ManagerTypeOK, treeVars, procVars, Versions, ManagerAssumption
<1>5. CASE Start \/ Stop \/ StopEndsWait
  <2>1. gate' \in {"none", "opening", "serving", "closing"} /\ asks' \in 0..MaxAsks
    BY <1>5, Counted DEF Start, Stop, StopEndsWait, Dies, ManagerTypeOK
  <2>2. {wedged, term, stopping}' \subseteq BOOLEAN
    BY <1>5 DEF Start, Stop, StopEndsWait, Dies, ManagerTypeOK
  <2>3. UNCHANGED <<page, UpdateVars, service, faults>>
    BY <1>5 DEF Start, Stop, StopEndsWait
  <2> QED
    BY <2>1, <2>2, <2>3 DEF ManagerTypeOK, UpdateVars, treeVars
<1>6. CASE Open \/ Interrupt \/ ServeFails \/ Close \/ Watchdog \/ Wedge
  <2>1. gate' \in {"none", "opening", "serving", "closing"} /\ faults' \in 0..MaxFaults
    BY <1>6, Counted DEF Open, Interrupt, ServeFails, Close, Watchdog, Wedge, Dies, ManagerTypeOK
  <2>2. {wedged, term}' \subseteq BOOLEAN
    BY <1>6 DEF Open, Interrupt, ServeFails, Close, Watchdog, Wedge, Dies, ManagerTypeOK
  <2>3. UNCHANGED GateVars
    BY <1>6 DEF Open, Interrupt, ServeFails, Close, Watchdog, Wedge
  <2> QED
    BY <2>1, <2>2, <2>3 DEF ManagerTypeOK, GateVars, UpdateVars, treeVars
<1>7. CASE ServiceChanges
  <2>1. service' \in BOOLEAN /\ faults' \in 0..MaxFaults
    BY <1>7, Counted DEF ServiceChanges, ManagerTypeOK
  <2> QED
    BY <1>7, <2>1 DEF ServiceChanges, ManagerTypeOK, UpdateVars, treeVars, procVars
<1>8. CASE PowerLoss
  <2>1. inst' \in [Requests -> ReqRecord]
    <3>1. Idle \in ReqRecord
      BY DEF Idle, ReqRecord, Pcs, Trees, ManagerAssumption
    <3> QED
      BY <1>8, <3>1 DEF PowerLoss
  <2>2. hurt' \in BOOLEAN
    BY <1>8 DEF PowerLoss, ManagerTypeOK
  <2> QED
    BY <1>8, <2>1, <2>2, Counted DEF PowerLoss, Dies, ManagerTypeOK, ReqRecord, Pcs
<1>9. CASE PageStarts
  BY <1>9 DEF PageStarts, Loads, ManagerTypeOK, UpdateVars, treeVars
<1>10. CASE UNCHANGED managerVars
  BY <1>10 DEF managerVars, ManagerTypeOK, treeVars, procVars
<1> QED
  BY <1>2, <1>3, <1>4, <1>5, <1>6, <1>7, <1>8, <1>9, <1>10 DEF ManagerNext

(* The page starts on the first version, with nothing asked for. *)
LEMMA InitTypes ==
  ASSUME ManagerAssumption, ManagerInit
  PROVE  ManagerTypeOK
<1>1. 1 \in Versions \ Broken /\ 1 \in Trees
  BY DEF ManagerAssumption, Versions, Trees
<1>2. Idle \in ReqRecord
  BY DEF ManagerAssumption, Idle, ReqRecord, Pcs, Trees
<1>3. 0 \in 0..MaxV /\ 0 \in 0..MaxAsks /\ 0 \in 0..MaxFaults
  BY DEF ManagerAssumption
<1> QED
  BY <1>1, <1>2, <1>3 DEF ManagerInit, ManagerTypeOK, ReqRecord, Pcs

(* The types hold, whatever is asked for and whatever fails. *)
THEOREM TypeCorrect == ManagerSpec => []ManagerTypeOK
<1>1. ManagerInit => ManagerTypeOK
  BY ManagerAssumption, InitTypes
<1>2. ManagerTypeOK /\ [ManagerNext]_managerVars => ManagerTypeOK'
  BY ManagerAssumption, TypesKept
<1> QED
  BY <1>1, <1>2, PTL DEF ManagerSpec

-----------------------------------------------------------------------------
(* The invariant *)

(* While one request works no other does, nor does it begin to. *)
LEMMA OthersWait ==
  ASSUME ManagerIInv, NEW r \in Requests, Working(r), OthersKept(r)
  PROVE  \A q \in Requests \ {r} : ~Working(q) /\ ~Working(q)' /\ StepSound(q)'
<1> SUFFICES ASSUME NEW q \in Requests \ {r}
             PROVE  ~Working(q) /\ ~Working(q)' /\ StepSound(q)'
  OBVIOUS
<1>1. ~Working(q) /\ inst'[q] = inst[q]
  BY DEF ManagerIInv, BusyHasOneOwner, OthersKept
<1>2. ~Working(q)' /\ inst'[q].pc \in {"idle", "found"}
  BY <1>1 DEF Working
<1> QED
  BY <1>1, <1>2 DEF StepSound, FoundInPlace, ReleaseKnown, BackupHeld, PlaceKnown, Swapping

(* A request that works and goes on stays the one that does. *)
LEMMA OwnerGoesOn ==
  ASSUME ManagerIInv, NEW r \in Requests, Working(r), OthersKept(r), Working(r)', busy' = busy,
         StepSound(r)'
  PROVE  BusyHasOneOwner' /\ \A q \in Requests : StepSound(q)'
<1>1. \A q \in Requests \ {r} : ~Working(q)' /\ StepSound(q)'
  BY OthersWait
<1>2. busy
  BY DEF ManagerIInv, BusyHasOneOwner
<1> QED
  BY <1>1, <1>2 DEF BusyHasOneOwner

(* A request that has finished leaves none at work. *)
LEMMA OwnerFinishes ==
  ASSUME ManagerAssumption, ManagerIInv, NEW r \in Requests, Working(r), Finish(r)
  PROVE  /\ BusyHasOneOwner' /\ \A q \in Requests : StepSound(q)' /\ inst'[q].pc \notin Swapping
<1>1. OthersKept(r) /\ inst'[r].pc = "idle"
  BY FinishEffect DEF Finish, ManagerIInv
<1>2. \A q \in Requests \ {r} : ~Working(q)' /\ StepSound(q)'
  BY <1>1, OthersWait
<1>3. ~Working(r)' /\ StepSound(r)'
  BY <1>1 DEF Working, StepSound, FoundInPlace, ReleaseKnown, BackupHeld, PlaceKnown, Swapping
<1>4. \A q \in Requests : ~Working(q)' /\ StepSound(q)'
  BY <1>2, <1>3
<1>5. \A q \in Requests : inst'[q].pc \notin Swapping
  BY <1>4 DEF Working, Swapping
<1>6. BusyHasOneOwner'
  BY <1>4 DEF BusyHasOneOwner, Finish
<1> QED
  BY <1>4, <1>5, <1>6

(* A request at work on the tree is the only one that swaps. *)
LEMMA NobodySwaps ==
  ASSUME ManagerIInv, NEW r \in Requests, Working(r), inst[r].pc \notin Swapping
  PROVE  \A q \in Requests : inst[q].pc \notin Swapping
BY DEF ManagerIInv, BusyHasOneOwner, Working, Swapping

(* The steps of an update. *)
LEMMA InstallSound ==
  ASSUME ManagerAssumption, ManagerIInv, ManagerTypeOK', NEW r \in Requests, InstallStep(r)
  PROVE  ManagerIInv'
<1> USE DEF StepSound, FoundInPlace, ReleaseKnown, BackupHeld, PlaceKnown
<1>0. ManagerTypeOK /\ WorkingKept /\ BusyHasOneOwner /\ QuietTreeLoads /\ StepSound(r)
  BY DEF ManagerIInv
<1> SUFFICES WorkingKept' /\ BusyHasOneOwner' /\ QuietTreeLoads' /\ \A q \in Requests : StepSound(q)'
  BY Zenon DEF ManagerIInv
<1>1. CASE Admit(r)
  <2>1. CASE busy
    <3>1. OthersKept(r) /\ inst'[r].pc = "idle" /\ UNCHANGED <<busy, live, backups, working, hurt>>
      BY <1>0, <1>1, <2>1, FinishEffect DEF Admit, treeVars
    <3>2. \A q \in Requests : /\ Working(q)' <=> Working(q)
                              /\ inst'[q].pc \in Swapping <=> inst[q].pc \in Swapping
                              /\ StepSound(q)'
      BY <1>1, <3>1 DEF Admit, Working, OthersKept, Swapping, ManagerIInv
    <3>3. BusyHasOneOwner'
      BY <1>0, <3>1, <3>2, Zenon DEF BusyHasOneOwner
    <3>4. WorkingKept' /\ QuietTreeLoads'
      BY <1>0, <3>1, <3>2 DEF WorkingKept, QuietTreeLoads, Loads
    <3> QED
      BY <3>2, <3>3, <3>4
  <2>2. CASE ~busy
    <3>1. /\ OthersKept(r) /\ inst'[r].pc = "fetch" /\ inst'[r].from = live
          /\ busy' /\ UNCHANGED <<live, backups, working, hurt>>
      BY <1>0, <1>1, <2>2, AdmitEffect DEF Admit, treeVars
    <3>2. \A q \in Requests : ~Working(q)
      BY <1>0, <2>2 DEF BusyHasOneOwner
    <3>3. \A q \in Requests \ {r} : ~Working(q)' /\ inst'[q].pc \in {"idle", "found"}
      BY <3>1, <3>2 DEF OthersKept, Working
    <3>4. Working(r)' /\ StepSound(r)'
      BY <3>1 DEF Working, Swapping
    <3>5. \A q \in Requests : StepSound(q)'
      BY <3>3, <3>4 DEF Swapping
    <3>6. BusyHasOneOwner'
      BY <3>1, <3>3, <3>4 DEF BusyHasOneOwner
    <3>7. WorkingKept' /\ QuietTreeLoads'
      BY <1>0, <3>1, <3>2 DEF WorkingKept, QuietTreeLoads, Loads, Working, Swapping
    <3> QED
      BY <3>5, <3>6, <3>7
  <2> QED
    BY <2>1, <2>2
<1>2. CASE Fetch(r)
  <2>0. Working(r) /\ inst[r].pc = "fetch" /\ UNCHANGED <<live, backups, working, hurt>>
    BY <1>2 DEF Fetch, At, Working, treeVars
  <2>1. \A q \in Requests : inst[q].pc \notin Swapping
    BY <2>0, NobodySwaps DEF Swapping
  <2>2. WorkingKept' /\ QuietTreeLoads'
    BY <1>0, <2>0, <2>1 DEF WorkingKept, QuietTreeLoads, Loads
  <2>3. CASE Finish(r)
    BY <2>0, <2>2, <2>3, OwnerFinishes
  <2>4. CASE ~Finish(r)
    <3>1. /\ OthersKept(r) /\ inst'[r].pc = "staged" /\ inst'[r].rel \in Versions
          /\ inst'[r].from = inst[r].from /\ busy' = busy
      BY <1>0, <1>2, <2>4, FetchEffect DEF Fetch
    <3>2. StepSound(r)' /\ Working(r)'
      BY <1>0, <2>0, <3>1 DEF Working, Swapping
    <3> QED
      BY <2>0, <2>2, <3>1, <3>2, OwnerGoesOn
  <2> QED
    BY <2>3, <2>4
<1>3. CASE MoveAway(r)
  <2>0. Working(r) /\ inst[r].pc = "staged" /\ UNCHANGED <<working, hurt>>
    BY <1>3 DEF MoveAway, At, Working
  <2>1. \A q \in Requests : inst[q].pc \notin Swapping
    BY <2>0, NobodySwaps DEF Swapping
  <2>2. CASE live = NoTree
    <3>1. Finish(r) /\ UNCHANGED <<live, backups>>
      BY <1>3, <2>2 DEF MoveAway
    <3>2. WorkingKept' /\ QuietTreeLoads'
      BY <1>0, <2>0, <2>1, <3>1 DEF WorkingKept, QuietTreeLoads, Loads
    <3> QED
      BY <2>0, <3>1, <3>2, OwnerFinishes
  <2>3. CASE live # NoTree
    <3>1. /\ OthersKept(r) /\ inst'[r].pc = "moved" /\ inst'[r].backup = live
          /\ inst'[r].from = inst[r].from /\ inst'[r].rel = inst[r].rel /\ busy' = busy
          /\ live' = NoTree /\ backups' = backups \cup {live}
      BY <1>0, <1>3, <2>3, MoveEffect DEF MoveAway
    <3>2. ~hurt => Loads(live)
      BY <1>0, <2>1 DEF QuietTreeLoads
    <3>3. working \in backups'
      BY <1>0, <3>1 DEF WorkingKept
    <3>4. StepSound(r)' /\ Working(r)'
      BY <1>0, <2>0, <3>1, <3>2, <3>3 DEF Working, Swapping, Loads
    <3>5. WorkingKept' /\ QuietTreeLoads'
      BY <2>0, <3>1, <3>3 DEF WorkingKept, QuietTreeLoads, Swapping
    <3> QED
      BY <2>0, <3>1, <3>4, <3>5, OwnerGoesOn
  <2> QED
    BY <2>2, <2>3
<1>4. CASE Place(r)
  <2>0. Working(r) /\ inst[r].pc = "moved" /\ UNCHANGED working
    BY <1>4 DEF Place, At, Working
  <2>1. CASE GoOn(r, "verify") /\ live' = inst[r].rel /\ UNCHANGED <<backups, hurt>>
    <3>1. OthersKept(r) /\ inst'[r].pc = "verify" /\ SameRelease(r) /\ busy' = busy
      BY <1>0, <2>1, GoOnEffect DEF GoOn, Pcs, Swapping
    <3>2. StepSound(r)' /\ Working(r)'
      BY <1>0, <2>0, <2>1, <3>1 DEF Working, Swapping, SameRelease, Loads
    <3>3. WorkingKept' /\ QuietTreeLoads'
      BY <3>1, <3>2 DEF WorkingKept, QuietTreeLoads, Swapping
    <3> QED
      BY <2>0, <3>1, <3>2, <3>3, OwnerGoesOn
  <2>2. CASE PutBack(r) /\ Finish(r) /\ UNCHANGED hurt
    <3>1. WorkingKept' /\ QuietTreeLoads'
      BY <1>0, <2>0, <2>2 DEF WorkingKept, QuietTreeLoads, PutBack, Swapping, Loads
    <3> QED
      BY <2>0, <2>2, <3>1, OwnerFinishes
  <2>3. CASE Finish(r) /\ UNCHANGED backups /\ hurt' = TRUE
    <3>1. WorkingKept' /\ QuietTreeLoads'
      BY <1>0, <2>0, <2>3 DEF WorkingKept, QuietTreeLoads, Swapping
    <3> QED
      BY <2>0, <2>3, <3>1, OwnerFinishes
  <2> QED
    BY <1>4, <2>1, <2>2, <2>3 DEF Place
<1>5. CASE Verify(r)
  <2>0. Working(r) /\ inst[r].pc = "verify" /\ UNCHANGED <<live, backups, hurt>>
    BY <1>5 DEF Verify, At, Working
  <2>1. CASE Finish(r) /\ working' = inst[r].rel /\ Loads(inst[r].rel)
    <3>1. WorkingKept' /\ QuietTreeLoads'
      BY <1>0, <2>0, <2>1 DEF WorkingKept, QuietTreeLoads, Loads
    <3> QED
      BY <2>0, <2>1, <3>1, OwnerFinishes
  <2>2. CASE GoOn(r, "remove") /\ UNCHANGED working
    <3>1. OthersKept(r) /\ inst'[r].pc = "remove" /\ SameRelease(r) /\ busy' = busy
      BY <1>0, <2>2, GoOnEffect DEF GoOn, Pcs, Swapping
    <3>2. StepSound(r)' /\ Working(r)'
      BY <1>0, <2>0, <2>2, <3>1 DEF Working, Swapping, SameRelease, Loads
    <3>3. WorkingKept' /\ QuietTreeLoads'
      BY <3>1, <3>2 DEF WorkingKept, QuietTreeLoads, Swapping
    <3> QED
      BY <2>0, <3>1, <3>2, <3>3, OwnerGoesOn
  <2> QED
    BY <1>5, <2>1, <2>2 DEF Verify
<1>6. CASE Remove(r)
  <2>0. /\ Working(r) /\ inst[r].pc = "remove" /\ GoOn(r, "restore") /\ UNCHANGED <<backups, working>>
        /\ (live' = NoTree /\ hurt' = hurt) \/ (live' = Torn /\ hurt' = TRUE)
    BY <1>6 DEF Remove, At, Working
  <2>1. OthersKept(r) /\ inst'[r].pc = "restore" /\ SameRelease(r) /\ busy' = busy
    BY <1>0, <2>0, GoOnEffect DEF GoOn, Pcs, Swapping
  <2>2. StepSound(r)' /\ Working(r)'
    BY <1>0, <2>0, <2>1 DEF Working, Swapping, SameRelease, Loads
  <2>3. WorkingKept' /\ QuietTreeLoads'
    BY <2>1, <2>2 DEF WorkingKept, QuietTreeLoads, Swapping
  <2> QED
    BY <2>0, <2>1, <2>2, <2>3, OwnerGoesOn
<1>7. CASE Restore(r)
  <2>0. Working(r) /\ inst[r].pc = "restore" /\ Finish(r) /\ UNCHANGED working
    BY <1>7 DEF Restore, At, Working
  <2>1. ASSUME live = NoTree, PutBack(r), UNCHANGED hurt
        PROVE  WorkingKept' /\ QuietTreeLoads'
    BY <1>0, <2>0, <2>1 DEF PutBack, WorkingKept, QuietTreeLoads, Swapping, Loads
  <2>2. ASSUME UNCHANGED backups, hurt'
        PROVE  WorkingKept' /\ QuietTreeLoads'
    BY <1>0, <2>0, <2>2 DEF WorkingKept, QuietTreeLoads, Swapping
  <2>3. (live = NoTree /\ PutBack(r) /\ UNCHANGED hurt) \/ (UNCHANGED backups /\ hurt')
    BY <1>0, <1>7, <2>0 DEF Restore
  <2> QED
    BY <2>0, <2>1, <2>2, <2>3, OwnerFinishes
<1> QED
  BY <1>1, <1>2, <1>3, <1>4, <1>5, <1>6, <1>7 DEF InstallStep
(* Asking for an update is not working on one. *)
LEMMA AskSound ==
  ASSUME ManagerIInv, ManagerTypeOK', NEW r \in Requests, Ask(r)
  PROVE  ManagerIInv'
<1>1. UNCHANGED <<live, backups, working, hurt, busy>>
  BY DEF Ask, treeVars
<1>2. \A q \in Requests :
         inst'[q] = inst[q] \/ (inst[q].pc = "idle" /\ inst'[q].pc = "found")
  BY AskEffect DEF Ask, OthersKept, ManagerIInv
<1>3. \A q \in Requests : /\ Working(q)' <=> Working(q)
                          /\ inst'[q].pc \in Swapping <=> inst[q].pc \in Swapping
  BY <1>2 DEF Working, Swapping
<1>4. \A q \in Requests : StepSound(q)'
  BY <1>1, <1>2 DEF ManagerIInv, StepSound, FoundInPlace, ReleaseKnown, BackupHeld, PlaceKnown,
                   Swapping, Loads
<1>5. BusyHasOneOwner'
  BY <1>1, <1>3, Zenon DEF ManagerIInv, BusyHasOneOwner
<1>6. WorkingKept' /\ QuietTreeLoads'
  BY <1>1, <1>3 DEF ManagerIInv, WorkingKept, QuietTreeLoads, Loads
<1> QED
  BY <1>4, <1>5, <1>6, Zenon DEF ManagerIInv

(* A power loss leaves the tree as it is: it is hurt if a request was swapping. *)
LEMMA PowerLossSound ==
  ASSUME ManagerIInv, ManagerTypeOK', PowerLoss
  PROVE  ManagerIInv'
<1>1. \A q \in Requests : inst'[q].pc = "idle"
  BY DEF PowerLoss, Idle
<1>2. UNCHANGED <<live, backups, working>> /\ busy' = FALSE
  BY DEF PowerLoss
<1>3. ~hurt' => ~hurt /\ \A q \in Requests : inst[q].pc \notin Swapping
  BY DEF PowerLoss
<1>4. BusyHasOneOwner'
  BY <1>1, <1>2 DEF BusyHasOneOwner, Working
<1>5. \A q \in Requests : StepSound(q)'
  BY <1>1 DEF StepSound, FoundInPlace, ReleaseKnown, BackupHeld, PlaceKnown, Swapping
<1>6. WorkingKept' /\ QuietTreeLoads'
  BY <1>2, <1>3 DEF ManagerIInv, WorkingKept, QuietTreeLoads, Loads
<1> QED
  BY <1>4, <1>5, <1>6, Zenon DEF ManagerIInv

(* Nothing else touches the trees or the requests. *)
LEMMA UpdateUntouched ==
  ASSUME ManagerIInv, ManagerTypeOK', UNCHANGED <<treeVars, inst, busy>>
  PROVE  ManagerIInv'
BY DEF ManagerIInv, treeVars, WorkingKept, BusyHasOneOwner, QuietTreeLoads, Working, Loads,
       StepSound, FoundInPlace, ReleaseKnown, BackupHeld, PlaceKnown

(* The invariant is inductive. *)
LEMMA InvariantKept ==
  ASSUME ManagerAssumption, ManagerIInv, [ManagerNext]_managerVars
  PROVE  ManagerIInv'
<1>1. ManagerTypeOK'
  BY TypesKept DEF ManagerIInv
<1>2. ASSUME NEW r \in Requests, Ask(r) \/ InstallStep(r)
      PROVE  ManagerIInv'
  BY <1>1, <1>2, AskSound, InstallSound
<1>3. CASE PowerLoss
  BY <1>1, <1>3, PowerLossSound
<1>4. CASE \/ Publish \/ Check \/ Start \/ Stop \/ StopEndsWait \/ Open \/ Interrupt
          \/ ServeFails \/ Close \/ Watchdog \/ Wedge \/ ServiceChanges \/ PageStarts
  BY <1>1, <1>4, UpdateUntouched
     DEF Publish, Check, Start, Stop, StopEndsWait, Open, Interrupt, ServeFails, Close,
         Watchdog, Wedge, ServiceChanges, PageStarts, GateVars, UpdateVars, procVars
<1>5. CASE UNCHANGED managerVars
  BY <1>1, <1>5, UpdateUntouched DEF managerVars
<1> QED
  BY <1>2, <1>3, <1>4, <1>5 DEF ManagerNext

(* The invariant holds of the manager. *)
THEOREM InvariantHolds == ManagerSpec => []ManagerIInv
<1>1. ManagerInit => ManagerIInv
  <2>1. ManagerInit => ManagerTypeOK
    BY ManagerAssumption, InitTypes
  <2>2. SUFFICES ASSUME ManagerInit PROVE ManagerIInv
    OBVIOUS
  <2>3. Loads(live)
    BY <2>2, ManagerAssumption DEF ManagerInit, ManagerAssumption, Loads, Versions
  <2>4. \A r \in Requests : inst[r].pc = "idle"
    BY <2>2 DEF ManagerInit, Idle
  <2>5. BusyHasOneOwner
    BY <2>2, <2>4 DEF ManagerInit, BusyHasOneOwner, Working
  <2>6. \A r \in Requests : StepSound(r)
    BY <2>4 DEF StepSound, FoundInPlace, ReleaseKnown, BackupHeld, PlaceKnown, Swapping
  <2> QED
    BY <2>1, <2>2, <2>3, <2>5, <2>6 DEF ManagerInit, ManagerIInv, WorkingKept, QuietTreeLoads
<1>2. ManagerIInv /\ [ManagerNext]_managerVars => ManagerIInv'
  BY ManagerAssumption, InvariantKept
<1> QED
  BY <1>1, <1>2, PTL DEF ManagerSpec

(* The version last seen to load is on the disk, and between updates, unless a swap was cut by the
   power or left half done, the tree in place loads. *)
THEOREM ManagerInvHolds == ManagerSpec => []ManagerInv
<1>1. ManagerIInv => ManagerInv
  <2>1. ManagerIInv => IdleTreeLoads
    BY DEF ManagerIInv, IdleTreeLoads, BusyHasOneOwner, QuietTreeLoads, Working, Swapping
  <2> QED
    BY <2>1 DEF ManagerIInv, ManagerInv
<1> QED
  BY <1>1, InvariantHolds, PTL

(* An update that ends without success, and not with the power, leaves the tree it found when it
   was let in, unless a step has been left half done. *)
THEOREM FailedUpdateUndoneHolds == ManagerSpec => FailedUpdateUndone
<1> DEFINE Undone == \A r \in Requests :
                       /\ inst[r].pc \in {"fetch", "staged", "moved", "restore"}
                       /\ inst'[r].pc = "idle" /\ page' # 0 /\ ~hurt'
                       => live' = inst[r].from
<1>1. ManagerIInv /\ [ManagerNext]_managerVars => Undone
  <2> SUFFICES ASSUME ManagerIInv, [ManagerNext]_managerVars, NEW r \in Requests,
                      inst[r].pc \in {"fetch", "staged", "moved", "restore"},
                      inst'[r].pc = "idle", page' # 0, ~hurt'
               PROVE  live' = inst[r].from
    OBVIOUS
  <2>0. StepSound(r) /\ ManagerTypeOK /\ Working(r)
    BY DEF ManagerIInv, Working
  <2>1. ASSUME NEW q \in Requests, Ask(q)
        PROVE  inst'[r] = inst[r]
    BY <2>0, <2>1, AskEffect DEF Ask, OthersKept
  <2>2. ASSUME NEW q \in Requests, InstallStep(q), q # r
        PROVE  inst'[r] = inst[r]
    <3>1. inst[q].pc = "found"
      BY <2>0, <2>2 DEF ManagerIInv, BusyHasOneOwner, Working, InstallStep, Admit, Fetch, MoveAway,
                        Place, Verify, Remove, Restore, At
    <3> QED
      BY <2>0, <2>2, <3>1, FinishEffect, AdmitEffect, ManagerAssumption
         DEF InstallStep, Admit, Fetch, MoveAway, Place, Verify, Remove, Restore, At, OthersKept
  <2>3. CASE InstallStep(r)
    <3>1. CASE Fetch(r)
      BY <2>0, <3>1 DEF Fetch, At, treeVars, StepSound, FoundInPlace
    <3>2. CASE MoveAway(r)
      BY <2>0, <3>2, MoveEffect DEF MoveAway, At, StepSound, FoundInPlace
    <3>3. CASE Place(r)
      BY <2>0, <3>3, GoOnEffect DEF Place, At, PutBack, StepSound, BackupHeld, Swapping, Pcs
    <3>4. CASE Restore(r)
      BY <2>0, <3>4 DEF Restore, At, PutBack, StepSound, BackupHeld, PlaceKnown, Swapping
    <3> QED
      BY <2>3, <3>1, <3>2, <3>3, <3>4 DEF InstallStep, Admit, Verify, Remove, At
  <2>4. CASE PowerLoss
    BY <2>4 DEF PowerLoss
  <2>5. CASE UNCHANGED inst
    BY <2>5
  <2> QED
    BY <2>1, <2>2, <2>3, <2>4, <2>5
       DEF ManagerNext, Publish, Check, Start, Stop, StopEndsWait, Open, Interrupt, ServeFails,
           Close, Watchdog, Wedge, ServiceChanges, PageStarts, GateVars, UpdateVars, managerVars
<1> QED
  BY <1>1, InvariantHolds, PTL DEF ManagerSpec, FailedUpdateUndone

-----------------------------------------------------------------------------
(***************************************************************************)
(* The refinement of UpdatePromise.  That an update is never a step back   *)
(* takes one more relation: a release was the newest when it was fetched,  *)
(* and what it replaces had been published before.                         *)
(***************************************************************************)
NotBack(r) ==
  /\ Working(r) => inst[r].from <= latest
  /\ inst[r].pc \in {"staged"} \cup Swapping => inst[r].rel \in inst[r].from..latest

Forward == live <= latest /\ \A r \in Requests : NotBack(r)

(* Versions and trees are numbers. *)
LEMMA Numbers == ManagerTypeOK => /\ live \in Int /\ latest \in Int
                                  /\ \A r \in Requests : inst[r].from \in Int /\ inst[r].rel \in Int
BY ManagerAssumption DEF ManagerTypeOK, ManagerAssumption, Trees, Versions, NoTree, Torn

(* The requests that a step leaves alone stay in order, however new the newest release is. *)
LEMMA OthersForward ==
  ASSUME ManagerTypeOK, ManagerTypeOK', Forward, latest <= latest', NEW q \in Requests, inst'[q] = inst[q]
  PROVE  NotBack(q)'
<1>1. latest' \in Int
  BY ManagerAssumption DEF ManagerTypeOK, Versions, ManagerAssumption
<1>2. inst[q].from \in Int /\ inst[q].rel \in Int /\ latest \in Int
  BY Numbers
<1>3. NotBack(q)
  BY DEF Forward
<1> QED
  BY <1>1, <1>2, <1>3 DEF NotBack, Working

(* The steps of an update. *)
LEMMA InstallForward ==
  ASSUME ManagerIInv, ManagerIInv', Forward, NEW r \in Requests, InstallStep(r)
  PROVE  Forward'
<1>0. ManagerTypeOK /\ ManagerTypeOK' /\ StepSound(r) /\ NotBack(r) /\ live <= latest /\ latest' = latest
  BY DEF ManagerIInv, Forward, InstallStep, Admit, Fetch, MoveAway, Place, Verify, Remove, Restore, At
<1>1. CASE inst' = [inst EXCEPT ![r] = Idle]
  <2>1. OthersKept(r) /\ NotBack(r)'
    BY <1>0, <1>1, FinishEffect, ManagerAssumption DEF NotBack, Working, Swapping
  <2>2. live' <= latest
    <3>1. CASE live' = live
      BY <1>0, <3>1
    <3>2. CASE PutBack(r) /\ inst[r].pc \in Swapping
      BY <1>0, <3>2 DEF PutBack, NotBack, StepSound, BackupHeld, Working, Swapping
    <3>3. CASE live' = inst[r].rel /\ inst[r].pc \in Swapping
      BY <1>0, <3>3, Numbers DEF NotBack
    <3>4. CASE live' \in {NoTree, Torn}
      BY <1>0, <3>4, Numbers DEF ManagerTypeOK, Versions, NoTree, Torn
    <3> QED
      BY <3>1, <3>2, <3>3, <3>4
         DEF InstallStep, Admit, Fetch, MoveAway, Place, Verify, Remove, Restore, At, treeVars, Swapping
  <2>3. latest <= latest'
    BY <1>0, Numbers
  <2> QED
    BY <1>0, <2>1, <2>2, <2>3, OthersForward DEF OthersKept, Forward
<1>2. ASSUME OthersKept(r), NotBack(r)', live' <= latest
      PROVE  Forward'
  BY <1>0, <1>2, OthersForward, Numbers DEF OthersKept, Forward
<1>3. ASSUME NEW pc \in Swapping, GoOn(r, pc), inst[r].pc \in Swapping, live' <= latest
      PROVE  Forward'
  <2>1. OthersKept(r) /\ inst'[r].pc = pc /\ SameRelease(r)
    BY <1>0, <1>3, GoOnEffect DEF Pcs
  <2>2. NotBack(r)'
    BY <1>0, <1>3, <2>1 DEF NotBack, SameRelease, Working, Swapping
  <2> QED
    BY <1>2, <1>3, <2>1, <2>2
<1>4. CASE Admit(r) /\ ~busy
  BY <1>0, <1>2, <1>4, AdmitEffect DEF Admit, NotBack, Working, Swapping, treeVars
<1>5. CASE Fetch(r) /\ inst' # [inst EXCEPT ![r] = Idle]
  <2>1. inst[r].pc = "fetch" /\ live' = live
    BY <1>5 DEF Fetch, At, treeVars
  <2>2. OthersKept(r) /\ inst'[r].pc = "staged" /\ inst'[r].from = inst[r].from /\ inst'[r].rel = latest
    BY <1>0, <1>5, FetchEffect, ManagerAssumption DEF Fetch, Finish
  <2>3. NotBack(r)'
    BY <1>0, <2>1, <2>2, Numbers DEF NotBack, Working
  <2> QED
    BY <1>0, <1>2, <2>1, <2>2, <2>3
<1>6. CASE MoveAway(r) /\ inst' # [inst EXCEPT ![r] = Idle]
  <2>1. inst[r].pc = "staged" /\ live' = NoTree
    BY <1>6 DEF MoveAway, At, Finish
  <2>2. /\ OthersKept(r) /\ inst'[r].pc = "moved"
        /\ inst'[r].from = inst[r].from /\ inst'[r].rel = inst[r].rel
    BY <1>0, <1>6, MoveEffect DEF MoveAway, Finish
  <2>3. NotBack(r)' /\ NoTree <= latest
    BY <1>0, <2>1, <2>2 DEF NotBack, Working, Swapping, NoTree, ManagerTypeOK, Versions
  <2> QED
    BY <1>2, <2>1, <2>2, <2>3
<1>7. CASE Place(r) /\ inst' # [inst EXCEPT ![r] = Idle]
  BY <1>0, <1>3, <1>7, Numbers DEF Place, At, Finish, NotBack, Swapping
<1>8. CASE Verify(r) /\ inst' # [inst EXCEPT ![r] = Idle]
  BY <1>0, <1>3, <1>8 DEF Verify, At, Finish, Swapping
<1>9. CASE Remove(r)
  <2>1. NoTree <= latest /\ Torn <= latest
    BY <1>0 DEF ManagerTypeOK, Versions, NoTree, Torn
  <2> QED
    BY <1>3, <1>9, <2>1 DEF Remove, At, Swapping
<1> QED
  BY <1>1, <1>4, <1>5, <1>6, <1>7, <1>8, <1>9 DEF InstallStep, Admit, Restore, Finish

(* Releases only become newer; nothing else touches requests or trees. *)
LEMMA ForwardKept ==
  ASSUME ManagerIInv, ManagerIInv', Forward, [ManagerNext]_managerVars
  PROVE  Forward'
<1>0. ManagerTypeOK /\ ManagerTypeOK'
  BY DEF ManagerIInv
<1>1. CASE \E r \in Requests : InstallStep(r)
  BY <1>1, InstallForward
<1>2. ASSUME NEW r \in Requests, Ask(r)
      PROVE  Forward'
  <2>1. latest' = latest /\ live' = live /\ latest <= latest'
    BY <1>0, <1>2, Numbers DEF Ask, treeVars
  <2>2. CASE inst' = inst
    BY <2>1, <2>2 DEF Forward, NotBack, Working
  <2>3. CASE inst' # inst
    <3>1. OthersKept(r) /\ inst'[r].pc = "found"
      BY <1>0, <1>2, <2>3, AskEffect DEF Ask
    <3>2. NotBack(r)'
      BY <3>1 DEF NotBack, Working, Swapping
    <3> QED
      BY <1>0, <2>1, <3>1, <3>2, OthersForward DEF OthersKept, Forward
  <2> QED
    BY <2>2, <2>3
<1>3. CASE PowerLoss
  <2>1. \A r \in Requests : inst'[r].pc = "idle"
    BY <1>3 DEF PowerLoss, Idle
  <2>2. live' <= latest'
    BY <1>3 DEF PowerLoss, Forward
  <2> QED
    BY <2>1, <2>2 DEF Forward, NotBack, Working, Swapping
<1>4. CASE UNCHANGED <<live, inst>> /\ latest' \in {latest, latest + 1}
  <2>1. latest <= latest' /\ live' <= latest'
    BY <1>0, <1>4, Numbers DEF Forward
  <2> QED
    BY <1>0, <1>4, <2>1, OthersForward DEF Forward
<1> QED
  BY <1>1, <1>2, <1>3, <1>4
     DEF ManagerNext, Publish, Check, Start, Stop, StopEndsWait, Open, Interrupt, ServeFails, Close,
         Watchdog, Wedge, ServiceChanges, PageStarts, GateVars, UpdateVars, treeVars, managerVars

(* The tree an appliance ends up with, given where its requests are and what lies in place. *)
LEMMA InUseIs ==
  ASSUME NEW f, NEW tree,
         \A q, r \in Requests : f[q].pc \in Swapping /\ f[r].pc \in Swapping => q = r,
         NEW u, u = IF \E r \in Requests : f[r].pc \in Swapping
                    THEN f[CHOOSE r \in Requests : f[r].pc \in Swapping].backup
                    ELSE tree
  PROVE  /\ \A r \in Requests : f[r].pc \in Swapping => u = f[r].backup
         /\ (\A r \in Requests : f[r].pc \notin Swapping) => u = tree
OBVIOUS

(* A step of the Setup page is an update, a break or nothing. *)
LEMMA AtomicStep ==
  ASSUME ManagerIInv, ManagerIInv', Forward, [ManagerNext]_managerVars
  PROVE  [UP!Next]_(UP!promised)
<1> USE DEF UP!Next, UP!promised, UP!Update, UP!Break
<1>0. ManagerTypeOK /\ ManagerTypeOK' /\ \A r \in Requests : StepSound(r) /\ StepSound(r)'
  BY DEF ManagerIInv
<1>1. /\ \A r \in Requests : inst[r].pc \in Swapping => InUse = inst[r].backup
      /\ (\A r \in Requests : inst[r].pc \notin Swapping) => InUse = live
  <2>1. \A q, r \in Requests : inst[q].pc \in Swapping /\ inst[r].pc \in Swapping => q = r
    BY DEF ManagerIInv, BusyHasOneOwner, Working, Swapping
  <2> QED
    BY <2>1, InUseIs DEF InUse
<1>2. /\ \A r \in Requests : inst'[r].pc \in Swapping => InUse' = inst'[r].backup
      /\ (\A r \in Requests : inst'[r].pc \notin Swapping) => InUse' = live'
  <2>1. \A q, r \in Requests : inst'[q].pc \in Swapping /\ inst'[r].pc \in Swapping => q = r
    BY DEF ManagerIInv, BusyHasOneOwner, Working, Swapping
  <2> QED
    BY <2>1, InUseIs DEF InUse
<1>3. InUse' \in Trees
  BY <1>0, <1>2 DEF ManagerTypeOK
<1>4. CASE UNCHANGED <<InUse, hurt>>
  BY <1>4
<1>5. CASE hurt'
  BY <1>0, <1>3, <1>5 DEF ManagerTypeOK
<1>6. ASSUME UNCHANGED <<live, hurt>>,
             \A q \in Requests : \/ inst[q].pc \notin Swapping /\ inst'[q].pc \notin Swapping
                                \/ inst'[q] = inst[q]
      PROVE  UNCHANGED <<InUse, hurt>>
  BY <1>1, <1>2, <1>6
<1>7. ASSUME NEW r \in Requests, Ask(r)
      PROVE  UNCHANGED <<InUse, hurt>>
  <2>1. inst' = inst \/ (OthersKept(r) /\ inst'[r].pc = "found" /\ inst[r].pc = "idle")
    BY <1>0, <1>7, AskEffect DEF Ask
  <2> QED
    BY <1>6, <1>7, <2>1 DEF Ask, treeVars, OthersKept, Swapping
<1>8. ASSUME NEW r \in Requests, InstallStep(r)
      PROVE  [UP!Next]_(UP!promised)
  <2>0. StepSound(r) /\ StepSound(r)' /\ NotBack(r)
    BY <1>0 DEF Forward
  \* A step of the request that works, the tree in place being what is in use before and after,
  \* or its backup being that.
  <2>1. CASE Admit(r)
    <3>1. OthersKept(r) /\ inst'[r].pc \in {"idle", "fetch"}
      BY <1>0, <2>1, FinishEffect, AdmitEffect, ManagerAssumption DEF Admit
    <3> QED
      BY <1>4, <1>6, <2>1, <3>1 DEF Admit, treeVars, OthersKept, Swapping
  <2>2. CASE Fetch(r)
    <3>1. OthersKept(r) /\ inst'[r].pc \in {"idle", "staged"}
      BY <1>0, <2>2, FinishEffect, FetchEffect, ManagerAssumption DEF Fetch, At, Finish
    <3> QED
      BY <1>4, <1>6, <2>2, <3>1 DEF Fetch, At, treeVars, OthersKept, Swapping
  <2>3. CASE MoveAway(r)
    <3>1. InUse = live /\ hurt' = hurt
      BY <1>1, <2>3, NobodySwaps DEF MoveAway, At, Working, Swapping
    <3>2. CASE Finish(r)
      <4>1. OthersKept(r) /\ inst'[r].pc = "idle" /\ live' = live
        BY <1>0, <2>3, <3>2, FinishEffect, MoveEffect, ManagerAssumption DEF Finish, MoveAway
      <4> QED
        BY <1>4, <1>6, <2>3, <3>1, <4>1 DEF MoveAway, At, OthersKept, Swapping
    <3>3. CASE inst' = [inst EXCEPT ![r].pc = "moved", ![r].backup = live]
      <4>1. inst'[r].pc \in Swapping /\ inst'[r].backup = live
        BY <1>0, <3>3, MoveEffect DEF Swapping
      <4> QED
        BY <1>2, <1>4, <3>1, <4>1
    <3> QED
      BY <2>3, <3>2, <3>3 DEF MoveAway
  <2>4. ASSUME inst[r].pc \in Swapping, Finish(r)
        PROVE  InUse = inst[r].from /\ InUse' = live' /\ InUse = inst[r].backup
    <3>1. \A q \in Requests : inst'[q].pc \notin Swapping
      BY <2>4, OwnerFinishes, ManagerAssumption DEF Working, Swapping
    <3> QED
      BY <1>1, <1>2, <2>0, <2>4, <3>1 DEF StepSound, BackupHeld
  <2>5. ASSUME inst[r].pc \in Swapping, NEW pc \in Swapping, GoOn(r, pc)
        PROVE  InUse' = InUse
    <3>1. inst'[r].pc = pc /\ SameRelease(r)
      BY <1>0, <2>5, GoOnEffect DEF Pcs
    <3> QED
      BY <1>1, <1>2, <2>5, <3>1 DEF SameRelease
  <2>6. CASE Place(r)
    <3>1. inst[r].pc \in Swapping
      BY <2>6 DEF Place, At, Swapping
    <3>2. CASE GoOn(r, "verify") /\ UNCHANGED hurt
      BY <1>4, <2>5, <3>1, <3>2 DEF Swapping
    <3>3. CASE PutBack(r) /\ Finish(r) /\ UNCHANGED hurt
      BY <1>4, <2>4, <3>1, <3>3 DEF PutBack
    <3>4. CASE hurt'
      BY <1>5, <3>4
    <3> QED
      BY <2>6, <3>2, <3>3, <3>4 DEF Place
  <2>7. CASE Verify(r)
    <3>1. inst[r].pc = "verify" /\ UNCHANGED <<live, hurt>>
      BY <2>7 DEF Verify, At
    <3>2. CASE Finish(r) /\ Loads(inst[r].rel)
      <4>1. InUse = inst[r].from /\ InUse' = inst[r].rel
        BY <2>0, <2>4, <3>1, <3>2 DEF StepSound, PlaceKnown, Swapping
      <4>2. inst[r].rel >= inst[r].from
        BY <1>0, <2>0, <3>1, Numbers DEF NotBack, Swapping
      <4> QED
        BY <3>1, <3>2, <4>1, <4>2 DEF Loads
    <3>3. CASE GoOn(r, "remove")
      BY <1>4, <2>5, <3>1, <3>3 DEF Swapping
    <3> QED
      BY <2>7, <3>2, <3>3 DEF Verify
  <2>8. CASE Remove(r)
    BY <1>4, <1>5, <2>5, <2>8 DEF Remove, At, Swapping
  <2>9. CASE Restore(r)
    <3>1. inst[r].pc = "restore" /\ Finish(r)
      BY <2>9 DEF Restore, At
    <3>2. CASE PutBack(r) /\ UNCHANGED hurt
      BY <1>4, <2>4, <3>1, <3>2 DEF PutBack, Swapping
    <3>3. CASE live # NoTree /\ UNCHANGED hurt
      BY <1>5, <2>0, <3>1, <3>3 DEF StepSound, PlaceKnown
    <3>4. CASE hurt'
      BY <1>5, <3>4
    <3> QED
      BY <2>9, <3>2, <3>3, <3>4 DEF Restore
  <2> QED
    BY <1>8, <2>1, <2>2, <2>3, <2>6, <2>7, <2>8, <2>9 DEF InstallStep
<1>9. CASE PowerLoss
  <2>1. \A r \in Requests : inst'[r].pc \notin Swapping
    BY <1>9 DEF PowerLoss, Idle, Swapping
  <2>2. CASE \E r \in Requests : inst[r].pc \in Swapping
    BY <1>5, <1>9, <2>2 DEF PowerLoss
  <2>3. CASE \A r \in Requests : inst[r].pc \notin Swapping
    <3>1. InUse' = InUse
      BY <1>1, <1>2, <1>9, <2>1, <2>3 DEF PowerLoss
    <3>2. hurt' = hurt
      BY <1>0, <1>9, <2>3 DEF PowerLoss, ManagerTypeOK
    <3> QED
      BY <1>4, <3>1, <3>2
  <2> QED
    BY <2>2, <2>3
<1>10. CASE UNCHANGED <<live, hurt, inst>>
  BY <1>4, <1>6, <1>10
<1> QED
  BY <1>4, <1>7, <1>8, <1>9, <1>10
     DEF ManagerNext, Publish, Check, Start, Stop, StopEndsWait, Open, Interrupt, ServeFails, Close,
         Watchdog, Wedge, ServiceChanges, PageStarts, GateVars, UpdateVars, treeVars, managerVars

(* An update is atomic and never a step back: GateManager implements UpdatePromise, for any number
   of requests, releases and faults. *)
THEOREM UpdateIsAtomicHolds == ManagerSpec => UpdateIsAtomic
<1>1. ManagerInit => Forward /\ UP!Init
  <2>1. SUFFICES ASSUME ManagerInit PROVE Forward /\ UP!Init
    OBVIOUS
  <2>2. \A r \in Requests : inst[r].pc = "idle"
    BY <2>1 DEF ManagerInit, Idle
  <2>3. live = 1 /\ latest = 1 /\ hurt = FALSE /\ Loads(live)
    BY <2>1, ManagerAssumption DEF ManagerInit, ManagerAssumption, Loads, Versions
  <2>4. Forward
    BY <2>2, <2>3 DEF Forward, NotBack, Working, Swapping
  <2>5. InUse = live
    BY <2>2 DEF InUse, Swapping
  <2> QED
    BY <2>3, <2>4, <2>5 DEF UP!Init, Loads
<1>2. ManagerIInv /\ ManagerIInv' /\ Forward /\ [ManagerNext]_managerVars
      => Forward' /\ [UP!Next]_(UP!promised)
  BY ForwardKept, AtomicStep
<1> QED
  BY <1>1, <1>2, InvariantHolds, PTL DEF ManagerSpec, UpdateIsAtomic, UP!Spec
=============================================================================
