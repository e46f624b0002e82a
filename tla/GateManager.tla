----------------------------- MODULE GateManager -----------------------------
(***************************************************************************)
(* The Setup page (setup.py) as the keeper of an appliance: it starts and  *)
(* stops the gate process, and installs published releases over the tree   *)
(* both of them run from (updater.py). The gate itself is seen from        *)
(* outside: what its main thread does about a stop (__main__.py).          *)
(*                                                                         *)
(* Each HTTP request is a thread. _lock guards the process handle and is   *)
(* held through a whole stop; _update_lock guards _update_busy only.       *)
(* A version that is Broken unpacks well but does not load on this machine. *)
(* pgrep is there: without it _find_gate sees the page's own gate only.    *)
(***************************************************************************)
EXTENDS Integers, FiniteSets

CONSTANTS
  Requests,    \* threads that serve /api/update/install
  MaxV,        \* bounds the versions published
  Broken,      \* the versions that do not load here
  MaxAsks,     \* bounds asks: starts, stops and installs asked for
  MaxFaults    \* bounds faults: power losses, wedged drivers, moves, renames and removals
               \* that fail, imports that time out, gates systemd starts

ASSUME ManagerAssumption ==
  /\ MaxV \in Nat \ {0} /\ Broken \subseteq 2..MaxV
  /\ MaxAsks \in Nat /\ MaxFaults \in Nat

VARIABLES
  page,        \* the version the Setup page was started from, 0 when it is down
  latest,      \* the newest release
  shown,       \* UPD_TAG of the browser's tab, 0 when none was offered
  live,        \* the tree at live_pkg_dir: a version, NoTree or Torn
  backups,     \* the trees kept beside it
  inst,        \* per request: where it is, its tag, the release and the backup it works with
  busy,        \* _update_busy
  gate,        \* the page's gate process (_proc): "none", "opening", "serving", "closing"
  wedged,      \* the driver's calls never return in this gate process
  term,        \* a SIGTERM waits for the gate's main thread
  stopping,    \* a stop request waits for the gate, holding _lock
  service,     \* a gate of systemd runs
  asks, faults,
  working,     \* history: the version last seen to load here
  hurt         \* history: the power went in a swap, or a move, a removal or the way back
               \* was left half done

treeVars == <<live, backups, working, hurt>>
procVars == <<gate, wedged, term>>
managerVars == <<page, latest, shown, treeVars, inst, busy, procVars, stopping, service,
                 asks, faults>>

Versions == 1..MaxV
NoTree == 0
Torn == -1           \* what rmtree left of a tree, or a copy that broke off made of one
Trees == Versions \cup {NoTree, Torn}
Loads(tree) == tree \in Versions \ Broken

Idle == [pc |-> "idle", tag |-> 0, rel |-> 0, backup |-> NoTree, from |-> NoTree]
Swapping == {"moved", "verify", "remove", "restore"}     \* between the two renames, or before
                                                         \* the tree has been seen to load
ManagerInit ==
  /\ page = 1 /\ latest = 1 /\ shown = 0
  /\ live = 1 /\ backups = {} /\ working = 1 /\ hurt = FALSE
  /\ inst = [r \in Requests |-> Idle] /\ busy = FALSE
  /\ gate = "none" /\ wedged = FALSE /\ term = FALSE
  /\ stopping = FALSE /\ service = FALSE
  /\ asks = 0 /\ faults = 0

Up == page # 0
AskedFor == asks < MaxAsks /\ asks' = asks + 1
Fault == faults < MaxFaults /\ faults' = faults + 1

-----------------------------------------------------------------------------
(* The update: /api/update, and the steps of one /api/update/install. *)

Publish ==
  /\ latest < MaxV /\ latest' = latest + 1
  /\ UNCHANGED <<page, shown, treeVars, inst, busy, procVars, stopping, service, asks, faults>>

\* The version on disk, read from __init__.py; the one imported when that cannot be read.
InstalledVersion == IF live \in Versions THEN live ELSE page

\* The tab keeps an offer when a later check has nothing to offer.
Check ==
  /\ Up /\ latest > InstalledVersion
  /\ shown' = latest
  /\ UNCHANGED <<page, latest, treeVars, inst, busy, procVars, stopping, service, asks, faults>>

\* _find_gate needs _lock. What it finds is not held on to.
Ask(r) ==
  /\ Up /\ ~stopping /\ inst[r].pc = "idle" /\ shown # 0 /\ AskedFor
  /\ IF gate # "none" \/ service
     THEN UNCHANGED inst
     ELSE inst' = [inst EXCEPT ![r].pc = "found", ![r].tag = shown]
  /\ UNCHANGED <<page, latest, shown, treeVars, busy, procVars, stopping, service, faults>>

Admit(r) ==
  /\ inst[r].pc = "found"
  /\ IF busy
     THEN inst' = [inst EXCEPT ![r] = Idle] /\ UNCHANGED busy
     ELSE busy' = TRUE /\ inst' = [inst EXCEPT ![r].pc = "fetch", ![r].from = live]
  /\ UNCHANGED <<page, latest, shown, treeVars, procVars, stopping, service, asks, faults>>

At(r, pc) ==
  /\ inst[r].pc = pc
  /\ UNCHANGED <<page, latest, shown, procVars, stopping, service, asks>>

\* The finally of _update_install.
Finish(r) == busy' = FALSE /\ inst' = [inst EXCEPT ![r] = Idle]
GoOn(r, pc) == inst' = [inst EXCEPT ![r].pc = pc] /\ UNCHANGED busy

\* No network, a release other than the one shown, a download that fails or is not a gate:
\* nothing has been changed. Else the release lies unpacked beside the live tree.
Fetch(r) ==
  /\ At(r, "fetch") /\ UNCHANGED <<treeVars, faults>>
  /\ \/ Finish(r)
     \/ /\ latest = inst[r].tag
        /\ inst' = [inst EXCEPT ![r].pc = "staged", ![r].rel = latest] /\ UNCHANGED busy

\* Every backup has the same name, and replaces the one before.
MoveAwayBug(r) ==
  /\ At(r, "staged") /\ UNCHANGED <<working, hurt, faults>>
  /\ IF live = NoTree
     THEN Finish(r) /\ UNCHANGED <<live, backups>>
     ELSE /\ live' = NoTree /\ backups' = {live}
          /\ inst' = [inst EXCEPT ![r].pc = "moved", ![r].backup = live] /\ UNCHANGED busy

MoveAway(r) ==
  /\ At(r, "staged") /\ UNCHANGED <<working, hurt, faults>>
  /\ IF live = NoTree
     THEN Finish(r) /\ UNCHANGED <<live, backups>>
     ELSE /\ live' = NoTree /\ backups' = backups \cup {live}
          /\ inst' = [inst EXCEPT ![r].pc = "moved", ![r].backup = live] /\ UNCHANGED busy

PutBack(r) == live' = inst[r].backup /\ backups' = backups \ {inst[r].backup}

\* A move that fails is only reported.
PlaceBug(r) ==
  /\ At(r, "moved") /\ UNCHANGED <<working, hurt>>
  /\ \/ live' = inst[r].rel /\ GoOn(r, "verify") /\ UNCHANGED <<backups, faults>>
     \/ Fault /\ Finish(r) /\ UNCHANGED <<live, backups>>

\* shutil.move renames; where it cannot, it copies and then removes the source. What has been
\* copied by then is in the way of the backup: the rename that is to put it back raises, or
\* fails for a reason of its own, and neither is seen to again.
Place(r) ==
  /\ At(r, "moved") /\ UNCHANGED working
  /\ \/ live' = inst[r].rel /\ GoOn(r, "verify") /\ UNCHANGED <<backups, hurt, faults>>
     \/ Fault /\ PutBack(r) /\ Finish(r) /\ UNCHANGED hurt
     \/ /\ Fault /\ Finish(r) /\ UNCHANGED backups
        /\ live' \in {NoTree, Torn, inst[r].rel} /\ hurt' = TRUE

\* An import that failed is reported, and the release stays.
VerifyBug(r) ==
  /\ At(r, "verify") /\ Finish(r) /\ UNCHANGED <<live, backups, hurt, faults>>
  /\ IF Loads(inst[r].rel) THEN working' = inst[r].rel ELSE UNCHANGED working

\* The import in a subprocess, which may also time out.
Verify(r) ==
  /\ At(r, "verify") /\ UNCHANGED <<live, backups, hurt>>
  /\ \/ Loads(inst[r].rel) /\ working' = inst[r].rel /\ Finish(r) /\ UNCHANGED faults
     \/ /\ GoOn(r, "remove") /\ UNCHANGED working
        /\ IF Loads(inst[r].rel) THEN Fault ELSE UNCHANGED faults

\* rmtree with ignore_errors.
Remove(r) ==
  /\ At(r, "remove") /\ GoOn(r, "restore") /\ UNCHANGED <<backups, working>>
  /\ \/ live' = NoTree /\ UNCHANGED <<hurt, faults>>
     \/ live' = Torn /\ hurt' = TRUE /\ Fault

\* A rename onto what rmtree left raises, and the handler only looks for a missing tree.
Restore(r) ==
  /\ At(r, "restore") /\ Finish(r) /\ UNCHANGED working
  /\ \/ live = NoTree /\ PutBack(r) /\ UNCHANGED <<hurt, faults>>
     \/ live # NoTree /\ UNCHANGED <<live, backups, hurt, faults>>
     \/ live = NoTree /\ Fault /\ hurt' = TRUE /\ UNCHANGED <<live, backups>>

InstallStep(r) ==
  Admit(r) \/ Fetch(r) \/ MoveAway(r) \/ Place(r) \/ Verify(r) \/ Remove(r) \/ Restore(r)

-----------------------------------------------------------------------------
(* The gate process: _start and the stop of do_POST, and main of __main__.py. *)

UpdateVars == <<latest, shown, treeVars, inst, busy>>
Dies == gate' = "none" /\ wedged' = FALSE /\ term' = FALSE

\* A tree that is not there, or does not load, is a process that exits at once.
Start ==
  /\ Up /\ ~stopping /\ gate = "none" /\ AskedFor
  /\ gate' = IF Loads(live) THEN "opening" ELSE "none"
  /\ UNCHANGED <<page, UpdateVars, wedged, term, stopping, service, faults>>

Stop ==
  /\ Up /\ ~stopping /\ gate # "none" /\ AskedFor
  /\ term' = TRUE /\ stopping' = TRUE
  /\ UNCHANGED <<page, UpdateVars, gate, wedged, service, faults>>

\* The gate has exited, or five seconds have passed and it is killed.
StopEndsWait ==
  /\ stopping /\ stopping' = FALSE /\ Dies
  /\ UNCHANGED <<page, UpdateVars, service, asks, faults>>

GateVars == <<page, UpdateVars, stopping, service, asks>>

\* adapter.open() returns, or fails and leaves for the finally.
Open ==
  /\ gate = "opening" /\ ~wedged
  /\ gate' \in {"serving", "closing"}
  /\ UNCHANGED <<GateVars, wedged, term, faults>>

\* _graceful: KeyboardInterrupt in the main thread, unless that is inside a driver's call.
\* In adapter.close() it is not caught: the close is cut short.
Interrupt ==
  /\ term
  /\ \/ /\ gate = "serving" \/ (gate = "opening" /\ ~wedged)
        /\ gate' = "closing" /\ term' = FALSE /\ UNCHANGED wedged
     \/ gate = "closing" /\ ~wedged /\ Dies
  /\ UNCHANGED <<GateVars, faults>>

\* serve() raises.
ServeFails ==
  /\ gate = "serving" /\ Fault
  /\ gate' = "closing"
  /\ UNCHANGED <<GateVars, wedged, term>>

Close ==
  /\ gate = "closing" /\ ~wedged /\ Dies
  /\ UNCHANGED <<GateVars, faults>>

\* Cleanup is waited for without a limit.
WatchdogBug ==
  /\ gate = "closing" /\ ~wedged /\ Dies
  /\ UNCHANGED <<GateVars, faults>>

\* _force_exit, SHUTDOWN_GRACE_S after close() was called.
Watchdog ==
  /\ gate = "closing" /\ Dies
  /\ UNCHANGED <<GateVars, faults>>

-----------------------------------------------------------------------------
(* The appliance. *)

Wedge ==
  /\ gate # "none" /\ ~wedged /\ Fault
  /\ wedged' = TRUE
  /\ UNCHANGED <<GateVars, gate, term>>

ServiceChanges ==
  /\ service' = ~service
  /\ IF service THEN UNCHANGED faults ELSE Fault
  /\ UNCHANGED <<page, UpdateVars, procVars, stopping, asks>>

\* Or the unit of the page is killed, with every process it started.
PowerLoss ==
  /\ Up /\ Fault
  /\ page' = 0 /\ busy' = FALSE /\ inst' = [r \in Requests |-> Idle]
  /\ stopping' = FALSE /\ service' = FALSE /\ Dies
  /\ hurt' = (hurt \/ \E r \in Requests : inst[r].pc \in Swapping)
  /\ UNCHANGED <<latest, shown, live, backups, working, asks>>

\* systemd restarts the page as often as it takes; a profile may be flagged autostart.
PageStarts ==
  /\ ~Up /\ Loads(live)
  /\ page' = live
  /\ gate' \in {"none", "opening"}
  /\ UNCHANGED <<UpdateVars, wedged, term, stopping, service, asks, faults>>

ManagerNext ==
  \/ Publish \/ Check \/ \E r \in Requests : Ask(r) \/ InstallStep(r)
  \/ Start \/ Stop \/ StopEndsWait
  \/ Open \/ Interrupt \/ ServeFails \/ Close \/ Watchdog
  \/ Wedge \/ ServiceChanges \/ PowerLoss \/ PageStarts

\* Downloads and the import have timeouts, and so has the wait for the gate; the
\* watchdog is a timer.
ManagerSpec ==
  /\ ManagerInit /\ [][ManagerNext]_managerVars
  /\ \A r \in Requests : WF_managerVars(InstallStep(r))
  /\ WF_managerVars(StopEndsWait) /\ WF_managerVars(Watchdog)

-----------------------------------------------------------------------------
(* Properties *)

ManagerTypeOK ==
  /\ page \in {0} \cup (Versions \ Broken) /\ latest \in Versions /\ shown \in 0..MaxV
  /\ live \in Trees /\ backups \subseteq Trees \ {NoTree}
  /\ inst \in [Requests -> [pc : {"idle", "found", "fetch", "staged"} \cup Swapping,
                            tag : 0..MaxV, rel : 0..MaxV, backup : Trees, from : Trees]]
  /\ gate \in {"none", "opening", "serving", "closing"}
  /\ {busy, wedged, term, stopping, service, hurt} \subseteq BOOLEAN
  /\ asks \in 0..MaxAsks /\ faults \in 0..MaxFaults /\ working \in Versions \ Broken

\* "The previous tree is KEPT, not deleted" (updater.py:28). Whatever has failed, and
\* wherever the power went, the version last seen to load here is still on the disk, if
\* only as a backup.
WorkingKept == working \in backups \cup {live}

\* Between updates the tree on disk loads, unless the power went in a swap, or a move, a
\* removal or the way back was left half done: then nothing puts the backup back (install,
\* updater.py:242-246, 278).
IdleTreeLoads == ~busy /\ ~hurt => Loads(live)

\* An update that ends without success leaves the tree it found when it was let in, whichever
\* step failed and whoever else asked for one, as long as none was left half done.
FailedUpdateUndone ==
  [][\A r \in Requests :
       /\ inst[r].pc \in {"fetch", "staged", "moved", "restore"}
       /\ inst'[r].pc = "idle" /\ page' # 0 /\ ~hurt'
       => live' = inst[r].from]_managerVars

\* The tree the appliance ends up with if the update in flight, should there be one, fails:
\* between the renames it is the backup.
InUse ==
  IF \E r \in Requests : inst[r].pc \in Swapping
  THEN inst[CHOOSE r \in Requests : inst[r].pc \in Swapping].backup
  ELSE live

\* An update is atomic and never a step back: the seven steps of install, with two renames, an
\* import and a rollback among them, are one change of the version in use to a release that
\* has been seen to load, or none. Losses of power in a swap excepted, and moves, removals and
\* renames back that leave it half done.
UP == INSTANCE UpdatePromise
        WITH inUse <- InUse, broken <- hurt, Loadable <- Versions \ Broken
UpdateIsAtomic == UP!Spec

\* No failure keeps the update marked as in progress, which would refuse every later one.
UpdateAnswers == busy ~> ~busy

\* A stop asked for on the page gets rid of the gate, even one whose main thread sits in a
\* driver's call and never sees the SIGTERM.
StopEnds == stopping ~> gate = "none"

\* "A WEDGED DRIVER MUST NOT BE ABLE TO HOLD THE EXIT" (__main__.py:350): a gate that has
\* begun to close ends, with nobody there to kill it.
ClosingEnds == gate = "closing" ~> gate = "none"

\* "REFUSES while a gate is running", as "swapping the code under a live radio session is
\* exactly the surprise this whole feature exists to avoid" (setup.py:558-562).
NoSwapUnderGate ==
  [][\A r \in Requests :
       inst[r].pc = "staged" /\ inst'[r].pc = "moved" => gate = "none"]_managerVars

\* Whatever fails in an update or around it, there is a version on the disk that works,
\* and it is the one in place unless a swap was cut or left half done.
ManagerInv == ManagerTypeOK /\ WorkingKept /\ IdleTreeLoads

\* An update gives an answer, and one that says it failed has put back what it found, unless
\* it was left half done.
UpdateEndsClean == FailedUpdateUndone /\ UpdateAnswers

\* Nothing keeps a gate alive that is to end: neither its page's stop nor its own close.
StopsEnd == StopEnds /\ ClosingEnds
=============================================================================
