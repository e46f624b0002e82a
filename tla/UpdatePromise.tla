---------------------------- MODULE UpdatePromise ----------------------------
(***************************************************************************)
(* What an update promises, as the owner of the appliance sees it: the     *)
(* version in use changes in one step, to a release that loads here and    *)
(* that is not older, or it does not change at all. Only a swap that the   *)
(* power cuts, or one that can neither be finished nor undone, breaks the  *)
(* promise. GateManager implements this specification, whatever fails and  *)
(* however many ask.                                                       *)
(***************************************************************************)
EXTENDS Integers

CONSTANTS
  Trees,       \* what may lie where the program is looked for, as numbers
  Loadable     \* the versions that load here

VARIABLES inUse, broken

promised == <<inUse, broken>>

Init == inUse \in Loadable /\ ~broken

Update ==
  /\ inUse' \in Loadable /\ inUse' >= inUse
  /\ UNCHANGED broken

(* Nothing is promised of what it leaves in use. *)
Break == broken' = TRUE /\ inUse' \in Trees

Next == Update \/ Break

Spec == Init /\ [][Next]_promised
=============================================================================
