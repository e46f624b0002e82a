----------------------------- MODULE TxPromise -----------------------------
(***************************************************************************)
(* What the gate promises about its transmitter, as its operator sees it:  *)
(* RF starts only for a connected client whose connection lifted the       *)
(* latch, every transmission ends, and a client that goes leaves a silent, *)
(* latched transmitter behind.  TxGuard implements this specification as   *)
(* long as the radio keeps its session.                                    *)
(***************************************************************************)
VARIABLES client, armed, onAir

promise == <<client, armed, onAir>>

Init == ~client /\ ~armed /\ ~onAir

(* A client connects; an rx-only gate stays latched. *)
ClientComes ==
  /\ ~client /\ client' = TRUE
  /\ armed' \in BOOLEAN
  /\ UNCHANGED onAir

StartRf ==
  /\ client /\ armed /\ ~onAir
  /\ onAir' = TRUE
  /\ UNCHANGED <<client, armed>>

EndRf ==
  /\ onAir /\ onAir' = FALSE
  /\ UNCHANGED <<client, armed>>

ClientGoes ==
  /\ client /\ ~onAir
  /\ client' = FALSE /\ armed' = FALSE
  /\ UNCHANGED onAir

Next == ClientComes \/ StartRf \/ EndRf \/ ClientGoes

Safety == Init /\ [][Next]_promise
Spec == Safety /\ WF_promise(EndRf)
=============================================================================
