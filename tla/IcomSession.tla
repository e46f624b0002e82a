---------------------------- MODULE IcomSession ----------------------------
(***************************************************************************)
(* What all three streams of an Icom LAN session rest on: the control      *)
(* session that logs in and hands the others out (IcomAuth), and the       *)
(* window of received numbers that each of them keeps (RxSeqTrack). The    *)
(* two share no state: one is chosen at the start, and the other stays     *)
(* where it is.                                                            *)
(***************************************************************************)
EXTENDS RxSeqTrack, IcomAuth

VARIABLE part     \* the part that is looked at

sessionVars == <<part, vars, authVars>>

WindowPart(A) == part = "window" /\ A /\ UNCHANGED <<part, authVars>>
LoginPart(A)  == part = "login"  /\ A /\ UNCHANGED <<part, vars>>

IcomSessionInit == part \in {"window", "login"} /\ Init /\ AuthInit

IcomSessionNext == WindowPart(Next) \/ LoginPart(AuthNext)

(* The cadence thread runs for as long as the stream does.                 *)
IcomSessionSpec ==
  /\ IcomSessionInit /\ [][IcomSessionNext]_sessionVars
  /\ WF_sessionVars(WindowPart(Tick) \/ LoginPart(AskTick))

-----------------------------------------------------------------------------
(* Properties; those of the parts are in their modules.                    *)

(* DiscoveryEnds of the part that runs: a radio that does not answer is    *)
(* given up, whatever else it or the network does.                         *)
DiscoveryGivesUp == part = "login" => DiscoveryEnds
=============================================================================
