---------------------------- MODULE MenuSettings ----------------------------
(***************************************************************************)
(* The SET menu of the IC-9700 over the LAN CI-V stream: one item, LAN MOD *)
(* Level, which the connect checks and raises (_ensure_lan_mod_ready) and  *)
(* the pages of the control panel read and write (/settings).              *)
(*                                                                         *)
(* Threads: the one in _open ("open"), one of a web request ("web"), and   *)
(* the reader, which dispatches. The radio is external. Commands and       *)
(* replies keep their order and may be lost or late.                       *)
(***************************************************************************)
EXTENDS Integers, Sequences

CONSTANTS
  LevelMin,     \* lan_mod_min
  MaxWeb,       \* bound: accesses of the pages
  MenuWire      \* bound: commands, and replies, on their way

ASSUME MenuAssumption == LevelMin \in Nat \ {0} /\ MaxWeb \in Nat /\ MenuWire \in Nat

Unread  == -1
NoOne   == "free"
Levels  == 0..LevelMin
TooHigh == LevelMin + 1          \* a value the radio refuses
Callers == {"open", "web"}

VARIABLES
  level,      \* the item, in the radio
  menuOut,    \* commands on their way: <<"read">>, or <<"write", v>>
  menuIn,     \* replies on their way: <<"level", v>>, or <<"FA">>
  menu,       \* the item's entry in _menu_replies
  holder,     \* who holds _menu_lock
  pc,         \* a caller: "idle", "read", "reading", "judge", "write", "settle"
  again,      \* its next read is the read-back
  val,        \* the value it has read, or is to write
  refused,    \* an FA was counted since its write
  accesses,   \* of the pages, so far
  span,       \* the levels the radio had since the read in progress began
  mishap      \* "late": a read timed out; "lost": a write was lost;
              \* "web": a page has written

callVars == <<pc, again, val>>
menuVars == <<level, menuOut, menuIn, menu, holder, callVars, refused, accesses, span, mishap>>

MenuInit ==
  /\ level \in Levels /\ menuOut = <<>> /\ menuIn = <<>>
  /\ menu = Unread /\ holder = NoOne
  /\ pc = [c \in Callers |-> IF c = "open" THEN "read" ELSE "idle"]
  /\ again = [c \in Callers |-> FALSE] /\ val = [c \in Callers |-> Unread]
  /\ refused = [c \in Callers |-> FALSE]
  /\ accesses = 0 /\ span = {} /\ mishap = {}

SendMenu(cmd) == Len(menuOut) < MenuWire /\ menuOut' = Append(menuOut, cmd)

-----------------------------------------------------------------------------
(* read_menu and write_menu. *)

\* The entry of the read before is kept.
ReadBug(c) ==
  /\ pc[c] = "read" /\ holder = NoOne /\ SendMenu(<<"read">>)
  /\ holder' = c /\ span' = {level}
  /\ pc' = [pc EXCEPT ![c] = "reading"]
  /\ UNCHANGED <<level, menuIn, menu, again, val, refused, accesses, mishap>>

\* The entry is dropped before the command goes out.
Read(c) ==
  /\ pc[c] = "read" /\ holder = NoOne /\ SendMenu(<<"read">>)
  /\ holder' = c /\ menu' = Unread /\ span' = {level}
  /\ pc' = [pc EXCEPT ![c] = "reading"]
  /\ UNCHANGED <<level, menuIn, again, val, refused, accesses, mishap>>

\* The connect looks at its first read; a page has only what it shows.
ReadEnds(c, v) ==
  /\ pc[c] = "reading" /\ holder' = NoOne /\ span' = {}
  /\ pc' = [pc EXCEPT ![c] = IF c = "open" /\ ~again[c] THEN "judge" ELSE "idle"]
  /\ val' = [val EXCEPT ![c] = IF c = "open" THEN v ELSE Unread]
  /\ UNCHANGED <<level, menuOut, menuIn, menu, again, refused, accesses>>

ReadGot(c) == menu # Unread /\ ReadEnds(c, menu) /\ UNCHANGED mishap

\* 1.5 s are over; an entry that has just landed is not looked at.
ReadTimeout(c) == ReadEnds(c, Unread) /\ mishap' = mishap \cup {"late"}

\* _ensure_lan_mod_ready, after its first read.
Judge ==
  /\ pc["open"] = "judge"
  /\ IF val["open"] = Unread \/ val["open"] >= LevelMin
     THEN pc' = [pc EXCEPT !["open"] = "idle"] /\ UNCHANGED val
     ELSE /\ pc' = [pc EXCEPT !["open"] = "write"]
          /\ val' = [val EXCEPT !["open"] = LevelMin]
  /\ UNCHANGED <<level, menuOut, menuIn, menu, holder, again, refused, accesses, span, mishap>>

\* write_menu takes no lock.
Write(c) ==
  /\ pc[c] = "write" /\ SendMenu(<<"write", val[c]>>)
  /\ pc' = [pc EXCEPT ![c] = "settle"] /\ refused' = [refused EXCEPT ![c] = FALSE]
  /\ mishap' = mishap \cup ({c} \cap {"web"})
  /\ UNCHANGED <<level, menuIn, menu, holder, again, val, accesses, span>>

\* 250 ms later the verdict is given (refused), and the item is read back.
Settle(c) ==
  /\ pc[c] = "settle"
  /\ pc' = [pc EXCEPT ![c] = "read"] /\ again' = [again EXCEPT ![c] = TRUE]
  /\ refused' = [refused EXCEPT ![c] = FALSE] /\ val' = [val EXCEPT ![c] = Unread]
  /\ UNCHANGED <<level, menuOut, menuIn, menu, holder, accesses, span, mishap>>

-----------------------------------------------------------------------------
(* /settings reads the item; /settings/set writes it and reads it back. *)

Access == pc["web"] = "idle" /\ accesses < MaxWeb /\ accesses' = accesses + 1

WebGet ==
  /\ Access /\ pc' = [pc EXCEPT !["web"] = "read"]
  /\ UNCHANGED <<level, menuOut, menuIn, menu, holder, again, val, refused, span, mishap>>

WebSet(v) ==
  /\ Access /\ pc' = [pc EXCEPT !["web"] = "write"] /\ val' = [val EXCEPT !["web"] = v]
  /\ UNCHANGED <<level, menuOut, menuIn, menu, holder, again, refused, span, mishap>>

-----------------------------------------------------------------------------
(* The radio, and the reader that dispatches what it sends. *)

\* A reply: it may be lost.
Replies(r) ==
  \/ Len(menuIn) < MenuWire /\ menuIn' = Append(menuIn, r)
  \/ UNCHANGED menuIn

RigTakes ==
  /\ menuOut # <<>> /\ menuOut' = Tail(menuOut)
  /\ LET cmd == Head(menuOut) IN
     CASE cmd = <<"read">> -> Replies(<<"level", level>>) /\ UNCHANGED <<level, span>>
       [] cmd = <<"write", TooHigh>> -> Replies(<<"FA">>) /\ UNCHANGED <<level, span>>
       [] OTHER -> /\ level' = cmd[2] /\ UNCHANGED menuIn
                   /\ span' = IF holder = NoOne THEN {} ELSE span \cup {cmd[2]}
  /\ UNCHANGED <<menu, holder, callVars, refused, accesses, mishap>>

WriteLost ==
  /\ menuOut # <<>> /\ Head(menuOut) # <<"read">>
  /\ menuOut' = Tail(menuOut) /\ mishap' = mishap \cup {"lost"}
  /\ UNCHANGED <<level, menuIn, menu, holder, callVars, refused, accesses, span>>

\* _dispatch: the item's value, or a refusal, which counts for every write.
Dispatch ==
  /\ menuIn # <<>> /\ menuIn' = Tail(menuIn)
  /\ IF Head(menuIn) = <<"FA">>
     THEN /\ refused' = [c \in Callers |-> refused[c] \/ pc[c] = "settle"]
          /\ UNCHANGED menu
     ELSE menu' = Head(menuIn)[2] /\ UNCHANGED refused
  /\ UNCHANGED <<level, menuOut, holder, callVars, accesses, span, mishap>>

Caller(c) == Read(c) \/ ReadGot(c) \/ ReadTimeout(c) \/ Write(c) \/ Settle(c)

MenuNext ==
  \/ (\E c \in Callers : Caller(c)) \/ Judge
  \/ WebGet \/ (\E v \in {0, TooHigh} : WebSet(v))
  \/ RigTakes \/ WriteLost \/ Dispatch

-----------------------------------------------------------------------------
(* Properties. *)

MenuTypeOK ==
  /\ level \in Levels /\ Len(menuOut) <= MenuWire /\ Len(menuIn) <= MenuWire
  /\ menu \in Levels \cup {Unread} /\ holder \in Callers \cup {NoOne}
  /\ \A c \in Callers :
       /\ pc[c] \in {"idle", "read", "reading", "judge", "write", "settle"}
       /\ {again[c], refused[c]} \subseteq BOOLEAN
       /\ val[c] \in 0..TooHigh \cup {Unread}
       /\ pc[c] = "reading" <=> holder = c
  /\ accesses \in 0..MaxWeb
  /\ span \subseteq Levels /\ mishap \subseteq {"late", "lost", "web"}

(* What a read of the menu is about to return is what the item has been    *)
(* since that read began, once no earlier read has been given up: its      *)
(* reply, on its way still, would be taken for the answer (_menu_replies   *)
(* is keyed by the item alone).                                            *)
ReadIsCurrent ==
  holder # NoOne /\ menu # Unread /\ "late" \notin mishap => menu \in span

(* When the connect has read the level, back or at once, the level is not  *)
(* below the minimum any more or the write is on its way, unless the write *)
(* was lost or a page has written too (_ensure_lan_mod_ready).             *)
LevelRaised ==
  pc["open"] = "idle" /\ val["open"] # Unread /\ mishap \cap {"lost", "web"} = {}
    => level >= LevelMin \/ \E i \in DOMAIN menuOut : menuOut[i] = <<"write", LevelMin>>

(* The check of the LAN MOD Level never holds the connect up, whatever the *)
(* pages do and the network loses.                                         *)
LevelCheckEnds == <>[](pc["open"] = "idle")
=============================================================================
