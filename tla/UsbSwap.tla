------------------------------ MODULE UsbSwap ------------------------------
(***************************************************************************)
(* The USB CI-V channel of the IC-9700 (UsbCiv): the poller, the tunes of  *)
(* MAIN and the swap (07 B0, a toggle) by which RX2 is read and tuned.     *)
(*                                                                         *)
(* Every transaction holds _lock; what may come between its steps is the   *)
(* radio, which may miss a command or leave a read unanswered, and the     *)
(* engine, whose retune() and set_sub_freq_hz() write the caches without   *)
(* the lock and leave the rest to a thread each.                           *)
(*                                                                         *)
(* A frequency is the band it is on: all that _diff_band tells apart.  The *)
(* radio, external, refuses to put both receivers on one band.             *)
(***************************************************************************)
EXTENDS Naturals

CONSTANTS
  Bands, None,
  Tries,        \* tries of _swap_until (4)
  MainTunes,    \* the bands the engine tunes MAIN to
  SubTunes,     \* the bands the engine tunes RX2 to
  MaxMissed,    \* bounds missed: commands the radio misses
  MaxUnread     \* bounds unread: reads the radio leaves unanswered

ASSUME TunesAssumption ==
  /\ MainTunes \subseteq Bands /\ SubTunes \subseteq Bands /\ None \notin Bands
  /\ Tries \in Nat \ {0} /\ MaxMissed \in Nat /\ MaxUnread \in Nat

VARIABLES
  main, sub,     \* the radio's two receivers
  swapped,       \* RX2 is the selected receiver
  missed, unread,
  phase,         \* of the transaction that holds the lock: "free" if none does
  write,         \* what write_rx2 is to write, None for read_rx2
  home,          \* its local main: the band the swap is verified against
  found,         \* read_rx2: what was read; write_rx2: what the radio took
  left,          \* tries left
  mainCache, rx2Cache, present,    \* main_freq_hz, rx2_freq_hz, rx2_present
  mainJobs, subJobs,               \* threads that wait to tune
  mainTuned      \* history: the engine has tuned MAIN

rig    == <<main, sub, swapped, missed, unread>>
cache  == <<mainCache, rx2Cache, present>>
job    == <<phase, write, home, found, left>>
queued == <<mainJobs, subJobs, mainTuned>>
vars == <<rig, job, cache, queued>>

Phases == {"free", "out", "there", "back"}
Free == phase = "free"
Idle == Free /\ phase' = "free" /\ UNCHANGED <<write, home, found, left>>

Differ(a, b) == a # None /\ b # None /\ a # b

Init ==
  /\ main \in Bands /\ sub \in Bands \ {main} /\ swapped = FALSE
  /\ missed = 0 /\ unread = 0
  /\ phase = "free" /\ write = None /\ home = None /\ found = None /\ left = 0
  /\ mainCache = main /\ rx2Cache = None /\ present = FALSE
  /\ mainJobs = {} /\ subJobs = {} /\ mainTuned = FALSE

-----------------------------------------------------------------------------
(* The radio. *)

\* A read of the selected receiver, now that sw says which one it is.
Answer(f, sw) ==
  \/ f = (IF sw THEN sub ELSE main) /\ UNCHANGED unread
  \/ f = None /\ unread < MaxUnread /\ unread' = unread + 1

\* 07 B0, taken or missed.
Toggle ==
  \/ swapped' = ~swapped /\ UNCHANGED missed
  \/ missed < MaxMissed /\ missed' = missed + 1 /\ UNCHANGED swapped

\* 25 00: the selected receiver is tuned, unless the other is on that band.
Accepts(b) == b # IF swapped THEN main ELSE sub
Tuned(b) ==
  IF ~Accepts(b) THEN UNCHANGED <<main, sub>>
  ELSE IF swapped THEN sub' = b /\ UNCHANGED main
       ELSE main' = b /\ UNCHANGED sub

\* The gate takes the tune for done unless the radio refuses it (FA).
Tune(b, done) ==
  \/ Tuned(b) /\ done = Accepts(b) /\ UNCHANGED missed
  \/ /\ missed < MaxMissed /\ missed' = missed + 1
     /\ done = TRUE /\ UNCHANGED <<main, sub>>

-----------------------------------------------------------------------------
(* Transactions without a swap. *)

ReadMain ==
  /\ Idle
  /\ \E f \in Bands \cup {None} :
       Answer(f, swapped) /\ mainCache' = IF f = None THEN mainCache ELSE f
  /\ UNCHANGED <<main, sub, swapped, missed, rx2Cache, present, queued>>

\* retune(): the cache is written at once, the radio by a thread.
Retune(b) ==
  /\ mainCache' = b /\ mainJobs' = mainJobs \cup {b} /\ mainTuned' = TRUE
  /\ UNCHANGED <<rig, job, rx2Cache, present, subJobs>>

TuneMain(b) ==
  /\ Idle /\ b \in mainJobs
  /\ mainJobs' = mainJobs \ {b}
  /\ \E done \in BOOLEAN : Tune(b, done) /\ mainCache' = IF done THEN b ELSE mainCache
  /\ UNCHANGED <<swapped, unread, rx2Cache, present, subJobs, mainTuned>>

-----------------------------------------------------------------------------
(* The swap. *)

SetSub(b) ==
  /\ rx2Cache' = b /\ subJobs' = subJobs \cup {b}
  /\ UNCHANGED <<rig, job, mainCache, present, mainJobs, mainTuned>>

Begin(b, f) ==
  phase' = "out" /\ write' = b /\ home' = f /\ found' = None /\ left' = Tries

\* read_rx2 reads MAIN first, so that it knows what to return to.
BeginRead ==
  /\ Free
  /\ \E f \in Bands \cup {None} :
       /\ Answer(f, swapped) /\ Begin(None, f)
       /\ mainCache' = IF f = None THEN mainCache ELSE f
  /\ UNCHANGED <<main, sub, swapped, missed, rx2Cache, present, queued>>

\* write_rx2 takes MAIN from the cache.
BeginWrite(b) ==
  /\ Free /\ b \in subJobs
  /\ subJobs' = subJobs \ {b}
  /\ Begin(b, mainCache)
  /\ UNCHANGED <<rig, cache, mainJobs, mainTuned>>

\* Without the check that the swap took, the next step writes at once.
SwapOutBug ==
  /\ phase = "out"
  /\ Toggle /\ phase' = "there" /\ left' = Tries
  /\ UNCHANGED <<main, sub, unread, write, home, found, cache, queued>>

\* _swap_until: one toggle, one read; the last try goes on to the way back.
SwapOut ==
  /\ phase = "out"
  /\ Toggle
  /\ \E f \in Bands \cup {None} :
       /\ Answer(f, swapped')
       /\ IF home = None \/ Differ(f, home) THEN phase' = "there" /\ left' = Tries
          ELSE IF left = 1 THEN phase' = "back" /\ left' = Tries
          ELSE left' = left - 1 /\ UNCHANGED phase
  /\ UNCHANGED <<main, sub, write, home, found, cache, queued>>

ReadThere ==
  /\ phase = "there" /\ write = None
  /\ \E f \in Bands \cup {None} : Answer(f, swapped) /\ found' = f
  /\ phase' = "back"
  /\ UNCHANGED <<main, sub, swapped, missed, write, home, left, cache, queued>>

WriteThere ==
  /\ phase = "there" /\ write # None
  /\ \E done \in BOOLEAN : Tune(write, done) /\ found' = IF done THEN write ELSE None
  /\ phase' = "back"
  /\ UNCHANGED <<swapped, unread, write, home, left, cache, queued>>

\* What a read leaves in the cache: present only on a band other than MAIN's.
Release ==
  /\ phase' = "free" /\ write' = None /\ home' = None /\ found' = None /\ left' = 0
  /\ rx2Cache' = IF found = None THEN rx2Cache ELSE found
  /\ present' = IF found = None \/ write # None THEN present
                ELSE home = None \/ Differ(found, home)
  /\ UNCHANGED mainCache

\* Blind: one toggle back, never verified.
SwapBackBug ==
  /\ phase = "back"
  /\ Toggle /\ Release
  /\ UNCHANGED <<main, sub, unread, queued>>

\* No limit of tries on the way back.
SwapBackEndlessBug ==
  /\ phase = "back" /\ home # None
  /\ Toggle
  /\ \E f \in Bands \cup {None} :
       /\ Answer(f, swapped')
       /\ IF f = home THEN Release
          ELSE UNCHANGED <<phase, write, home, found, left, cache>>
  /\ UNCHANGED <<main, sub, queued>>

SwapBack ==
  /\ phase = "back" /\ home # None
  /\ Toggle
  /\ \E f \in Bands \cup {None} :
       /\ Answer(f, swapped')
       /\ IF f = home \/ left = 1 THEN Release
          ELSE left' = left - 1 /\ UNCHANGED <<phase, write, home, found, cache>>
  /\ UNCHANGED <<main, sub, queued>>

\* MAIN was not read: one toggle, not verified.
SwapBackBlind ==
  /\ phase = "back" /\ home = None
  /\ Toggle /\ Release
  /\ UNCHANGED <<main, sub, unread, queued>>

Swap == SwapOut \/ ReadThere \/ WriteThere \/ SwapBack \/ SwapBackBlind

Next ==
  \/ ReadMain \/ BeginRead \/ Swap
  \/ \E b \in MainTunes : Retune(b) \/ TuneMain(b)
  \/ \E b \in SubTunes : SetSub(b) \/ BeginWrite(b)

Spec == Init /\ [][Next]_vars

-----------------------------------------------------------------------------
(* Properties. *)

TypeOK ==
  /\ {main, sub} \subseteq Bands /\ {swapped, present, mainTuned} \subseteq BOOLEAN
  /\ missed \in 0..MaxMissed /\ unread \in 0..MaxUnread
  /\ phase \in Phases /\ left \in 0..Tries /\ (left = 0 <=> Free)
  /\ {write, home, found, mainCache, rx2Cache} \subseteq Bands \cup {None}
  /\ mainJobs \subseteq MainTunes /\ subJobs \subseteq SubTunes

(* The swap is verified by reads, against the band of MAIN: the radio has  *)
(* answered every read and missed fewer commands than there are tries, and *)
(* the engine has left MAIN alone.                                         *)
Calm == unread = 0 /\ missed < Tries /\ ~mainTuned

(* The verified toggle: whichever commands are missed, MAIN is selected    *)
(* again whenever the lock is released.                                    *)
RestoresMain == Calm /\ Free => ~swapped

(* Tuning RX2 never moves MAIN, however many swaps are missed on the way.  *)
MainUntouched == [][Calm' /\ write # None => main' = main]_vars

(* What read_rx2 shows as RX2 is RX2: a swap that did not take never puts  *)
(* MAIN's frequency on the second slice.                                   *)
ReadTellsRx2 ==
  [][Calm' /\ phase = "back" /\ phase' = "free" /\ write = None /\ found # None
       => rx2Cache' = sub]_vars

(* A transaction ends and frees the lock, also when the band it is to      *)
(* return to is never seen again: set_mode waits for it on AE's thread.    *)
TransactionsEnd == ~Free ~> Free
(* The verified swap leaves the radio as it was: MAIN selected whenever    *)
(* nobody is in a transaction.                                             *)
SwapInv == TypeOK /\ RestoresMain

(* What a transaction does to RX2 or tells of it is about RX2 alone.       *)
SwapSafe == MainUntouched /\ ReadTellsRx2
=============================================================================
