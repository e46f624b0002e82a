------------------------------ MODULE TxSeqBuf ------------------------------
(***************************************************************************)
(* The sending side of an Icom LAN session (UdpBase): the numbered packets *)
(* of send_tracked, the buffer kept for retransmission, its purge, the     *)
(* radio's retransmit requests and stop().                                 *)
(*                                                                         *)
(* Threads: the senders, which stamp a packet under the lock and write it  *)
(* outside; the cadence thread is one of them (the idle keepalive); the    *)
(* reader, which looks a packet up under the lock and writes it outside;   *)
(* and the thread in stop(). The radio is external: it asks for numbers    *)
(* again, one at a time or as a list.                                      *)
(***************************************************************************)
EXTENDS Integers, Sequences

CONSTANTS
  Senders,    \* the threads that call send_tracked; "idle" is the cadence thread
  BufSize,    \* BUFSIZE
  SeqSpan,    \* 2^16
  MaxAsk      \* bounds the length of a retransmit request

ASSUME SeqBufAssumption ==
  BufSize \in Nat /\ SeqSpan \in Nat /\ BufSize + 1 < SeqSpan /\ MaxAsk \in Nat

VARIABLES
  sendSeq,   \* send_seq
  txBuf,     \* _tx_seq_buf in the order of insertion: number, sender, past PURGE_SECONDS
  held,      \* sender -> the packet it has stamped and not written yet
  ask,       \* the numbers of the retransmit request still to answer
  listed,    \* that request came as a list
  found,     \* what the reader has looked up and not written yet
  idleDue,   \* IDLE_PERIOD has passed since _last_idle
  txOpen     \* the socket: "open", "bye" (the 0x05 is sent) or "closed"

seqVars == <<sendSeq, txBuf, held, ask, listed, found, idleDue, txOpen>>

Numbers  == 0..(SeqSpan - 1)
Packet   == [seq : Numbers, by : Senders]
Nothing  == [seq |-> SeqSpan, by |-> "none"]
NotAvailable == [seq |-> SeqSpan, by |-> "control 0"]
Stored   == {[seq |-> txBuf[i].seq, by |-> txBuf[i].by] : i \in DOMAIN txBuf}
SocketOpen    == txOpen # "closed"

SeqInit ==
  /\ sendSeq = 1 /\ txBuf = <<>> /\ held = [s \in Senders |-> Nothing]
  /\ ask = <<>> /\ listed = FALSE /\ found = Nothing
  /\ idleDue = FALSE /\ txOpen = "open"

-----------------------------------------------------------------------------
(* send_tracked. *)

\* At number 0 a new window starts; past BUFSIZE the oldest packet goes.
Kept(seq) ==
  IF seq = 0 THEN <<>> ELSE IF Len(txBuf) > BufSize THEN Tail(txBuf) ELSE txBuf

\* The cadence thread sends when the idle timer has run out.
MaySend(s) == SocketOpen /\ held[s] = Nothing /\ (s = "idle" => idleDue)

\* The counter is read under the lock and moved outside it: a move may be lost.
StampBug(s) ==
  /\ MaySend(s)
  /\ held' = [held EXCEPT ![s] = [seq |-> sendSeq, by |-> s]]
  /\ txBuf' = Append(Kept(sendSeq), [seq |-> sendSeq, by |-> s, old |-> FALSE])
  /\ \/ sendSeq' = (sendSeq + 1) % SeqSpan
     \/ sendSeq' = sendSeq
  /\ UNCHANGED <<ask, listed, found, idleDue, txOpen>>

\* No thread sleeps while the numbers go once around (the model's bound).
Stamp(s) ==
  /\ MaySend(s)
  /\ sendSeq \notin {held[o].seq : o \in Senders} \cup {found.seq}
  /\ held' = [held EXCEPT ![s] = [seq |-> sendSeq, by |-> s]]
  /\ txBuf' = Append(Kept(sendSeq), [seq |-> sendSeq, by |-> s, old |-> FALSE])
  /\ sendSeq' = (sendSeq + 1) % SeqSpan
  /\ UNCHANGED <<ask, listed, found, idleDue, txOpen>>

\* The oldest packets go while they are past their age, up to the first that is not.
Purged == CHOOSE n \in 0..Len(txBuf) : /\ \A i \in 1..n : txBuf[i].old
                                      /\ n < Len(txBuf) => ~txBuf[n + 1].old
Fresh  == SubSeq(txBuf, Purged + 1, Len(txBuf))

\* _purge_old_entries under the lock, then the write outside it, which fails once the
\* socket is closed; the idle timer starts anew all the same.
WriteOut(s) ==
  /\ held[s] # Nothing
  /\ held' = [held EXCEPT ![s] = Nothing]
  /\ txBuf' = Fresh
  /\ idleDue' = FALSE
  /\ UNCHANGED <<sendSeq, ask, listed, found, txOpen>>

IdleTimer ==
  /\ SocketOpen /\ ~idleDue
  /\ idleDue' = TRUE
  /\ UNCHANGED <<sendSeq, txBuf, held, ask, listed, found, txOpen>>

\* PURGE_SECONDS pass for every packet in the buffer.
Age ==
  /\ \E i \in DOMAIN txBuf : ~txBuf[i].old
  /\ txBuf' = [i \in DOMAIN txBuf |-> [txBuf[i] EXCEPT !.old = TRUE]]
  /\ UNCHANGED <<sendSeq, held, ask, listed, found, idleDue, txOpen>>

-----------------------------------------------------------------------------
(* The retransmit requests, in the reader. *)

AskLists == UNION {[1..n -> Numbers] : n \in 1..MaxAsk}

RadioAsks ==
  /\ SocketOpen /\ ask = <<>> /\ found = Nothing
  /\ ask' \in AskLists
  /\ listed' \in {TRUE, Len(ask') > 1}
  /\ UNCHANGED <<sendSeq, txBuf, held, found, idleDue, txOpen>>

\* A list is told of a packet that has gone ("not available"); a single request is not.
LookUp ==
  /\ ask # <<>> /\ found = Nothing
  /\ LET hit == {p \in Stored : p.seq = ask[1]} IN
       \/ found' \in hit
       \/ hit = {} /\ found' = (IF listed THEN NotAvailable ELSE Nothing)
  /\ ask' = Tail(ask)
  /\ UNCHANGED <<sendSeq, txBuf, held, listed, idleDue, txOpen>>

Resend ==
  /\ found # Nothing
  /\ found' = Nothing
  /\ UNCHANGED <<sendSeq, txBuf, held, ask, listed, idleDue, txOpen>>

\* stop(): the 0x05 first, then the socket. The threads end at their next turn.
StopBye ==
  /\ txOpen = "open"
  /\ txOpen' = "bye"
  /\ UNCHANGED <<sendSeq, txBuf, held, ask, listed, found, idleDue>>

StopSocket ==
  /\ txOpen = "bye"
  /\ txOpen' = "closed"
  /\ UNCHANGED <<sendSeq, txBuf, held, ask, listed, found, idleDue>>

TxReader == LookUp \/ Resend
TxNext ==
  \/ \E s \in Senders : Stamp(s) \/ WriteOut(s)
  \/ IdleTimer \/ Age \/ RadioAsks \/ TxReader \/ StopBye \/ StopSocket

-----------------------------------------------------------------------------
(* Properties. *)

SeqTypeOK ==
  /\ sendSeq \in Numbers /\ Stored \subseteq Packet
  /\ held \in [Senders -> Packet \cup {Nothing}]
  /\ ask \in AskLists \cup {<<>>} /\ {listed, idleDue} \subseteq BOOLEAN
  /\ found \in Packet \cup {Nothing, NotAvailable}
  /\ txOpen \in {"open", "bye", "closed"}

(* What can be sent again is the newest run of numbers, without a hole and *)
(* without a number of the lap before, whatever was evicted, purged or     *)
(* dropped at the rollover: the list of a request is answered from it.     *)
NewestKept ==
  /\ Len(txBuf) <= BufSize + 1
  /\ \A i \in DOMAIN txBuf :
       txBuf[i].seq = (IF sendSeq = 0 THEN SeqSpan ELSE sendSeq) - Len(txBuf) + i - 1

(* A number names one packet: two senders never put different packets on   *)
(* the wire under one number, and a retransmission is the packet that was  *)
(* sent under the number asked for.                                        *)
OneNumberOnePacket ==
  LET known == (Stored \cup {held[s] : s \in Senders} \cup {found})
                 \ {Nothing, NotAvailable} IN
    \A p, q \in known : p.seq = q.seq => p = q

(* Every retransmit request is worked off, though what it asks for may be  *)
(* evicted, purged or closed away under the reader.                        *)
RequestsEnd == ask # <<>> ~> ask = <<>>
=============================================================================
