------------------------------ MODULE IcomAuth ------------------------------
(***************************************************************************)
(* The control session of the Icom LAN protocol (Ic9700Handler): discovery *)
(* of the radio, login, the session token with its renewals, the request   *)
(* for the CI-V and audio streams, and the radio's disconnect.             *)
(*                                                                         *)
(* Threads: the reader (On...), one action per datagram; the cadence       *)
(* (AskTick, Renew); the thread in connect() and stop() (Connect..., Stop...). *)
(* The radio is external.  Datagrams to the gate are lost (never taken),   *)
(* reordered, and sometimes repeated.                                      *)
(*                                                                         *)
(* A login is known by its number: tokRequest is drawn anew for each, and  *)
(* the token the radio grants to login n is n.                             *)
(***************************************************************************)
EXTENDS Naturals

CONSTANTS
  AskLimit,     \* _AREYOUTHERE_LIMIT
  MaxLogins,    \* bounds logins
  MaxFaults     \* bounds faults: sessions the radio ends, by expiry or a kick, and
                \* datagrams the network delivers once more

ASSUME BoundsAssumption ==
  AskLimit \in Nat /\ MaxLogins \in Nat /\ MaxFaults \in Nat

VARIABLES
  gate,      \* "connect", "up", "closing", "gone"
  hello,     \* _areyouthere_on
  counter,   \* areyouthere_counter
  tokReq,    \* _tok_request
  token,
  authed,    \* authenticated
  opened,    \* _stream_opened
  ready,     \* stream_ready
  kicked,    \* radio_disconnected
  failed,    \* _fail is set
  logins,    \* history: logins sent so far
  live,      \* the login whose session the radio holds, 0 for none
  faults,
  sent,      \* datagrams on their way to the radio
  got        \* datagrams on their way to the gate

session == <<tokReq, token, authed, opened, ready, kicked, failed, logins>>
authVars == <<gate, hello, counter, session, live, faults, sent, got>>

Logins == 0..MaxLogins

\* A request of the gate, with the tokRequest and the token it carries.
Request == [type : {"hello", "ready", "login", "confirm", "renew", "stream", "remove"},
            req : Logins, tok : Logins]
AnswerTypes == {"here", "ready", "granted", "denied", "caps", "renewed", "rejected",
                "ports", "refused", "kick"}
Answer == [type : AnswerTypes, req : Logins, tok : Logins]

Msg(type, req, tok) == [type |-> type, req |-> req, tok |-> tok]
Plain(type) == Msg(type, 0, 0)

AuthInit ==
  /\ gate = "connect" /\ hello = TRUE /\ counter = 0
  /\ tokReq = 0 /\ token = 0 /\ authed = FALSE /\ opened = FALSE /\ ready = FALSE
  /\ kicked = FALSE /\ failed = FALSE /\ logins = 0
  /\ live = 0 /\ faults = 0
  /\ sent = {} /\ got = {}

Running == gate # "gone"       \* _run: the reader and the cadence thread

-----------------------------------------------------------------------------
(* The cadence thread. *)

\* Giving up is forgotten: the radio is asked for ever.
AskTickBug ==
  /\ Running /\ hello
  /\ sent' = sent \cup {Plain("hello")}
  /\ UNCHANGED <<gate, hello, counter, session, live, faults, got>>

AskTick ==
  /\ Running /\ hello
  /\ IF counter = AskLimit
     THEN hello' = FALSE /\ failed' = TRUE /\ UNCHANGED <<counter, sent>>
     ELSE counter' = counter + 1 /\ sent' = sent \cup {Plain("hello")}
          /\ UNCHANGED <<hello, failed>>
  /\ UNCHANGED <<gate, tokReq, token, authed, opened, ready, kicked, logins, live,
                 faults, got>>

Renew ==
  /\ Running /\ authed
  /\ sent' = sent \cup {Msg("renew", tokReq, token)}
  /\ UNCHANGED <<gate, hello, counter, session, live, faults, got>>

-----------------------------------------------------------------------------
(* The reader. *)

\* A datagram of this type comes in; the network may keep a copy of it.
Receive(type, m) ==
  /\ Running /\ m \in got /\ m.type = type
  /\ \/ got' = got \ {m} /\ UNCHANGED faults
     \/ faults < MaxFaults /\ faults' = faults + 1 /\ UNCHANGED got
  /\ UNCHANGED <<gate, live>>

\* _send_login: tokRequest is drawn anew.
SendLogin ==
  /\ logins < MaxLogins
  /\ logins' = logins + 1 /\ tokReq' = logins + 1
  /\ sent' = sent \cup {Msg("login", logins + 1, 0)}

OnHere(m) ==
  /\ Receive("here", m)
  /\ hello' = FALSE /\ counter' = 0
  /\ sent' = sent \cup {Plain("ready")}
  /\ UNCHANGED session

OnReady(m) ==
  /\ Receive("ready", m)
  /\ SendLogin
  /\ UNCHANGED <<hello, counter, token, authed, opened, ready, kicked, failed>>

\* Any reply to a login is taken for one to the newest.
OnGrantedBug(m) ==
  /\ Receive("granted", m)
  /\ IF authed
     THEN UNCHANGED <<token, authed, sent>>
     ELSE /\ token' = m.tok /\ authed' = TRUE
          /\ sent' = sent \cup {Msg("confirm", tokReq, m.tok)}
  /\ UNCHANGED <<hello, counter, tokReq, opened, ready, kicked, failed, logins>>

OnGranted(m) ==
  /\ Receive("granted", m)
  /\ IF authed \/ m.req # tokReq
     THEN UNCHANGED <<token, authed, sent>>
     ELSE /\ token' = m.tok /\ authed' = TRUE
          /\ sent' = sent \cup {Msg("confirm", tokReq, m.tok)}
  /\ UNCHANGED <<hello, counter, tokReq, opened, ready, kicked, failed, logins>>

OnDenied(m) ==
  /\ Receive("denied", m)
  /\ failed' = TRUE
  /\ UNCHANGED <<hello, counter, tokReq, token, authed, opened, ready, kicked, logins, sent>>

OnCaps(m) ==
  /\ Receive("caps", m)
  /\ sent' = IF ready THEN sent ELSE sent \cup {Msg("stream", tokReq, token)}
  /\ UNCHANGED <<hello, counter, session>>

OnRenewed(m) ==
  /\ Receive("renewed", m)
  /\ sent' = IF opened THEN sent ELSE sent \cup {Msg("stream", tokReq, token)}
  /\ UNCHANGED <<hello, counter, session>>

\* The renewal is refused: log in again on this session.
OnRejected(m) ==
  /\ Receive("rejected", m)
  /\ token' = m.tok
  /\ opened' = FALSE /\ ready' = FALSE
  /\ SendLogin
  /\ UNCHANGED <<hello, counter, authed, kicked, failed>>

OnPorts(m) ==
  /\ Receive("ports", m)
  /\ opened' = TRUE /\ ready' = (ready \/ ~opened)
  /\ UNCHANGED <<hello, counter, tokReq, token, authed, kicked, failed, logins, sent>>

\* No ports, or the error status; while the stream is open that falls
\* through to its ports, which are zero in it.
OnRefused(m) ==
  /\ Receive("refused", m)
  /\ failed' = TRUE /\ opened' = FALSE
  /\ UNCHANGED <<hello, counter, tokReq, token, authed, ready, kicked, logins, sent>>

\* The radio's disconnect is taken for a plain status.
OnKickBug(m) ==
  /\ Receive("kick", m)
  /\ authed' = FALSE /\ opened' = FALSE /\ ready' = FALSE
  /\ UNCHANGED <<hello, counter, tokReq, token, kicked, failed, logins, sent>>

OnKick(m) ==
  /\ Receive("kick", m)
  /\ kicked' = TRUE /\ authed' = FALSE /\ opened' = FALSE /\ ready' = FALSE
  /\ UNCHANGED <<hello, counter, tokReq, token, failed, logins, sent>>

-----------------------------------------------------------------------------
(* connect() and stop(). *)

thread == <<hello, counter, session, live, faults>>

ConnectUp ==
  /\ gate = "connect" /\ ready
  /\ gate' = "up"
  /\ UNCHANGED <<thread, sent, got>>

ConnectTimeout ==
  /\ gate = "connect" /\ ~ready
  /\ gate' = "closing"
  /\ UNCHANGED <<thread, sent, got>>

StopRemove ==
  /\ gate = "up"
  /\ gate' = "closing"
  /\ UNCHANGED <<thread, sent, got>>

\* The token is removed if there is one; then 0x05, and the socket is closed.
StopGone ==
  /\ gate = "closing"
  /\ gate' = "gone"
  /\ sent' = IF authed THEN sent \cup {Msg("remove", tokReq, token)} ELSE sent
  /\ got' = {}
  /\ UNCHANGED thread

-----------------------------------------------------------------------------
(* The radio.  It honours a pair of tokRequest and token it has granted,   *)
(* for as long as that session lives.                                      *)

Take(type, m) ==
  /\ m \in sent /\ m.type = type
  /\ sent' = sent \ {m}
  /\ UNCHANGED <<gate, hello, counter, session, faults>>

\* What comes to a closed socket is dropped.
Reply(a) == got' = IF Running THEN got \cup {a} ELSE got
Valid(m) == m.tok # 0 /\ m.tok = live /\ m.req = m.tok

RadioHere(m)  == Take("hello", m) /\ Reply(Plain("here")) /\ UNCHANGED live
RadioReady(m) == Take("ready", m) /\ Reply(Plain("ready")) /\ UNCHANGED live

\* Logins are tracked: they reach the radio in the order they were sent in.
RadioGrants(m) ==
  /\ Take("login", m) /\ \A o \in sent : o.type = "login" => m.req <= o.req
  /\ Reply(Msg("granted", m.req, m.req))
  /\ live' = m.req

RadioDenies(m) == Take("login", m) /\ Reply(Plain("denied")) /\ UNCHANGED live

RadioConfirms(m) ==
  /\ Take("confirm", m) /\ UNCHANGED live
  /\ IF Valid(m) THEN Reply(Plain("caps")) ELSE UNCHANGED got

RadioRenews(m) ==
  /\ Take("renew", m) /\ UNCHANGED live
  /\ Reply(IF Valid(m) THEN Plain("renewed") ELSE Msg("rejected", m.req, m.tok))

RadioOpens(m) ==
  /\ Take("stream", m) /\ UNCHANGED live
  /\ IF Valid(m) THEN Reply(Plain("ports")) ELSE UNCHANGED got

RadioRefuses(m) ==
  /\ Take("stream", m) /\ UNCHANGED live
  /\ Reply(Plain("refused"))

RadioRemoves(m) ==
  /\ Take("remove", m) /\ UNCHANGED got
  /\ live' = IF Valid(m) THEN 0 ELSE live

\* The radio drops the session, telling the gate or not.
RadioEnds ==
  /\ live # 0 /\ faults < MaxFaults
  /\ live' = 0 /\ faults' = faults + 1
  /\ Reply(Plain("kick")) \/ UNCHANGED got
  /\ UNCHANGED <<gate, hello, counter, session, sent>>

-----------------------------------------------------------------------------

Reader(m) ==
  \/ OnHere(m) \/ OnReady(m) \/ OnGranted(m) \/ OnDenied(m) \/ OnCaps(m) \/ OnRenewed(m)
  \/ OnRejected(m) \/ OnPorts(m) \/ OnRefused(m) \/ OnKick(m)

RadioAnswers(m) ==
  \/ RadioHere(m) \/ RadioReady(m) \/ RadioGrants(m) \/ RadioConfirms(m) \/ RadioRenews(m)
  \/ RadioOpens(m) \/ RadioRemoves(m)

Radio(m) == RadioAnswers(m) \/ RadioDenies(m) \/ RadioRefuses(m)

AuthNext ==
  \/ AskTick \/ Renew \/ RadioEnds
  \/ \E m \in got : Reader(m)
  \/ \E m \in sent : Radio(m)
  \/ ConnectUp \/ ConnectTimeout \/ StopRemove \/ StopGone

\* The cadence thread runs, whatever the radio and the network do.
CadenceSpec == AuthInit /\ [][AuthNext]_authVars /\ WF_authVars(AskTick)

-----------------------------------------------------------------------------
(* Properties. *)

AuthTypeOK ==
  /\ gate \in {"connect", "up", "closing", "gone"}
  /\ {hello, authed, opened, ready, kicked, failed} \subseteq BOOLEAN
  /\ counter \in 0..AskLimit
  /\ {tokReq, token, logins, live} \subseteq Logins
  /\ faults \in 0..MaxFaults
  /\ sent \subseteq Request /\ got \subseteq Answer

(* A session whose streams are handed out is authenticated, unless the     *)
(* gate knows that the radio has ended it: a status with ports that comes  *)
(* late, after the radio's disconnect, cannot pass for a working session.  *)
ReadyHasSession == ready => authed \/ kicked

(* A token is adopted from the reply to the newest login only: "guards     *)
(* against a reply meant for a stale login" (_on_login_response), with     *)
(* several logins on their way.                                            *)
NewestLoginAdopted == [][~authed /\ authed' => token' = logins]_authVars

(* Discovery ends: a radio that does not answer is given up.               *)
DiscoveryEnds == hello ~> ~hello \/ gate = "gone"
(* Whatever the radio answers, late, twice or after it has ended the       *)
(* session, the counters stay in bounds and nothing is handed out that no  *)
(* login stands behind.                                                    *)
SessionInv == AuthTypeOK /\ ReadyHasSession
=============================================================================
