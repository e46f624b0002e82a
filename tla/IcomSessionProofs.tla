-------------------------- MODULE IcomSessionProofs --------------------------
(***************************************************************************)
(* Two parts of an Icom LAN session, each for every value of its           *)
(* constants: the receive window that every stream keeps, and the control  *)
(* session that logs in and hands the streams out.                         *)
(*                                                                         *)
(* The window is one run of consecutive numbers, so its first and last     *)
(* key are its first and last entry; every missing number lies at or       *)
(* below the last one, and no entry at or above a missing number is older  *)
(* than the requests made for it.  A missing number is asked for at most   *)
(* MaxAsk times, fewer than the ticks an entry needs to grow stale: the    *)
(* purge cannot empty a window that still misses one.                      *)
(*                                                                         *)
(* The session: no streams are handed out that no login stands behind,     *)
(* and the token the gate adopts is the newest login's, for any number of  *)
(* logins, of sessions the radio ends and of datagrams lost, delayed,      *)
(* reordered or repeated.                                                  *)
(***************************************************************************)
EXTENDS RxSeqTrack, IcomAuth, SequenceTheorems, TLAPS

Last(b) == b[Len(b)].seq

(* What keeps the purge from emptying a window with missing numbers. *)
Young ==
  \A k \in DOMAIN missing :
    /\ buf # <<>> /\ k <= Last(buf)
    /\ \A i \in DOMAIN buf : buf[i].seq >= k => buf[i].age <= missing[k]

HeardInWindow == heard \subseteq Keys(buf)

WindowInv == WindowTypeOK /\ Contiguous /\ Young /\ HeardInWindow /\ NeverAsksForHeard

IInv == AirTypeOK /\ WindowInv

-----------------------------------------------------------------------------
(* The window as an interval. *)

(* The maximum and the minimum of an interval of integers. *)
LEMMA IntervalBounds ==
  ASSUME NEW a \in Int, NEW b \in Int, a <= b
  PROVE  Max(a..b) = b /\ Min(a..b) = a
  BY DEF Max, Min

(* What the entries of a window are made of. *)
LEMMA EntryParts ==
  ASSUME NEW b \in Seq(Entry)
  PROVE  \A i \in DOMAIN b : /\ b[i] = [seq |-> b[i].seq, age |-> b[i].age]
                             /\ b[i].seq \in SeqNos /\ b[i].seq \in Int
                             /\ b[i].age \in 0..PurgeTicks /\ b[i].age \in Int
<1>1. \A i \in DOMAIN b : b[i] \in Entry
  OBVIOUS
<1>2. \A e \in Entry : /\ e = [seq |-> e.seq, age |-> e.age]
                      /\ e.seq \in SeqNos /\ e.age \in 0..PurgeTicks
  BY DEF Entry
<1>3. SeqNos \subseteq Int /\ 0..PurgeTicks \subseteq Int
  BY SizesAssumption DEF SeqNos
<1> QED BY <1>1, <1>2, <1>3

(* A fresh entry. *)
LEMMA FreshParts ==
  ASSUME NEW s \in SeqNos
  PROVE  Fresh(s) \in Entry /\ Fresh(s).seq = s /\ Fresh(s).age = 0
<1>1. 0 \in 0..PurgeTicks
  BY SizesAssumption
<1> QED BY <1>1 DEF Fresh, Entry

(* The numbers between two numbers. *)
LEMMA GapInSeqNos ==
  ASSUME NEW a \in SeqNos, NEW b \in SeqNos
  PROVE  (a + 1)..(b - 1) \subseteq SeqNos
  BY SizesAssumption DEF SeqNos

(* The larger of two numbers. *)
LEMMA MaxOfTwo ==
  ASSUME NEW a \in Int, NEW b \in Int
  PROVE  Max({a, b}) \in {a, b} /\ Max({a, b}) >= a /\ Max({a, b}) >= b
<1>1. \E x \in {a, b} : \A y \in {a, b} : x >= y
  <2>1. CASE a >= b
    BY <2>1
  <2>2. CASE ~(a >= b)
    BY <2>2
  <2> QED BY <2>1, <2>2
<1> QED BY <1>1 DEF Max

(* The keys of a window without holes are an interval. *)
LEMMA KeysInterval ==
  ASSUME NEW b \in Seq(Entry), b # <<>>,
         \A i \in DOMAIN b : b[i].seq = b[1].seq + i - 1
  PROVE  /\ Keys(b) = b[1].seq .. Last(b)
         /\ b[1].seq \in SeqNos /\ Last(b) \in SeqNos
         /\ Last(b) = b[1].seq + Len(b) - 1
         /\ Len(b) >= 1
<1>1. Len(b) \in Nat /\ Len(b) >= 1 /\ DOMAIN b = 1..Len(b)
  OBVIOUS
<1>2. \A i \in DOMAIN b : b[i].seq \in SeqNos
  BY EntryParts
<1>3. b[1].seq \in SeqNos /\ Last(b) \in SeqNos
  BY <1>1, <1>2 DEF Last
<1>4. Last(b) = b[1].seq + Len(b) - 1
  BY <1>1 DEF Last
<1>5. ASSUME NEW x \in b[1].seq .. Last(b) PROVE x \in Keys(b)
  <2>1. x - b[1].seq + 1 \in DOMAIN b
    BY <1>1, <1>3, <1>4, SizesAssumption DEF SeqNos
  <2>2. b[x - b[1].seq + 1].seq = x
    BY <2>1, <1>3, SizesAssumption DEF SeqNos
  <2> QED BY <2>1, <2>2 DEF Keys
<1>6. ASSUME NEW x \in Keys(b) PROVE x \in b[1].seq .. Last(b)
  BY <1>1, <1>3, <1>4, SizesAssumption DEF Keys, SeqNos
<1> QED BY <1>1, <1>3, <1>4, <1>5, <1>6

(* The keys _track_rx_seq compares with are those of the end entries. *)
LEMMA WindowEnds ==
  ASSUME WindowTypeOK, Contiguous, buf # <<>>
  PROVE  /\ FirstKey = buf[1].seq /\ LastKey = Last(buf)
         /\ FirstKey \in SeqNos /\ LastKey \in SeqNos /\ FirstKey <= LastKey
         /\ Keys(buf) = FirstKey .. LastKey
         /\ LastKey = buf[1].seq + Len(buf) - 1
         /\ Len(buf) \in Nat /\ Len(buf) >= 1
<1>1. /\ Keys(buf) = buf[1].seq .. Last(buf)
      /\ buf[1].seq \in SeqNos /\ Last(buf) \in SeqNos
      /\ Last(buf) = buf[1].seq + Len(buf) - 1
      /\ Len(buf) >= 1
  BY KeysInterval DEF WindowTypeOK, Contiguous
<1>2. buf[1].seq \in Int /\ Last(buf) \in Int /\ Len(buf) \in Nat
  BY <1>1, SizesAssumption DEF SeqNos, WindowTypeOK
<1>3. buf[1].seq <= Last(buf)
  BY <1>1, <1>2
<1> QED BY <1>1, <1>2, <1>3, IntervalBounds DEF FirstKey, LastKey

(* Dropping the oldest entries of a window leaves a window. *)
LEMMA BoundedWindow ==
  ASSUME NEW b \in Seq(Entry), b # <<>>,
         \A i \in DOMAIN b : b[i].seq = b[1].seq + i - 1,
         NEW c, c = Bounded(b)
  PROVE  /\ c \in Seq(Entry) /\ c # <<>> /\ Len(c) <= BufSize + 1
         /\ Len(c) <= Len(b)
         /\ \A i \in DOMAIN c : c[i].seq = c[1].seq + i - 1
         /\ \A i \in DOMAIN c : c[i] = b[i + Len(b) - Len(c)]
         /\ Last(c) = Last(b)
<1> DEFINE from == Max({1, Len(b) - BufSize})
<1>1. Len(b) \in Nat /\ Len(b) >= 1 /\ BufSize \in Nat
  BY SizesAssumption
<1>2. from \in 1..Len(b) /\ from >= Len(b) - BufSize
  <2>1. 1 \in Int /\ Len(b) - BufSize \in Int /\ Len(b) - BufSize <= Len(b)
    BY <1>1
  <2>2. from \in {1, Len(b) - BufSize} /\ from >= 1 /\ from >= Len(b) - BufSize
    BY <2>1, MaxOfTwo
  <2> QED BY <1>1, <2>1, <2>2
<1>3. c = SubSeq(b, from, Len(b))
  BY DEF Bounded
<1> HIDE DEF from
<1>4. c \in Seq(Entry) /\ Len(c) = Len(b) - from + 1
  BY <1>1, <1>2, <1>3
<1>5. \A i \in 1..Len(c) : c[i] = b[i + from - 1]
  BY <1>1, <1>2, <1>3, <1>4
<1>6. Len(c) >= 1 /\ Len(c) <= BufSize + 1 /\ Len(c) \in Nat /\ Len(c) <= Len(b)
  BY <1>1, <1>2, <1>4
<1>7. \A i \in DOMAIN b : b[i].seq \in Int
  BY EntryParts
<1>8. ASSUME NEW i \in 1..Len(c) PROVE c[i].seq = c[1].seq + i - 1
  <2>1. c[i] = b[i + from - 1] /\ c[1] = b[from]
    BY <1>1, <1>2, <1>5, <1>6
  <2>2. i + from - 1 \in DOMAIN b /\ from \in DOMAIN b
    BY <1>1, <1>2, <1>4, <1>6
  <2>3. b[i + from - 1].seq = b[1].seq + (i + from - 1) - 1 /\ b[from].seq = b[1].seq + from - 1
    BY <2>2
  <2>4. b[1].seq \in Int
    BY <1>7, <1>1
  <2> QED BY <2>1, <2>3, <2>4, <1>2, <1>6
<1>9. Last(c) = Last(b)
  <2>1. c[Len(c)] = b[Len(b)]
    BY <1>1, <1>2, <1>4, <1>5, <1>6
  <2> QED BY <2>1 DEF Last
<1>10. DOMAIN c = 1..Len(c) /\ c # <<>>
  BY <1>4, <1>6
<1>11. \A i \in DOMAIN c : c[i] = b[i + Len(b) - Len(c)]
  BY <1>1, <1>2, <1>4, <1>5, <1>10
<1> QED BY <1>4, <1>6, <1>8, <1>9, <1>10, <1>11

(* A gap's entries, appended to a window that ends where they start. *)
LEMMA RunExtends ==
  ASSUME NEW b \in Seq(Entry), b # <<>>, NEW s \in SeqNos,
         \A i \in DOMAIN b : b[i].seq = b[1].seq + i - 1,
         s > Last(b)
  PROVE  LET c == b \o Run(Last(b) + 1, s)
         IN  /\ c \in Seq(Entry) /\ c # <<>> /\ Last(c) = s
             /\ \A i \in DOMAIN c : c[i].seq = c[1].seq + i - 1
             /\ Len(c) > Len(b)
             /\ \A i \in DOMAIN c : i <= Len(b) => c[i] = b[i]
             /\ \A i \in DOMAIN c : i > Len(b) => c[i].age = 0
<1> DEFINE r == Run(Last(b) + 1, s)
           n == s - Last(b)
           c == b \o r
<1>1. /\ Last(b) \in SeqNos /\ b[1].seq \in SeqNos
      /\ Last(b) = b[1].seq + Len(b) - 1
      /\ Len(b) >= 1 /\ Len(b) \in Nat
  BY KeysInterval
<1>2. s \in Int /\ Last(b) \in Int /\ b[1].seq \in Int /\ Last(b) >= 1 /\ s <= SeqMod - 1
  BY <1>1, SizesAssumption DEF SeqNos
<1>3. n \in Nat /\ n >= 1 /\ s - (Last(b) + 1) + 1 = n
  BY <1>2
<1>4. r = [i \in 1..n |-> Fresh(Last(b) + 1 + i - 1)]
  BY <1>3 DEF Run
<1>5. ASSUME NEW i \in 1..n PROVE Fresh(Last(b) + 1 + i - 1) \in Entry
  <2>1. Last(b) + 1 + i - 1 \in SeqNos
    BY <1>2, <1>3, SizesAssumption DEF SeqNos
  <2> QED BY <2>1, FreshParts
<1>7. c = b \o r
  OBVIOUS
<1> HIDE DEF r, n, c
<1>6. r \in Seq(Entry) /\ Len(r) = n /\ DOMAIN r = 1..n
  <2>1. r \in [1..n -> Entry]
    BY <1>4, <1>5
  <2>2. n \in Nat
    BY <1>3
  <2> QED BY <2>1, <2>2
<1>8. c \in Seq(Entry) /\ Len(c) = Len(b) + n
  <2>1. b \o r \in Seq(Entry) /\ Len(b \o r) = Len(b) + Len(r)
    BY <1>6, ConcatProperties
  <2> QED BY <2>1, <1>6, <1>7
<1>9. \A i \in 1..Len(b) : c[i] = b[i]
  BY <1>6, <1>7
<1>10. ASSUME NEW i \in 1..n PROVE c[Len(b) + i].seq = Last(b) + i /\ c[Len(b) + i].age = 0
  <2>1. c[Len(b) + i] = r[i]
    BY <1>1, <1>3, <1>6, <1>7
  <2>2. Last(b) + 1 + i - 1 = Last(b) + i
    BY <1>2, <1>3
  <2>3. r[i] = Fresh(Last(b) + i)
    BY <2>2, <1>4
  <2>4. Fresh(Last(b) + i).seq = Last(b) + i /\ Fresh(Last(b) + i).age = 0
    BY DEF Fresh
  <2> QED BY <2>1, <2>3, <2>4
<1>11. DOMAIN c = 1..(Len(b) + n) /\ c # <<>>
  BY <1>1, <1>3, <1>8
<1>12. ASSUME NEW i \in DOMAIN c, i > Len(b)
       PROVE  c[i].seq = Last(b) + i - Len(b) /\ c[i].age = 0
  <2>1. i - Len(b) \in 1..n /\ Len(b) + (i - Len(b)) = i
    BY <1>1, <1>3, <1>11, <1>12
  <2>2. /\ c[Len(b) + (i - Len(b))].seq = Last(b) + (i - Len(b))
        /\ c[Len(b) + (i - Len(b))].age = 0
    BY <2>1, <1>10
  <2>3. Last(b) + (i - Len(b)) = Last(b) + i - Len(b)
    BY <1>1, <1>2, <1>3, <1>11
  <2> QED BY <2>1, <2>2, <2>3
<1>13. c[1] = b[1]
  BY <1>1, <1>9
<1>14. ASSUME NEW i \in DOMAIN c PROVE c[i].seq = c[1].seq + i - 1
  <2>1. CASE i <= Len(b)
    BY <2>1, <1>1, <1>9, <1>11, <1>13
  <2>2. CASE i > Len(b)
    <3>1. c[i].seq = Last(b) + i - Len(b)
      BY <2>2, <1>12
    <3>2. i \in Int
      BY <1>1, <1>3, <1>11
    <3>3. Last(b) + i - Len(b) = b[1].seq + i - 1
      BY <3>2, <1>1, <1>2
    <3> QED BY <3>1, <3>3, <1>13
  <2> QED BY <2>1, <2>2, <1>1, <1>3, <1>11
<1>15. Last(c) = s
  <2>1. n \in 1..n
    BY <1>3
  <2>2. c[Len(b) + n].seq = Last(b) + n
    BY <2>1, <1>10
  <2>3. Last(b) + n = s
    BY <1>2 DEF n
  <2> QED BY <2>2, <2>3, <1>8 DEF Last
<1>16. \A i \in DOMAIN c : i > Len(b) => c[i].age = 0
  BY <1>12
<1>17. Len(c) > Len(b)
  BY <1>1, <1>3, <1>8
<1>18. \A i \in DOMAIN c : i <= Len(b) => c[i] = b[i]
  BY <1>1, <1>3, <1>9, <1>11
<1> QED BY <1>8, <1>11, <1>14, <1>15, <1>16, <1>17, <1>18 DEF c, r

-----------------------------------------------------------------------------
(* Every step keeps the invariant. *)

(* A seeded window, with nothing missing. *)
LEMMA SeedInv ==
  ASSUME NEW s \in SeqNos, Seed(s), missing' = None
  PROVE  WindowInv'
<1>1. buf' = <<Fresh(s)>> /\ heard' = {s} /\ gaveUp' = {}
  BY DEF Seed
<1>2. Fresh(s) \in Entry /\ Fresh(s).seq = s
  BY FreshParts
<1>3. buf' \in Seq(Entry) /\ Len(buf') = 1 /\ DOMAIN buf' = {1} /\ buf'[1] = Fresh(s)
  BY <1>1, <1>2
<1>4. missing' = [k \in DOMAIN missing' |-> missing'[k]] /\ DOMAIN missing' = {}
  BY DEF None
<1>5. WindowTypeOK'
  BY <1>1, <1>3, <1>4, SizesAssumption DEF WindowTypeOK
<1>6. Contiguous'
  BY <1>2, <1>3, SizesAssumption DEF Contiguous, SeqNos
<1>7. Young' /\ NeverAsksForHeard'
  BY <1>4 DEF Young, NeverAsksForHeard
<1>8. HeardInWindow'
  BY <1>1, <1>2, <1>3 DEF HeardInWindow, Keys
<1> QED BY <1>5, <1>6, <1>7, <1>8 DEF WindowInv

(* A window extended at its end, with the numbers it skips marked missing. *)
LEMMA GrowInv ==
  ASSUME WindowInv, buf # <<>>, NEW s \in SeqNos, s > LastKey,
         buf' = Bounded(buf \o Run(LastKey + 1, s)),
         heard' = (heard \cup {s}) \cap Keys(buf'),
         gaveUp' = gaveUp \cap Keys(buf'),
         missing' = [k \in DOMAIN missing' |-> missing'[k]],
         DOMAIN missing \subseteq DOMAIN missing',
         DOMAIN missing' \subseteq DOMAIN missing \cup (LastKey + 1)..(s - 1),
         \A k \in DOMAIN missing' :
            missing'[k] = IF k \in DOMAIN missing THEN missing[k] ELSE 0
  PROVE  WindowInv'
<1> DEFINE c == buf \o Run(LastKey + 1, s)
<1>1. WindowTypeOK /\ Contiguous /\ Young /\ HeardInWindow /\ NeverAsksForHeard
  BY DEF WindowInv
<1>2. /\ FirstKey = buf[1].seq /\ LastKey = Last(buf)
      /\ FirstKey \in SeqNos /\ LastKey \in SeqNos /\ FirstKey <= LastKey
      /\ Keys(buf) = FirstKey .. LastKey
      /\ Len(buf) \in Nat /\ Len(buf) >= 1
  BY <1>1, WindowEnds
<1>3. SeqNos \subseteq Int /\ LastKey \in Int /\ s \in Int /\ LastKey >= 1
  BY <1>2, SizesAssumption DEF SeqNos
<1>4. buf \in Seq(Entry) /\ \A i \in DOMAIN buf : buf[i].seq = buf[1].seq + i - 1
  BY <1>1 DEF WindowTypeOK, Contiguous
<1>5. /\ c \in Seq(Entry) /\ c # <<>> /\ Last(c) = s
      /\ \A i \in DOMAIN c : c[i].seq = c[1].seq + i - 1
      /\ Len(c) > Len(buf)
      /\ \A i \in DOMAIN c : i <= Len(buf) => c[i] = buf[i]
      /\ \A i \in DOMAIN c : i > Len(buf) => c[i].age = 0
  <2>1. s > Last(buf) /\ LastKey = Last(buf)
    BY <1>2
  <2> QED BY <2>1, <1>4, RunExtends
<1> HIDE DEF c
<1>6. /\ buf' \in Seq(Entry) /\ buf' # <<>> /\ Len(buf') <= BufSize + 1
      /\ Len(buf') <= Len(c)
      /\ \A i \in DOMAIN buf' : buf'[i].seq = buf'[1].seq + i - 1
      /\ \A i \in DOMAIN buf' : buf'[i] = c[i + Len(c) - Len(buf')]
      /\ Last(buf') = s
  BY <1>5, BoundedWindow DEF c
<1>7. WindowTypeOK'
  <2>1. DOMAIN missing' \subseteq SeqNos
    <3>1. (LastKey + 1)..(s - 1) \subseteq SeqNos
      BY <1>2, GapInSeqNos
    <3> QED BY <1>1, <3>1 DEF WindowTypeOK
  <2>2. \A k \in DOMAIN missing' : missing'[k] \in 0..MaxAsk
    BY <1>1, SizesAssumption DEF WindowTypeOK
  <2> QED BY <1>1, <1>6, <2>1, <2>2 DEF WindowTypeOK
<1>8. Contiguous'
  BY <1>6 DEF Contiguous
<1>9. HeardInWindow'
  BY DEF HeardInWindow
<1>10. \A k \in DOMAIN missing : k \in Int /\ k <= LastKey /\ missing[k] \in Nat
  BY <1>1, <1>2, <1>3, SizesAssumption DEF Young, WindowTypeOK
<1>11. NeverAsksForHeard'
  <2>1. s \notin DOMAIN missing'
    BY <1>3, <1>10
  <2>2. \A k \in heard : k <= LastKey /\ k \in Int
    BY <1>1, <1>2, <1>3 DEF HeardInWindow, WindowTypeOK, SeqNos
  <2>3. \A k \in heard : k \notin DOMAIN missing'
    BY <1>1, <1>3, <2>2 DEF NeverAsksForHeard
  <2> QED BY <2>1, <2>3 DEF NeverAsksForHeard
<1>12. Young'
  <2> SUFFICES ASSUME NEW k \in DOMAIN missing'
               PROVE  /\ buf' # <<>> /\ k <= Last(buf')
                      /\ \A i \in DOMAIN buf' : buf'[i].seq >= k => buf'[i].age <= missing'[k]
    BY DEF Young, Last
  <2>1. k <= s
    BY <1>3, <1>10
  <2>2. missing'[k] \in Nat
    BY <1>10
  <2>3. ASSUME NEW i \in DOMAIN buf', buf'[i].seq >= k PROVE buf'[i].age <= missing'[k]
    <3> DEFINE j == i + Len(c) - Len(buf')
    <3>1. j \in DOMAIN c /\ buf'[i] = c[j]
      BY <1>5, <1>6
    <3> HIDE DEF j
    <3>2. CASE j <= Len(buf)
      <4>1. j \in DOMAIN buf /\ buf'[i] = buf[j]
        BY <1>2, <1>4, <1>5, <3>1, <3>2
      <4>2. buf[j].seq <= LastKey
        <5>1. buf[j].seq \in Keys(buf)
          BY <4>1 DEF Keys
        <5> QED BY <5>1, <1>2, <1>3
      <4>3. k \in DOMAIN missing
        <5>1. buf[j].seq \in Int
          BY <4>1, <1>4, EntryParts
        <5>2. k \notin (LastKey + 1)..(s - 1)
          BY <5>1, <4>1, <4>2, <2>3, <1>3
        <5> QED BY <5>2
      <4>4. missing'[k] = missing[k] /\ buf[j].seq >= k
        BY <4>1, <4>3, <2>3
      <4> QED BY <4>1, <4>3, <4>4, <1>1 DEF Young
    <3>3. CASE ~(j <= Len(buf))
      <4>1. j > Len(buf)
        BY <3>1, <3>3, <1>2, <1>5
      <4> QED BY <4>1, <3>1, <1>5, <2>2
    <3> QED BY <3>2, <3>3
  <2> QED BY <1>6, <2>1, <2>3
<1> QED BY <1>7, <1>8, <1>9, <1>11, <1>12 DEF WindowInv

(* The next number is a run of one. *)
LEMMA NextIsRun ==
  ASSUME WindowInv, NEW s \in SeqNos, TrackNext(s)
  PROVE  s = LastKey + 1 /\ Append(buf, Fresh(s)) = buf \o Run(LastKey + 1, s)
<1>1. /\ FirstKey \in SeqNos /\ LastKey \in SeqNos /\ Keys(buf) = FirstKey .. LastKey
      /\ buf \in Seq(Entry)
  BY WindowEnds DEF WindowInv, TrackNext, WindowTypeOK
<1>2. SeqNos \subseteq Int
  BY SizesAssumption DEF SeqNos
<1>3. s = LastKey + 1
  <2>1. s >= FirstKey /\ s <= LastKey + 1 /\ s \notin Keys(buf)
    BY <1>1, <1>2 DEF TrackNext, OutOfWindow
  <2> QED BY <1>1, <1>2, <2>1
<1>4. Append(buf, Fresh(s)) = buf \o Run(LastKey + 1, s)
  <2>1. LastKey + 1 = s /\ s - s + 1 = 1 /\ s + 1 - 1 = s
    BY <1>2, <1>3
  <2>2. Run(LastKey + 1, s) = [i \in 1..1 |-> Fresh(s + i - 1)]
    BY <2>1 DEF Run
  <2>3. Run(LastKey + 1, s) = <<Fresh(s)>>
    <3>1. \A i \in 1..1 : s + i - 1 = s
      BY <1>2
    <3>2. [i \in 1..1 |-> Fresh(s + i - 1)] = [i \in 1..1 |-> Fresh(s)]
      BY <3>1
    <3>3. [i \in 1..1 |-> Fresh(s)] = <<Fresh(s)>>
      OBVIOUS
    <3> QED BY <2>2, <3>2, <3>3
  <2> QED BY <1>1, <2>3, FreshParts, AppendIsConcat
<1> QED BY <1>3, <1>4

(* Tracking a datagram, whatever its number, keeps the window's invariant. *)
LEMMA TrackInv ==
  ASSUME WindowInv, NEW s \in SeqNos, Track(s)
  PROVE  WindowInv'
<1>1. WindowTypeOK /\ Contiguous /\ Young /\ HeardInWindow /\ NeverAsksForHeard
  BY DEF WindowInv
<1>2. SeqNos \subseteq Int
  BY SizesAssumption DEF SeqNos
<1>3. CASE TrackSeed(s)
  <2>1. DOMAIN missing = {}
    BY <1>1, <1>3 DEF Young, TrackSeed
  <2>2. missing' = None
    BY <2>1, <1>1, <1>3 DEF WindowTypeOK, TrackSeed, None
  <2> QED BY <2>2, <1>3, SeedInv DEF TrackSeed
<1>4. CASE TrackReset(s)
  BY <1>4, SeedInv DEF TrackReset
<1>5. ASSUME buf # <<>>
      PROVE  /\ Keys(buf) = FirstKey .. LastKey
             /\ FirstKey \in Int /\ LastKey \in Int /\ LastKey \in SeqNos
  BY <1>1, <1>2, <1>5, WindowEnds
<1>6. CASE TrackGap(s)
  <2>1. s > LastKey
    BY <1>2, <1>5, <1>6 DEF TrackGap
  <2>2. /\ buf # <<>> /\ buf' = Bounded(buf \o Run(LastKey + 1, s))
        /\ heard' = (heard \cup {s}) \cap Keys(buf')
        /\ gaveUp' = gaveUp \cap Keys(buf')
    BY <1>6 DEF TrackGap
  <2>3. /\ missing' = [k \in DOMAIN missing' |-> missing'[k]]
        /\ DOMAIN missing' = DOMAIN missing \cup (LastKey + 1)..(s - 1)
        /\ \A k \in DOMAIN missing' :
              missing'[k] = IF k \in DOMAIN missing THEN missing[k] ELSE 0
    BY <1>6 DEF TrackGap
  <2> QED BY <2>1, <2>2, <2>3, GrowInv
<1>7. CASE TrackNext(s)
  <2>1. s = LastKey + 1 /\ Append(buf, Fresh(s)) = buf \o Run(LastKey + 1, s)
    BY <1>7, NextIsRun
  <2>3. /\ buf # <<>> /\ buf' = Bounded(buf \o Run(LastKey + 1, s))
        /\ heard' = (heard \cup {s}) \cap Keys(buf')
        /\ gaveUp' = gaveUp \cap Keys(buf') /\ missing' = missing
    BY <2>1, <1>7 DEF TrackNext
  <2>4. s > LastKey
    BY <2>1, <1>5, <1>7 DEF TrackNext
  <2>5. missing' = [k \in DOMAIN missing' |-> missing'[k]]
    BY <2>3, <1>1 DEF WindowTypeOK
  <2> QED BY <2>3, <2>4, <2>5, GrowInv
<1>8. CASE TrackKnown(s)
  <2>1. /\ buf # <<>> /\ buf' = buf /\ s \in Keys(buf)
        /\ missing' = [k \in DOMAIN missing \ {s} |-> missing[k]]
        /\ heard' = heard \cup {s} /\ gaveUp' = gaveUp \ {s}
    BY <1>8 DEF TrackKnown, Only
  <2>2. /\ missing' = [k \in DOMAIN missing' |-> missing'[k]]
        /\ DOMAIN missing' = DOMAIN missing \ {s}
        /\ \A k \in DOMAIN missing' : missing'[k] = missing[k]
    BY <2>1
  <2>3. WindowTypeOK'
    BY <1>1, <2>1, <2>2 DEF WindowTypeOK
  <2>4. Contiguous' /\ HeardInWindow'
    BY <1>1, <2>1 DEF Contiguous, HeardInWindow
  <2>5. Young' /\ NeverAsksForHeard'
    BY <1>1, <2>1, <2>2 DEF Young, NeverAsksForHeard
  <2> QED BY <2>3, <2>4, <2>5 DEF WindowInv
<1> QED BY <1>3, <1>4, <1>6, <1>7, <1>8 DEF Track

(* A tick ages the entries of the window, and leaves their numbers. *)
LEMMA OlderWindow ==
  ASSUME WindowTypeOK
  PROVE  /\ Older(buf) \in Seq(Entry) /\ Len(Older(buf)) = Len(buf)
         /\ DOMAIN Older(buf) = DOMAIN buf /\ Keys(Older(buf)) = Keys(buf)
         /\ \A i \in DOMAIN buf : /\ Older(buf)[i].seq = buf[i].seq
                                  /\ Older(buf)[i].age <= buf[i].age + 1
<1> DEFINE up(e) == [e EXCEPT !.age = IF @ < PurgeTicks THEN @ + 1 ELSE @]
<1>1. buf \in Seq(Entry) /\ Len(buf) \in Nat /\ DOMAIN buf = 1..Len(buf)
  BY DEF WindowTypeOK
<1>2. \A e \in Entry : /\ up(e) \in Entry /\ up(e).seq = e.seq
                      /\ up(e).age <= e.age + 1
  BY SizesAssumption DEF Entry
<1>3. Older(buf) = [i \in DOMAIN buf |-> up(buf[i])]
  BY DEF Older
<1> HIDE DEF up
<1>4. \A i \in DOMAIN buf : buf[i] \in Entry
  BY <1>1
<1>5. Older(buf) \in [1..Len(buf) -> Entry]
  BY <1>1, <1>2, <1>3, <1>4
<1>6. Older(buf) \in Seq(Entry) /\ Len(Older(buf)) = Len(buf) /\ DOMAIN Older(buf) = DOMAIN buf
  BY <1>1, <1>5
<1>7. \A i \in DOMAIN buf : /\ Older(buf)[i].seq = buf[i].seq
                           /\ Older(buf)[i].age <= buf[i].age + 1
  BY <1>2, <1>3, <1>4
<1>8. Keys(Older(buf)) = Keys(buf)
  BY <1>6, <1>7 DEF Keys
<1> QED BY <1>6, <1>7, <1>8

(* A cadence tick keeps it: an entry and the request for it age together. *)
LEMMA TickInv ==
  ASSUME WindowInv, Tick
  PROVE  WindowInv'
<1>1. WindowTypeOK /\ Contiguous /\ Young /\ HeardInWindow /\ NeverAsksForHeard
  BY DEF WindowInv
<1>2. /\ Older(buf) \in Seq(Entry) /\ Len(Older(buf)) = Len(buf)
      /\ DOMAIN Older(buf) = DOMAIN buf /\ Keys(Older(buf)) = Keys(buf)
      /\ \A i \in DOMAIN buf : /\ Older(buf)[i].seq = buf[i].seq
                               /\ Older(buf)[i].age <= buf[i].age + 1
  BY <1>1, OlderWindow
<1>3. ASSUME buf' = Older(buf), heard' = heard PROVE Contiguous' /\ HeardInWindow'
  <2>1. Contiguous'
    <3>1. \A i \in DOMAIN buf : 1 \in DOMAIN buf
      BY <1>1 DEF WindowTypeOK
    <3> QED BY <1>1, <1>2, <1>3, <3>1 DEF Contiguous
  <2> QED BY <2>1, <1>1, <1>2, <1>3 DEF HeardInWindow
<1>4. CASE TickIdle
  <2>1. buf' = Older(buf) /\ missing' = missing /\ heard' = heard /\ gaveUp' = gaveUp
    BY <1>4 DEF TickIdle
  <2>2. DOMAIN missing = {}
    BY <1>4 DEF TickIdle, None
  <2>3. WindowTypeOK' /\ NeverAsksForHeard'
    BY <1>1, <1>2, <2>1 DEF WindowTypeOK, NeverAsksForHeard
  <2>4. Young'
    BY <2>1, <2>2 DEF Young
  <2> QED BY <1>3, <2>1, <2>3, <2>4 DEF WindowInv
<1>5. CASE TickFlush
  <2>1. buf' = <<>> /\ missing' = None /\ heard' = {} /\ gaveUp' = {}
    BY <1>5 DEF TickFlush
  <2>2. missing' = [k \in DOMAIN missing' |-> missing'[k]] /\ DOMAIN missing' = {}
    BY <2>1 DEF None
  <2>3. buf' \in Seq(Entry) /\ Len(buf') = 0 /\ DOMAIN buf' = {}
    BY <2>1
  <2>4. WindowTypeOK'
    BY <2>1, <2>2, <2>3, SizesAssumption DEF WindowTypeOK
  <2>5. Contiguous' /\ HeardInWindow' /\ Young' /\ NeverAsksForHeard'
    BY <2>1, <2>2, <2>3 DEF Contiguous, HeardInWindow, Young, NeverAsksForHeard
  <2> QED BY <2>4, <2>5 DEF WindowInv
<1>6. CASE TickAsk
  <2>1. /\ buf' = Older(buf) /\ heard' = heard
        /\ missing' = [k \in Asked |-> missing[k] + 1]
        /\ gaveUp' \subseteq gaveUp \cup DOMAIN missing
    BY <1>6 DEF TickAsk
  <2>2. /\ missing' = [k \in DOMAIN missing' |-> missing'[k]]
        /\ DOMAIN missing' = Asked
        /\ \A k \in Asked : missing'[k] = missing[k] + 1
    BY <2>1
  <2>3. Asked \subseteq DOMAIN missing /\ \A k \in Asked : missing[k] + 1 \in 0..MaxAsk
    BY <1>1, SizesAssumption DEF Asked, WindowTypeOK
  <2>4. WindowTypeOK'
    BY <1>1, <1>2, <2>1, <2>2, <2>3 DEF WindowTypeOK
  <2>5. NeverAsksForHeard'
    BY <1>1, <2>1, <2>2, <2>3 DEF NeverAsksForHeard
  <2>6. Young'
    <3> SUFFICES ASSUME NEW k \in Asked
                 PROVE  /\ buf' # <<>> /\ k <= Last(buf')
                        /\ \A i \in DOMAIN buf' : buf'[i].seq >= k => buf'[i].age <= missing'[k]
      BY <2>2 DEF Young, Last
    <3>1. /\ buf # <<>> /\ k <= Last(buf)
          /\ \A i \in DOMAIN buf : buf[i].seq >= k => buf[i].age <= missing[k]
      BY <1>1, <2>3 DEF Young
    <3>2. buf' # <<>> /\ Last(buf') = Last(buf)
      <4>1. Len(buf) \in DOMAIN buf
        BY <3>1, <1>1 DEF WindowTypeOK
      <4> QED BY <4>1, <1>2, <2>1 DEF Last
    <3>3. missing[k] \in Int /\ missing'[k] = missing[k] + 1
      BY <1>1, <2>2, <2>3, SizesAssumption DEF WindowTypeOK
    <3>4. ASSUME NEW i \in DOMAIN buf', buf'[i].seq >= k PROVE buf'[i].age <= missing'[k]
      <4>1. i \in DOMAIN buf /\ buf[i].seq >= k /\ buf'[i].age <= buf[i].age + 1
        BY <3>4, <1>2, <2>1
      <4>2. buf[i].age <= missing[k]
        BY <4>1, <3>1
      <4>3. buf[i].age \in Int /\ buf'[i].age \in Int
        BY <4>1, <1>1, <1>2, <2>1, EntryParts DEF WindowTypeOK
      <4> QED BY <4>1, <4>2, <4>3, <3>3
    <3> QED BY <3>1, <3>2, <3>4
  <2> QED BY <1>3, <2>1, <2>4, <2>5, <2>6 DEF WindowInv
<1> QED BY <1>4, <1>5, <1>6 DEF Tick

(* A purge keeps it: it stops before the newest missing number. *)
LEMMA PurgeInv ==
  ASSUME WindowInv, Purge
  PROVE  WindowInv'
<1>1. WindowTypeOK /\ Contiguous /\ Young /\ HeardInWindow /\ NeverAsksForHeard
  BY DEF WindowInv
<1>2. PICK n \in 0..Len(buf) : StalePrefix(n) /\ buf' = SubSeq(buf, n + 1, Len(buf))
  BY DEF Purge
<1>3. PICK D \in SUBSET DOMAIN missing :
        /\ missing' = Only(missing, DOMAIN missing \ D)
        /\ gaveUp' = (gaveUp \cup D) \cap Keys(buf')
  BY DEF Purge
<1>4. heard' = heard \cap Keys(buf')
  BY DEF Purge
<1>5. buf \in Seq(Entry) /\ Len(buf) \in Nat /\ DOMAIN buf = 1..Len(buf) /\ n \in Nat /\ n <= Len(buf)
  BY <1>1 DEF WindowTypeOK
<1>6. /\ buf' \in Seq(Entry) /\ Len(buf') = Len(buf) - n /\ DOMAIN buf' = 1..(Len(buf) - n)
      /\ \A i \in DOMAIN buf' : i + n \in DOMAIN buf /\ buf'[i] = buf[i + n]
  <2>1. \A i \in (n + 1)..Len(buf) : buf[i] \in Entry
    BY <1>5
  <2> DEFINE len == Len(buf)
  <2>2. /\ buf' \in Seq(Entry)
        /\ Len(buf') = IF n + 1 <= len THEN len - (n + 1) + 1 ELSE 0
        /\ \A i \in 1..(len - (n + 1) + 1) : buf'[i] = buf[(n + 1) + i - 1]
    BY <1>2, <1>5, <2>1, SubSeqProperties
  <2>3. len \in Nat /\ n \in Nat /\ n <= len /\ DOMAIN buf = 1..len
    BY <1>5
  <2> HIDE DEF len
  <2>4. len - (n + 1) + 1 = len - n /\ (n + 1 <= len <=> n < len) /\ (~(n < len) => len - n = 0)
    BY <2>3
  <2>5. Len(buf') = len - n
    BY <2>2, <2>4
  <2>6. DOMAIN buf' = 1..(len - n)
    BY <2>2, <2>5
  <2>7. ASSUME NEW i \in DOMAIN buf' PROVE i + n \in DOMAIN buf /\ buf'[i] = buf[i + n]
    <3>1. i \in 1..(len - n) /\ i \in Int
      BY <2>3, <2>6
    <3>2. (n + 1) + i - 1 = i + n /\ i + n \in 1..len
      BY <3>1, <2>3
    <3>3. buf'[i] = buf[(n + 1) + i - 1]
      BY <3>1, <2>2, <2>4
    <3> QED BY <3>2, <3>3, <2>3
  <2> QED BY <2>2, <2>5, <2>6, <2>7 DEF len
<1>7. /\ missing' = [k \in DOMAIN missing' |-> missing'[k]]
      /\ DOMAIN missing' \subseteq DOMAIN missing
      /\ \A k \in DOMAIN missing' : missing'[k] = missing[k]
  BY <1>3 DEF Only
<1>8. WindowTypeOK'
  <2>1. Len(buf') <= BufSize + 1
    BY <1>1, <1>5, <1>6, SizesAssumption DEF WindowTypeOK
  <2>2. heard' \subseteq SeqNos /\ gaveUp' \subseteq SeqNos
    BY <1>1, <1>3, <1>4 DEF WindowTypeOK
  <2> QED BY <1>1, <1>6, <1>7, <2>1, <2>2 DEF WindowTypeOK
<1>9. Contiguous'
  <2> SUFFICES ASSUME NEW i \in DOMAIN buf' PROVE buf'[i].seq = buf'[1].seq + i - 1
    BY DEF Contiguous
  <2>1. 1 \in DOMAIN buf' /\ i \in Int /\ n \in Int
    BY <1>5, <1>6
  <2>2. buf'[i] = buf[i + n] /\ buf'[1] = buf[1 + n] /\ i + n \in DOMAIN buf /\ 1 + n \in DOMAIN buf
    BY <1>6, <2>1
  <2>3. buf[i + n].seq = buf[1].seq + (i + n) - 1 /\ buf[1 + n].seq = buf[1].seq + (1 + n) - 1
    BY <2>2, <1>1 DEF Contiguous
  <2>4. buf[1].seq \in Int
    BY <1>5, <2>2, EntryParts
  <2>5. /\ buf'[i].seq = buf[1].seq + (i + n) - 1
        /\ buf'[1].seq = buf[1].seq + (1 + n) - 1
    BY <2>2, <2>3, Zenon
  <2> QED BY <2>1, <2>4, <2>5
<1>10. HeardInWindow'
  BY <1>4 DEF HeardInWindow
<1>11. NeverAsksForHeard'
  BY <1>1, <1>4, <1>7 DEF NeverAsksForHeard
<1>12. Young'
  <2> SUFFICES ASSUME NEW k \in DOMAIN missing'
               PROVE  /\ buf' # <<>> /\ k <= Last(buf')
                      /\ \A i \in DOMAIN buf' : buf'[i].seq >= k => buf'[i].age <= missing'[k]
    BY DEF Young, Last
  <2>1. /\ k \in DOMAIN missing /\ missing'[k] = missing[k]
        /\ buf # <<>> /\ k <= Last(buf)
        /\ \A i \in DOMAIN buf : buf[i].seq >= k => buf[i].age <= missing[k]
    BY <1>1, <1>7 DEF Young
  <2>2. Len(buf) >= 1
    BY <1>5, <2>1
  <2>3. n < Len(buf)
    <3>0. n < Len(buf) \/ n = Len(buf)
      <4> DEFINE len == Len(buf)
      <4>1. len \in Nat /\ n \in Nat /\ n <= len
        BY <1>5
      <4> HIDE DEF len
      <4>2. n < len \/ n = len
        BY <4>1
      <4> QED BY <4>2 DEF len
    <3> SUFFICES ASSUME n = Len(buf) PROVE FALSE
      BY <3>0
    <3>1. Len(buf) \in DOMAIN buf /\ Len(buf) \in 1..n
      BY <1>5, <2>2
    <3>2. buf[Len(buf)].age >= PurgeTicks
      BY <1>2, <3>1 DEF StalePrefix
    <3>3. buf[Len(buf)].seq >= k
      <4>1. k \in Int /\ buf[Len(buf)].seq \in Int
        BY <2>1, <3>1, <1>1, <1>5, EntryParts, SizesAssumption DEF WindowTypeOK, SeqNos
      <4> QED BY <4>1, <2>1 DEF Last
    <3>4. buf[Len(buf)].age <= missing[k]
      BY <2>1, <3>1, <3>3
    <3>5. missing[k] \in 0..MaxAsk /\ buf[Len(buf)].age \in Int
      BY <2>1, <3>1, <1>1, <1>5, EntryParts DEF WindowTypeOK
    <3> QED BY <3>2, <3>4, <3>5, SizesAssumption, PurgeAssumption
  <2>4. buf' # <<>> /\ Last(buf') = Last(buf)
    <3>1. Len(buf') \in DOMAIN buf' /\ Len(buf') + n = Len(buf)
      BY <1>5, <1>6, <2>3
    <3>2. buf'[Len(buf')] = buf[Len(buf)]
      BY <1>6, <3>1
    <3>3. buf' # <<>>
      BY <1>6, <3>1
    <3> QED BY <3>2, <3>3 DEF Last
  <2>5. \A i \in DOMAIN buf' : buf'[i].seq >= k => buf'[i].age <= missing'[k]
    BY <1>6, <2>1
  <2> QED BY <2>1, <2>4, <2>5
<1> QED BY <1>8, <1>9, <1>10, <1>11, <1>12 DEF WindowInv

(* Arithmetic modulo SeqMod stays in range. *)
LEMMA ModRange ==
  ASSUME NEW x \in Int
  PROVE  x % SeqMod \in 0..(SeqMod - 1)
  BY SizesAssumption

(* A datagram that comes in has a number. *)
LEMMA DelayedNumber ==
  ASSUME AirTypeOK, NEW d \in Delays
  PROVE  Delayed(d) \in SeqNos
<1>1. d \in Int /\ radio \in Int /\ (radio - d) % SeqMod # 0
  BY SizesAssumption DEF Delays, AirTypeOK
<1>2. (radio - d) % SeqMod \in 0..(SeqMod - 1)
  BY <1>1, ModRange
<1> QED BY <1>1, <1>2, SizesAssumption DEF Delayed, SeqNos

(* The network keeps its own part of the state well typed. *)
LEMMA AirInv ==
  ASSUME AirTypeOK, [Next]_vars
  PROVE  AirTypeOK'
<1>1. CASE Send
  <2>1. radio + 1 \in Int
    BY SizesAssumption DEF AirTypeOK
  <2>2. radio' \in 0..(SeqMod - 1)
    BY <1>1, <2>1, ModRange DEF Send
  <2>3. ahead' \in 0..MaxOutage
    BY <1>1, SizesAssumption DEF Send, AirTypeOK
  <2>4. wrapped' \in BOOLEAN
    BY <1>1 DEF Send, AirTypeOK
  <2> QED BY <2>2, <2>3, <2>4 DEF AirTypeOK
<1>2. CASE Arrive
  <2>1. PICK d \in Delays :
          ahead' = (IF d < ahead THEN d ELSE ahead) /\ UNCHANGED <<radio, wrapped>>
    BY <1>2 DEF Arrive
  <2>2. d \in 0..Late
    BY DEF Delays
  <2>3. ahead' \in 0..MaxOutage
    BY <2>1, <2>2, SizesAssumption DEF AirTypeOK
  <2> QED BY <2>1, <2>3 DEF AirTypeOK
<1>3. CASE Tick \/ Purge
  <2>1. UNCHANGED air
    BY <1>3 DEF Tick, TickIdle, TickFlush, TickAsk, Purge
  <2> QED BY <2>1 DEF AirTypeOK, air
<1>4. CASE UNCHANGED vars
  BY <1>4 DEF AirTypeOK, vars
<1> QED BY <1>1, <1>2, <1>3, <1>4 DEF Next

-----------------------------------------------------------------------------
(* What becomes of each number of the window. *)

(* The keys of a window extended at its end and cut at its start. *)
LEMMA GrownKeys ==
  ASSUME WindowInv, buf # <<>>, NEW s \in SeqNos, s > LastKey,
         NEW w, w = Bounded(buf \o Run(LastKey + 1, s))
  PROVE  Keys(w) \subseteq Keys(buf) \cup (LastKey + 1)..s
<1> DEFINE c == buf \o Run(LastKey + 1, s)
<1>1. /\ LastKey = Last(buf) /\ LastKey \in SeqNos /\ FirstKey \in SeqNos
      /\ FirstKey = buf[1].seq /\ Keys(buf) = FirstKey .. LastKey
      /\ Len(buf) \in Nat /\ Len(buf) >= 1 /\ buf \in Seq(Entry)
      /\ \A i \in DOMAIN buf : buf[i].seq = buf[1].seq + i - 1
  BY WindowEnds DEF WindowInv, WindowTypeOK, Contiguous
<1>2. /\ c \in Seq(Entry) /\ c # <<>> /\ Last(c) = s
      /\ \A i \in DOMAIN c : c[i].seq = c[1].seq + i - 1
      /\ \A i \in DOMAIN c : i <= Len(buf) => c[i] = buf[i]
      /\ Len(c) > Len(buf)
  BY <1>1, RunExtends
<1> HIDE DEF c
<1>3. c[1].seq = FirstKey
  BY <1>1, <1>2
<1>4. Keys(c) = FirstKey .. s
  BY <1>2, <1>3, KeysInterval
<1>5. Keys(w) \subseteq Keys(c)
  <2>1. /\ w \in Seq(Entry) /\ Len(w) <= Len(c)
        /\ \A i \in DOMAIN w : w[i] = c[i + Len(c) - Len(w)]
    BY <1>2, BoundedWindow DEF c
  <2>2. \A i \in DOMAIN w : i + Len(c) - Len(w) \in DOMAIN c
    BY <1>2, <2>1
  <2> QED BY <2>1, <2>2 DEF Keys
<1>6. {FirstKey, LastKey, s} \subseteq Int
  BY <1>1, SizesAssumption DEF SeqNos
<1> QED BY <1>1, <1>4, <1>5, <1>6

(* A number is in the window's account as long as it is in the window. *)
LEMMA AccountedStep ==
  ASSUME WindowInv, Accounted, WindowInv', [Next]_vars, AirTypeOK
  PROVE  Accounted'
<1>0. /\ WindowTypeOK /\ HeardInWindow /\ HeardInWindow'
      /\ gaveUp \subseteq Keys(buf)
      /\ \A k \in Keys(buf) : k \in heard \/ k \in gaveUp \/ k \in DOMAIN missing
  BY Zenon DEF WindowInv, Accounted
<1>1. ASSUME gaveUp' \subseteq Keys(buf'),
             \A k \in Keys(buf') : k \in heard' \/ k \in gaveUp' \/ k \in DOMAIN missing'
      PROVE  Accounted'
  <2>1. heard' \subseteq Keys(buf')
    BY <1>0 DEF HeardInWindow
  <2> QED BY <1>1, <2>1, Zenon DEF Accounted
<1>2. CASE UNCHANGED <<buf, missing, heard, gaveUp>>
  BY <1>2, Zenon DEF Accounted, Keys
<1>3. ASSUME NEW s \in SeqNos, Track(s) PROVE Accounted'
  <2>1. CASE TrackSeed(s) \/ TrackReset(s)
    <3>1. buf' = <<Fresh(s)>> /\ heard' = {s} /\ gaveUp' = {}
      BY <2>1 DEF TrackSeed, TrackReset, Seed
    <3>2. Keys(buf') = {s}
      BY <3>1, FreshParts DEF Keys
    <3> QED BY <1>1, <3>1, <3>2
  <2>2. CASE TrackGap(s) \/ TrackNext(s)
    <3>1. /\ buf # <<>> /\ LastKey \in Int /\ s \in Int
          /\ heard' = (heard \cup {s}) \cap Keys(buf') /\ gaveUp' = gaveUp \cap Keys(buf')
      <4>1. buf # <<>>
        BY <2>2 DEF TrackGap, TrackNext
      <4>2. heard' = (heard \cup {s}) \cap Keys(buf') /\ gaveUp' = gaveUp \cap Keys(buf')
        BY <2>2, Zenon DEF TrackGap, TrackNext
      <4> QED BY <1>0, <4>1, <4>2, WindowEnds, SizesAssumption DEF WindowInv, SeqNos
    <3>2. s > LastKey /\ buf' = Bounded(buf \o Run(LastKey + 1, s))
      <4>1. CASE TrackGap(s)
        BY <3>1, <4>1 DEF TrackGap
      <4>2. CASE TrackNext(s)
        <5>1. s = LastKey + 1 /\ Append(buf, Fresh(s)) = buf \o Run(LastKey + 1, s)
          BY <4>2, NextIsRun
        <5>2. buf' = Bounded(Append(buf, Fresh(s)))
          BY <4>2 DEF TrackNext
        <5>3. buf' = Bounded(buf \o Run(LastKey + 1, s))
          BY <5>1, <5>2, Zenon
        <5>4. s > LastKey
          BY <3>1, <5>1
        <5> QED BY <5>3, <5>4
      <4> QED BY <2>2, <4>1, <4>2
    <3>3. Keys(buf') \subseteq Keys(buf) \cup (LastKey + 1)..s
      BY <3>1, <3>2, GrownKeys
    <3>4. DOMAIN missing \cup (LastKey + 1)..(s - 1) \subseteq DOMAIN missing'
      <4>1. CASE TrackGap(s)
        BY <4>1 DEF TrackGap
      <4>2. CASE TrackNext(s)
        BY <3>1, <4>2, NextIsRun DEF TrackNext
      <4> QED BY <2>2, <4>1, <4>2
    <3>5. (LastKey + 1)..s \subseteq (LastKey + 1)..(s - 1) \cup {s}
      BY <3>1
    <3> QED BY <1>0, <1>1, <3>1, <3>3, <3>4, <3>5
  <2>3. CASE TrackKnown(s)
    BY <1>0, <1>1, <2>3 DEF TrackKnown, Only
  <2> QED BY <1>3, <2>1, <2>2, <2>3 DEF Track
<1>4. CASE Tick
  <2>1. Keys(Older(buf)) = Keys(buf)
    BY <1>0, OlderWindow
  <2>2. CASE TickIdle
    BY <1>0, <1>1, <2>1, <2>2 DEF TickIdle
  <2>3. CASE TickFlush
    BY <1>1, <2>3 DEF TickFlush, Keys
  <2>4. CASE TickAsk
    <3>1. buf' = Older(buf) /\ heard' = heard /\ DOMAIN missing' = Asked
          /\ gaveUp' = gaveUp \cup ((DOMAIN missing \ Asked) \cap Keys(buf))
      BY <2>4 DEF TickAsk
    <3> QED BY <1>0, <1>1, <2>1, <3>1
  <2> QED BY <1>4, <2>2, <2>3, <2>4 DEF Tick
<1>5. CASE Purge
  <2>1. PICK n \in 0..Len(buf) : buf' = SubSeq(buf, n + 1, Len(buf))
    BY <1>5 DEF Purge
  <2>2. PICK D \in SUBSET DOMAIN missing :
          DOMAIN missing' = DOMAIN missing \ D /\ gaveUp' = (gaveUp \cup D) \cap Keys(buf')
    BY <1>5 DEF Purge, Only
  <2>3. heard' = heard \cap Keys(buf')
    BY <1>5 DEF Purge
  <2>4. Keys(buf') \subseteq Keys(buf)
    <3>1. buf \in Seq(Entry) /\ Len(buf) \in Nat /\ n \in Nat /\ n <= Len(buf)
      BY <1>0 DEF WindowTypeOK
    <3>2. \A i \in DOMAIN buf' : i + n \in DOMAIN buf /\ buf'[i] = buf[i + n]
      BY <2>1, <3>1
    <3> QED BY <3>2 DEF Keys
  <2> QED BY <1>0, <1>1, <2>2, <2>3, <2>4
<1>6. CASE Send \/ UNCHANGED vars
  BY <1>2, <1>6 DEF Send, vars
<1>7. CASE Arrive
  <2>1. PICK d \in Delays : Track(Delayed(d))
    BY <1>7 DEF Arrive
  <2> QED BY <1>3, <2>1, DelayedNumber
<1> QED BY <1>4, <1>5, <1>6, <1>7 DEF Next

-----------------------------------------------------------------------------
(* The initial state. *)
LEMMA InitInv == Init => IInv
<1> SUFFICES ASSUME Init PROVE IInv
  OBVIOUS
<1>1. /\ radio = 0 /\ wrapped = FALSE /\ ahead = 0
      /\ buf = <<>> /\ missing = None /\ heard = {} /\ gaveUp = {}
  BY DEF Init
<1>2. missing = [k \in DOMAIN missing |-> missing[k]] /\ DOMAIN missing = {}
  BY <1>1 DEF None
<1>3. buf \in Seq(Entry) /\ Len(buf) = 0 /\ DOMAIN buf = {}
  BY <1>1
<1>4. AirTypeOK
  <2>1. 0 \in 0..(SeqMod - 1) /\ 0 \in 0..MaxOutage
    BY SizesAssumption
  <2> QED BY <1>1, <2>1 DEF AirTypeOK
<1>5. WindowTypeOK
  BY <1>1, <1>2, <1>3, SizesAssumption DEF WindowTypeOK
<1>6. Contiguous /\ Young /\ HeardInWindow /\ NeverAsksForHeard
  BY <1>1, <1>2, <1>3 DEF Contiguous, Young, HeardInWindow, NeverAsksForHeard
<1> QED BY <1>4, <1>5, <1>6 DEF IInv, WindowInv

(* Each step of the stream keeps the invariant. *)
LEMMA StepInv == IInv /\ [Next]_vars => IInv'
<1> SUFFICES ASSUME AirTypeOK, WindowInv, [Next]_vars PROVE IInv'
  BY DEF IInv
<1>1. AirTypeOK'
  BY AirInv
<1>2. WindowInv'
  <2>1. CASE Send \/ UNCHANGED vars
    <3>1. UNCHANGED <<buf, missing, heard, gaveUp>>
      BY <2>1 DEF Send, vars
    <3> QED BY <3>1 DEF WindowInv, WindowTypeOK, Contiguous, Young, HeardInWindow,
                        NeverAsksForHeard, Last, Keys
  <2>2. CASE Arrive
    <3>1. PICK d \in Delays : Track(Delayed(d))
      BY <2>2 DEF Arrive
    <3>2. Delayed(d) \in SeqNos
      BY DelayedNumber
    <3> QED BY <3>1, <3>2, TrackInv
  <2>3. CASE Tick
    BY <2>3, TickInv
  <2>4. CASE Purge
    BY <2>4, PurgeInv
  <2> QED BY <2>1, <2>2, <2>3, <2>4 DEF Next
<1> QED BY <1>1, <1>2 DEF IInv

(* The invariant holds in every state. *)
THEOREM Invariant == Spec => []IInv
<1>1. Init => IInv
  BY InitInv
<1>2. IInv /\ [Next]_vars => IInv'
  BY StepInv
<1> QED BY <1>1, <1>2, PTL DEF Spec

(* Type correctness: in particular the window never holds more than        *)
(* BUFSIZE + 1 numbers and no packet is asked for more than MaxAsk times.  *)
THEOREM TypeCorrect == Spec => []TypeOK
<1>1. IInv => TypeOK
  BY DEF IInv, WindowInv, TypeOK
<1> QED BY <1>1, Invariant, PTL

(* The window of _track_rx_seq is always one run of consecutive numbers.   *)
THEOREM ContiguousHolds == Spec => []Contiguous
<1>1. IInv => Contiguous
  BY DEF IInv, WindowInv
<1> QED BY <1>1, Invariant, PTL

(* A packet that has arrived is never asked for again.                     *)
THEOREM NeverAsksForHeardHolds == Spec => []NeverAsksForHeard
<1>1. IInv => NeverAsksForHeard
  BY DEF IInv, WindowInv
<1> QED BY <1>1, Invariant, PTL

(* The purge never empties a window that still misses a packet.            *)
THEOREM EmptyHasNoMissingHolds == Spec => []EmptyHasNoMissing
<1>1. IInv => EmptyHasNoMissing
  <2> SUFFICES ASSUME IInv, buf = <<>> PROVE missing = None
    BY DEF EmptyHasNoMissing
  <2>1. DOMAIN missing = {}
    BY DEF IInv, WindowInv, Young
  <2>2. missing = [k \in DOMAIN missing |-> missing[k]]
    BY DEF IInv, WindowInv, WindowTypeOK
  <2> QED BY <2>1, <2>2 DEF None
<1> QED BY <1>1, Invariant, PTL

(* All of it together: the receive window and the list of missing packets  *)
(* agree, whatever _track_rx_seq, the cadence and the purge do.            *)
THEOREM WindowSoundHolds == Spec => []WindowSound
<1>1. TypeOK /\ Contiguous /\ NeverAsksForHeard /\ EmptyHasNoMissing => WindowSound
  BY DEF WindowSound
<1> QED
  BY <1>1, TypeCorrect, ContiguousHolds, NeverAsksForHeardHolds, EmptyHasNoMissingHolds, PTL

(* Nothing is lost silently: every number of the window has arrived, is being asked for, or was   *)
(* given up after MaxAsk requests or by the trim of an overlong list.                             *)
THEOREM AccountedHolds == Spec => []Accounted
<1>1. Init => Accounted
  BY DEF Init, Accounted, Keys
<1>2. IInv /\ IInv' /\ Accounted /\ [Next]_vars => Accounted'
  BY AccountedStep DEF IInv
<1> QED BY <1>1, <1>2, Invariant, PTL DEF Spec

-----------------------------------------------------------------------------
(***************************************************************************)
(* The control session: its inductive invariant.                           *)
(***************************************************************************)

\* A login of the gate has been granted: for as long as it lives, or until the radio's
\* disconnect has told the gate that it does not.
Admitted == authed \/ kicked

\* Until then the gate has no token, no datagram on its way to the radio carries one, and
\* so none of the answers a token is needed for is on its way back.
NothingBeforeLogin ==
  ~Admitted =>
    /\ token = 0 /\ ~ready
    /\ \A m \in sent : m.tok = 0
    /\ \A a \in got : a.type # "ports" /\ (a.type = "rejected" => a.tok = 0)

\* tokRequest is the newest login's, and a grant names its login twice.
LoginsNumbered ==
  /\ tokReq = logins
  /\ \A a \in got : a.type = "granted" => a.tok = a.req

AuthIInv == AuthTypeOK /\ NothingBeforeLogin /\ LoginsNumbered

-----------------------------------------------------------------------------
(* Types of the control session *)

RequestTypes == {"hello", "ready", "login", "confirm", "renew", "stream", "remove"}

(* A datagram of known type and numbers is a request or an answer. *)
LEMMA MsgTypes ==
  ASSUME NEW t, NEW req \in Logins, NEW tok \in Logins
  PROVE  /\ t \in RequestTypes => Msg(t, req, tok) \in Request
         /\ t \in AnswerTypes => Msg(t, req, tok) \in Answer
         /\ Msg(t, req, tok).type = t /\ Msg(t, req, tok).tok = tok /\ Msg(t, req, tok).req = req
BY DEF Msg, RequestTypes, Request, Answer

(* The numbers start at 0. *)
LEMMA ZeroLogins == 0 \in Logins /\ \A n \in Logins : n < MaxLogins => n + 1 \in Logins
BY BoundsAssumption DEF BoundsAssumption, Logins

(* A message of no login. *)
LEMMA PlainTypes ==
  ASSUME NEW t
  PROVE  /\ t \in RequestTypes => Plain(t) \in Request
         /\ t \in AnswerTypes => Plain(t) \in Answer
         /\ Plain(t).type = t /\ Plain(t).tok = 0
BY MsgTypes, ZeroLogins DEF Plain

(* What a datagram taken in leaves on its way. *)
LEMMA ReceiveEffect ==
  ASSUME AuthTypeOK, NEW t, NEW m, Receive(t, m)
  PROVE  /\ m \in got /\ m \in Answer /\ m.type = t /\ got' \subseteq got
         /\ faults' \in 0..MaxFaults /\ gate' = gate /\ live' = live
BY BoundsAssumption DEF AuthTypeOK, Receive, BoundsAssumption

(* A login goes out under a new number. *)
LEMMA LoginEffect ==
  ASSUME AuthTypeOK, SendLogin
  PROVE  /\ logins' \in Logins /\ tokReq' = logins'
         /\ sent' \subseteq Request
         /\ \A m \in sent' : m \in sent \/ m.tok = 0
<1>1. logins + 1 \in Logins /\ 0 \in Logins
  BY ZeroLogins DEF AuthTypeOK, SendLogin
<1>2. Msg("login", logins + 1, 0) \in Request /\ Msg("login", logins + 1, 0).tok = 0
  BY <1>1, MsgTypes DEF RequestTypes
<1> QED
  BY <1>1, <1>2 DEF AuthTypeOK, SendLogin

-----------------------------------------------------------------------------
(* The reader *)

(* A datagram taken in keeps the invariant. *)
LEMMA ReaderSound ==
  ASSUME AuthIInv, NEW m, Reader(m)
  PROVE  AuthIInv'
<1> USE DEF Admitted
<1>0. AuthTypeOK /\ NothingBeforeLogin /\ LoginsNumbered
  BY DEF AuthIInv
<1>1. CASE OnHere(m)
  <2>1. Plain("ready") \in Request /\ Plain("ready").tok = 0
    BY PlainTypes DEF RequestTypes
  <2>2. got' \subseteq got /\ faults' \in 0..MaxFaults /\ gate' = gate /\ live' = live
    BY <1>0, <1>1, ReceiveEffect DEF OnHere
  <2>3. 0 \in 0..AskLimit
    BY BoundsAssumption DEF BoundsAssumption
  <2>4. AuthTypeOK'
    BY <1>0, <1>1, <2>1, <2>2, <2>3 DEF OnHere, AuthTypeOK, session
  <2> QED
    BY <1>0, <1>1, <2>1, <2>2, <2>4
       DEF OnHere, AuthIInv, NothingBeforeLogin, LoginsNumbered, session
<1>2. CASE OnReady(m) \/ OnRejected(m)
  <2>1. m.type \in {"ready", "rejected"} /\ Receive(m.type, m) /\ SendLogin
    BY <1>0, <1>2, ReceiveEffect DEF OnReady, OnRejected
  <2>2. /\ m \in got /\ m \in Answer /\ got' \subseteq got /\ faults' \in 0..MaxFaults
        /\ gate' = gate /\ live' = live
    BY <1>0, <2>1, ReceiveEffect
  <2>3. /\ logins' \in Logins /\ tokReq' = logins' /\ sent' \subseteq Request
        /\ \A x \in sent' : x \in sent \/ x.tok = 0
    BY <1>0, <2>1, LoginEffect
  <2>4. token' \in {token, m.tok} /\ token' \in Logins
    BY <1>0, <1>2, <2>2 DEF OnReady, OnRejected, Answer, AuthTypeOK
  <2>5. /\ UNCHANGED <<hello, counter, authed, kicked, failed>>
        /\ ready' \in BOOLEAN /\ opened' \in BOOLEAN /\ (ready' => ready)
    <3>1. CASE OnReady(m)
      BY <1>0, <3>1 DEF OnReady, AuthTypeOK
    <3>2. CASE OnRejected(m)
      BY <1>0, <3>2 DEF OnRejected, AuthTypeOK
    <3> QED
      BY <1>2, <3>1, <3>2
  <2>6. AuthTypeOK'
    BY <1>0, <2>2, <2>3, <2>4, <2>5 DEF AuthTypeOK
  <2>7. ~Admitted => token' = 0
    BY <1>0, <1>2, <2>1, <2>2 DEF OnReady, OnRejected, Receive, NothingBeforeLogin
  <2> QED
    BY <1>0, <2>2, <2>3, <2>5, <2>6, <2>7 DEF AuthIInv, NothingBeforeLogin, LoginsNumbered
<1>3. CASE OnGranted(m)
  <2>1. m \in Answer /\ got' \subseteq got /\ faults' \in 0..MaxFaults /\ gate' = gate /\ live' = live
    BY <1>0, <1>3, ReceiveEffect DEF OnGranted
  <2>2. m.tok \in Logins /\ tokReq \in Logins
    BY <1>0, <2>1 DEF Answer, AuthTypeOK
  <2>3. Msg("confirm", tokReq, m.tok) \in Request
    BY <2>2, MsgTypes DEF RequestTypes
  <2>4. AuthTypeOK'
    BY <1>0, <1>3, <2>1, <2>2, <2>3 DEF OnGranted, AuthTypeOK
  <2>5. authed' \/ (authed' = authed /\ UNCHANGED <<token, sent>>)
    BY <1>3 DEF OnGranted
  <2> QED
    BY <1>0, <1>3, <2>1, <2>4, <2>5 DEF OnGranted, AuthIInv, NothingBeforeLogin, LoginsNumbered
<1>4. CASE OnCaps(m) \/ OnRenewed(m)
  <2>1. got' \subseteq got /\ faults' \in 0..MaxFaults /\ gate' = gate /\ live' = live
    BY <1>0, <1>4, ReceiveEffect DEF OnCaps, OnRenewed
  <2>2. /\ Msg("stream", tokReq, token) \in Request
        /\ Msg("stream", tokReq, token).tok = token
    <3>1. tokReq \in Logins /\ token \in Logins
      BY <1>0 DEF AuthTypeOK
    <3> QED
      BY <3>1 DEF Msg, Request
  <2>3. sent' \in {sent, sent \cup {Msg("stream", tokReq, token)}}
    BY <1>4 DEF OnCaps, OnRenewed
  <2>4. UNCHANGED <<hello, counter, session>>
    BY <1>4 DEF OnCaps, OnRenewed
  <2>5. AuthTypeOK'
    BY <1>0, <2>1, <2>2, <2>3, <2>4 DEF AuthTypeOK, session
  <2> QED
    BY <1>0, <2>1, <2>2, <2>3, <2>4, <2>5 DEF AuthIInv, NothingBeforeLogin, LoginsNumbered, session
<1>5. CASE OnPorts(m)
  <2>1. /\ m \in got /\ m.type = "ports" /\ got' \subseteq got
        /\ faults' \in 0..MaxFaults /\ gate' = gate /\ live' = live
    BY <1>0, <1>5, ReceiveEffect DEF OnPorts
  <2>2. Admitted
    BY <1>0, <2>1 DEF NothingBeforeLogin
  <2>3. opened' \in BOOLEAN /\ ready' \in BOOLEAN
    BY <1>0, <1>5 DEF OnPorts, AuthTypeOK
  <2>4. AuthTypeOK'
    BY <1>0, <1>5, <2>1, <2>3 DEF OnPorts, AuthTypeOK
  <2> QED
    BY <1>0, <1>5, <2>1, <2>2, <2>4 DEF OnPorts, AuthIInv, NothingBeforeLogin, LoginsNumbered
<1>6. CASE OnDenied(m) \/ OnRefused(m) \/ OnKick(m)
  <2>1. got' \subseteq got /\ faults' \in 0..MaxFaults /\ gate' = gate /\ live' = live
    BY <1>0, <1>6, ReceiveEffect DEF OnDenied, OnRefused, OnKick
  <2>2. AuthTypeOK'
    BY <1>0, <1>6, <2>1 DEF OnDenied, OnRefused, OnKick, AuthTypeOK
  <2> QED
    BY <1>0, <1>6, <2>1, <2>2
       DEF OnDenied, OnRefused, OnKick, AuthIInv, NothingBeforeLogin, LoginsNumbered
<1> QED
  BY <1>1, <1>2, <1>3, <1>4, <1>5, <1>6 DEF Reader
-----------------------------------------------------------------------------
(* The cadence thread, and connect() and stop() *)

(* What the gate's other threads send keeps the invariant. *)
LEMMA ThreadsSound ==
  ASSUME AuthIInv,
         \/ AskTick \/ Renew
         \/ ConnectUp \/ ConnectTimeout \/ StopRemove \/ StopGone
  PROVE  AuthIInv'
<1> USE DEF Admitted
<1>0. AuthTypeOK /\ NothingBeforeLogin /\ LoginsNumbered
  BY DEF AuthIInv
<1>1. CASE AskTick
  <2>1. Plain("hello") \in Request /\ Plain("hello").tok = 0
    BY PlainTypes DEF RequestTypes
  <2>2. counter' \in 0..AskLimit
    <3>1. AskLimit \in Nat /\ counter \in 0..AskLimit
      BY <1>0, BoundsAssumption DEF AuthTypeOK, BoundsAssumption
    <3>2. counter' = counter \/ (counter # AskLimit /\ counter' = counter + 1)
      BY <1>1 DEF AskTick
    <3> QED
      BY <3>1, <3>2
  <2>3. AuthTypeOK'
    BY <1>0, <1>1, <2>1, <2>2 DEF AskTick, AuthTypeOK
  <2> QED
    BY <1>0, <1>1, <2>1, <2>3 DEF AskTick, AuthIInv, NothingBeforeLogin, LoginsNumbered
<1>2. CASE Renew
  <2>1. Msg("renew", tokReq, token) \in Request
    <3>1. tokReq \in Logins /\ token \in Logins
      BY <1>0 DEF AuthTypeOK
    <3> QED
      BY <3>1, MsgTypes DEF RequestTypes
  <2>2. AuthTypeOK'
    BY <1>0, <1>2, <2>1 DEF Renew, AuthTypeOK, session
  <2> QED
    BY <1>0, <1>2, <2>2 DEF Renew, AuthIInv, NothingBeforeLogin, LoginsNumbered, session
<1>3. CASE ConnectUp \/ ConnectTimeout \/ StopRemove
  <2>1. gate' \in {"up", "closing"} /\ UNCHANGED <<thread, sent, got>>
    BY <1>3 DEF ConnectUp, ConnectTimeout, StopRemove
  <2> QED
    BY <1>0, <2>1 DEF AuthIInv, AuthTypeOK, NothingBeforeLogin, LoginsNumbered, thread, session
<1>4. CASE StopGone
  <2>1. Msg("remove", tokReq, token) \in Request
    <3>1. tokReq \in Logins /\ token \in Logins
      BY <1>0 DEF AuthTypeOK
    <3> QED
      BY <3>1, MsgTypes DEF RequestTypes
  <2>2. AuthTypeOK'
    BY <1>0, <1>4, <2>1 DEF StopGone, AuthTypeOK, thread, session
  <2>3. sent' = sent \/ authed
    BY <1>4 DEF StopGone
  <2> QED
    BY <1>0, <1>4, <2>2, <2>3
       DEF StopGone, AuthIInv, NothingBeforeLogin, LoginsNumbered, thread, session
<1> QED
  BY <1>1, <1>2, <1>3, <1>4

-----------------------------------------------------------------------------
(* The radio *)

(* An answer of the radio reaches an open socket, or none. *)
LEMMA ReplyEffect ==
  ASSUME AuthTypeOK, NEW a \in Answer, Reply(a)
  PROVE  got' \subseteq Answer /\ \A x \in got' : x \in got \/ x = a
BY DEF AuthTypeOK, Reply

(* Before a login is granted the radio has no valid request in front of it. *)
LEMMA NothingValid ==
  ASSUME NothingBeforeLogin, ~Admitted, NEW m \in sent
  PROVE  m.tok = 0 /\ ~Valid(m)
BY DEF NothingBeforeLogin, Valid

(* A request taken by the radio keeps the invariant, if the answer is one it may give. *)
LEMMA TakeSound ==
  ASSUME AuthIInv, NEW m \in sent, sent' = sent \ {m},
         UNCHANGED <<gate, hello, counter, session, faults>>, live' \in Logins,
         got' \subseteq Answer,
         \A a \in got' :
           \/ a \in got
           \/ /\ a.type = "granted" => a.tok = a.req
              /\ ~Admitted => a.type # "ports" /\ (a.type = "rejected" => a.tok = 0)
  PROVE  AuthIInv'
<1>1. AuthTypeOK'
  BY DEF AuthIInv, AuthTypeOK, session
<1>2. NothingBeforeLogin'
  BY DEF AuthIInv, NothingBeforeLogin, session, Admitted
<1>3. LoginsNumbered'
  BY DEF AuthIInv, LoginsNumbered, session
<1> QED
  BY <1>1, <1>2, <1>3 DEF AuthIInv

(* The radio's steps keep the invariant. *)
LEMMA RadioSound ==
  ASSUME AuthIInv, NEW m \in sent, Radio(m)
  PROVE  AuthIInv'
<1>0. /\ AuthTypeOK /\ live \in Logins /\ m \in Request /\ m.req \in Logins /\ m.tok \in Logins
      /\ got \subseteq Answer /\ 0 \in Logins
  BY ZeroLogins DEF AuthIInv, AuthTypeOK, Request
<1>1. sent' = sent \ {m} /\ UNCHANGED <<gate, hello, counter, session, faults>>
  BY DEF Radio, RadioAnswers, RadioHere, RadioReady, RadioGrants, RadioDenies, RadioConfirms,
         RadioRenews, RadioOpens, RadioRefuses, RadioRemoves, Take
<1>2. live' \in Logins
  BY <1>0 DEF Radio, RadioAnswers, RadioHere, RadioReady, RadioGrants, RadioDenies, RadioConfirms,
              RadioRenews, RadioOpens, RadioRefuses, RadioRemoves
<1>3. ~Admitted => m.tok = 0 /\ ~Valid(m)
  BY NothingValid DEF AuthIInv
<1>4. CASE got' = got
  BY <1>0, <1>1, <1>2, <1>4, TakeSound
<1>5. ASSUME NEW t \in {"here", "ready", "denied", "caps", "renewed", "refused"}, Reply(Plain(t))
      PROVE  AuthIInv'
  <2>1. Plain(t) \in Answer /\ Plain(t).type = t
    BY PlainTypes DEF AnswerTypes
  <2>2. got' \subseteq Answer /\ \A x \in got' : x \in got \/ x = Plain(t)
    BY <1>0, <1>5, <2>1, ReplyEffect
  <2> QED
    BY <1>1, <1>2, <2>1, <2>2, TakeSound
<1>6. CASE Reply(Plain("ports")) /\ Valid(m)
  <2>1. Plain("ports") \in Answer /\ Plain("ports").type = "ports"
    BY PlainTypes DEF AnswerTypes
  <2>2. got' \subseteq Answer /\ \A x \in got' : x \in got \/ x = Plain("ports")
    BY <1>0, <1>6, <2>1, ReplyEffect
  <2> QED
    BY <1>1, <1>2, <1>3, <1>6, <2>1, <2>2, TakeSound
<1>7. CASE Reply(Msg("granted", m.req, m.req)) \/ Reply(Msg("rejected", m.req, m.tok))
  <2>1. PICK a : /\ Reply(a)
                 /\ a \in {Msg("granted", m.req, m.req), Msg("rejected", m.req, m.tok)}
    BY <1>7
  <2>2. /\ a \in Answer
        /\ \/ a.type = "granted" /\ a.tok = a.req
           \/ a.type = "rejected" /\ a.tok = m.tok
    BY <1>0, <2>1 DEF Msg, Answer, AnswerTypes
  <2>3. got' \subseteq Answer /\ \A x \in got' : x \in got \/ x = a
    BY <1>0, <2>1, <2>2, ReplyEffect
  <2> QED
    BY <1>1, <1>2, <1>3, <2>2, <2>3, TakeSound
<1> QED
  BY <1>4, <1>5, <1>6, <1>7
     DEF Radio, RadioAnswers, RadioHere, RadioReady, RadioGrants, RadioDenies, RadioConfirms,
         RadioRenews, RadioOpens, RadioRefuses, RadioRemoves

(* A session the radio ends of itself comes as a kick, or as nothing. *)
LEMMA RadioEndsSound ==
  ASSUME AuthIInv, RadioEnds
  PROVE  AuthIInv'
<1>1. Plain("kick") \in Answer /\ Plain("kick").type = "kick"
  BY PlainTypes DEF AnswerTypes
<1>2. got' \subseteq Answer /\ \A x \in got' : x \in got \/ x = Plain("kick")
  BY <1>1, ReplyEffect DEF RadioEnds, AuthIInv, AuthTypeOK
<1>3. live' \in Logins /\ faults' \in 0..MaxFaults
  BY ZeroLogins, BoundsAssumption DEF RadioEnds, AuthIInv, AuthTypeOK, BoundsAssumption
<1>4. UNCHANGED <<gate, hello, counter, session, sent>>
  BY DEF RadioEnds
<1>5. AuthTypeOK'
  BY <1>2, <1>3, <1>4 DEF AuthIInv, AuthTypeOK, session
<1> QED
  BY <1>1, <1>2, <1>4, <1>5
     DEF AuthIInv, NothingBeforeLogin, LoginsNumbered, Admitted, session

-----------------------------------------------------------------------------
(* The theorems about the control session *)

(* The invariant holds, with any losses and repetitions of the network. *)
THEOREM AuthInvariantHolds == CadenceSpec => []AuthIInv
<1>1. AuthInit => AuthIInv
  <2> SUFFICES ASSUME AuthInit PROVE AuthIInv
    OBVIOUS
  <2>1. 0 \in 0..AskLimit /\ 0 \in 0..MaxFaults /\ 0 \in Logins
    BY ZeroLogins, BoundsAssumption DEF BoundsAssumption
  <2>2. AuthTypeOK
    BY <2>1 DEF AuthInit, AuthTypeOK
  <2> QED
    BY <2>2 DEF AuthInit, AuthIInv, NothingBeforeLogin, LoginsNumbered
<1>2. AuthIInv /\ [AuthNext]_authVars => AuthIInv'
  <2> SUFFICES ASSUME AuthIInv, [AuthNext]_authVars PROVE AuthIInv'
    OBVIOUS
  <2>1. CASE UNCHANGED authVars
    BY <2>1 DEF authVars, session, AuthIInv, AuthTypeOK, NothingBeforeLogin, LoginsNumbered, Admitted
  <2> QED
    BY <2>1, ReaderSound, ThreadsSound, RadioSound, RadioEndsSound DEF AuthNext
<1> QED
  BY <1>1, <1>2, PTL DEF CadenceSpec

(* Streams are handed out only for a login that was granted, until the gate has been told of its
   end: no status that comes late, twice or after a kick makes an unauthenticated session ready. *)
THEOREM SessionInvHolds == CadenceSpec => []SessionInv
<1>1. AuthIInv => SessionInv
  BY DEF AuthIInv, NothingBeforeLogin, Admitted, SessionInv, ReadyHasSession
<1> QED
  BY <1>1, AuthInvariantHolds, PTL

(* The token that is adopted is the one granted to the newest login, with several of them and of
   their replies on their way. *)
THEOREM NewestLoginAdoptedHolds == CadenceSpec => NewestLoginAdopted
<1>1. AuthIInv /\ [AuthNext]_authVars => (~authed /\ authed' => token' = logins)
  <2> SUFFICES ASSUME AuthIInv, [AuthNext]_authVars, ~authed, authed'
               PROVE  token' = logins
    OBVIOUS
  <2>1. PICK m \in got : OnGranted(m)
    BY DEF AuthNext, AskTick, Renew, RadioEnds, ConnectUp, ConnectTimeout, StopRemove, StopGone, thread,
           Radio, RadioAnswers, RadioHere, RadioReady, RadioGrants, RadioDenies, RadioConfirms,
           RadioRenews, RadioOpens, RadioRefuses, RadioRemoves, Take, session, authVars,
           Reader, OnHere, OnReady, OnDenied, OnCaps, OnRenewed, OnRejected, OnPorts, OnRefused,
           OnKick
  <2>2. m.type = "granted" /\ token' = m.tok /\ m.req = tokReq
    BY <2>1 DEF OnGranted, Receive
  <2> QED
    BY <2>2 DEF AuthIInv, LoginsNumbered
<1> QED
  BY <1>1, AuthInvariantHolds, PTL DEF CadenceSpec, NewestLoginAdopted
=============================================================================
