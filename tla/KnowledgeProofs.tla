-------------------------- MODULE KnowledgeProofs --------------------------
(***************************************************************************)
(* Proofs about the components of MCKnowledge, each for every value of its *)
(* constants.  They share no state: a step moves one of them and leaves    *)
(* the others as they were, so each has an invariant of its own.           *)
(***************************************************************************)
EXTENDS MCKnowledge, NumberFacts

\* A step is a step of the component or leaves it alone.
LEMMA OneComponentMoves ==
  ASSUME [Next]_vars
  PROVE  /\ LiveNext \/ UNCHANGED lqVars
         /\ FreshNext \/ UNCHANGED frVars
         /\ CorpusNext \/ UNCHANGED cpVars
         /\ SyncNext \/ UNCHANGED csVars
         /\ ReplicasNext \/ UNCHANGED rpVars
         /\ TransferNext \/ UNCHANGED tfVars
<1>1. CASE UNCHANGED vars
  BY <1>1 DEF vars
<1>2. CASE Next
  BY <1>2, Zenon DEF Next, Only
<1> QED BY <1>1, <1>2

-----------------------------------------------------------------------------
(* Live queries: what a subscriber was sent and what it lost, up to where   *)
(* it has read.                                                             *)
Subscribers == [at : {"closed", "open", "live"}, filter : Filters, from : Nat, pos : Nat,
                sent : Seq(Nat), lost : SUBSET Nat]
ToSend(me) == {i \in (me.from + 1)..me.pos : i \notin me.lost /\ matches_filter(lqEmitted[i], me.filter)}
ReadsUpTo(me) ==
    /\ me.from <= me.pos /\ me.pos <= Len(lqEmitted)
    /\ Range(me.sent) = ToSend(me)
    /\ \A j, k \in DOMAIN me.sent : j < k => me.sent[j] < me.sent[k]
    /\ \A i \in me.lost : i <= me.pos /\ i + LqCapacity <= Len(lqEmitted)
LiveInv ==
    /\ lqEmitted \in Seq(LqEvents) /\ DOMAIN lqConn = LqClients
    /\ \A c \in LqClients : lqConn[c] \in Subscribers /\ ReadsUpTo(lqConn[c])

LEMMA ClosedReads ==
  ASSUME NEW n \in Nat, lqEmitted \in Seq(LqEvents), n <= Len(lqEmitted), NEW f \in Filters, NEW a \in {"closed", "open", "live"},
         NEW me, me = [at |-> a, filter |-> f, from |-> n, pos |-> n, sent |-> <<>>, lost |-> {}]
  PROVE  me \in Subscribers /\ ReadsUpTo(me)
<1>1. /\ me.at = a /\ me.filter = f /\ me.from = n /\ me.pos = n /\ me.sent = <<>> /\ me.lost = {}
  OBVIOUS
<1>2. me \in Subscribers
  <2>1. <<>> \in Seq(Nat)
    OBVIOUS
  <2>2. {} \in SUBSET Nat
    OBVIOUS
  <2> QED BY <2>1, <2>2, Zenon DEF Subscribers
<1>3. ToSend(me) = {}
  BY <1>1 DEF ToSend
<1>4. Range(me.sent) = {}
  BY <1>1 DEF Range
<1>5. me.from <= me.pos /\ me.pos <= Len(lqEmitted)
  BY <1>1
<1>6. DOMAIN me.sent = {} /\ \A i : i \notin me.lost
  BY <1>1
<1>7. ReadsUpTo(me)
  BY <1>3, <1>4, <1>5, <1>6, Zenon DEF ReadsUpTo
<1> QED BY <1>2, <1>7

LEMMA FiltersGiven == NoFilter \in Filters
BY DEF NoFilter, Filters

LEMMA LiveStarts == LiveInit => LiveInv
<1> SUFFICES ASSUME LiveInit PROVE LiveInv
  OBVIOUS
<1>1. lqEmitted = <<>> /\ lqConn = [c \in LqClients |-> Closed]
  BY DEF LiveInit
<1>2. lqEmitted \in Seq(LqEvents) /\ Len(lqEmitted) = 0
  BY <1>1
<1>3. PICK me : me = Closed
  OBVIOUS
<1>4. me \in Subscribers /\ ReadsUpTo(me)
  BY <1>2, <1>3, FiltersGiven, ClosedReads DEF Closed
<1> QED BY <1>1, <1>2, <1>3, <1>4 DEF LiveInv

\* A subscriber keeps what it has while events are emitted.
LEMMA ReadsStay ==
  ASSUME lqEmitted \in Seq(LqEvents), NEW e \in LqEvents, lqEmitted' = Append(lqEmitted, e),
         NEW me \in Subscribers, ReadsUpTo(me)
  PROVE  ReadsUpTo(me)'
<1>1. /\ lqEmitted' \in Seq(LqEvents) /\ Len(lqEmitted') = Len(lqEmitted) + 1 /\ Len(lqEmitted) \in Nat
      /\ \A i \in 1..Len(lqEmitted) : lqEmitted'[i] = lqEmitted[i]
  OBVIOUS
<1>2. me.from \in Nat /\ me.pos \in Nat /\ me.lost \subseteq Nat /\ me.pos <= Len(lqEmitted) /\ LqCapacity \in Nat
  BY LiveAssumption DEF Subscribers, ReadsUpTo
<1>3. \A i \in (me.from + 1)..me.pos : lqEmitted'[i] = lqEmitted[i]
  BY <1>1, <1>2
<1>4. ToSend(me)' = ToSend(me)
  BY <1>3 DEF ToSend
<1>5. me.pos <= Len(lqEmitted') /\ \A i \in me.lost : i + LqCapacity <= Len(lqEmitted')
  BY <1>1, <1>2 DEF ReadsUpTo
<1> QED BY <1>4, <1>5 DEF ReadsUpTo

\* The entries of a sequence with one more.
LEMMA AppendFacts ==
  ASSUME NEW s \in Seq(Nat), NEW x \in Nat
  PROVE  /\ Append(s, x) \in Seq(Nat) /\ Range(Append(s, x)) = Range(s) \cup {x}
         /\ Len(s) \in Nat /\ DOMAIN s = 1..Len(s) /\ DOMAIN Append(s, x) = 1..(Len(s) + 1)
         /\ \A i \in 1..Len(s) : Append(s, x)[i] = s[i] /\ s[i] \in Range(s)
         /\ Append(s, x)[Len(s) + 1] = x
<1>1. /\ Append(s, x) \in Seq(Nat) /\ Len(s) \in Nat /\ DOMAIN s = 1..Len(s)
      /\ DOMAIN Append(s, x) = 1..(Len(s) + 1)
      /\ \A i \in 1..Len(s) : Append(s, x)[i] = s[i]
      /\ Append(s, x)[Len(s) + 1] = x
  OBVIOUS
<1>2. \A i \in 1..Len(s) : s[i] \in Range(s)
  BY <1>1, Zenon DEF Range
<1>3. Range(Append(s, x)) \subseteq Range(s) \cup {x}
  <2> SUFFICES ASSUME NEW i \in 1..(Len(s) + 1) PROVE Append(s, x)[i] \in Range(s) \cup {x}
    BY <1>1, Zenon DEF Range
  <2>1. i \in 1..Len(s) \/ i = Len(s) + 1
    BY <1>1
  <2> QED BY <1>1, <1>2, <2>1
<1>4. Range(s) \cup {x} \subseteq Range(Append(s, x))
  <2>1. \A i \in 1..Len(s) : i \in 1..(Len(s) + 1)
    BY <1>1
  <2>2. Len(s) + 1 \in 1..(Len(s) + 1)
    BY <1>1
  <2>3. x \in Range(Append(s, x))
    BY <1>1, <2>2, Zenon DEF Range
  <2>4. \A i \in 1..Len(s) : s[i] \in Range(Append(s, x))
    BY <1>1, <2>1, Zenon DEF Range
  <2> QED BY <1>1, <2>3, <2>4, Zenon DEF Range
<1> QED BY <1>1, <1>2, <1>3, <1>4

\* rx.recv() of one subscriber: the next event, or the events it lost.
LEMMA RecvKeeps ==
  ASSUME lqEmitted \in Seq(LqEvents), NEW me \in Subscribers, ReadsUpTo(me), me.pos < Len(lqEmitted),
         NEW new,
         new = IF Len(lqEmitted) - me.pos > LqCapacity
               THEN [me EXCEPT !.pos = Len(lqEmitted) - LqCapacity,
                               !.lost = @ \cup ((me.pos + 1)..(Len(lqEmitted) - LqCapacity))]
               ELSE [me EXCEPT !.pos = @ + 1,
                               !.sent = IF matches_filter(lqEmitted[me.pos + 1], me.filter) THEN Append(@, me.pos + 1) ELSE @]
  PROVE  new \in Subscribers /\ ReadsUpTo(new)
<1>1. /\ me.from \in Nat /\ me.pos \in Nat /\ me.lost \subseteq Nat /\ me.sent \in Seq(Nat) /\ me.filter \in Filters
      /\ LqCapacity \in Nat \ {0} /\ Len(lqEmitted) \in Nat
  BY LiveAssumption DEF Subscribers
<1>2. /\ me.from <= me.pos /\ Range(me.sent) = ToSend(me)
      /\ \A j, k \in DOMAIN me.sent : j < k => me.sent[j] < me.sent[k]
      /\ \A i \in me.lost : i <= me.pos /\ i + LqCapacity <= Len(lqEmitted)
  BY DEF ReadsUpTo
<1>3. CASE Len(lqEmitted) - me.pos > LqCapacity
  <2>1. PICK p, l : p = Len(lqEmitted) - LqCapacity /\ l = me.lost \cup ((me.pos + 1)..p)
    OBVIOUS
  <2>2. p \in Nat /\ me.pos < p /\ p <= Len(lqEmitted) /\ l \subseteq Nat
    BY <1>1, <1>3, <2>1
  <2>3. new = [me EXCEPT !.pos = p, !.lost = l]
    BY <1>3, <2>1
  <2>4. new \in Subscribers
    BY <2>2, <2>3 DEF Subscribers
  <2>5. /\ new.from = me.from /\ new.pos = p /\ new.sent = me.sent /\ new.lost = l /\ new.filter = me.filter
    BY <2>3 DEF Subscribers
  <2>6. ToSend(new) = ToSend(me)
    BY <1>1, <1>2, <2>1, <2>2, <2>5 DEF ToSend
  <2>7. \A i \in l : i <= p /\ i + LqCapacity <= Len(lqEmitted)
    BY <1>1, <1>2, <2>1, <2>2
  <2>8. new.from <= new.pos /\ new.pos <= Len(lqEmitted)
    BY <1>1, <1>2, <2>2, <2>5
  <2> QED BY <1>2, <2>4, <2>5, <2>6, <2>7, <2>8, Zenon DEF ReadsUpTo
<1>4. CASE ~(Len(lqEmitted) - me.pos > LqCapacity)
  <2>1. PICK p : p = me.pos + 1
    OBVIOUS
  <2>2. p \in Nat /\ me.pos < p /\ p <= Len(lqEmitted) /\ me.from <= p /\ p \notin me.lost
    BY <1>1, <1>2, <2>1
  <2>3. CASE matches_filter(lqEmitted[p], me.filter)
    <3>1. PICK s : s = Append(me.sent, p)
      OBVIOUS
    <3>2. /\ s \in Seq(Nat) /\ Range(s) = Range(me.sent) \cup {p}
          /\ Len(me.sent) \in Nat /\ DOMAIN me.sent = 1..Len(me.sent) /\ DOMAIN s = 1..(Len(me.sent) + 1)
          /\ \A i \in 1..Len(me.sent) : s[i] = me.sent[i] /\ me.sent[i] \in Range(me.sent)
          /\ s[Len(me.sent) + 1] = p
      BY <1>1, <2>2, <3>1, AppendFacts
    <3>3. new = [me EXCEPT !.pos = p, !.sent = s]
      BY <1>4, <2>1, <2>3, <3>1
    <3>4. new \in Subscribers
      BY <2>2, <3>2, <3>3 DEF Subscribers
    <3>5. new.from = me.from /\ new.pos = p /\ new.sent = s /\ new.lost = me.lost /\ new.filter = me.filter
      BY <3>3 DEF Subscribers
    <3>6. ToSend(new) = ToSend(me) \cup {p}
      BY <1>1, <1>2, <2>1, <2>2, <2>3, <3>5 DEF ToSend
    <3>7. \A i \in 1..Len(me.sent) : me.sent[i] \in Nat /\ me.sent[i] < p
      <4>1. \A x \in ToSend(me) : x \in Nat /\ x < p
        BY <1>1, <2>1 DEF ToSend
      <4> QED BY <1>2, <3>2, <4>1, Zenon
    <3>8. ASSUME NEW j \in DOMAIN s, NEW k \in DOMAIN s, j < k PROVE s[j] < s[k]
      <4>1. j \in 1..Len(me.sent)
        BY <3>2, <3>8
      <4>2. CASE k \in 1..Len(me.sent)
        BY <1>2, <3>2, <3>8, <4>1, <4>2
      <4>3. CASE k = Len(me.sent) + 1
        BY <3>2, <3>7, <4>1, <4>3
      <4> QED BY <3>2, <4>2, <4>3, SMTT(40)
    <3>9. \A i \in me.lost : i <= p /\ i + LqCapacity <= Len(lqEmitted)
      BY <1>1, <1>2, <2>2
    <3> QED BY <1>2, <2>2, <3>2, <3>4, <3>5, <3>6, <3>8, <3>9 DEF ReadsUpTo
  <2>4. CASE ~matches_filter(lqEmitted[p], me.filter)
    <3>1. new = [me EXCEPT !.pos = p]
      <4>1. new = [me EXCEPT !.pos = p, !.sent = me.sent]
        BY <1>4, <2>1, <2>4
      <4> QED BY <4>1 DEF Subscribers
    <3>2. new \in Subscribers
      BY <2>2, <3>1 DEF Subscribers
    <3>3. new.from = me.from /\ new.pos = p /\ new.sent = me.sent /\ new.lost = me.lost /\ new.filter = me.filter
      BY <3>1 DEF Subscribers
    <3>4. ToSend(new) = ToSend(me)
      BY <1>1, <1>2, <2>1, <2>2, <2>4, <3>3 DEF ToSend
    <3>5. \A i \in me.lost : i <= p /\ i + LqCapacity <= Len(lqEmitted)
      BY <1>1, <1>2, <2>2
    <3> QED BY <1>2, <2>2, <3>2, <3>3, <3>4, <3>5 DEF ReadsUpTo
  <2> QED BY <2>3, <2>4
<1> QED BY <1>3, <1>4

\* A step of one connection.
LEMMA LiveMoveKeeps ==
  ASSUME LiveInv, NEW c \in LqClients, NEW me \in Subscribers, ReadsUpTo(me),
         lqConn' = [lqConn EXCEPT ![c] = me], UNCHANGED lqEmitted
  PROVE  LiveInv'
BY DEF LiveInv, ReadsUpTo, ToSend

LEMMA LiveStep ==
  ASSUME LiveInv, LiveNext \/ UNCHANGED lqVars
  PROVE  LiveInv'
<1>1. CASE UNCHANGED lqVars
  BY <1>1 DEF lqVars, LiveInv, ReadsUpTo, ToSend
<1>2. CASE LiveEmit
  <2>1. PICK e \in LqEvents : lqEmitted' = Append(lqEmitted, e)
    BY <1>2 DEF LiveEmit
  <2>2. lqConn' = lqConn /\ lqEmitted' \in Seq(LqEvents)
    BY <1>2, <2>1 DEF LiveEmit, LiveInv
  <2>3. ASSUME NEW c \in LqClients PROVE lqConn'[c] \in Subscribers /\ ReadsUpTo(lqConn[c])'
    <3>1. PICK me \in Subscribers : me = lqConn[c] /\ ReadsUpTo(me)
      BY DEF LiveInv
    <3>2. ReadsUpTo(me)'
      BY <2>1, <3>1, ReadsStay DEF LiveInv
    <3>3. lqConn'[c] = me
      BY <2>2, <3>1
    <3> QED BY <3>2, <3>3 DEF ReadsUpTo, ToSend
  <2> QED BY <2>2, <2>3 DEF LiveInv
<1>3. ASSUME NEW c \in LqClients, LiveUpgrade(c) \/ LiveDetach(c) PROVE LiveInv'
  <2>1. PICK a \in {"closed", "open", "live"} : lqConn' = [lqConn EXCEPT ![c] = [Closed EXCEPT !.at = a]]
    <3>1. Closed = [Closed EXCEPT !.at = "closed"]
      BY DEF Closed
    <3> QED BY <1>3, <3>1 DEF LiveUpgrade, LiveDetach
  <2>2. PICK me : me = [Closed EXCEPT !.at = a]
    OBVIOUS
  <2>3. me = [at |-> a, filter |-> NoFilter, from |-> 0, pos |-> 0, sent |-> <<>>, lost |-> {}]
    BY <2>2 DEF Closed
  <2>4. lqEmitted \in Seq(LqEvents) /\ 0 <= Len(lqEmitted)
    BY DEF LiveInv
  <2>5. me \in Subscribers /\ ReadsUpTo(me)
    BY <2>3, <2>4, FiltersGiven, ClosedReads
  <2>6. UNCHANGED lqEmitted
    BY <1>3 DEF LiveUpgrade, LiveDetach
  <2> QED BY <2>1, <2>2, <2>5, <2>6, LiveMoveKeeps
<1>4. ASSUME NEW c \in LqClients, LiveSubscribe(c) PROVE LiveInv'
  <2>1. PICK f \in Filters : lqConn' = [lqConn EXCEPT ![c] =
            [Closed EXCEPT !.at = "live", !.filter = f, !.from = Len(lqEmitted), !.pos = Len(lqEmitted)]]
    BY <1>4 DEF LiveSubscribe
  <2>2. PICK n : n = Len(lqEmitted)
    OBVIOUS
  <2>3. PICK me : me = [Closed EXCEPT !.at = "live", !.filter = f, !.from = n, !.pos = n]
    OBVIOUS
  <2>4. me = [at |-> "live", filter |-> f, from |-> n, pos |-> n, sent |-> <<>>, lost |-> {}]
    BY <2>3 DEF Closed
  <2>5. lqEmitted \in Seq(LqEvents) /\ n \in Nat /\ n <= Len(lqEmitted)
    BY <2>2 DEF LiveInv
  <2>6. me \in Subscribers /\ ReadsUpTo(me)
    BY <2>4, <2>5, ClosedReads
  <2>7. UNCHANGED lqEmitted
    BY <1>4 DEF LiveSubscribe
  <2> QED BY <2>1, <2>2, <2>3, <2>6, <2>7, LiveMoveKeeps
<1>5. ASSUME NEW c \in LqClients, LiveForward(c) PROVE LiveInv'
  <2>1. PICK me \in Subscribers : me = lqConn[c] /\ ReadsUpTo(me)
    BY DEF LiveInv
  <2>2. PICK new : new = IF Len(lqEmitted) - me.pos > LqCapacity
               THEN [me EXCEPT !.pos = Len(lqEmitted) - LqCapacity,
                               !.lost = @ \cup ((me.pos + 1)..(Len(lqEmitted) - LqCapacity))]
               ELSE [me EXCEPT !.pos = @ + 1,
                               !.sent = IF matches_filter(lqEmitted[me.pos + 1], me.filter) THEN Append(@, me.pos + 1) ELSE @]
    OBVIOUS
  <2>3. me.pos < Len(lqEmitted) /\ lqConn' = [lqConn EXCEPT ![c] = new] /\ UNCHANGED lqEmitted
    BY <1>5, <2>1, <2>2 DEF LiveForward
  <2>4. new \in Subscribers /\ ReadsUpTo(new)
    BY <2>1, <2>2, <2>3, RecvKeeps DEF LiveInv
  <2> QED BY <2>3, <2>4, LiveMoveKeeps
<1> QED BY <1>1, <1>2, <1>3, <1>4, <1>5 DEF LiveNext

\* Live queries: a subscriber is sent every matching event since it subscribed,
\* once and in order, but for those it was told it lost, all more than the
\* channel's capacity old.
THEOREM EventsAreSentOrLost == Spec => []EventsReachListeners
<1>1. Init => LiveInv
  BY LiveStarts DEF Init
<1>2. LiveInv /\ [Next]_vars => LiveInv'
  BY OneComponentMoves, LiveStep
<1>3. LiveInv => EventsReachListeners
  <2> SUFFICES ASSUME LiveInv, NEW c \in LqClients, NEW me, me = lqConn[c]
               PROVE  /\ Range(me.sent) = ToSend(me)
                      /\ \A j, k \in DOMAIN me.sent : j < k => me.sent[j] < me.sent[k]
                      /\ \A i \in me.lost : i + LqCapacity <= Len(lqEmitted)
                      /\ me.lost \cap ((Len(lqEmitted) - LqCapacity + 1)..Len(lqEmitted)) = {}
    BY DEF EventsReachListeners, SentOrLost, ToSend
  <2>1. me \in Subscribers /\ ReadsUpTo(me)
    BY DEF LiveInv
  <2>2. me.lost \subseteq Nat /\ LqCapacity \in Nat /\ Len(lqEmitted) \in Nat
    BY <2>1, LiveAssumption DEF Subscribers, LiveInv
  <2>3. \A i \in me.lost : i + LqCapacity <= Len(lqEmitted)
    BY <2>1 DEF ReadsUpTo
  <2>4. me.lost \cap ((Len(lqEmitted) - LqCapacity + 1)..Len(lqEmitted)) = {}
    BY <2>2, <2>3
  <2> QED BY <2>1, <2>3, <2>4 DEF ReadsUpTo
<1> QED BY <1>1, <1>2, <1>3, PTL DEF Spec

-----------------------------------------------------------------------------
(* The version guard: a row of the shared cache is stamped no later than    *)
(* the registry was asked, and so is an answer on its way into it.          *)
TtlOf(latest) == IF latest # Unknown THEN FrTtl ELSE FrNegTtl
Recent(s) == s.read >= s.now \/ s.now - s.read < TtlOf(s.latest)
Stamped(row) == row.ts \in Nat /\ row.read \in Nat /\ row.ts <= row.read
Reporting(me) ==
    /\ me = [at |-> me.at, cache |-> me.cache, deps |-> me.deps, now |-> me.now, got |-> me.got, report |-> me.report]
    /\ me.now \in Nat /\ me.now <= frClock
    /\ me.at = "put" => Stamped(me.got) /\ me.got.ts = me.now
    /\ \E n \in Nat : me.report = [i \in 1..n |-> me.report[i]]
    /\ \A i \in DOMAIN me.report : Recent(me.report[i])
FreshInv ==
    /\ frClock \in Nat
    /\ \A n \in DOMAIN frTable : Stamped(frTable[n])
    /\ DOMAIN frProc = FrProcs
    /\ \A p \in FrProcs : Reporting(frProc[p])

\* A sequence of anything, and one more.
LEMMA AppendAny ==
  ASSUME NEW n \in Nat, NEW s, s = [i \in 1..n |-> s[i]], NEW x
  PROVE  \E m \in Nat : /\ Append(s, x) = [i \in 1..m |-> Append(s, x)[i]]
                        /\ \A i \in 1..m : Append(s, x)[i] = x \/ (i \in DOMAIN s /\ Append(s, x)[i] = s[i])
<1>1. PICK S : S = {s[i] : i \in 1..n} \cup {x}
  OBVIOUS
<1>2. s \in Seq(S) /\ x \in S
  BY <1>1
<1>3. Len(s) = n
  BY <1>2
<1>4. /\ Append(s, x) \in Seq(S) /\ DOMAIN Append(s, x) = 1..(n + 1)
      /\ \A i \in 1..n : Append(s, x)[i] = s[i]
      /\ Append(s, x)[n + 1] = x
  BY <1>2, <1>3
<1>5. Append(s, x) = [i \in 1..(n + 1) |-> Append(s, x)[i]]
  BY <1>4
<1>6. DOMAIN s = 1..n
  BY Zenon
<1>7. \A i \in 1..(n + 1) : i \in 1..n \/ i = n + 1
  OBVIOUS
<1>8. n + 1 \in Nat
  OBVIOUS
<1> QED BY <1>4, <1>5, <1>6, <1>7, <1>8, Zenon

LEMMA IdleReports == frClock \in Nat => Reporting(Idle)
<1> SUFFICES ASSUME frClock \in Nat PROVE Reporting(Idle)
  OBVIOUS
<1>1. PICK me : me = Idle
  OBVIOUS
<1>2. /\ me = [at |-> me.at, cache |-> me.cache, deps |-> me.deps, now |-> me.now, got |-> me.got, report |-> me.report]
      /\ me.at = "idle" /\ me.now = 0 /\ me.report = <<>>
  BY <1>1 DEF Idle
<1>3. me.report = [i \in 1..0 |-> me.report[i]] /\ DOMAIN me.report = {}
  BY <1>2
<1>4. 0 \in Nat /\ 0 <= frClock
  OBVIOUS
<1>5. Reporting(me)
  BY <1>2, <1>3, <1>4 DEF Reporting
<1> QED BY <1>1, <1>5

\* One more line of the report.
LEMMA ReportedKeeps ==
  ASSUME NEW me, Reporting(me), NEW source, NEW latest, NEW read,
         read >= me.now \/ me.now - read < TtlOf(latest)
  PROVE  Reporting(Reported(me, source, latest, read))
<1>1. PICK x : x = [dep |-> me.deps[Len(me.report) + 1], source |-> source, latest |-> latest,
                    status |-> version_slip(me.deps[Len(me.report) + 1].local, latest), now |-> me.now, read |-> read]
  OBVIOUS
<1>2. PICK new : new = Reported(me, source, latest, read)
  OBVIOUS
<1>3. new = [me EXCEPT !.at = "next", !.got = NoAnswer, !.report = Append(@, x)]
  BY <1>1, <1>2 DEF Reported
<1>4. PICK a, b, c, d, e, f : me = [at |-> a, cache |-> b, deps |-> c, now |-> d, got |-> e, report |-> f]
  BY DEF Reporting
<1>5. new = [at |-> "next", cache |-> b, deps |-> c, now |-> d, got |-> NoAnswer, report |-> Append(f, x)]
  BY <1>3, <1>4
<1>6. me.now = d /\ me.report = f
  BY <1>4
<1>7. PICK n \in Nat : f = [i \in 1..n |-> f[i]]
  BY <1>6 DEF Reporting
<1>8. PICK g, m : m \in Nat /\ g = Append(f, x) /\ g = [i \in 1..m |-> g[i]]
                  /\ \A i \in 1..m : g[i] = x \/ (i \in DOMAIN f /\ g[i] = f[i])
  <2>1. PICK m \in Nat : /\ Append(f, x) = [i \in 1..m |-> Append(f, x)[i]]
                         /\ \A i \in 1..m : Append(f, x)[i] = x \/ (i \in DOMAIN f /\ Append(f, x)[i] = f[i])
    BY ONLY <1>7, AppendAny
  <2> QED BY <2>1, Zenon
<1>9. x.now = me.now /\ x.read = read /\ x.latest = latest
  BY <1>1
<1>10. Recent(x)
  BY <1>9 DEF Recent
<1>11. DOMAIN g = 1..m
  BY <1>8, Zenon
<1>12. \A i \in DOMAIN g : Recent(g[i])
  BY <1>6, <1>8, <1>10, <1>11, Zenon DEF Reporting
<1>13. /\ new.at = "next" /\ new.cache = b /\ new.deps = c /\ new.now = d /\ new.got = NoAnswer /\ new.report = g
  BY <1>5, <1>8
<1>14. new = [at |-> new.at, cache |-> new.cache, deps |-> new.deps, now |-> new.now, got |-> new.got, report |-> new.report]
  BY <1>5, <1>8, <1>13
<1>15. d \in Nat /\ d <= frClock
  BY <1>6 DEF Reporting
<1>16. Reporting(new)
  BY <1>8, <1>12, <1>13, <1>14, <1>15 DEF Reporting
<1> QED BY <1>2, <1>16

\* A step of one process that leaves clock and table.
LEMMA FreshMoveKeeps ==
  ASSUME FreshInv, NEW p \in FrProcs, NEW me, Reporting(me),
         frProc' = [frProc EXCEPT ![p] = me], UNCHANGED <<frClock, frTable>>
  PROVE  FreshInv'
BY ZenonT(40) DEF FreshInv, Reporting

LEMMA FreshStep ==
  ASSUME FreshInv, FreshNext \/ UNCHANGED frVars
  PROVE  FreshInv'
<1>1. CASE UNCHANGED frVars
  BY <1>1 DEF frVars, FreshInv, Reporting
<1>2. CASE FreshTick
  BY <1>2 DEF FreshTick, FreshInv, Reporting
<1>3. ASSUME NEW p \in FrProcs, FreshStart(p) PROVE FreshInv'
  <2>1. PICK b, d : frProc' = [frProc EXCEPT ![p] = [Idle EXCEPT !.at = "next", !.cache = b, !.deps = d]]
    BY <1>3, Zenon DEF FreshStart
  <2>2. PICK me : me = [Idle EXCEPT !.at = "next", !.cache = b, !.deps = d]
    OBVIOUS
  <2>3. me = [at |-> "next", cache |-> b, deps |-> d, now |-> Idle.now, got |-> Idle.got, report |-> Idle.report]
    BY <2>2 DEF Idle
  <2>4. Reporting(me)
    BY <2>3, IdleReports DEF FreshInv, Reporting
  <2>5. UNCHANGED <<frClock, frTable>>
    BY <1>3 DEF FreshStart
  <2> QED BY <2>1, <2>2, <2>4, <2>5, FreshMoveKeeps
<1>4. ASSUME NEW p \in FrProcs, FreshLookup(p) PROVE FreshInv'
  <2>1. PICK me : me = [frProc[p] EXCEPT !.now = frClock]
    OBVIOUS
  <2>2. me.now = frClock /\ frClock \in Nat /\ frProc[p].at = "next" /\ me.at = "next"
    BY <1>4, <2>1 DEF FreshLookup, FreshInv, Reporting
  <2>3. Reporting(me)
    BY <2>1, <2>2 DEF FreshInv, Reporting
  <2>4. PICK name : name = me.deps[Len(me.report) + 1].name
    OBVIOUS
  <2>5. PICK new : /\ frProc' = [frProc EXCEPT ![p] = new]
                   /\ \/ new = Reported(me, "not_checked", Unknown, frClock)
                      \/ /\ FreshHit(name, frClock)
                         /\ new = Reported(me, "cache", frTable[name].latest, frTable[name].read)
                      \/ new = [me EXCEPT !.at = "fetch"]
    BY <1>4, <2>1, <2>4, Zenon DEF FreshLookup
  <2>6. ASSUME new = Reported(me, "not_checked", Unknown, frClock) PROVE Reporting(new)
    BY <2>2, <2>3, <2>6, ReportedKeeps
  <2>7. ASSUME FreshHit(name, frClock) /\ new = Reported(me, "cache", frTable[name].latest, frTable[name].read) PROVE Reporting(new)
    <3>1. PICK row : row = frTable[name] /\ Stamped(row)
      BY <2>7 DEF FreshHit, FreshInv
    <3>2. (IF frClock > row.ts THEN frClock - row.ts ELSE 0) < TtlOf(row.latest)
      BY <2>7, <3>1 DEF FreshHit, TtlOf
    <3>3. TtlOf(row.latest) \in Nat
      BY FreshAssumption DEF TtlOf
    <3>4. row.read >= me.now \/ me.now - row.read < TtlOf(row.latest)
      BY <2>2, <3>1, <3>2, <3>3 DEF Stamped
    <3> QED BY <2>3, <2>7, <3>1, <3>4, ReportedKeeps
  <2>8. ASSUME new = [me EXCEPT !.at = "fetch"] PROVE Reporting(new)
    BY <2>3, <2>8 DEF Reporting
  <2>9. Reporting(new)
    BY <2>5, <2>6, <2>7, <2>8
  <2>10. UNCHANGED <<frClock, frTable>>
    BY <1>4 DEF FreshLookup
  <2> QED BY <2>5, <2>9, <2>10, FreshMoveKeeps
<1>5. ASSUME NEW p \in FrProcs, FreshFetch(p) PROVE FreshInv'
  <2>1. PICK me : me = frProc[p]
    OBVIOUS
  <2>2. Reporting(me) /\ frClock \in Nat /\ me.now \in Nat /\ me.now <= frClock
    BY <2>1 DEF FreshInv, Reporting
  <2>3. PICK new, v : /\ frProc' = [frProc EXCEPT ![p] = new]
                      /\ \/ new = [me EXCEPT !.at = "put", !.got = [latest |-> v, ts |-> me.now, read |-> frClock]]
                         \/ new = Reported(me, "registry", v, frClock)
    BY <1>5, <2>1, Zenon DEF FreshFetch
  <2>4. ASSUME new = Reported(me, "registry", v, frClock) PROVE Reporting(new)
    BY <2>2, <2>4, ReportedKeeps
  <2>5. ASSUME new = [me EXCEPT !.at = "put", !.got = [latest |-> v, ts |-> me.now, read |-> frClock]] PROVE Reporting(new)
    <3>1. PICK got : got = [latest |-> v, ts |-> me.now, read |-> frClock]
      OBVIOUS
    <3>2. Stamped(got) /\ got.ts = me.now
      BY <2>2, <3>1 DEF Stamped
    <3> QED BY <2>2, <2>5, <3>1, <3>2 DEF Reporting
  <2>6. UNCHANGED <<frClock, frTable>>
    BY <1>5 DEF FreshFetch
  <2> QED BY <2>3, <2>4, <2>5, <2>6, FreshMoveKeeps
<1>6. ASSUME NEW p \in FrProcs, FreshPut(p) PROVE FreshInv'
  <2>1. PICK me, name : me = frProc[p] /\ name = me.deps[Len(me.report) + 1].name
    OBVIOUS
  <2>2. Reporting(me) /\ me.at = "put" /\ Stamped(me.got) /\ me.got.ts = me.now
    BY <1>6, <2>1 DEF FreshPut, FreshInv, Reporting
  <2>3. me.got.read >= me.now
    BY <2>2 DEF Stamped
  <2>4. Reporting(Reported(me, "registry", me.got.latest, me.got.read))
    BY <2>2, <2>3, ReportedKeeps
  <2>5. frTable' = frTable \/ frTable' = Replaced(name, me.got)
    BY <1>6, <2>1 DEF FreshPut
  <2>6. \A n \in DOMAIN frTable' : Stamped(frTable'[n])
    BY <2>2, <2>5 DEF FreshInv, Replaced
  <2>7. frProc' = [frProc EXCEPT ![p] = Reported(me, "registry", me.got.latest, me.got.read)] /\ UNCHANGED frClock
    BY <1>6, <2>1 DEF FreshPut
  <2>8. PICK new : new = Reported(me, "registry", me.got.latest, me.got.read)
    OBVIOUS
  <2> QED BY <2>4, <2>6, <2>7, <2>8, ZenonT(40) DEF FreshInv, Reporting
<1>7. ASSUME NEW p \in FrProcs, FreshDone(p) PROVE FreshInv'
  <2>1. frProc' = [frProc EXCEPT ![p] = Idle] /\ UNCHANGED <<frClock, frTable>>
    BY <1>7 DEF FreshDone
  <2>2. Reporting(Idle)
    BY IdleReports DEF FreshInv
  <2> QED BY <2>1, <2>2, FreshMoveKeeps
<1> QED BY <1>1, <1>2, <1>3, <1>4, <1>5, <1>6, <1>7 DEF FreshNext

\* The version guard: no report shows a version, or a failure, that the registry
\* gave longer than its time to live before the report asked, for any number of
\* processes on the shared cache and fetches of any length.
THEOREM AnswersAreNotStale == Spec => []AnswersAreRecent
<1>1. Init => FreshInv
  <2> SUFFICES ASSUME Init PROVE FreshInv
    OBVIOUS
  <2>1. FreshInit
    BY DEF Init
  <2>2. frClock \in Nat /\ DOMAIN frTable = {} /\ frProc = [p \in FrProcs |-> Idle]
    BY <2>1 DEF FreshInit
  <2> QED BY <2>2, IdleReports DEF FreshInv
<1>2. FreshInv /\ [Next]_vars => FreshInv'
  BY OneComponentMoves, FreshStep
<1>3. FreshInv => AnswersAreRecent
  BY DEF FreshInv, Reporting, Recent, TtlOf, AnswersAreRecent
<1> QED BY <1>1, <1>2, <1>3, PTL DEF Spec

-----------------------------------------------------------------------------
(* The corpus: a document is written by the hosts that hold its number, and *)
(* the numbers they hold are those of rows.                                 *)
Whole(d) == d = [kind |-> d.kind, ext |-> d.ext, body |-> d.body, chunks |-> d.chunks]
Ingesting(me) ==
    \/ me = [at |-> me.at, todo |-> me.todo] /\ me.at # "chunks"
    \/ me = [at |-> "chunks", todo |-> me.todo, doc |-> me.doc] /\ me.doc \in DOMAIN cpDocs
CorpusInv ==
    /\ IsNumbered(cpDocs) /\ \A i \in DOMAIN cpDocs : Whole(cpDocs[i])
    /\ DOMAIN cpHost = CpHosts /\ \A h \in CpHosts : Ingesting(cpHost[h])
    /\ DocumentsAreWhole
PromInv ==
    /\ IsNumbered(cpProms) /\ IsNumbered(cpFirst) /\ DOMAIN cpFirst = DOMAIN cpProms
    /\ \A p \in DOMAIN cpProms :
          /\ cpProms[p] = [doc |-> cpProms[p].doc, status |-> cpProms[p].status, verifier |-> cpFirst[p]]
          /\ cpProms[p].status = IF cpFirst[p] = "none" THEN "pending" ELSE "verified"

\* A host goes on that does not write a document, or stops writing a whole one.
LEMMA CorpusMoveKeeps ==
  ASSUME CorpusInv, NEW h \in CpHosts, NEW me, cpHost' = [cpHost EXCEPT ![h] = me], cpDocs' = cpDocs,
         Ingesting(me), cpCut \subseteq cpCut',
         cpHost[h].at = "chunks" => \/ cpHost[h].doc \in cpCut'
                                    \/ cpDocs[cpHost[h].doc].chunks = CpChunks(cpDocs[cpHost[h].doc])
  PROVE  CorpusInv'
<1>1. DOMAIN cpHost' = CpHosts /\ cpHost'[h] = me /\ \A g \in CpHosts \ {h} : cpHost'[g] = cpHost[g]
  BY DEF CorpusInv
<1>2. \A g \in CpHosts : Ingesting(cpHost[g])'
  BY <1>1 DEF CorpusInv, Ingesting
<1>3. ASSUME NEW i \in DOMAIN cpDocs, BeingWritten(i) PROVE BeingWritten(i)' \/ i \in cpCut' \/ cpDocs[i].chunks = CpChunks(cpDocs[i])
  <2>1. PICK g \in CpHosts : cpHost[g].at = "chunks" /\ cpHost[g].doc = i
    BY <1>3 DEF BeingWritten
  <2>2. CASE g = h
    BY <2>1, <2>2
  <2>3. CASE g # h
    BY <1>1, <2>1, <2>3 DEF BeingWritten
  <2> QED BY <2>2, <2>3
<1>4. DocumentsAreWhole'
  BY <1>3 DEF CorpusInv, DocumentsAreWhole, CpChunks
<1> QED BY <1>1, <1>2, <1>4 DEF CorpusInv, IsNumbered

LEMMA CorpusStep ==
  ASSUME CorpusInv, CorpusNext \/ UNCHANGED cpVars
  PROVE  CorpusInv'
<1>1. CASE UNCHANGED cpVars
  BY <1>1 DEF cpVars, CorpusInv, IsNumbered, Ingesting, DocumentsAreWhole, BeingWritten
<1>2. CASE \E i \in DOMAIN cpDocs : QueuePromotion(i)
  <2>1. UNCHANGED <<cpDocs, cpHost, cpCut>>
    BY <1>2 DEF QueuePromotion
  <2> QED BY <2>1 DEF CorpusInv, IsNumbered, Ingesting, DocumentsAreWhole, BeingWritten
<1>3. ASSUME NEW h \in CpHosts, \E p \in DOMAIN cpProms : VerifyPromotion(h, p) PROVE CorpusInv'
  <2>1. UNCHANGED <<cpDocs, cpHost, cpCut>>
    BY <1>3 DEF VerifyPromotion
  <2> QED BY <2>1 DEF CorpusInv, IsNumbered, Ingesting, DocumentsAreWhole, BeingWritten
<1>4. ASSUME NEW h \in CpHosts, NEW todo, cpHost[h] = NoHost, cpHost' = [cpHost EXCEPT ![h] = [at |-> "source", todo |-> todo]],
             UNCHANGED <<cpDocs, cpCut>>
      PROVE CorpusInv'
  <2>1. PICK me : me = [at |-> "source", todo |-> todo]
    OBVIOUS
  <2>2. Ingesting(me) /\ cpHost[h].at # "chunks"
    BY <1>4, <2>1 DEF Ingesting, NoHost
  <2> QED BY <1>4, <2>1, <2>2, CorpusMoveKeeps
<1>idle. PICK idle : idle = NoHost /\ Ingesting(idle) /\ idle.at # "chunks"
  <2>1. PICK idle : idle = NoHost
    OBVIOUS
  <2>2. idle = [at |-> "idle", todo |-> <<>>]
    BY <2>1 DEF NoHost
  <2> QED BY <2>1, <2>2 DEF Ingesting
<1>5. ASSUME NEW h \in CpHosts, NEW f \in CpFetched, CorpusFetch(h, f) PROVE CorpusInv'
  <2>1. cpHost[h] = NoHost /\ UNCHANGED <<cpDocs, cpCut>>
    BY <1>5 DEF CorpusFetch
  <2>2. CASE Plan(f) = Error
    <3>1. cpHost' = [cpHost EXCEPT ![h] = idle]
      BY <1>5, <1>idle, <2>2 DEF CorpusFetch
    <3> QED BY <1>idle, <2>1, <3>1, CorpusMoveKeeps
  <2>3. CASE Plan(f) # Error
    <3>1. cpHost' = [cpHost EXCEPT ![h] = [at |-> "source", todo |-> Plan(f)]]
      BY <1>5, <2>3 DEF CorpusFetch
    <3> QED BY <1>4, <2>1, <3>1
  <2> QED BY <2>2, <2>3
<1>6. ASSUME NEW h \in CpHosts, NEW limit \in 1..Len(CpStored), CorpusImport(h, limit) PROVE CorpusInv'
  BY <1>4, <1>6 DEF CorpusImport
<1>7. ASSUME NEW h \in CpHosts, UpsertSource(h) PROVE CorpusInv'
  <2>1. cpHost[h].at = "source" /\ UNCHANGED <<cpDocs, cpCut>> /\ Ingesting(cpHost[h])
    BY <1>7 DEF UpsertSource, CorpusInv
  <2>2. PICK todo : cpHost[h] = [at |-> "source", todo |-> todo]
    <3>1. PICK me : me = cpHost[h]
      OBVIOUS
    <3>2. me = [at |-> me.at, todo |-> me.todo] \/ me = [at |-> "chunks", todo |-> me.todo, doc |-> me.doc]
      BY <2>1, <3>1 DEF Ingesting
    <3>3. me.at = "source"
      BY <2>1, <3>1
    <3>4. me = [at |-> "source", todo |-> me.todo]
      BY <3>2, <3>3
    <3> QED BY <3>1, <3>4
  <2>3. PICK me : cpHost' = [cpHost EXCEPT ![h] = me] /\ (me = NoHost \/ me = [cpHost[h] EXCEPT !.at = "look"])
    BY <1>7 DEF UpsertSource
  <2>4. Ingesting(me)
    BY <2>2, <2>3 DEF Ingesting, NoHost
  <2> QED BY <2>1, <2>3, <2>4, CorpusMoveKeeps
<1>8. ASSUME NEW h \in CpHosts, LookForDocument(h) PROVE CorpusInv'
  <2>1. cpHost[h].at = "look" /\ UNCHANGED <<cpDocs, cpCut>> /\ Ingesting(cpHost[h])
    BY <1>8 DEF LookForDocument, CorpusInv
  <2>2. PICK todo : cpHost[h] = [at |-> "look", todo |-> todo]
    <3>1. PICK me : me = cpHost[h]
      OBVIOUS
    <3>2. me = [at |-> me.at, todo |-> me.todo] \/ me = [at |-> "chunks", todo |-> me.todo, doc |-> me.doc]
      BY <2>1, <3>1 DEF Ingesting
    <3>3. me.at = "look"
      BY <2>1, <3>1
    <3>4. me = [at |-> "look", todo |-> me.todo]
      BY <3>2, <3>3
    <3> QED BY <3>1, <3>4
  <2>3. PICK me : cpHost' = [cpHost EXCEPT ![h] = me] /\ (me = Next1(h) \/ me = [cpHost[h] EXCEPT !.at = "insert"])
    BY <1>8 DEF LookForDocument
  <2>4. Ingesting(me)
    BY <2>2, <2>3 DEF Ingesting, Next1
  <2> QED BY <2>1, <2>3, <2>4, CorpusMoveKeeps
<1>9. ASSUME NEW h \in CpHosts, InsertDocument(h) PROVE CorpusInv'
  <2>1. PICK d : d = cpHost[h].todo[1]
    OBVIOUS
  <2>2. cpHost[h].at = "insert" /\ UNCHANGED cpCut
    BY <1>9 DEF InsertDocument
  <2>3. CASE HasDoc(d)
    <3>1. cpHost' = [cpHost EXCEPT ![h] = idle] /\ cpDocs' = cpDocs
      BY <1>9, <1>idle, <2>1, <2>3 DEF InsertDocument
    <3> QED BY <1>idle, <2>2, <3>1, CorpusMoveKeeps
  <2>4. CASE ~HasDoc(d)
    <3>1. PICK new : new = [kind |-> d.kind, ext |-> d.ext, body |-> d.body, chunks |-> 0]
      OBVIOUS
    <3>2. PICK n \in Nat : cpDocs = [i \in 1..n |-> cpDocs[i]]
      BY DEF CorpusInv, IsNumbered
    <3>3. cpDocs' = Append(cpDocs, new)
      BY <1>9, <2>1, <2>4, <3>1 DEF InsertDocument
    <3>4. /\ Len(cpDocs) = n /\ DOMAIN cpDocs = 1..n /\ cpDocs' = [i \in 1..(n + 1) |-> cpDocs'[i]]
          /\ DOMAIN cpDocs' = 1..(n + 1) /\ cpDocs'[n + 1] = new /\ \A i \in 1..n : cpDocs'[i] = cpDocs[i]
      BY ONLY <3>2, <3>3, AppendedFacts
    <3>5. PICK me : me = [at |-> "chunks", todo |-> cpHost[h].todo, doc |-> n + 1]
      OBVIOUS
    <3>6. cpHost' = [cpHost EXCEPT ![h] = me]
      BY <1>9, <2>1, <2>4, <3>4, <3>5 DEF InsertDocument
    <3>7. DOMAIN cpHost' = CpHosts /\ cpHost'[h] = me /\ \A g \in CpHosts \ {h} : cpHost'[g] = cpHost[g]
      BY <3>6 DEF CorpusInv
    <3>8. n + 1 \in 1..(n + 1) /\ \A i \in 1..n : i \in 1..(n + 1)
      OBVIOUS
    <3>9. \A i \in 1..(n + 1) : i \in 1..n \/ i = n + 1
      OBVIOUS
    <3>10. me.at = "chunks" /\ me.doc = n + 1 /\ me = [at |-> "chunks", todo |-> me.todo, doc |-> me.doc]
      BY <3>5
    <3>11. \A g \in CpHosts : Ingesting(cpHost[g])'
      BY <3>4, <3>7, <3>8, <3>10 DEF CorpusInv, Ingesting
    <3>12. \A i \in 1..(n + 1) : Whole(cpDocs'[i])
      BY <3>1, <3>4, <3>9 DEF CorpusInv, Whole
    <3>13. \A i \in 1..n : ~(cpDocs[i].kind = new.kind /\ cpDocs[i].ext = new.ext)
      BY <2>4, <3>1, <3>4 DEF HasDoc
    <3>14. \A i, j \in 1..(n + 1) : cpDocs'[i].kind = cpDocs'[j].kind /\ cpDocs'[i].ext = cpDocs'[j].ext => i = j
      BY <3>4, <3>9, <3>13 DEF CorpusInv, DocumentsAreWhole
    <3>15. \A i \in 1..n : BeingWritten(i) => BeingWritten(i)'
      BY <2>2, <3>7 DEF BeingWritten
    <3>16. BeingWritten(n + 1)'
      BY <3>7, <3>10 DEF BeingWritten
    <3>17. \A i \in 1..(n + 1) : cpDocs'[i].chunks = CpChunks(cpDocs'[i]) \/ BeingWritten(i)' \/ i \in cpCut'
      BY <2>2, <3>4, <3>9, <3>15, <3>16 DEF CorpusInv, DocumentsAreWhole, CpChunks
    <3>18. DocumentsAreWhole'
      BY <3>4, <3>14, <3>17 DEF DocumentsAreWhole, CpChunks
    <3>19. IsNumbered(cpDocs)'
      BY <3>4 DEF IsNumbered
    <3> QED BY <3>4, <3>7, <3>11, <3>12, <3>18, <3>19 DEF CorpusInv
  <2> QED BY <2>3, <2>4
<1>10. ASSUME NEW h \in CpHosts, InsertChunk(h) PROVE CorpusInv'
  <2>1. PICK i : i = cpHost[h].doc
    OBVIOUS
  <2>2. cpHost[h].at = "chunks" /\ UNCHANGED cpCut /\ Ingesting(cpHost[h])
    BY <1>10 DEF InsertChunk, CorpusInv
  <2>3. i \in DOMAIN cpDocs
    BY <2>1, <2>2 DEF Ingesting
  <2>4. CASE cpDocs[i].chunks = CpChunks(cpDocs[i])
    <3>1. PICK me : me = Next1(h)
      OBVIOUS
    <3>2. cpHost' = [cpHost EXCEPT ![h] = me] /\ cpDocs' = cpDocs
      BY <1>10, <2>1, <2>4, <3>1 DEF InsertChunk
    <3>3. Ingesting(me)
      BY <3>1 DEF Ingesting, Next1
    <3> QED BY <2>1, <2>2, <2>4, <3>2, <3>3, CorpusMoveKeeps
  <2>5. CASE cpDocs[i].chunks # CpChunks(cpDocs[i])
    <3>1. cpDocs' = [cpDocs EXCEPT ![i].chunks = @ + 1] /\ cpHost' = cpHost
      BY <1>10, <2>1, <2>5 DEF InsertChunk
    <3>2. PICK n \in Nat : cpDocs = [j \in 1..n |-> cpDocs[j]]
      BY DEF CorpusInv, IsNumbered
    <3>3. DOMAIN cpDocs = 1..n /\ DOMAIN cpDocs' = 1..n
      BY <3>1, <3>2
    <3>4. cpDocs' = [j \in 1..n |-> cpDocs'[j]] /\ \A j \in 1..n : j # i => cpDocs'[j] = cpDocs[j]
      BY <3>1, <3>2, <3>3
    <3>5. cpDocs'[i] = [cpDocs[i] EXCEPT !.chunks = @ + 1]
      BY <2>3, <3>1
    <3>6. Whole(cpDocs[i])
      BY <2>3 DEF CorpusInv
    <3>7. Whole(cpDocs'[i]) /\ cpDocs'[i].kind = cpDocs[i].kind /\ cpDocs'[i].ext = cpDocs[i].ext
      <4>1. PICK a, b, c, d : cpDocs[i] = [kind |-> a, ext |-> b, body |-> c, chunks |-> d]
        BY <3>6 DEF Whole
      <4>2. PICK new : new = [kind |-> a, ext |-> b, body |-> c, chunks |-> d + 1]
        OBVIOUS
      <4>3. cpDocs'[i] = new
        BY <3>5, <4>1, <4>2
      <4>4. Whole(new) /\ new.kind = a /\ new.ext = b /\ cpDocs[i].kind = a /\ cpDocs[i].ext = b
        BY <4>1, <4>2 DEF Whole
      <4> QED BY <4>3, <4>4
    <3>8. \A j \in 1..n : cpDocs'[j].kind = cpDocs[j].kind /\ cpDocs'[j].ext = cpDocs[j].ext /\ Whole(cpDocs'[j])
      BY <3>3, <3>4, <3>7 DEF CorpusInv
    <3>9. \A j \in 1..n : BeingWritten(j)' = BeingWritten(j)
      BY <3>1 DEF BeingWritten
    <3>10. BeingWritten(i)
      BY <2>1, <2>2 DEF BeingWritten
    <3>11. \A j \in 1..n : cpDocs'[j].chunks = CpChunks(cpDocs'[j]) \/ BeingWritten(j)' \/ j \in cpCut'
      BY <2>2, <3>3, <3>4, <3>9, <3>10 DEF CorpusInv, DocumentsAreWhole
    <3>12. DocumentsAreWhole'
      BY <3>3, <3>8, <3>11 DEF CorpusInv, DocumentsAreWhole, CpChunks
    <3>13. IsNumbered(cpDocs)'
      BY <3>4 DEF IsNumbered
    <3>14. \A g \in CpHosts : Ingesting(cpHost[g])'
      BY <3>1, <3>3 DEF CorpusInv, Ingesting
    <3> QED BY <3>1, <3>3, <3>8, <3>12, <3>13, <3>14 DEF CorpusInv
  <2> QED BY <2>4, <2>5
<1>11. ASSUME NEW h \in CpHosts, CorpusCut(h) PROVE CorpusInv'
  <2>1. cpHost' = [cpHost EXCEPT ![h] = idle] /\ cpDocs' = cpDocs
    BY <1>11, <1>idle DEF CorpusCut
  <2>2. cpCut \subseteq cpCut' /\ (cpHost[h].at = "chunks" => cpHost[h].doc \in cpCut')
    BY <1>11 DEF CorpusCut
  <2> QED BY <1>idle, <2>1, <2>2, CorpusMoveKeeps
<1> QED BY <1>1, <1>2, <1>3, <1>5, <1>6, <1>7, <1>8, <1>9, <1>10, <1>11, Zenon DEF CorpusNext

LEMMA PromStep ==
  ASSUME PromInv, CorpusNext \/ UNCHANGED cpVars
  PROVE  PromInv'
<1>1. ASSUME UNCHANGED <<cpProms, cpFirst>> PROVE PromInv'
  BY <1>1 DEF PromInv, IsNumbered
<1>2. ASSUME NEW i \in DOMAIN cpDocs, QueuePromotion(i) PROVE PromInv'
  <2>1. PICK x : x = [doc |-> i, status |-> "pending", verifier |-> "none"]
    OBVIOUS
  <2>2. cpProms' = Append(cpProms, x) /\ cpFirst' = Append(cpFirst, "none")
    BY <1>2, <2>1 DEF QueuePromotion
  <2>3. PICK n \in Nat : cpProms = [p \in 1..n |-> cpProms[p]]
    BY DEF PromInv, IsNumbered
  <2>4. PICK m \in Nat : cpFirst = [p \in 1..m |-> cpFirst[p]]
    BY DEF PromInv, IsNumbered
  <2>5. /\ Len(cpProms) = n /\ DOMAIN cpProms = 1..n /\ cpProms' = [p \in 1..(n + 1) |-> cpProms'[p]]
        /\ DOMAIN cpProms' = 1..(n + 1) /\ cpProms'[n + 1] = x /\ \A p \in 1..n : cpProms'[p] = cpProms[p]
    BY ONLY <2>2, <2>3, AppendedFacts
  <2>6. /\ Len(cpFirst) = m /\ DOMAIN cpFirst = 1..m /\ cpFirst' = [p \in 1..(m + 1) |-> cpFirst'[p]]
        /\ DOMAIN cpFirst' = 1..(m + 1) /\ cpFirst'[m + 1] = "none" /\ \A p \in 1..m : cpFirst'[p] = cpFirst[p]
    BY ONLY <2>2, <2>4, AppendedFacts
  <2>7. n = m
    <3>1. 1..n = 1..m
      BY <2>5, <2>6 DEF PromInv
    <3> QED BY <3>1
  <2>8. \A p \in 1..(n + 1) : p \in 1..n \/ p = n + 1
    OBVIOUS
  <2>9. x.doc = i /\ x.status = "pending" /\ x = [doc |-> x.doc, status |-> x.status, verifier |-> "none"]
    BY <2>1
  <2>10. \A p \in 1..(n + 1) :
            /\ cpProms'[p] = [doc |-> cpProms'[p].doc, status |-> cpProms'[p].status, verifier |-> cpFirst'[p]]
            /\ cpProms'[p].status = IF cpFirst'[p] = "none" THEN "pending" ELSE "verified"
    <3> SUFFICES ASSUME NEW p \in 1..(n + 1)
                 PROVE  /\ cpProms'[p] = [doc |-> cpProms'[p].doc, status |-> cpProms'[p].status, verifier |-> cpFirst'[p]]
                        /\ cpProms'[p].status = IF cpFirst'[p] = "none" THEN "pending" ELSE "verified"
      OBVIOUS
    <3>1. CASE p = n + 1
      BY <2>5, <2>6, <2>7, <2>9, <3>1
    <3>2. CASE p \in 1..n
      <4>1. cpProms'[p] = cpProms[p] /\ cpFirst'[p] = cpFirst[p] /\ p \in DOMAIN cpProms
        BY <2>5, <2>6, <2>7, <3>2
      <4> QED BY <4>1, Zenon DEF PromInv
    <3> QED BY <2>8, <3>1, <3>2
  <2>11. IsNumbered(cpProms)' /\ IsNumbered(cpFirst)'
    BY <2>5, <2>6 DEF IsNumbered
  <2> QED BY <2>5, <2>6, <2>7, <2>10, <2>11, Zenon DEF PromInv
<1>3. ASSUME NEW h \in CpHosts, NEW p \in DOMAIN cpProms, VerifyPromotion(h, p) PROVE PromInv'
  <2>1. /\ Pending(p) /\ cpProms' = [cpProms EXCEPT ![p].status = "verified", ![p].verifier = h]
        /\ cpFirst' = [cpFirst EXCEPT ![p] = IF @ = "none" THEN h ELSE @]
    BY <1>3 DEF VerifyPromotion
  <2>2. PICK n \in Nat : cpProms = [q \in 1..n |-> cpProms[q]]
    BY DEF PromInv, IsNumbered
  <2>3. PICK m \in Nat : cpFirst = [q \in 1..m |-> cpFirst[q]]
    BY DEF PromInv, IsNumbered
  <2>4. DOMAIN cpProms = 1..n /\ DOMAIN cpFirst = 1..m /\ DOMAIN cpFirst = DOMAIN cpProms
    BY <2>2, <2>3, Zenon DEF PromInv
  <2>5. cpProms' = [q \in 1..n |-> cpProms'[q]] /\ cpFirst' = [q \in 1..m |-> cpFirst'[q]]
    BY <2>1, <2>4
  <2>6. DOMAIN cpProms' = DOMAIN cpProms /\ DOMAIN cpFirst' = DOMAIN cpProms
    BY <2>1, <2>4
  <2>7. \A q \in DOMAIN cpProms : q # p => cpProms'[q] = cpProms[q] /\ cpFirst'[q] = cpFirst[q]
    BY <2>1, <2>4
  <2>8. PICK a, b, c : cpProms[p] = [doc |-> a, status |-> b, verifier |-> c]
    BY DEF PromInv
  <2>9. cpFirst[p] = "none"
    BY <2>1 DEF Pending, PromInv
  <2>10. cpFirst'[p] = h /\ h # "none"
    BY <2>1, <2>4, <2>9, CorpusAssumption
  <2>11. PICK new : new = [doc |-> a, status |-> "verified", verifier |-> h]
    OBVIOUS
  <2>12. cpProms'[p] = new
    <3>1. PICK mid : mid = [cpProms EXCEPT ![p].status = "verified"]
      OBVIOUS
    <3>2. cpProms' = [mid EXCEPT ![p].verifier = h]
      BY <2>1, <3>1
    <3>3. p \in DOMAIN mid /\ mid[p] = [doc |-> a, status |-> "verified", verifier |-> c]
      BY <2>8, <3>1
    <3> QED BY <2>11, <3>2, <3>3
  <2>13. new = [doc |-> new.doc, status |-> new.status, verifier |-> h] /\ new.status = "verified"
    BY <2>11
  <2>14. \A q \in DOMAIN cpProms :
            /\ cpProms'[q] = [doc |-> cpProms'[q].doc, status |-> cpProms'[q].status, verifier |-> cpFirst'[q]]
            /\ cpProms'[q].status = IF cpFirst'[q] = "none" THEN "pending" ELSE "verified"
    <3> SUFFICES ASSUME NEW q \in DOMAIN cpProms
                 PROVE  /\ cpProms'[q] = [doc |-> cpProms'[q].doc, status |-> cpProms'[q].status, verifier |-> cpFirst'[q]]
                        /\ cpProms'[q].status = IF cpFirst'[q] = "none" THEN "pending" ELSE "verified"
      OBVIOUS
    <3>1. CASE q = p
      BY <2>10, <2>12, <2>13, <3>1
    <3>2. CASE q # p
      BY <2>7, <3>2, Zenon DEF PromInv
    <3> QED BY <3>1, <3>2
  <2>15. IsNumbered(cpProms)' /\ IsNumbered(cpFirst)'
    BY <2>5 DEF IsNumbered
  <2> QED BY <2>6, <2>14, <2>15, Zenon DEF PromInv
<1>4. CASE UNCHANGED cpVars
  BY <1>1, <1>4 DEF cpVars
<1>5. ASSUME NEW h \in CpHosts,
             \/ \E f \in CpFetched : CorpusFetch(h, f)
             \/ \E limit \in 1..Len(CpStored) : CorpusImport(h, limit)
             \/ UpsertSource(h) \/ LookForDocument(h) \/ InsertDocument(h) \/ InsertChunk(h) \/ CorpusCut(h)
      PROVE  PromInv'
  <2>1. UNCHANGED <<cpProms, cpFirst>>
    BY <1>5, Zenon DEF CorpusFetch, CorpusImport, UpsertSource, LookForDocument, InsertDocument, InsertChunk, CorpusCut
  <2> QED BY <1>1, <2>1
<1> QED BY <1>2, <1>3, <1>4, <1>5, Zenon DEF CorpusNext

\* The corpus: a document is stored once per source and external id, whatever
\* hosts fetch it at once, and has all its chunks unless it is being written or a
\* crash cut its ingest; a promotion keeps its first verifier.
THEOREM CorpusDocumentsAreWhole == Spec => [](DocumentsAreWhole /\ FirstVerifierStands)
<1>1. Init => CorpusInv /\ PromInv
  <2> SUFFICES ASSUME Init PROVE CorpusInv /\ PromInv
    OBVIOUS
  <2>1. CorpusInit
    BY DEF Init
  <2>2. cpDocs = <<>> /\ cpProms = <<>> /\ cpFirst = <<>> /\ cpHost = [h \in CpHosts |-> NoHost]
    BY <2>1 DEF CorpusInit
  <2>3. 0 \in Nat /\ <<>> = [i \in 1..0 |-> <<>>[i]]
    OBVIOUS
  <2>4. IsNumbered(<<>>)
    BY <2>3 DEF IsNumbered
  <2>5. PICK idle : idle = NoHost
    OBVIOUS
  <2>6. Ingesting(idle)
    BY <2>5 DEF Ingesting, NoHost
  <2>7. DocumentsAreWhole
    BY <2>2 DEF DocumentsAreWhole
  <2> QED BY <2>2, <2>4, <2>5, <2>6, <2>7 DEF CorpusInv, PromInv
<1>2. CorpusInv /\ PromInv /\ [Next]_vars => (CorpusInv /\ PromInv)'
  BY OneComponentMoves, CorpusStep, PromStep
<1>3. CorpusInv /\ PromInv => DocumentsAreWhole /\ FirstVerifierStands
  <2> SUFFICES ASSUME CorpusInv, PromInv, NEW p \in DOMAIN cpProms
               PROVE  cpProms[p].verifier = cpFirst[p] /\ (p \in ready_promotions <=> cpFirst[p] # "none")
    BY DEF CorpusInv, FirstVerifierStands
  <2>1. PICK d, s : cpProms[p] = [doc |-> d, status |-> s, verifier |-> cpFirst[p]]
    BY DEF PromInv
  <2>2. cpProms[p].verifier = cpFirst[p] /\ cpProms[p].status = s
    BY <2>1
  <2>3. s = IF cpFirst[p] = "none" THEN "pending" ELSE "verified"
    BY <2>2 DEF PromInv
  <2> QED BY <2>2, <2>3 DEF ready_promotions
<1> QED BY <1>1, <1>2, <1>3, PTL DEF Spec

-----------------------------------------------------------------------------
(* The sync schedule: a source that waits has been passed only by sources   *)
(* that now sort behind it and are not ahead of it in the round under way.  *)
AheadInRound(s) == {t \in CsIds : \E i \in DOMAIN csRound : csRound[i] = t /\ \A j \in 1..i : csRound[j] # s}
Behind(s) == {t \in CsIds \ {s} : csSource[t].last > LastOrZero(s) /\ t \notin AheadInRound(s)}
Rows == [interval : Nat, last : Nat \cup {-1}]
SyncTypes ==
    /\ csSource \in [CsIds -> Rows] /\ csPassed \in [CsIds -> [CsIds -> {0, 1}]]
    /\ csClock \in Nat \ {0} /\ csRound \in Seq(CsIds)
SyncInv ==
    /\ SyncTypes
    /\ \A i, j \in DOMAIN csRound : csRound[i] = csRound[j] => i = j
    /\ \A s, t \in CsIds : csPassed[s][t] # 0 => CsDue(s) /\ t \in Behind(s)

LEMMA NobodyPassed == NotPassed \in [CsIds -> {0, 1}] /\ \A t \in CsIds : NotPassed[t] = 0
BY DEF NotPassed

\* Sooner orders the sources.
LEMMA SoonerOrders ==
  ASSUME SyncTypes
  PROVE  /\ \A a \in CsIds : ~Sooner(a, a)
         /\ \A a, b, c \in CsIds : Sooner(a, b) /\ Sooner(b, c) => Sooner(a, c)
         /\ \A a, b \in CsIds : a = b \/ Sooner(a, b) \/ Sooner(b, a)
<1>1. \A a \in CsIds : a \in Nat /\ LastOrZero(a) \in Nat
  BY SyncAssumption DEF SyncTypes, Rows, LastOrZero
<1> QED BY <1>1 DEF Sooner

\* Places number the due sources 0, 1, 2, ... in their order.
LEMMA PlacesNumber ==
  ASSUME SyncTypes
  PROVE  /\ IsFiniteSet(AllDue) /\ Cardinality(AllDue) \in Nat
         /\ \A s \in AllDue : Place(s) \in 0..(Cardinality(AllDue) - 1)
         /\ \A s, t \in AllDue : Sooner(s, t) => Place(s) < Place(t)
         /\ \A n \in 1..Cardinality(AllDue) : \E s \in AllDue : Place(s) = n - 1
<1>1. AllDue \subseteq CsIds /\ IsFiniteSet(CsIds)
  BY SyncAssumption DEF AllDue
<1>2. IsFiniteSet(AllDue) /\ Cardinality(AllDue) \in Nat
  BY <1>1, FS_Subset, FS_CardinalityType
<1> DEFINE SoonerOnes(s) == {t \in AllDue : Sooner(t, s)}
<1>3. ASSUME NEW s \in AllDue PROVE IsFiniteSet(SoonerOnes(s)) /\ Cardinality(SoonerOnes(s)) \in Nat
  BY <1>2, FS_Subset, FS_CardinalityType
<1>4. ASSUME NEW s \in AllDue PROVE Cardinality(SoonerOnes(s)) <= Cardinality(AllDue) - 1
  <2>1. s \notin SoonerOnes(s)
    BY <1>1, SoonerOrders
  <2>2. SoonerOnes(s) \subseteq AllDue \ {s}
    BY <2>1
  <2>3. IsFiniteSet(AllDue \ {s}) /\ Cardinality(AllDue \ {s}) = Cardinality(AllDue) - 1
    BY <1>2, FS_RemoveElement
  <2> HIDE DEF SoonerOnes
  <2> QED BY <2>2, <2>3, FS_Subset
<1>5. ASSUME NEW s \in AllDue, NEW t \in AllDue, Sooner(s, t) PROVE Cardinality(SoonerOnes(s)) < Cardinality(SoonerOnes(t))
  <2>1. s \notin SoonerOnes(s) /\ s \in SoonerOnes(t)
    BY <1>1, <1>5, SoonerOrders
  <2>2. \A u \in SoonerOnes(s) : u \in SoonerOnes(t)
    BY <1>1, <1>5, SoonerOrders
  <2>3. IsFiniteSet(SoonerOnes(s)) /\ IsFiniteSet(SoonerOnes(t)) /\ Cardinality(SoonerOnes(s)) \in Nat /\ Cardinality(SoonerOnes(t)) \in Nat
    BY <1>3
  <2> HIDE DEF SoonerOnes
  <2>4. IsFiniteSet(SoonerOnes(t) \ {s}) /\ Cardinality(SoonerOnes(t) \ {s}) = Cardinality(SoonerOnes(t)) - 1
    BY <2>1, <2>3, FS_RemoveElement
  <2>5. SoonerOnes(s) \subseteq SoonerOnes(t) \ {s}
    BY <2>1, <2>2
  <2>6. Cardinality(SoonerOnes(s)) <= Cardinality(SoonerOnes(t) \ {s})
    BY <2>4, <2>5, FS_Subset
  <2> QED BY <2>3, <2>4, <2>6
<1>6. \A s \in AllDue : Place(s) = Cardinality(SoonerOnes(s))
  BY DEF Place
<1> HIDE DEF SoonerOnes
<1>7. \A s \in AllDue : Place(s) \in 0..(Cardinality(AllDue) - 1)
  BY <1>2, <1>3, <1>4, <1>6
<1>8. \A s, t \in AllDue : Sooner(s, t) => Place(s) < Place(t)
  BY <1>5, <1>6
<1>9. PICK f, T : f = [s \in AllDue |-> Place(s)] /\ T = 0..(Cardinality(AllDue) - 1)
  OBVIOUS
<1>10. f \in Injection(AllDue, T)
  <2>1. f \in [AllDue -> T]
    BY <1>7, <1>9
  <2>2. ASSUME NEW s \in AllDue, NEW t \in AllDue, f[s] = f[t] PROVE s = t
    <3>1. Place(s) = Place(t) /\ Place(s) \in Int
      BY <1>7, <1>9, <2>2
    <3> QED BY <1>1, <1>8, <3>1, SoonerOrders
  <2> QED BY <2>1, <2>2, Zenon DEF Injection, IsInjective
<1>11. IsFiniteSet(T) /\ Cardinality(T) = Cardinality(AllDue)
  BY <1>2, <1>9, FS_Interval
<1>12. f \in Surjection(AllDue, T)
  BY <1>10, <1>11, FS_Injection
<1>13. ASSUME NEW n \in 1..Cardinality(AllDue) PROVE \E s \in AllDue : Place(s) = n - 1
  <2>1. n - 1 \in T
    BY <1>2, <1>9
  <2>2. PICK s \in AllDue : f[s] = n - 1
    BY <1>12, <2>1 DEF Surjection
  <2> QED BY <1>9, <2>2
<1> QED BY <1>2, <1>7, <1>8, <1>13

\* A round is made of due sources, each once; those ahead of a due source
\* sort before it, also when the limit leaves it out.
LEMMA RoundIsFair ==
  ASSUME SyncTypes, NEW round, round = due_corpus_sync_sources
  PROVE  /\ round \in Seq(CsIds)
         /\ \A i, j \in DOMAIN round : round[i] = round[j] => i = j
         /\ \A s \in AllDue : \A i \in DOMAIN round : (\A j \in 1..i : round[j] # s) => Sooner(round[i], s)
<1>1. PICK n : n = IF Cardinality(AllDue) < CsLimit THEN Cardinality(AllDue) ELSE CsLimit
  OBVIOUS
<1>2. Cardinality(AllDue) \in Nat /\ CsLimit \in Nat /\ AllDue \subseteq CsIds
  BY SyncAssumption, PlacesNumber DEF AllDue
<1>3. n \in Nat /\ n <= Cardinality(AllDue)
  BY <1>1, <1>2
<1>4. round = [k \in 1..n |-> CHOOSE s \in AllDue : Place(s) = k - 1]
  BY <1>1 DEF due_corpus_sync_sources
<1>5. ASSUME NEW k \in 1..n PROVE round[k] \in AllDue /\ Place(round[k]) = k - 1
  <2>1. k \in 1..Cardinality(AllDue)
    BY <1>2, <1>3
  <2>2. \E s \in AllDue : Place(s) = k - 1
    BY <2>1, PlacesNumber
  <2>3. round[k] = CHOOSE s \in AllDue : Place(s) = k - 1
    BY <1>4
  <2> QED BY <2>2, <2>3, Zenon
<1>6. round = [k \in 1..n |-> round[k]]
  BY <1>4
<1>7. round \in Seq(CsIds) /\ DOMAIN round = 1..n
  BY <1>2, <1>3, <1>5, <1>6
<1>8. ASSUME NEW i \in 1..n, NEW j \in 1..n, round[i] = round[j] PROVE i = j
  <2>1. i - 1 = j - 1
    BY <1>5, <1>8
  <2> QED BY <2>1
<1>9. ASSUME NEW s \in AllDue, NEW i \in 1..n, \A j \in 1..i : round[j] # s PROVE Sooner(round[i], s)
  <2>1. Place(s) \in 0..(Cardinality(AllDue) - 1)
    BY PlacesNumber
  <2>2. round[i] \in AllDue /\ Place(round[i]) = i - 1
    BY <1>5
  <2>3. i \in 1..i
    OBVIOUS
  <2>4. s # round[i]
    BY <1>9, <2>3
  <2>5. ASSUME Sooner(s, round[i]) PROVE FALSE
    <3>1. Place(s) < i - 1
      BY <2>2, <2>5, PlacesNumber
    <3>2. PICK k : k = Place(s) + 1
      OBVIOUS
    <3>3. k \in 1..i /\ k \in 1..n
      BY <1>2, <1>3, <2>1, <3>1, <3>2
    <3>4. round[k] \in AllDue /\ Place(round[k]) = Place(s) /\ round[k] # s
      BY <1>2, <1>5, <1>9, <2>1, <3>2, <3>3
    <3>5. Sooner(round[k], s) \/ Sooner(s, round[k])
      BY <1>2, <3>4, SoonerOrders
    <3>6. Place(round[k]) < Place(s) \/ Place(s) < Place(round[k])
      BY <3>4, <3>5, PlacesNumber
    <3> QED BY <2>1, <3>4, <3>6
  <2> QED BY <1>2, <2>2, <2>4, <2>5, SoonerOrders
<1> QED BY <1>7, <1>8, <1>9

\* What a round keeps of a source when its first source leaves it.
LEMMA RoundGoesOn ==
  ASSUME csRound \in Seq(CsIds), csRound # <<>>, csRound' = Tail(csRound),
         \A i, j \in DOMAIN csRound : csRound[i] = csRound[j] => i = j
  PROVE  /\ csRound' \in Seq(CsIds) /\ Head(csRound) \in CsIds
         /\ \A i, j \in DOMAIN csRound' : csRound'[i] = csRound'[j] => i = j
         /\ \A i \in DOMAIN csRound' : csRound'[i] # Head(csRound)
         /\ \A s \in CsIds \ {Head(csRound)} : /\ AheadInRound(s)' \subseteq AheadInRound(s)
                                               /\ Head(csRound) \in AheadInRound(s)
                                               /\ Head(csRound) \notin AheadInRound(s)'
<1>1. PICK n : n = Len(csRound) - 1
  OBVIOUS
<1>2. /\ n \in Nat /\ DOMAIN csRound = 1..(n + 1) /\ DOMAIN csRound' = 1..n /\ csRound' \in Seq(CsIds)
      /\ \A i \in 1..n : csRound'[i] = csRound[i + 1]
      /\ Head(csRound) = csRound[1] /\ Head(csRound) \in CsIds
  BY <1>1
<1>3. \A i \in 1..n : i + 1 \in 1..(n + 1) /\ i + 1 # 1
  BY <1>2
<1>4. 1 \in 1..(n + 1) /\ 1 \in 1..1
  BY <1>2
<1>5. \A i \in 1..n : csRound'[i] # Head(csRound)
  BY <1>2, <1>3, <1>4
<1>6. \A i, j \in 1..n : csRound'[i] = csRound'[j] => i = j
  <2> SUFFICES ASSUME NEW i \in 1..n, NEW j \in 1..n, csRound'[i] = csRound'[j] PROVE i = j
    OBVIOUS
  <2>1. i + 1 = j + 1
    BY <1>2, <1>3
  <2> QED BY <2>1
<1>7. ASSUME NEW s \in CsIds \ {Head(csRound)}, NEW t \in AheadInRound(s)' PROVE t \in AheadInRound(s) /\ t # Head(csRound)
  <2>1. PICK i \in 1..n : t \in CsIds /\ csRound'[i] = t /\ \A j \in 1..i : csRound'[j] # s
    BY <1>2, <1>7 DEF AheadInRound
  <2>2. i + 1 \in 1..(n + 1) /\ csRound[i + 1] = t
    BY <1>2, <1>3, <2>1
  <2>3. ASSUME NEW j \in 1..(i + 1) PROVE csRound[j] # s
    <3>1. CASE j = 1
      BY <1>2, <3>1
    <3>2. CASE j # 1
      <4>1. j - 1 \in 1..i /\ j - 1 \in 1..n /\ (j - 1) + 1 = j
        BY <3>2, <1>2
      <4>2. csRound'[j - 1] = csRound[j]
        BY <1>2, <4>1
      <4> QED BY <2>1, <4>1, <4>2
    <3> QED BY <3>1, <3>2
  <2>4. t \in AheadInRound(s)
    BY <1>2, <2>1, <2>2, <2>3 DEF AheadInRound
  <2> QED BY <1>5, <2>1, <2>4
<1>8. ASSUME NEW s \in CsIds \ {Head(csRound)} PROVE Head(csRound) \in AheadInRound(s)
  <2>1. \A j \in 1..1 : csRound[j] # s
    BY <1>2
  <2> QED BY <1>2, <1>4, <2>1, Zenon DEF AheadInRound
<1> QED BY <1>2, <1>5, <1>6, <1>7, <1>8

LEMMA SyncStep ==
  ASSUME SyncInv, SyncNext \/ UNCHANGED csVars
  PROVE  SyncInv'
<1>0. SyncTypes /\ \A s, t \in CsIds : csPassed[s][t] # 0 => CsDue(s) /\ t \in Behind(s)
  BY DEF SyncInv
<1>1. CASE UNCHANGED csVars
  BY <1>1 DEF csVars, SyncInv, SyncTypes, CsDue, Behind, AheadInRound, LastOrZero
<1>2. ASSUME NEW r \in CsIds, SyncRegister(r) PROVE SyncInv'
  <2>1. PICK i \in CsIntervals : csSource' = [csSource EXCEPT ![r].interval = i]
    BY <1>2 DEF SyncRegister
  <2>2. /\ UNCHANGED <<csClock, csRound>>
        /\ csPassed' = [csPassed EXCEPT ![r] = IF CsDue(r)' THEN @ ELSE NotPassed]
    BY <1>2 DEF SyncRegister
  <2>3. /\ csSource' \in [CsIds -> Rows]
        /\ \A s \in CsIds : csSource'[s].last = csSource[s].last /\ (s # r => csSource'[s] = csSource[s])
    BY <1>0, <2>1, SyncAssumption DEF SyncTypes, Rows
  <2>4. /\ csPassed' \in [CsIds -> [CsIds -> {0, 1}]]
        /\ \A s \in CsIds : csPassed'[s] = csPassed[s] \/ csPassed'[s] = NotPassed
        /\ ~CsDue(r)' => csPassed'[r] = NotPassed
    BY <1>0, <2>2, NobodyPassed DEF SyncTypes
  <2>5. \A s \in CsIds : LastOrZero(s)' = LastOrZero(s) /\ AheadInRound(s)' = AheadInRound(s)
    BY <2>2, <2>3 DEF LastOrZero, AheadInRound
  <2>6. \A s \in CsIds : Behind(s)' = Behind(s)
    BY <2>3, <2>5 DEF Behind
  <2>7. ASSUME NEW s \in CsIds, NEW t \in CsIds, csPassed'[s][t] # 0 PROVE CsDue(s)' /\ t \in Behind(s)'
    <3>1. csPassed'[s] = csPassed[s]
      BY <2>4, <2>7, NobodyPassed
    <3>2. CsDue(s) /\ t \in Behind(s)
      BY <1>0, <2>7, <3>1
    <3>3. CsDue(s)'
      <4>1. CASE s = r
        BY <2>4, <2>7, <4>1, NobodyPassed
      <4>2. CASE s # r
        BY <2>2, <2>3, <3>2, <4>2 DEF CsDue
      <4> QED BY <4>1, <4>2
    <3> QED BY <2>6, <3>2, <3>3
  <2> QED BY <1>0, <2>2, <2>3, <2>4, <2>7 DEF SyncInv, SyncTypes
<1>3. CASE SyncTick
  <2>1. csClock' = csClock + 1 /\ UNCHANGED <<csSource, csRound, csPassed>>
    BY <1>3 DEF SyncTick
  <2>2. \A s \in CsIds : Behind(s)' = Behind(s)
    BY <2>1 DEF Behind, AheadInRound, LastOrZero
  <2>3. \A s \in CsIds : CsDue(s) => CsDue(s)'
    BY <1>0, <2>1 DEF SyncTypes, Rows, CsDue
  <2> QED BY <2>1, <2>2, <2>3 DEF SyncInv, SyncTypes
<1>4. CASE SyncRound
  <2>1. csRound = <<>> /\ csRound' = due_corpus_sync_sources /\ UNCHANGED <<csSource, csClock, csPassed>>
    BY <1>4 DEF SyncRound
  <2>2. PICK round : round = due_corpus_sync_sources
    OBVIOUS
  <2>3. /\ round \in Seq(CsIds)
        /\ \A i, j \in DOMAIN round : round[i] = round[j] => i = j
        /\ \A s \in AllDue : \A i \in DOMAIN round : (\A j \in 1..i : round[j] # s) => Sooner(round[i], s)
    BY ONLY <1>0, <2>2, RoundIsFair
  <2>4. \A s \in CsIds : CsDue(s)' = CsDue(s)
    BY <2>1 DEF CsDue
  <2>5. ASSUME NEW s \in CsIds, CsDue(s) PROVE Behind(s) \subseteq Behind(s)'
    <3>1. \A t \in AheadInRound(s)' : Sooner(t, s)
      BY <2>1, <2>2, <2>3, <2>5 DEF AheadInRound, AllDue
    <3>2. LastOrZero(s)' = LastOrZero(s) /\ LastOrZero(s) \in Nat
      BY <1>0, <2>1 DEF LastOrZero, SyncTypes, Rows
    <3>3. ASSUME NEW t \in CsIds, Sooner(t, s) PROVE ~(csSource[t].last > LastOrZero(s))
      BY <1>0, <3>2, <3>3 DEF Sooner, LastOrZero, SyncTypes, Rows
    <3> QED BY <2>1, <3>1, <3>2, <3>3 DEF Behind
  <2>6. ASSUME NEW s \in CsIds, NEW t \in CsIds, csPassed'[s][t] # 0 PROVE CsDue(s)' /\ t \in Behind(s)'
    BY <1>0, <2>1, <2>4, <2>5, <2>6
  <2> QED BY <1>0, <2>1, <2>2, <2>3, <2>6 DEF SyncInv, SyncTypes
<1>5. ASSUME MarkSynced \/ SyncFailed PROVE SyncInv'
  <2>1. csRound # <<>> /\ csRound' = Tail(csRound) /\ UNCHANGED csClock
    BY <1>5 DEF MarkSynced, SyncFailed
  <2>2. PICK h : h = Head(csRound)
    OBVIOUS
  <2>3. /\ csRound' \in Seq(CsIds) /\ h \in CsIds
        /\ \A i, j \in DOMAIN csRound' : csRound'[i] = csRound'[j] => i = j
        /\ \A s \in CsIds \ {h} : AheadInRound(s)' \subseteq AheadInRound(s) /\ h \in AheadInRound(s) /\ h \notin AheadInRound(s)'
    BY <1>0, <2>1, <2>2, RoundGoesOn DEF SyncInv, SyncTypes
  <2>4. \A s \in CsIds \ {h} : csPassed[s][h] = 0
    BY <1>0, <2>3 DEF Behind
  <2>5. CASE SyncFailed
    <3>1. csPassed' = [csPassed EXCEPT ![h] = NotPassed] /\ csSource' = csSource
      BY <2>2, <2>5 DEF SyncFailed
    <3>2. ASSUME NEW s \in CsIds \ {h} PROVE Behind(s) \subseteq Behind(s)' /\ CsDue(s)' = CsDue(s)
      BY <2>1, <2>3, <3>1 DEF Behind, LastOrZero, CsDue
    <3>3. /\ csPassed' \in [CsIds -> [CsIds -> {0, 1}]] /\ csPassed'[h] = NotPassed
          /\ \A s \in CsIds \ {h} : csPassed'[s] = csPassed[s]
      BY <1>0, <2>3, <3>1, NobodyPassed DEF SyncTypes
    <3>4. ASSUME NEW s \in CsIds, NEW t \in CsIds, csPassed'[s][t] # 0 PROVE CsDue(s)' /\ t \in Behind(s)'
      <4>1. s \in CsIds \ {h}
        BY <3>3, <3>4, NobodyPassed
      <4>2. CsDue(s) /\ t \in Behind(s)
        BY <1>0, <3>3, <3>4, <4>1
      <4> QED BY <3>2, <4>1, <4>2
    <3> QED BY <1>0, <2>1, <2>3, <3>1, <3>3, <3>4 DEF SyncInv, SyncTypes
  <2>6. CASE MarkSynced
    <3>1. /\ csSource' = [csSource EXCEPT ![h].last = csClock]
          /\ csPassed' = [s \in CsIds |-> IF s = h \/ ~CsDue(s) THEN NotPassed ELSE [csPassed[s] EXCEPT ![h] = @ + 1]]
      BY <2>2, <2>6 DEF MarkSynced
    <3>2. csSource' \in [CsIds -> Rows]
      BY <1>0, <2>3, <3>1, ZenonT(40) DEF SyncTypes, Rows
    <3>3. \A s \in CsIds \ {h} : csSource'[s] = csSource[s] /\ LastOrZero(s)' = LastOrZero(s) /\ CsDue(s)' = CsDue(s)
      BY <1>0, <2>1, <3>1 DEF SyncTypes, LastOrZero, CsDue
    <3>4. csSource'[h].last = csClock
      BY <1>0, <2>3, <3>1 DEF SyncTypes, Rows
    <3>5. ASSUME NEW s \in CsIds
          PROVE  /\ csPassed'[s] \in [CsIds -> {0, 1}]
                 /\ s = h \/ ~CsDue(s) => csPassed'[s] = NotPassed
                 /\ s # h => \A t \in CsIds \ {h} : csPassed'[s][t] = csPassed[s][t] \/ csPassed'[s][t] = 0
      <4>1. CASE s = h \/ ~CsDue(s)
        BY <3>1, <4>1, NobodyPassed
      <4>2. CASE s # h /\ CsDue(s)
        <5>1. csPassed'[s] = [csPassed[s] EXCEPT ![h] = csPassed[s][h] + 1]
          BY <3>1, <4>2
        <5>2. csPassed[s][h] = 0 /\ csPassed[s] \in [CsIds -> {0, 1}]
          BY <1>0, <2>4, <4>2 DEF SyncTypes
        <5>3. csPassed'[s] = [csPassed[s] EXCEPT ![h] = 1]
          BY <5>1, <5>2
        <5> QED BY <2>3, <4>2, <5>2, <5>3
      <4> QED BY <4>1, <4>2
    <3>6. csPassed' \in [CsIds -> [CsIds -> {0, 1}]]
      <4>1. csPassed' = [s \in CsIds |-> csPassed'[s]]
        BY <3>1
      <4> QED BY <3>5, <4>1, Zenon
    <3>7. ASSUME NEW s \in CsIds, NEW t \in CsIds, csPassed'[s][t] # 0 PROVE CsDue(s)' /\ t \in Behind(s)'
      <4>1. s \in CsIds \ {h} /\ CsDue(s)
        BY <3>5, <3>7, NobodyPassed
      <4>2. CsDue(s)' /\ LastOrZero(s)' = LastOrZero(s)
        BY <3>3, <4>1
      <4>3. CASE t = h
        <5>1. csClock > LastOrZero(s)
          BY <1>0, <4>1 DEF SyncTypes, Rows, CsDue, LastOrZero
        <5> QED BY <2>3, <3>4, <4>1, <4>2, <4>3, <5>1 DEF Behind
      <4>4. CASE t # h
        <5>1. csPassed[s][t] # 0
          BY <3>5, <3>7, <4>1, <4>4
        <5>2. t \in Behind(s)
          BY <1>0, <5>1
        <5> QED BY <2>3, <3>3, <4>1, <4>2, <4>4, <5>2 DEF Behind
      <4> QED BY <4>3, <4>4
    <3> QED BY <1>0, <2>1, <2>3, <3>2, <3>6, <3>7 DEF SyncInv, SyncTypes
  <2> QED BY <1>5, <2>5, <2>6
<1> QED BY <1>1, <1>2, <1>3, <1>4, <1>5 DEF SyncNext

\* The sync schedule: no source that is due waits while another one is synced
\* twice, for any set of sources, intervals and limit, whenever sources are
\* registered again and whichever the host fails to fetch.
THEOREM SourcesGetTheirTurn == Spec => []EverySourceGetsItsTurn
<1>1. Init => SyncInv
  <2> SUFFICES ASSUME Init PROVE SyncInv
    OBVIOUS
  <2>1. SyncInit
    BY DEF Init
  <2>2. /\ csSource = [s \in CsIds |-> [interval |-> 0, last |-> -1]]
        /\ csClock = 1 /\ csRound = <<>> /\ csPassed = [s \in CsIds |-> NotPassed]
    BY <2>1 DEF SyncInit
  <2>3. SyncTypes
    BY <2>2, NobodyPassed DEF SyncTypes, Rows
  <2>4. \A s, t \in CsIds : csPassed[s][t] = 0
    BY <2>2, NobodyPassed
  <2>5. DOMAIN csRound = {}
    BY <2>2
  <2> QED BY <2>3, <2>4, <2>5 DEF SyncInv
<1>2. SyncInv /\ [Next]_vars => SyncInv'
  BY OneComponentMoves, SyncStep
<1>3. SyncInv => EverySourceGetsItsTurn
  <2> SUFFICES ASSUME SyncInv, NEW s \in CsIds, NEW t \in CsIds PROVE csPassed[s][t] <= 1
    BY DEF EverySourceGetsItsTurn
  <2>1. csPassed[s] \in [CsIds -> {0, 1}]
    BY DEF SyncInv, SyncTypes
  <2>2. csPassed[s][t] \in {0, 1}
    BY <2>1
  <2> QED BY <2>2
<1> QED BY <1>1, <1>2, <1>3, PTL DEF Spec

-----------------------------------------------------------------------------
(* Shards: a saved manifest leads to every document of the split that wrote *)
(* it; a split under way has done so for the clusters before the next one.  *)
Clustered(i) == {d \in DOMAIN shSplit.assign : shSplit.assign[d] = i}
LeadsTo(metas, d, s) ==
    /\ s \in 1..ShCount /\ d \in shFiles[s]
    /\ \E i \in DOMAIN metas : metas[i].shard = s /\ ShTexts[d] \subseteq metas[i].bloom
ShardMetas == [shard : 1..ShCount, bloom : SUBSET UNION {ShTexts[d] : d \in DOMAIN ShTexts}]
ShardInv ==
    /\ shSource \subseteq DOMAIN ShTexts /\ DOMAIN shFiles = 1..ShCount
    /\ shManifest = NoManifest \/ shManifest \in Seq(ShardMetas)
    /\ shManifest # NoManifest => \A d \in shCovered : \E s \in 1..ShCount : LeadsTo(shManifest, d, s)
    /\ shSplit # NoSplit =>
          /\ shSplit \in [assign : {shSplit.assign}, next : 1..(ShCount + 1), metas : Seq(ShardMetas)]
          /\ DOMAIN shSplit.assign \subseteq DOMAIN ShTexts
          /\ \A d \in DOMAIN shSplit.assign : shSplit.assign[d] \in 1..ShCount
          /\ \A d \in DOMAIN shSplit.assign : shSplit.assign[d] < shSplit.next
                                              => LeadsTo(shSplit.metas, d, shSplit.assign[d])

LEMMA ShardInit ==
  ASSUME ReplicasInit
  PROVE  ShardInv
BY DEF ReplicasInit, ShardInv

LEMMA ShardStep ==
  ASSUME ShardInv, ReplicasNext \/ UNCHANGED rpVars
  PROVE  ShardInv'
<1>0. ShCount \in Nat
  BY ReplicasAssumption
<1>1. CASE UNCHANGED shVars
  BY <1>1 DEF shVars, ShardInv, LeadsTo
<1>2. ASSUME NEW d \in DOMAIN ShTexts, ShardPut(d) PROVE ShardInv'
  BY <1>2 DEF ShardPut, ShardInv, LeadsTo
<1>3. CASE SplitStart
  <2>1. PICK assign \in [shSource \ ShUnembedded -> 1..ShCount] :
           shSplit' = [assign |-> assign, next |-> 1, metas |-> <<>>]
    BY <1>3 DEF SplitStart
  <2>2. UNCHANGED <<shSource, shFiles, shManifest, shCovered>>
    BY <1>3 DEF SplitStart
  <2>3. /\ shSplit' \in [assign : {shSplit'.assign}, next : 1..(ShCount + 1), metas : Seq(ShardMetas)]
        /\ shSplit'.assign = assign /\ shSplit'.next = 1
    BY <1>0, <2>1
  <2>4. \A d \in DOMAIN assign : assign[d] \in 1..ShCount /\ ~(assign[d] < 1)
    BY <1>0
  <2>5. DOMAIN assign \subseteq DOMAIN ShTexts
    BY DEF ShardInv
  <2>6. shManifest' # NoManifest => \A d \in shCovered' : \E s \in 1..ShCount : LeadsTo(shManifest, d, s)'
    BY <2>2 DEF ShardInv, LeadsTo
  <2> QED BY <2>2, <2>3, <2>4, <2>5, <2>6 DEF ShardInv
<1>4. CASE SplitShard
  <2>1. PICK i, docs, m : i = shSplit.next /\ docs = Clustered(i) /\ m = [shard |-> i, bloom |-> BloomOf(docs)]
    OBVIOUS
  <2>2. /\ shSplit # NoSplit /\ i <= ShCount
        /\ shFiles' = [shFiles EXCEPT ![i] = @ \cup docs]
        /\ shSplit' = [shSplit EXCEPT !.next = i + 1, !.metas = IF docs = {} THEN @ ELSE Append(@, m)]
        /\ UNCHANGED <<shSource, shManifest, shCovered>>
    BY <1>4, <2>1 DEF SplitShard, Clustered
  <2>3. /\ shSplit \in [assign : {shSplit.assign}, next : 1..(ShCount + 1), metas : Seq(ShardMetas)]
        /\ DOMAIN shSplit.assign \subseteq DOMAIN ShTexts
        /\ \A d \in DOMAIN shSplit.assign : shSplit.assign[d] \in 1..ShCount
        /\ \A d \in DOMAIN shSplit.assign : shSplit.assign[d] < i => LeadsTo(shSplit.metas, d, shSplit.assign[d])
    BY <2>1, <2>2 DEF ShardInv
  <2>4. PICK metas, new, assign : /\ metas = shSplit.metas /\ assign = shSplit.assign
                                  /\ new = IF docs = {} THEN metas ELSE Append(metas, m)
    OBVIOUS
  <2>5. i \in 1..ShCount /\ metas \in Seq(ShardMetas)
    BY <1>0, <2>1, <2>2, <2>3, <2>4
  <2>6. m \in ShardMetas
    <3>1. docs \subseteq DOMAIN ShTexts
      BY <2>1, <2>3 DEF Clustered
    <3>2. BloomOf(docs) \in SUBSET UNION {ShTexts[d] : d \in DOMAIN ShTexts}
      BY <3>1 DEF BloomOf
    <3> QED BY <2>1, <2>5, <3>2 DEF ShardMetas
  <2>7. new \in Seq(ShardMetas) /\ \A j \in DOMAIN metas : j \in DOMAIN new /\ new[j] = metas[j]
    BY <2>4, <2>5, <2>6
  <2>8. docs # {} => \E j \in DOMAIN new : new[j] = m
    <3>1. PICK n : n = Len(metas) /\ n \in Nat
      BY <2>5
    <3>2. docs # {} => n + 1 \in DOMAIN new /\ new[n + 1] = m
      BY <2>4, <2>5, <3>1
    <3> QED BY <3>2
  <2>9. /\ shSplit' \in [assign : {shSplit'.assign}, next : 1..(ShCount + 1), metas : Seq(ShardMetas)]
        /\ shSplit'.assign = assign /\ shSplit'.next = i + 1 /\ shSplit'.metas = new
    <3>1. shSplit' = [assign |-> assign, next |-> i + 1, metas |-> new]
      BY <2>2, <2>3, <2>4
    <3>2. i + 1 \in 1..(ShCount + 1)
      BY <1>0, <2>5
    <3> QED BY <2>7, <3>1, <3>2
  <2>10. \A s \in 1..ShCount : shFiles[s] \subseteq shFiles'[s]
    BY <2>2 DEF ShardInv
  <2>11. ASSUME NEW d \in DOMAIN assign, assign[d] < i + 1 PROVE LeadsTo(shSplit.metas, d, assign[d])'
    <3>1. CASE assign[d] < i
      <4>1. LeadsTo(metas, d, assign[d])
        BY <2>3, <2>4, <3>1
      <4> QED BY <2>7, <2>9, <2>10, <4>1 DEF LeadsTo
    <3>2. CASE assign[d] = i
      <4>1. d \in docs
        BY <2>1, <2>4, <3>2 DEF Clustered
      <4>2. d \in shFiles'[i]
        BY <2>2, <2>5, <4>1 DEF ShardInv
      <4>3. ShTexts[d] \subseteq m.bloom /\ m.shard = i
        BY <2>1, <4>1 DEF BloomOf
      <4> QED BY <2>5, <2>8, <2>9, <3>2, <4>1, <4>2, <4>3 DEF LeadsTo
    <3>3. assign[d] \in Int /\ i \in Int
      BY <2>3, <2>4, <2>5
    <3> QED BY <2>11, <3>1, <3>2, <3>3
  <2>12. shManifest' # NoManifest => \A d \in shCovered' : \E s \in 1..ShCount : LeadsTo(shManifest, d, s)'
    BY <2>2, <2>10 DEF ShardInv, LeadsTo
  <2>13. DOMAIN shFiles' = 1..ShCount
    BY <2>2 DEF ShardInv
  <2> QED BY <2>2, <2>3, <2>4, <2>9, <2>11, <2>12, <2>13 DEF ShardInv
<1>5. CASE SplitSave
  <2>1. /\ shSplit # NoSplit /\ shSplit.next > ShCount /\ shManifest' = shSplit.metas
        /\ shCovered' = DOMAIN shSplit.assign /\ shSplit' = NoSplit /\ UNCHANGED <<shSource, shFiles>>
    BY <1>5 DEF SplitSave, SplitDone
  <2>2. shSplit.metas \in Seq(ShardMetas) /\ shSplit.next \in Int
    BY <1>0, <2>1 DEF ShardInv
  <2>3. ASSUME NEW d \in DOMAIN shSplit.assign PROVE \E s \in 1..ShCount : LeadsTo(shSplit.metas, d, s)
    <3>1. shSplit.assign[d] \in 1..ShCount /\ shSplit.assign[d] < shSplit.next
      BY <1>0, <2>1, <2>2 DEF ShardInv
    <3> QED BY <2>1, <3>1 DEF ShardInv
  <2>4. \A d \in shCovered' : \E s \in 1..ShCount : LeadsTo(shManifest, d, s)'
    BY <2>1, <2>3 DEF LeadsTo
  <2> QED BY <2>1, <2>2, <2>4 DEF ShardInv
<1>6. CASE SplitKill
  <2>1. /\ shManifest' \in {shManifest, NoManifest} /\ shSplit' = NoSplit /\ UNCHANGED <<shSource, shFiles, shCovered>>
    BY <1>6 DEF SplitKill
  <2> QED BY <2>1 DEF ShardInv, LeadsTo
<1>7. CASE ReplicasNext
  BY <1>1, <1>2, <1>3, <1>4, <1>5, <1>6, <1>7, Zenon DEF ReplicasNext
<1> QED BY <1>1, <1>7 DEF rpVars

LEMMA ShardInvIsEnough ==
  ASSUME ShardInv
  PROVE  ShardsFindAll
<1> SUFFICES ASSUME shManifest # NoManifest, NEW word \in DOMAIN ShFold, NEW lies \in SUBSET DOMAIN shManifest,
                    NEW asked \in AskedSets(Candidates(word, lies)), NEW down \in SUBSET asked,
                    NEW d \in shCovered, Matches(word, d)
             PROVE  \/ d \in ShardHits(word, asked, down)
                    \/ \E i \in Candidates(word, lies) : d \in shFiles[shManifest[i].shard] /\ Passed(i, asked, down)
                    \/ word \notin ShTexts[d] /\ \E i \in DOMAIN shManifest : Claims(i, word, lies)
  BY Zenon DEF ShardsFindAll
<1>1. PICK s \in 1..ShCount : LeadsTo(shManifest, d, s)
  BY DEF ShardInv
<1>2. PICK i \in DOMAIN shManifest : shManifest[i].shard = s /\ ShTexts[d] \subseteq shManifest[i].bloom
  BY <1>1 DEF LeadsTo
<1>3. d \in shFiles[shManifest[i].shard]
  BY <1>1, <1>2 DEF LeadsTo
<1>4. CASE i \in Candidates(word, lies)
  <2>1. CASE i \in asked \ down
    <3>1. PICK found : found = {e \in shFiles[shManifest[i].shard] : Matches(word, e)}
      OBVIOUS
    <3>2. d \in found
      BY <1>3, <3>1
    <3>3. found \in {{e \in shFiles[shManifest[j].shard] : Matches(word, e)} : j \in asked \ down}
      BY <2>1, <3>1, Zenon
    <3> QED BY <3>2, <3>3, Zenon DEF ShardHits
  <2>2. CASE i \in down
    BY <1>3, <1>4, <2>2, Zenon DEF Passed
  <2>3. CASE i \notin asked
    <3>1. asked # Candidates(word, lies)
      BY <1>4, <2>3
    <3>2. Cardinality(asked) = 2
      BY <3>1, Zenon DEF AskedSets
    <3> QED BY <1>3, <1>4, <2>3, <3>2, Zenon DEF Passed
  <2> QED BY <2>1, <2>2, <2>3
<1>5. CASE word \in ShTexts[d]
  <2>1. Claims(i, word, lies)
    BY <1>2, <1>5 DEF Claims
  <2>2. i \in Candidates(word, lies)
    BY <2>1, Zenon DEF Candidates
  <2> QED BY <1>4, <2>2
<1>6. CASE word \notin ShTexts[d] /\ i \notin Candidates(word, lies)
  <2>1. \E j \in DOMAIN shManifest : Claims(j, word, lies)
    BY <1>6, Zenon DEF Candidates
  <2> QED BY <1>6, <2>1
<1> QED BY <1>4, <1>5, <1>6

-----------------------------------------------------------------------------
(* Operation logs: a log holds only what its replica heard of, and for each *)
(* operation heard of one of its document that is not older.                *)
NotNewer(a, b) == a.ts < b.ts \/ (a.ts = b.ts /\ a.id <= b.id)
OneOpPerId(ops) == \A a, b \in ops : a.id = b.id => a = b
KeepsNewest(ops, seen) ==
    /\ ops \subseteq seen
    /\ \A op \in seen : \E w \in ops : w.doc = op.doc /\ NotNewer(op, w)
Heard == UNION {opSeen[r] : r \in OpReplicas}
OpsInv ==
    /\ DOMAIN opLog = OpReplicas /\ DOMAIN opSeen = OpReplicas
    /\ Heard \subseteq OpChoices /\ OneOpPerId(Heard)
    /\ \A r \in OpReplicas : opLog[r] \in Seq(OpChoices) /\ KeepsNewest(ToSet(opLog[r]), opSeen[r])

LEMMA ListIsFinite ==
  ASSUME NEW S, NEW s \in Seq(S)
  PROVE  IsFiniteSet(ToSet(s)) /\ ToSet(s) \subseteq S
<1>1. PICK n : n = Len(s) /\ n \in Nat /\ DOMAIN s = 1..n
  OBVIOUS
<1>2. PICK T, D : T = ToSet(s) /\ D = 1..n
  OBVIOUS
<1>3. T = {s[i] : i \in D}
  BY <1>1, <1>2 DEF ToSet
<1>4. s \in Surjection(D, T)
  <2>1. s \in [D -> T] /\ \A t \in T : \E k \in D : s[k] = t
    BY <1>1, <1>2, <1>3
  <2> QED BY <2>1, Zenon DEF Surjection
<1>5. IsFiniteSet(D)
  <2>1. 1 \in Int /\ n \in Int
    BY <1>1
  <2> QED BY <1>2, <2>1, FS_Interval
<1>6. IsFiniteSet(T)
  BY <1>4, <1>5, FS_Surjection
<1>7. T \subseteq S
  BY <1>1, <1>2, <1>3
<1> QED BY <1>2, <1>6, <1>7

LEMMA ByIdLists ==
  ASSUME NEW T, IsFiniteSet(T), T \subseteq OpChoices, OneOpPerId(T)
  PROVE  ById(T) \in Seq(OpChoices) /\ ToSet(ById(T)) = T
<1>1. PICK m, R : m = Cardinality(T) /\ R = {x \in T \X T : x[1].id < x[2].id}
  OBVIOUS
<1>2. m \in Nat
  BY <1>1, FS_CardinalityType
<1>3. \A a, b \in T : <<a, b>> \in R <=> a.id < b.id
  BY <1>1
<1>4. \A a \in T : a.id \in Int
  BY ReplicasAssumption
<1>5. Orders(R, T)
  <2>1. \A a \in T : <<a, a>> \notin R
    BY <1>3, <1>4
  <2>2. \A a, b, c \in T : <<a, b>> \in R /\ <<b, c>> \in R => <<a, c>> \in R
    BY <1>3, <1>4
  <2>3. \A a, b \in T : a = b \/ <<a, b>> \in R \/ <<b, a>> \in R
    <3>1. \A a, b \in T : a = b \/ a.id # b.id
      BY Zenon DEF OneOpPerId
    <3>2. ASSUME NEW a \in T, NEW b \in T, a.id # b.id PROVE a.id < b.id \/ b.id < a.id
      BY <1>4, <3>2
    <3> QED BY <1>3, <3>1, <3>2
  <2> QED BY <2>1, <2>2, <2>3, Zenon DEF Orders
<1>6. \A a \in T : {o \in T : o.id < a.id} = Preceding(T, R, a)
  BY <1>3 DEF Preceding
<1>7. PICK y : y = ById(T) /\ y = [k \in 1..m |-> IdAt(T, k)]
  BY <1>1 DEF ById
<1>8. ASSUME NEW k \in 1..m PROVE y[k] \in T /\ Cardinality(Preceding(T, R, y[k])) = k - 1
  <2>1. PICK h \in T : Cardinality(Preceding(T, R, h)) = k - 1
    BY <1>1, <1>5, RanksNumber
  <2>2. Cardinality({o \in T : o.id < h.id}) = k - 1
    BY <1>6, <2>1
  <2>3. y[k] = CHOOSE op \in T : Cardinality({o \in T : o.id < op.id}) = k - 1
    BY <1>7 DEF IdAt
  <2>4. y[k] \in T /\ Cardinality({o \in T : o.id < y[k].id}) = k - 1
    BY <2>2, <2>3, Zenon
  <2> QED BY <1>6, <2>4
<1>9. Ranks(y, m, T, R)
  <2>1. y \in [1..m -> T]
    BY <1>7, <1>8
  <2> QED BY <1>8, <2>1 DEF Ranks
<1>10. y \in Bijection(1..m, T)
  BY <1>1, <1>5, <1>9, RanksSort
<1>11. y \in [1..m -> T] /\ \A t \in T : \E k \in 1..m : y[k] = t
  <2>1. y \in Surjection(1..m, T)
    BY <1>10 DEF Bijection
  <2> QED BY <2>1, Zenon DEF Surjection
<1>12. DOMAIN y = 1..m
  BY <1>11
<1>13. ToSet(y) = T
  BY <1>11, <1>12 DEF ToSet
<1>14. y \in Seq(OpChoices)
  <2>1. y \in [1..m -> OpChoices]
    BY <1>11
  <2> QED BY <1>2, <2>1
<1> QED BY <1>7, <1>13, <1>14

\* The loop over the operations, step by step.
IsWinners(r, ops) == r = [k \in 0..Len(ops) |-> IF k = 0 THEN {} ELSE Offered(r[k - 1], ops[k])]
LEMMA WinnersSteps ==
  ASSUME NEW ops, ops \in Seq(OpChoices)
  PROVE  /\ WinnersAfter(ops)[0] = {}
         /\ \A k \in 1..Len(ops) : WinnersAfter(ops)[k] = Offered(WinnersAfter(ops)[k - 1], ops[k])
<1>1. PICK len, C, a : len = Len(ops) /\ C = SUBSET OpChoices /\ a = {}
  OBVIOUS
<1>2. len \in Nat /\ \A n \in 1..len : ops[n] \in OpChoices
  BY <1>1
<1>3. ASSUME NEW W \in C, NEW o \in OpChoices PROVE Offered(W, o) \in C
  BY <1>1 DEF Offered
<1>4. PICK h : h = [n \in 1..len |-> [W \in C |-> Offered(W, ops[n])]]
  OBVIOUS
<1>5. Climbs(a, h, C, len)
  <2>1. a \in C
    BY <1>1
  <2> QED BY <1>2, <1>3, <1>4, <2>1 DEF Climbs
<1>6. PICK s \in [0..len -> C] : s[0] = a /\ \A n \in 1..len : s[n] = h[n][s[n - 1]]
  BY ONLY <1>2, <1>5, Iterated
<1>7. ASSUME NEW n \in 1..len PROVE s[n] = Offered(s[n - 1], ops[n])
  <2>1. n - 1 \in 0..len
    BY <1>2
  <2>2. s[n - 1] \in C
    BY <2>1, Zenon
  <2> QED BY <1>4, <1>6, <2>2, Zenon
<1>8. IsWinners(s, ops)
  <2>1. \A n \in 0..len : n = 0 \/ n \in 1..len
    BY <1>2
  <2>2. \A n \in 0..len : s[n] = IF n = 0 THEN {} ELSE Offered(s[n - 1], ops[n])
    BY <1>1, <1>6, <1>7, <2>1
  <2>3. s = [n \in 0..len |-> s[n]]
    BY <1>6
  <2> QED BY <1>1, <2>2, <2>3 DEF IsWinners
<1>9. PICK r : r = WinnersAfter(ops) /\ IsWinners(r, ops)
  <2>1. WinnersAfter(ops) = CHOOSE r : IsWinners(r, ops)
    BY DEF WinnersAfter, IsWinners
  <2> QED BY <1>8, <2>1
<1>10. \A n \in 0..len : r[n] = IF n = 0 THEN {} ELSE Offered(r[n - 1], ops[n])
  BY <1>1, <1>9 DEF IsWinners
<1>11. 0 \in 0..len /\ \A n \in 1..len : n \in 0..len /\ n # 0
  BY <1>2
<1> QED BY <1>1, <1>9, <1>10, <1>11

OneWinner(W) == \A v, w \in W : v.doc = w.doc => v = w
LEMMA OfferKeepsNewest ==
  ASSUME NEW W, NEW S, W \subseteq OpChoices, S \subseteq OpChoices, NEW op \in OpChoices,
         KeepsNewest(W, S), OneWinner(W), NEW V, V = Offered(W, op)
  PROVE  KeepsNewest(V, S \cup {op}) /\ OneWinner(V)
<1>1. PICK cur : cur = {w \in W : w.doc = op.doc}
  OBVIOUS
<1>2. \A o \in OpChoices : o.ts \in Int /\ o.id \in Int
  BY ReplicasAssumption
<1>3. CASE cur # {} /\ \A w \in cur : KeepsCurrent(w, op)
  <2>1. V = W
    BY <1>1, <1>3 DEF Offered
  <2>2. PICK w \in cur : KeepsCurrent(w, op)
    BY <1>3
  <2>3. w \in W /\ w.doc = op.doc /\ w \in OpChoices
    BY <1>1
  <2>4. NotNewer(op, w)
    BY <1>2, <2>2, <2>3 DEF KeepsCurrent, NotNewer
  <2> QED BY <2>1, <2>3, <2>4 DEF KeepsNewest
<1>4. CASE ~(cur # {} /\ \A w \in cur : KeepsCurrent(w, op))
  <2>1. V = (W \ cur) \cup {op}
    BY <1>1, <1>4 DEF Offered
  <2>2. ASSUME NEW w \in cur PROVE NotNewer(w, op)
    <3>1. PICK v \in cur : ~KeepsCurrent(v, op)
      BY <1>4
    <3>2. v = w /\ w \in OpChoices
      BY <1>1 DEF OneWinner
    <3> QED BY <1>2, <3>1, <3>2 DEF KeepsCurrent, NotNewer
  <2>3. OneWinner(V)
    BY <1>1, <2>1 DEF OneWinner
  <2>4. V \subseteq S \cup {op}
    BY <2>1 DEF KeepsNewest
  <2>5. ASSUME NEW o \in S PROVE \E v \in V : v.doc = o.doc /\ NotNewer(o, v)
    <3>1. PICK w \in W : w.doc = o.doc /\ NotNewer(o, w)
      BY DEF KeepsNewest
    <3>2. CASE w \in cur
      <4>1. NotNewer(w, op) /\ w.doc = op.doc /\ w \in OpChoices /\ o \in OpChoices
        BY <1>1, <2>2, <3>2
      <4>2. NotNewer(o, op)
        BY <1>2, <3>1, <4>1 DEF NotNewer
      <4> QED BY <2>1, <3>1, <4>1, <4>2
    <3>3. CASE w \notin cur
      BY <2>1, <3>1, <3>3
    <3> QED BY <3>2, <3>3
  <2>6. NotNewer(op, op) /\ op \in V
    BY <1>2, <2>1 DEF NotNewer
  <2> QED BY <2>3, <2>4, <2>5, <2>6 DEF KeepsNewest
<1> QED BY <1>3, <1>4

LEMMA WinnersAreNewest ==
  ASSUME NEW ops, ops \in Seq(OpChoices), NEW W, W = WinnersAfter(ops)[Len(ops)]
  PROVE  KeepsNewest(W, ToSet(ops)) /\ OneWinner(W)
<1>1. PICK n, f : n = Len(ops) /\ f = WinnersAfter(ops)
  OBVIOUS
<1>2. n \in Nat /\ DOMAIN ops = 1..n /\ \A k \in 1..n : ops[k] \in OpChoices
  BY <1>1
<1>3. f[0] = {} /\ \A k \in 1..n : f[k] = Offered(f[k - 1], ops[k])
  BY <1>1, WinnersSteps
<1> DEFINE Upward(k) == {ops[i] : i \in 1..k}
<1>4. PICK T : T = {k \in 0..n : KeepsNewest(f[k], Upward(k)) /\ OneWinner(f[k])}
  OBVIOUS
<1>5. 0 \in T
  <2>1. Upward(0) = {} /\ 0 \in 0..n
    BY <1>2
  <2> QED BY <1>3, <1>4, <2>1 DEF KeepsNewest, OneWinner
<1>6. ASSUME NEW k \in 0..(n - 1), k \in T PROVE k + 1 \in T
  <2>1. k + 1 \in 1..n /\ k + 1 \in 0..n /\ (k + 1) - 1 = k
    BY <1>2
  <2>2. f[k + 1] = Offered(f[k], ops[k + 1]) /\ ops[k + 1] \in OpChoices
    BY <1>2, <1>3, <2>1
  <2>3. Upward(k) \subseteq OpChoices
    BY <1>2, <1>6
  <2>4. Upward(k + 1) = Upward(k) \cup {ops[k + 1]}
    <3>1. \A i \in 1..(k + 1) : i \in 1..k \/ i = k + 1
      BY <1>2
    <3>2. k + 1 \in 1..(k + 1) /\ \A i \in 1..k : i \in 1..(k + 1)
      BY <1>2
    <3> QED BY <3>1, <3>2
  <2>5. KeepsNewest(f[k], Upward(k)) /\ OneWinner(f[k])
    BY <1>4, <1>6
  <2> HIDE DEF Upward
  <2>6. f[k] \subseteq OpChoices
    BY <2>3, <2>5 DEF KeepsNewest
  <2>7. KeepsNewest(f[k + 1], Upward(k) \cup {ops[k + 1]}) /\ OneWinner(f[k + 1])
    BY <2>2, <2>3, <2>5, <2>6, OfferKeepsNewest
  <2> QED BY <1>4, <2>1, <2>4, <2>7
<1>7. n \in T
  <2>1. \A k \in 0..n : k \in T
    BY ONLY <1>2, <1>5, <1>6, UpTo
  <2> QED BY <1>2, <2>1
<1>8. Upward(n) = ToSet(ops)
  BY <1>2 DEF ToSet
<1> QED BY <1>1, <1>4, <1>7, <1>8

\* What merge_lww returns: the newest operation of each document.
LEMMA MergeIsNewest ==
  ASSUME NEW local, NEW remote, local \in Seq(OpChoices), remote \in Seq(OpChoices),
         OneOpPerId(ToSet(local) \cup ToSet(remote)), NEW out, out = merge_lww(local, remote)
  PROVE  /\ out \in Seq(OpChoices)
         /\ KeepsNewest(ToSet(out), ToSet(local) \cup ToSet(remote)) /\ OneWinner(ToSet(out))
<1>1. PICK ops, W : ops = local \o remote /\ W = WinnersAfter(ops)[Len(ops)]
  OBVIOUS
<1>2. ops \in Seq(OpChoices)
  BY <1>1
<1>3. ToSet(ops) = ToSet(local) \cup ToSet(remote)
  <2>1. PICK m, n : m = Len(local) /\ n = Len(remote)
    OBVIOUS
  <2>2. m \in Nat /\ n \in Nat /\ DOMAIN local = 1..m /\ DOMAIN remote = 1..n /\ DOMAIN ops = 1..(m + n)
    BY <1>1, <2>1
  <2>3. /\ \A i \in 1..m : i \in 1..(m + n) /\ ops[i] = local[i]
        /\ \A i \in 1..n : m + i \in 1..(m + n) /\ ops[m + i] = remote[i]
    BY <1>1, <2>1, <2>2
  <2>4. ASSUME NEW i \in 1..(m + n), i \notin 1..m PROVE \E j \in 1..n : i = m + j
    <3>1. i - m \in 1..n /\ i = m + (i - m)
      BY <2>2, <2>4
    <3> QED BY <3>1
  <2>5. ASSUME NEW i \in 1..(m + n) PROVE (\E j \in 1..m : ops[i] = local[j]) \/ (\E j \in 1..n : ops[i] = remote[j])
    BY <2>3, <2>4
  <2>6. /\ ToSet(local) = {local[i] : i \in 1..m} /\ ToSet(remote) = {remote[i] : i \in 1..n}
        /\ ToSet(ops) = {ops[i] : i \in 1..(m + n)}
    BY <2>2 DEF ToSet
  <2>7. ToSet(ops) \subseteq ToSet(local) \cup ToSet(remote)
    BY <2>5, <2>6
  <2>8. ToSet(local) \subseteq ToSet(ops)
    BY <2>3, <2>6
  <2>9. ToSet(remote) \subseteq ToSet(ops)
    BY <2>3, <2>6
  <2> QED BY <2>7, <2>8, <2>9
<1>4. KeepsNewest(W, ToSet(ops)) /\ OneWinner(W)
  BY <1>1, <1>2, WinnersAreNewest
<1>5. IsFiniteSet(ToSet(ops)) /\ ToSet(ops) \subseteq OpChoices
  BY <1>2, ListIsFinite
<1>6. W \subseteq ToSet(ops)
  BY <1>4 DEF KeepsNewest
<1>7. IsFiniteSet(W)
  BY <1>5, <1>6, FS_Subset
<1>8. OneOpPerId(W) /\ W \subseteq OpChoices
  BY <1>3, <1>5, <1>6 DEF OneOpPerId
<1>9. ById(W) \in Seq(OpChoices) /\ ToSet(ById(W)) = W
  BY <1>7, <1>8, ByIdLists
<1>10. out = ById(W)
  BY <1>1 DEF merge_lww
<1> QED BY <1>3, <1>4, <1>9, <1>10

LEMMA OpsInit ==
  ASSUME ReplicasInit
  PROVE  OpsInv
<1>1. opLog = [r \in OpReplicas |-> <<>>] /\ opSeen = [r \in OpReplicas |-> {}]
  BY DEF ReplicasInit
<1>2. ToSet(<<>>) = {} /\ <<>> \in Seq(OpChoices)
  BY DEF ToSet
<1>3. Heard = {}
  BY <1>1 DEF Heard
<1> QED BY <1>1, <1>2, <1>3 DEF OpsInv, OneOpPerId, KeepsNewest

\* What a list keeps of what it was merged from.
LEMMA NewestOfBoth ==
  ASSUME NEW A, NEW B, NEW S, NEW T, NEW C, A \subseteq OpChoices, B \subseteq OpChoices,
         S \subseteq OpChoices, T \subseteq OpChoices, C \subseteq OpChoices,
         KeepsNewest(A, S), KeepsNewest(B, T), KeepsNewest(C, A \cup B)
  PROVE  KeepsNewest(C, S \cup T)
<1>1. \A o \in OpChoices : o.ts \in Int /\ o.id \in Int
  BY ReplicasAssumption
<1>2. ASSUME NEW op \in S \cup T PROVE \E w \in C : w.doc = op.doc /\ NotNewer(op, w)
  <2>1. PICK v \in A \cup B : v.doc = op.doc /\ NotNewer(op, v)
    BY DEF KeepsNewest
  <2>2. PICK w \in C : w.doc = v.doc /\ NotNewer(v, w)
    BY DEF KeepsNewest
  <2>3. v \in OpChoices /\ w \in OpChoices /\ op \in OpChoices
    OBVIOUS
  <2>4. NotNewer(op, w)
    BY <1>1, <2>1, <2>2, <2>3 DEF NotNewer
  <2> QED BY <2>1, <2>2, <2>4
<1> QED BY <1>2 DEF KeepsNewest

LEMMA OpsStep ==
  ASSUME OpsInv, ReplicasNext \/ UNCHANGED rpVars
  PROVE  OpsInv'
<1>0. /\ DOMAIN opLog = OpReplicas /\ DOMAIN opSeen = OpReplicas
      /\ Heard \subseteq OpChoices /\ OneOpPerId(Heard)
      /\ \A r \in OpReplicas : opLog[r] \in Seq(OpChoices) /\ KeepsNewest(ToSet(opLog[r]), opSeen[r])
      /\ \A r \in OpReplicas : opSeen[r] \subseteq Heard
  BY DEF OpsInv, Heard
<1>1. CASE UNCHANGED opVars
  BY <1>1 DEF opVars, OpsInv, Heard
<1>2. ASSUME NEW r \in OpReplicas, NEW op \in OpChoices, LogOp(r, op) PROVE OpsInv'
  <2>1. /\ \A q \in OpReplicas : \A seen \in opSeen[q] : seen.id # op.id
        /\ opLog' = [opLog EXCEPT ![r] = Append(@, op)] /\ opSeen' = [opSeen EXCEPT ![r] = @ \cup {op}]
    BY <1>2 DEF LogOp
  <2>2. /\ DOMAIN opLog' = OpReplicas /\ DOMAIN opSeen' = OpReplicas
        /\ \A q \in OpReplicas : q # r => opLog'[q] = opLog[q] /\ opSeen'[q] = opSeen[q]
        /\ opLog'[r] = Append(opLog[r], op) /\ opSeen'[r] = opSeen[r] \cup {op}
    BY <1>0, <2>1
  <2>3. Heard' = Heard \cup {op}
    <3>1. \A q \in OpReplicas : opSeen'[q] \subseteq opSeen[q] \cup {op} /\ opSeen[q] \subseteq opSeen'[q]
      BY <2>2
    <3> QED BY <2>2, <3>1 DEF Heard
  <2>4. \A seen \in Heard : seen.id # op.id
    BY <2>1 DEF Heard
  <2>5. Heard' \subseteq OpChoices /\ OneOpPerId(Heard')
    BY <1>0, <2>3, <2>4 DEF OneOpPerId
  <2>6. opLog'[r] \in Seq(OpChoices) /\ ToSet(opLog'[r]) = ToSet(opLog[r]) \cup {op}
    <3>1. PICK log, n : log = opLog[r] /\ n = Len(log)
      OBVIOUS
    <3>2. log \in Seq(OpChoices) /\ n \in Nat /\ DOMAIN log = 1..n
      BY <1>0, <3>1
    <3>3. PICK new : new = Append(log, op)
      OBVIOUS
    <3>4. /\ new \in Seq(OpChoices) /\ DOMAIN new = 1..(n + 1) /\ new[n + 1] = op
          /\ \A i \in 1..n : new[i] = log[i]
      BY <3>1, <3>2, <3>3
    <3>5. /\ \A i \in 1..(n + 1) : i \in 1..n \/ i = n + 1
          /\ n + 1 \in 1..(n + 1) /\ \A i \in 1..n : i \in 1..(n + 1)
      BY <3>2
    <3>6. ToSet(new) = ToSet(log) \cup {op}
      BY <3>2, <3>4, <3>5 DEF ToSet
    <3> QED BY <2>2, <3>1, <3>3, <3>4, <3>6
  <2>7. KeepsNewest(ToSet(opLog'[r]), opSeen'[r])
    <3>1. NotNewer(op, op)
      BY ReplicasAssumption DEF NotNewer
    <3> QED BY <1>0, <2>2, <2>6, <3>1 DEF KeepsNewest
  <2>8. \A q \in OpReplicas : opLog'[q] \in Seq(OpChoices) /\ KeepsNewest(ToSet(opLog'[q]), opSeen'[q])
    BY <1>0, <2>2, <2>6, <2>7
  <2> QED BY <2>2, <2>5, <2>8 DEF OpsInv
<1>3. ASSUME NEW r \in OpReplicas, NEW q \in OpReplicas, NEW C, opLog' = [opLog EXCEPT ![r] = C],
             opSeen' = [opSeen EXCEPT ![r] = @ \cup opSeen[q]],
             C \in Seq(OpChoices), KeepsNewest(ToSet(C), ToSet(opLog[r]) \cup ToSet(opLog[q]))
      PROVE  OpsInv'
  <2>1. /\ DOMAIN opLog' = OpReplicas /\ DOMAIN opSeen' = OpReplicas
        /\ \A p \in OpReplicas : p # r => opLog'[p] = opLog[p] /\ opSeen'[p] = opSeen[p]
        /\ opLog'[r] = C /\ opSeen'[r] = opSeen[r] \cup opSeen[q]
    BY <1>0, <1>3
  <2>2. Heard' = Heard
    <3>1. \A p \in OpReplicas : opSeen[p] \subseteq opSeen'[p] /\ opSeen'[p] \subseteq Heard
      BY <1>0, <2>1
    <3> QED BY <3>1 DEF Heard
  <2>3. PICK A, B, S, T, D : A = ToSet(opLog[r]) /\ B = ToSet(opLog[q]) /\ S = opSeen[r] /\ T = opSeen[q] /\ D = ToSet(C)
    OBVIOUS
  <2>4. KeepsNewest(A, S) /\ KeepsNewest(B, T) /\ KeepsNewest(D, A \cup B)
    BY <1>0, <1>3, <2>3
  <2>5. S \subseteq OpChoices /\ T \subseteq OpChoices
    BY <1>0, <2>3
  <2>6. A \subseteq OpChoices /\ B \subseteq OpChoices /\ D \subseteq OpChoices
    BY <2>4, <2>5 DEF KeepsNewest
  <2>7. KeepsNewest(D, S \cup T)
    BY <2>4, <2>5, <2>6, NewestOfBoth
  <2>8. \A p \in OpReplicas : opLog'[p] \in Seq(OpChoices) /\ KeepsNewest(ToSet(opLog'[p]), opSeen'[p])
    BY <1>0, <1>3, <2>1, <2>3, <2>7
  <2> QED BY <1>0, <2>1, <2>2, <2>8 DEF OpsInv
<1>4. ASSUME NEW r \in OpReplicas, NEW q \in OpReplicas PROVE OneOpPerId(ToSet(opLog[r]) \cup ToSet(opLog[q]))
  BY <1>0 DEF OneOpPerId, KeepsNewest
<1>5. ASSUME NEW r \in OpReplicas, NEW q \in OpReplicas, MergeOps(r, q) PROVE OpsInv'
  <2>1. PICK C : C = merge_lww(opLog[r], opLog[q])
    OBVIOUS
  <2>2. PICK a, b : a = opLog[r] /\ b = opLog[q]
    OBVIOUS
  <2>3. C \in Seq(OpChoices) /\ KeepsNewest(ToSet(C), ToSet(a) \cup ToSet(b))
    <3>1. a \in Seq(OpChoices) /\ b \in Seq(OpChoices) /\ OneOpPerId(ToSet(a) \cup ToSet(b)) /\ C = merge_lww(a, b)
      BY <1>0, <1>4, <2>1, <2>2
    <3> QED BY <3>1, MergeIsNewest
  <2>4. opLog' = [opLog EXCEPT ![r] = C] /\ opSeen' = [opSeen EXCEPT ![r] = @ \cup opSeen[q]]
    BY <1>5, <2>1 DEF MergeOps
  <2> QED BY <1>3, <2>2, <2>3, <2>4
<1>6. ASSUME NEW r \in OpReplicas, NEW q \in OpReplicas, MergePayload(r, q) PROVE OpsInv'
  <2>1. CASE ~OpPayloads
    BY <1>1, <1>6, <2>1 DEF MergePayload
  <2>2. CASE OpPayloads
    <3>1. PICK U, C : U = ToSet(opLog[r]) \cup ToSet(opLog[q]) /\ C = ById(U)
      OBVIOUS
    <3>2. opLog' = [opLog EXCEPT ![r] = C] /\ opSeen' = [opSeen EXCEPT ![r] = @ \cup opSeen[q]]
      BY <1>6, <2>2, <3>1 DEF MergePayload
    <3>3. /\ IsFiniteSet(ToSet(opLog[r])) /\ IsFiniteSet(ToSet(opLog[q]))
          /\ ToSet(opLog[r]) \subseteq OpChoices /\ ToSet(opLog[q]) \subseteq OpChoices
      <4>1. \A p \in OpReplicas : opLog[p] \in Seq(OpChoices)
        BY <1>0
      <4> QED BY <4>1, ListIsFinite
    <3>4. IsFiniteSet(U) /\ U \subseteq OpChoices /\ OneOpPerId(U)
      BY <1>4, <3>1, <3>3, FS_Union
    <3>5. C \in Seq(OpChoices) /\ ToSet(C) = U
      BY <3>1, <3>4, ByIdLists
    <3>6. KeepsNewest(ToSet(C), U)
      <4>1. \A op \in U : NotNewer(op, op)
        BY <3>4, ReplicasAssumption DEF NotNewer
      <4> QED BY <3>5, <4>1 DEF KeepsNewest
    <3> QED BY <1>3, <3>1, <3>2, <3>5, <3>6
  <2> QED BY <2>1, <2>2
<1>7. CASE ReplicasNext
  BY <1>1, <1>2, <1>5, <1>6, <1>7, Zenon DEF ReplicasNext
<1> QED BY <1>1, <1>7 DEF rpVars

LEMMA OpsInvIsEnough ==
  ASSUME OpsInv
  PROVE  LastWriterWins
<1> SUFFICES ASSUME NEW r \in OpReplicas, NEW winners, winners = ToSet(merge_lww(opLog[r], <<>>))
             PROVE  /\ {w.doc : w \in winners} = {op.doc : op \in opSeen[r]}
                    /\ \A w \in winners : \A op \in opSeen[r] : op.doc = w.doc => NotNewer(op, w)
  BY DEF LastWriterWins, NotNewer
<1>1. PICK log, S, none : log = opLog[r] /\ S = opSeen[r] /\ none = <<>>
  OBVIOUS
<1>2. log \in Seq(OpChoices) /\ none \in Seq(OpChoices) /\ ToSet(none) = {}
  <2>1. log \in Seq(OpChoices)
    BY <1>1 DEF OpsInv
  <2>2. none \in Seq(OpChoices) /\ ToSet(none) = {}
    BY <1>1 DEF ToSet
  <2> QED BY <2>1, <2>2
<1>3. KeepsNewest(ToSet(log), S) /\ S \subseteq OpChoices /\ S \subseteq Heard
  BY <1>1 DEF OpsInv, Heard
<1>4. OneOpPerId(ToSet(log) \cup ToSet(none))
  BY <1>2, <1>3 DEF OpsInv, OneOpPerId, KeepsNewest
<1>5. KeepsNewest(winners, ToSet(log) \cup ToSet(none)) /\ OneWinner(winners)
  <2>1. PICK out : out = merge_lww(log, none) /\ winners = ToSet(out)
    BY <1>1
  <2> QED BY <1>2, <1>4, <2>1, MergeIsNewest
<1>6. PICK L : L = ToSet(log)
  OBVIOUS
<1>7. KeepsNewest(winners, L) /\ KeepsNewest(L, S)
  BY <1>2, <1>3, <1>5, <1>6
<1>8. L \subseteq OpChoices /\ winners \subseteq OpChoices
  BY <1>3, <1>7 DEF KeepsNewest
<1>9. KeepsNewest(winners, S)
  <2>1. KeepsNewest(winners, L \cup L) /\ S = S \cup S
    BY <1>7
  <2>2. KeepsNewest(winners, S \cup S)
    BY <1>3, <1>7, <1>8, <2>1, NewestOfBoth
  <2> QED BY <2>1, <2>2
<1>10. ASSUME NEW w \in winners, NEW op \in S, op.doc = w.doc PROVE NotNewer(op, w)
  <2>1. PICK v \in winners : v.doc = op.doc /\ NotNewer(op, v)
    BY <1>9 DEF KeepsNewest
  <2>2. v = w
    BY <1>5, <1>10, <2>1 DEF OneWinner
  <2> QED BY <2>1, <2>2
<1>11. {w.doc : w \in winners} = {op.doc : op \in S}
  <2>1. \A w \in winners : w \in S
    BY <1>9 DEF KeepsNewest
  <2>2. \A op \in S : \E w \in winners : w.doc = op.doc
    BY <1>9 DEF KeepsNewest
  <2> QED BY <2>1, <2>2
<1> QED BY <1>1, <1>10, <1>11

-----------------------------------------------------------------------------
(* Federation: a block that exists anywhere is no newer than its client,    *)
(* and of the running client of a node the node itself has it; a handshake  *)
(* owes the peer's blocks only for documents it still has to ask for.       *)
Made(b, d) ==
    /\ b[1] \in FdNodes \X Nat /\ b[1][2] <= fdClient[b[1][1]][2]
    /\ b[1] = fdClient[b[1][1]] => b \in Held(b[1][1], d)
Asking(n, s) ==
    /\ s \in [at : {"ask", "serve", "reply"}, peer : FdNodes, docs : Seq(FdDocs), all : SUBSET FdDocs,
              sv : {s.sv}, open : BOOLEAN, reply : {s.reply}, owed : {s.owed}]
    /\ s.owed = [d \in s.all |-> s.owed[d]] /\ ToSet(s.docs) \subseteq s.all
    /\ \A d \in s.all \ ToSet(s.docs) : s.owed[d] \subseteq Held(n, d)
    /\ s.at # "ask" => s.docs # <<>>
    /\ s.at = "serve" => s.sv \subseteq Held(n, Head(s.docs))
    /\ s.at = "reply" => /\ s.owed[Head(s.docs)] \subseteq Held(n, Head(s.docs)) \cup s.reply
                         /\ \A b \in s.reply : Made(b, Head(s.docs))
Answered(n, s) ==
    /\ s \in [at : {"ok"}, all : SUBSET FdDocs, owed : {s.owed}]
    /\ \A d \in s.all : s.owed[d] \subseteq Held(n, d)
StoresAreOfDocs == DOMAIN fdStore = FdNodes /\ \A n \in FdNodes : DOMAIN fdStore[n] \subseteq FdDocs
AllMade == \A n \in FdNodes, d \in FdDocs : \A b \in Held(n, d) : Made(b, d)
FederationInv ==
    /\ StoresAreOfDocs /\ DOMAIN fdSync = FdNodes /\ DOMAIN fdClient = FdNodes
    /\ \A n \in FdNodes : fdClient[n] \in FdNodes \X Nat /\ fdClient[n][1] = n
    /\ AllMade
    /\ \A f \in fdNet : f.to \in FdNodes /\ f.doc \in FdDocs /\ Made(f.block, f.doc)
    /\ \A n \in FdNodes : fdSync[n] = NoSync \/ Asking(n, fdSync[n]) \/ Answered(n, fdSync[n])

LEMMA FederationInit ==
  ASSUME ReplicasInit
  PROVE  FederationInv
<1>1. /\ fdStore = [n \in FdNodes |-> <<>>] /\ fdClient = [n \in FdNodes |-> <<n, 0>>]
      /\ fdNet = {} /\ fdSync = [n \in FdNodes |-> NoSync]
  BY DEF ReplicasInit
<1>2. \A n \in FdNodes, d \in FdDocs : Held(n, d) = {}
  BY <1>1 DEF Held
<1> QED BY <1>1, <1>2 DEF FederationInv, StoresAreOfDocs, AllMade

\* apply_update adds blocks to one document of one node.
LEMMA HeldAfter ==
  ASSUME StoresAreOfDocs, NEW m \in FdNodes, NEW e \in FdDocs, NEW B, fdStore' = [fdStore EXCEPT ![m] = apply_update(@, e, B)]
  PROVE  /\ StoresAreOfDocs' /\ Held(m, e)' = Held(m, e) \cup B
         /\ \A n \in FdNodes, d \in FdDocs : n # m \/ d # e => Held(n, d)' = Held(n, d)
<1>1. PICK st, new : st = fdStore[m] /\ new = apply_update(st, e, B)
  OBVIOUS
<1>2. fdStore'[m] = new /\ DOMAIN fdStore' = FdNodes /\ \A n \in FdNodes : n # m => fdStore'[n] = fdStore[n]
  BY <1>1 DEF StoresAreOfDocs
<1>5. DOMAIN new = {e} \cup DOMAIN st /\ new[e] = B \cup (IF e \in DOMAIN st THEN st[e] ELSE {})
      /\ \A d \in DOMAIN st : d # e => new[d] = st[d]
  BY <1>1 DEF apply_update
<1>6. Held(m, e)' = Held(m, e) \cup B
  BY <1>1, <1>2, <1>5 DEF Held
<1>7. ASSUME NEW n \in FdNodes, NEW d \in FdDocs, n # m \/ d # e PROVE Held(n, d)' = Held(n, d)
  BY <1>1, <1>2, <1>5, <1>7 DEF Held
<1>8. \A n \in FdNodes : DOMAIN fdStore'[n] \subseteq FdDocs
  BY <1>1, <1>2, <1>5 DEF StoresAreOfDocs
<1> QED BY <1>2, <1>6, <1>7, <1>8 DEF StoresAreOfDocs

\* Nothing is lost of what holds of blocks and handshakes while nodes only learn.
HeldGrows == \A n \in FdNodes, d \in FdDocs : Held(n, d) \subseteq Held(n, d)'
LEMMA MadeStays ==
  ASSUME HeldGrows, fdClient' = fdClient, NEW b, NEW d \in FdDocs, Made(b, d)
  PROVE  Made(b, d)'
BY DEF HeldGrows, Made

LEMMA SyncStays ==
  ASSUME HeldGrows, fdClient' = fdClient, NEW n \in FdNodes, NEW s, s = NoSync \/ Asking(n, s) \/ Answered(n, s)
  PROVE  s = NoSync \/ Asking(n, s)' \/ Answered(n, s)'
<1>1. ASSUME Asking(n, s) PROVE Asking(n, s)'
  <2>1. s.all \subseteq FdDocs
    BY <1>1 DEF Asking
  <2>2. \A d \in s.all : Held(n, d) \subseteq Held(n, d)'
    BY <2>1 DEF HeldGrows
  <2>3. s.at # "ask" => Head(s.docs) \in FdDocs /\ Held(n, Head(s.docs)) \subseteq Held(n, Head(s.docs))'
    <3>1. s.at # "ask" => s.docs \in Seq(FdDocs) /\ s.docs # <<>>
      BY <1>1 DEF Asking
    <3>2. s.at # "ask" => Head(s.docs) \in FdDocs
      BY <3>1
    <3> QED BY <3>2 DEF HeldGrows
  <2>4. s.at = "reply" => \A b \in s.reply : Made(b, Head(s.docs))'
    <3>1. ASSUME s.at = "reply", NEW b \in s.reply PROVE Made(b, Head(s.docs))'
      <4>1. PICK d \in FdDocs : d = Head(s.docs)
        BY <2>3, <3>1
      <4>2. Made(b, d)
        BY <1>1, <3>1, <4>1 DEF Asking
      <4>3. Made(b, d)'
        BY <4>2, MadeStays
      <4> QED BY <4>1, <4>3
    <3> QED BY <3>1
  <2> QED BY <1>1, <2>2, <2>3, <2>4 DEF Asking
<1>2. ASSUME Answered(n, s) PROVE Answered(n, s)'
  BY <1>2 DEF Answered, HeldGrows
<1> QED BY <1>1, <1>2

\* A step in which node m learns blocks B of document e, all of them made.
LEMMA NodeLearns ==
  ASSUME FederationInv, NEW m \in FdNodes, NEW e \in FdDocs, NEW B,
         fdStore' = [fdStore EXCEPT ![m] = apply_update(@, e, B)], fdClient' = fdClient
  PROVE  /\ HeldGrows /\ Held(m, e)' = Held(m, e) \cup B
         /\ StoresAreOfDocs'
         /\ (\A b \in B : Made(b, e)') => AllMade'
<1>0. StoresAreOfDocs
  BY DEF FederationInv
<1>1. /\ StoresAreOfDocs' /\ Held(m, e)' = Held(m, e) \cup B
      /\ \A n \in FdNodes, d \in FdDocs : n # m \/ d # e => Held(n, d)' = Held(n, d)
  BY <1>0, HeldAfter
<1>2. HeldGrows
  BY <1>1 DEF HeldGrows
<1>3. ASSUME \A b \in B : Made(b, e)', NEW n \in FdNodes, NEW d \in FdDocs, NEW b \in Held(n, d)' PROVE Made(b, d)'
  <2>1. (n = m /\ d = e /\ b \in B) \/ b \in Held(n, d)
    BY <1>1
  <2>2. CASE b \in Held(n, d)
    <3>1. Made(b, d)
      BY <2>2 DEF FederationInv, AllMade
    <3> QED BY <1>2, <3>1, MadeStays
  <2> QED BY <1>3, <2>1, <2>2
<1> QED BY <1>1, <1>2, <1>3 DEF AllMade

\* A handshake moves on; everything else stays or grows.
LEMMA OneSyncMoves ==
  ASSUME FederationInv, HeldGrows, fdClient' = fdClient, NEW n \in FdNodes, NEW s, fdSync' = [fdSync EXCEPT ![n] = s],
         s = NoSync \/ Asking(n, s)' \/ Answered(n, s)'
  PROVE  /\ DOMAIN fdSync' = FdNodes
         /\ \A m \in FdNodes : fdSync'[m] = NoSync \/ Asking(m, fdSync[m])' \/ Answered(m, fdSync[m])'
<1>1. DOMAIN fdSync' = FdNodes /\ fdSync'[n] = s /\ \A m \in FdNodes : m # n => fdSync'[m] = fdSync[m]
  BY DEF FederationInv
<1>2. ASSUME NEW m \in FdNodes PROVE fdSync'[m] = NoSync \/ Asking(m, fdSync[m])' \/ Answered(m, fdSync[m])'
  <2>1. CASE m = n
    BY <1>1, <2>1 DEF Asking, Answered
  <2>2. CASE m # n
    <3>1. PICK x : x = fdSync[m] /\ x = fdSync'[m]
      BY <1>1, <2>2
    <3>2. x = NoSync \/ Asking(m, x) \/ Answered(m, x)
      BY <3>1 DEF FederationInv
    <3>3. x = NoSync \/ Asking(m, x)' \/ Answered(m, x)'
      BY <3>2, SyncStays
    <3> QED BY <3>1, <3>3 DEF Asking, Answered
  <2> QED BY <2>1, <2>2
<1> QED BY <1>1, <1>2

LEMMA RestartStep ==
  ASSUME FederationInv, NEW n \in FdNodes, NodeRestart(n)
  PROVE  FederationInv'
<1>0. /\ StoresAreOfDocs /\ DOMAIN fdSync = FdNodes /\ DOMAIN fdClient = FdNodes
      /\ \A m \in FdNodes : fdClient[m] \in FdNodes \X Nat /\ fdClient[m][1] = m
  BY DEF FederationInv
<1>1. /\ fdStore' = [fdStore EXCEPT ![n] = <<>>] /\ fdClient' = [fdClient EXCEPT ![n] = <<n, fdClient[n][2] + 1>>]
      /\ fdNet' = {f \in fdNet : f.to # n}
  BY DEF NodeRestart
<1>2. PICK gone : gone = {m \in FdNodes : m = n \/ (fdSync[m].at \in {"ask", "serve"} /\ fdSync[m].peer = n)}
  OBVIOUS
<1>3. fdSync' = [m \in FdNodes |-> IF m \in gone THEN NoSync ELSE fdSync[m]] /\ n \in gone
  BY <1>2 DEF NodeRestart
<1>4. PICK k \in Nat : k = fdClient[n][2]
  BY <1>0
<1>5. /\ DOMAIN fdClient' = FdNodes /\ fdClient'[n] = <<n, k + 1>> /\ \A m \in FdNodes : m # n => fdClient'[m] = fdClient[m]
      /\ \A m \in FdNodes : fdClient'[m] \in FdNodes \X Nat /\ fdClient'[m][1] = m
  BY <1>0, <1>1, <1>4
<1>6. /\ DOMAIN fdStore' = FdNodes /\ fdStore'[n] = <<>> /\ \A m \in FdNodes : m # n => fdStore'[m] = fdStore[m]
  BY <1>0, <1>1 DEF StoresAreOfDocs
<1>7. StoresAreOfDocs'
  BY <1>0, <1>6 DEF StoresAreOfDocs
<1>8. \A d \in FdDocs : Held(n, d)' = {} /\ \A m \in FdNodes : m # n => Held(m, d)' = Held(m, d)
  BY <1>6 DEF Held
<1>9. ASSUME NEW b, NEW d \in FdDocs, Made(b, d) PROVE Made(b, d)'
  <2>1. PICK x, y : b[1] = <<x, y>> /\ x \in FdNodes /\ y \in Nat
    BY <1>9 DEF Made
  <2>2. y <= fdClient[x][2] /\ (b[1] = fdClient[x] => b \in Held(x, d))
    BY <1>9, <2>1 DEF Made
  <2>3. CASE x = n
    <3>1. y <= k /\ fdClient'[x] = <<n, k + 1>> /\ fdClient'[x][2] = k + 1
      BY <1>4, <1>5, <2>2, <2>3
    <3>2. y <= k + 1 /\ y # k + 1
      BY <1>4, <2>1, <3>1
    <3>3. b[1] # fdClient'[x]
      BY <2>1, <3>1, <3>2
    <3> QED BY <2>1, <3>1, <3>2, <3>3 DEF Made
  <2>4. CASE x # n
    <3>1. fdClient'[x] = fdClient[x] /\ Held(x, d)' = Held(x, d)
      BY <1>5, <1>8, <2>1, <2>4
    <3> QED BY <2>1, <2>2, <3>1 DEF Made
  <2> QED BY <2>3, <2>4
<1>10. ASSUME NEW m \in FdNodes, NEW d \in FdDocs, NEW b \in Held(m, d)' PROVE Made(b, d)'
  <2>1. b \in Held(m, d)
    BY <1>8
  <2>2. Made(b, d)
    BY <2>1 DEF FederationInv, AllMade
  <2> QED BY <1>9, <2>2
<1>11. ASSUME NEW f \in fdNet' PROVE f.to \in FdNodes /\ f.doc \in FdDocs /\ Made(f.block, f.doc)'
  <2>1. f \in fdNet
    BY <1>1
  <2>2. f.to \in FdNodes /\ f.doc \in FdDocs /\ Made(f.block, f.doc)
    BY <2>1 DEF FederationInv
  <2>3. PICK b, d : b = f.block /\ d = f.doc
    OBVIOUS
  <2>4. Made(b, d)'
    BY <1>9, <2>2, <2>3
  <2> QED BY <2>2, <2>3, <2>4
<1>12. ASSUME NEW m \in FdNodes PROVE fdSync'[m] = NoSync \/ Asking(m, fdSync[m])' \/ Answered(m, fdSync[m])'
  <2>1. CASE m \in gone
    BY <1>3, <2>1
  <2>2. CASE m \notin gone
    <3>1. PICK s : s = fdSync[m] /\ s = fdSync'[m] /\ m # n
      BY <1>3, <2>2
    <3>2. s = NoSync \/ Asking(m, s) \/ Answered(m, s)
      BY <3>1 DEF FederationInv
    <3>3. \A d \in FdDocs : Held(m, d)' = Held(m, d)
      BY <1>8, <3>1
    <3>4. ASSUME Asking(m, s) PROVE Asking(m, s)'
      <4>1. s.docs \in Seq(FdDocs) /\ s.all \subseteq FdDocs
        BY <3>4 DEF Asking
      <4>2. s.at # "ask" => Head(s.docs) \in FdDocs
        BY <3>4, <4>1 DEF Asking
      <4>3. PICK h : h = Head(s.docs)
        OBVIOUS
      <4>4. s.at # "ask" => Held(m, h)' = Held(m, h)
        BY <3>3, <4>2, <4>3
      <4>5. s.at = "reply" => \A b \in s.reply : Made(b, h)'
        BY <1>9, <3>4, <4>2, <4>3 DEF Asking
      <4>6. \A d \in s.all : Held(m, d)' = Held(m, d)
        BY <3>3, <4>1
      <4> QED BY <3>4, <4>3, <4>4, <4>5, <4>6 DEF Asking
    <3>5. ASSUME Answered(m, s) PROVE Answered(m, s)'
      BY <3>3, <3>5 DEF Answered
    <3> QED BY <3>1, <3>2, <3>4, <3>5 DEF Asking, Answered
  <2> QED BY <2>1, <2>2
<1>13. DOMAIN fdSync' = FdNodes
  BY <1>3
<1> QED BY <1>5, <1>7, <1>10, <1>11, <1>12, <1>13 DEF FederationInv, AllMade

\* Steps that change a node's documents or the frames under way.
LEMMA EditStep ==
  ASSUME FederationInv, NEW n \in FdNodes, NEW d \in FdDocs, merge_and_broadcast(n, d)
  PROVE  FederationInv'
<1>1. PICK block : /\ block[1] = fdClient[n] /\ block = <<fdClient[n], block[2]>>
                   /\ fdStore' = [fdStore EXCEPT ![n] = apply_update(@, d, {block})]
                   /\ \E reached \in SUBSET (FdNodes \ {n}) :
                         fdNet' = fdNet \cup {[to |-> m, doc |-> d, block |-> block] : m \in reached}
                   /\ fdClient' = fdClient /\ fdSync' = fdSync
  BY DEF merge_and_broadcast
<1>2. PICK reached \in SUBSET (FdNodes \ {n}) :
         fdNet' = fdNet \cup {[to |-> m, doc |-> d, block |-> block] : m \in reached}
  BY <1>1
<1>3. /\ HeldGrows /\ Held(n, d)' = Held(n, d) \cup {block} /\ StoresAreOfDocs'
      /\ (\A b \in {block} : Made(b, d)') => AllMade'
  <2>1. PICK B : B = {block}
    OBVIOUS
  <2>2. fdStore' = [fdStore EXCEPT ![n] = apply_update(@, d, B)] /\ fdClient' = fdClient
    BY <1>1, <2>1
  <2>3. HeldGrows /\ Held(n, d)' = Held(n, d) \cup B /\ StoresAreOfDocs' /\ ((\A b \in B : Made(b, d)') => AllMade')
    BY <2>2, NodeLearns, ZenonT(40)
  <2> QED BY <2>1, <2>3
<1>4. Made(block, d)'
  <2>1. PICK k \in Nat : fdClient[n] = <<n, k>>
    BY DEF FederationInv
  <2>2. block[1] = <<n, k>> /\ fdClient'[n] = <<n, k>>
    BY <1>1, <2>1
  <2>3. block \in Held(n, d)' /\ k <= k
    BY <1>3, <2>1
  <2> QED BY <2>1, <2>2, <2>3 DEF Made
<1>5. AllMade'
  BY <1>3, <1>4
<1>6. ASSUME NEW f \in fdNet' PROVE f.to \in FdNodes /\ f.doc \in FdDocs /\ Made(f.block, f.doc)'
  <2>1. CASE f \in fdNet
    <3>1. f.to \in FdNodes /\ f.doc \in FdDocs /\ Made(f.block, f.doc)
      BY <2>1 DEF FederationInv
    <3>2. PICK b, e : b = f.block /\ e = f.doc
      OBVIOUS
    <3>3. Made(b, e)'
      BY <1>1, <1>3, <3>1, <3>2, MadeStays
    <3> QED BY <3>1, <3>2, <3>3
  <2>2. CASE f \notin fdNet
    <3>1. PICK m \in reached : f = [to |-> m, doc |-> d, block |-> block]
      BY <1>2, <2>2
    <3>2. f.to \in FdNodes /\ f.doc = d /\ f.block = block
      BY <3>1
    <3> QED BY <1>4, <3>2
  <2> QED BY <2>1, <2>2
<1>7. \A m \in FdNodes : fdSync'[m] = NoSync \/ Asking(m, fdSync[m])' \/ Answered(m, fdSync[m])'
  <2>1. ASSUME NEW m \in FdNodes PROVE fdSync'[m] = NoSync \/ Asking(m, fdSync[m])' \/ Answered(m, fdSync[m])'
    <3>1. PICK s : s = fdSync[m] /\ s = fdSync'[m]
      BY <1>1
    <3>2. s = NoSync \/ Asking(m, s) \/ Answered(m, s)
      BY <3>1 DEF FederationInv
    <3>3. s = NoSync \/ Asking(m, s)' \/ Answered(m, s)'
      BY <1>1, <1>3, <3>2, SyncStays
    <3> QED BY <3>1, <3>3 DEF Asking, Answered
  <2> QED BY <2>1
<1> QED BY <1>1, <1>3, <1>5, <1>6, <1>7 DEF FederationInv

LEMMA ArriveStep ==
  ASSUME FederationInv, NEW f \in fdNet, FrameArrives(f)
  PROVE  FederationInv'
<1>1. /\ fdNet' = fdNet \ {f} /\ fdStore' = [fdStore EXCEPT ![f.to] = apply_update(@, f.doc, {f.block})]
      /\ fdClient' = fdClient /\ fdSync' = fdSync
  BY DEF FrameArrives
<1>2. PICK m, d, block : m = f.to /\ d = f.doc /\ block = f.block
  OBVIOUS
<1>3. m \in FdNodes /\ d \in FdDocs /\ Made(block, d)
  BY <1>2 DEF FederationInv
<1>4. /\ HeldGrows /\ StoresAreOfDocs'
      /\ (\A b \in {block} : Made(b, d)') => AllMade'
  <2>1. PICK B : B = {block}
    OBVIOUS
  <2>2. fdStore' = [fdStore EXCEPT ![m] = apply_update(@, d, B)] /\ fdClient' = fdClient
    BY <1>1, <1>2, <2>1
  <2>3. HeldGrows /\ StoresAreOfDocs' /\ ((\A b \in B : Made(b, d)') => AllMade')
    BY <1>3, <2>2, NodeLearns
  <2> QED BY <2>1, <2>3
<1>5. Made(block, d)'
  BY <1>1, <1>3, <1>4, MadeStays
<1>6. AllMade'
  BY <1>4, <1>5
<1>7. ASSUME NEW g \in fdNet' PROVE g.to \in FdNodes /\ g.doc \in FdDocs /\ Made(g.block, g.doc)'
  <2>1. g.to \in FdNodes /\ g.doc \in FdDocs /\ Made(g.block, g.doc)
    BY <1>1 DEF FederationInv
  <2>2. PICK b, e : b = g.block /\ e = g.doc
    OBVIOUS
  <2>3. Made(b, e)'
    BY <1>1, <1>4, <2>1, <2>2, MadeStays
  <2> QED BY <2>1, <2>2, <2>3
<1>8. \A n \in FdNodes : fdSync'[n] = NoSync \/ Asking(n, fdSync[n])' \/ Answered(n, fdSync[n])'
  <2>1. ASSUME NEW n \in FdNodes PROVE fdSync'[n] = NoSync \/ Asking(n, fdSync[n])' \/ Answered(n, fdSync[n])'
    <3>1. PICK s : s = fdSync[n] /\ s = fdSync'[n]
      BY <1>1
    <3>2. s = NoSync \/ Asking(n, s) \/ Answered(n, s)
      BY <3>1 DEF FederationInv
    <3>3. s = NoSync \/ Asking(n, s)' \/ Answered(n, s)'
      BY <1>1, <1>4, <3>2, SyncStays
    <3> QED BY <3>1, <3>3 DEF Asking, Answered
  <2> QED BY <2>1
<1> QED BY <1>1, <1>4, <1>6, <1>7, <1>8 DEF FederationInv

\* A handshake of n moves on to s while nodes only learn.
LEMMA SyncMoves ==
  ASSUME FederationInv, HeldGrows, StoresAreOfDocs', AllMade', fdClient' = fdClient, fdNet' = fdNet,
         NEW n \in FdNodes, NEW s, fdSync' = [fdSync EXCEPT ![n] = s],
         s = NoSync \/ Asking(n, s)' \/ Answered(n, s)'
  PROVE  FederationInv'
<1>1. /\ DOMAIN fdSync' = FdNodes
      /\ \A m \in FdNodes : fdSync'[m] = NoSync \/ Asking(m, fdSync[m])' \/ Answered(m, fdSync[m])'
  BY OneSyncMoves
<1>2. ASSUME NEW f \in fdNet' PROVE f.to \in FdNodes /\ f.doc \in FdDocs /\ Made(f.block, f.doc)'
  <2>1. f.to \in FdNodes /\ f.doc \in FdDocs /\ Made(f.block, f.doc)
    BY DEF FederationInv
  <2>2. PICK b, e : b = f.block /\ e = f.doc
    OBVIOUS
  <2>3. Made(b, e)'
    BY <2>1, <2>2, MadeStays
  <2> QED BY <2>1, <2>2, <2>3
<1> QED BY <1>1, <1>2 DEF FederationInv

LEMMA SameStores ==
  ASSUME FederationInv, fdStore' = fdStore, fdClient' = fdClient
  PROVE  /\ HeldGrows /\ StoresAreOfDocs' /\ AllMade'
         /\ \A n \in FdNodes, d \in FdDocs : Held(n, d)' = Held(n, d)
<1>1. \A n \in FdNodes, d \in FdDocs : Held(n, d)' = Held(n, d)
  BY DEF Held
<1> QED BY <1>1 DEF FederationInv, HeldGrows, StoresAreOfDocs, AllMade, Made

LEMMA ConnectStep ==
  ASSUME FederationInv, NEW n \in FdNodes, NEW m \in FdNodes, SyncConnect(n, m)
  PROVE  FederationInv'
<1>1. PICK docs \in SetToSeqs(DOMAIN fdStore[n]) :
         fdSync' = [fdSync EXCEPT ![n] = [at |-> "ask", peer |-> m, docs |-> docs, all |-> ToSet(docs),
                                          sv |-> {}, open |-> TRUE, reply |-> {}, owed |-> [d \in ToSet(docs) |-> Held(m, d)]]]
  BY DEF SyncConnect
<1>2. fdStore' = fdStore /\ fdClient' = fdClient /\ fdNet' = fdNet
  BY DEF SyncConnect
<1>3. HeldGrows /\ StoresAreOfDocs' /\ AllMade'
  BY <1>2, SameStores
<1>4. docs \in Seq(FdDocs)
  <2>1. PICK S : S = DOMAIN fdStore[n] /\ S \subseteq FdDocs
    BY DEF FederationInv, StoresAreOfDocs
  <2>2. Cardinality(S) \in Nat
    BY <2>1, ReplicasAssumption, FS_Subset, FS_CardinalityType
  <2>3. docs \in [1..Cardinality(S) -> S]
    BY <2>1 DEF SetToSeqs
  <2>4. docs \in [1..Cardinality(S) -> FdDocs]
    BY <2>1, <2>3
  <2> QED BY <2>2, <2>4
<1>5. ToSet(docs) \subseteq FdDocs
  BY <1>4, ListIsFinite
<1>6. PICK owed : owed = [d \in ToSet(docs) |-> Held(m, d)]
  OBVIOUS
<1>7. PICK s : s = [at |-> "ask", peer |-> m, docs |-> docs, all |-> ToSet(docs),
                    sv |-> {}, open |-> TRUE, reply |-> {}, owed |-> owed]
  OBVIOUS
<1>8. s \in [at : {"ask", "serve", "reply"}, peer : FdNodes, docs : Seq(FdDocs), all : SUBSET FdDocs,
             sv : {s.sv}, open : BOOLEAN, reply : {s.reply}, owed : {s.owed}]
  BY <1>4, <1>5, <1>7
<1>9. s.at = "ask" /\ s.docs = docs /\ s.all = ToSet(docs) /\ s.owed = owed
  BY <1>7
<1>10. owed = [d \in ToSet(docs) |-> owed[d]]
  BY <1>6
<1>11. Asking(n, s)'
  BY <1>8, <1>9, <1>10 DEF Asking
<1>12. fdSync' = [fdSync EXCEPT ![n] = s]
  BY <1>1, <1>6, <1>7
<1> QED BY <1>2, <1>3, <1>11, <1>12, SyncMoves

LEMMA NothingStep ==
  ASSUME FederationInv, NEW n \in FdNodes, SyncNothing(n)
  PROVE  FederationInv'
<1>1. PICK s : s = [at |-> "ok", all |-> {}, owed |-> <<>>]
  OBVIOUS
<1>2. fdSync' = [fdSync EXCEPT ![n] = s]
  BY <1>1 DEF SyncNothing
<1>3. fdStore' = fdStore /\ fdClient' = fdClient /\ fdNet' = fdNet
  BY DEF SyncNothing
<1>4. HeldGrows /\ StoresAreOfDocs' /\ AllMade'
  BY <1>3, SameStores
<1>5. s \in [at : {"ok"}, all : SUBSET FdDocs, owed : {s.owed}] /\ s.all = {}
  BY <1>1
<1>6. Answered(n, s)'
  BY <1>5 DEF Answered
<1> QED BY <1>2, <1>3, <1>4, <1>6, SyncMoves

LEMMA AskingNow ==
  ASSUME FederationInv, NEW n \in FdNodes, NEW s, s = fdSync[n], s.at \in {"ask", "serve", "reply"}
  PROVE  Asking(n, s)
<1>1. s = NoSync \/ Asking(n, s) \/ Answered(n, s)
  BY DEF FederationInv
<1>2. s # NoSync
  BY DEF NoSync
<1>3. ~Answered(n, s)
  BY DEF Answered
<1> QED BY <1>1, <1>2, <1>3

LEMMA Step1Step ==
  ASSUME FederationInv, NEW n \in FdNodes, SyncStep1(n)
  PROVE  FederationInv'
<1>1. PICK s, h, t : /\ s = fdSync[n] /\ h = Head(s.docs)
                     /\ t = [s EXCEPT !.at = "serve", !.sv = state_vector(Held(n, h))]
  OBVIOUS
<1>2. /\ s.at = "ask" /\ s.docs # <<>> /\ fdStore' = fdStore /\ fdClient' = fdClient /\ fdNet' = fdNet
      /\ fdSync' = [fdSync EXCEPT ![n].at = "serve", ![n].sv = state_vector(Held(n, h))]
  BY <1>1 DEF SyncStep1
<1>3. HeldGrows /\ StoresAreOfDocs' /\ AllMade' /\ \A m \in FdNodes, d \in FdDocs : Held(m, d)' = Held(m, d)
  BY <1>2, SameStores
<1>4. Asking(n, s)
  BY <1>1, <1>2, AskingNow
<1>5. s \in [at : {"ask", "serve", "reply"}, peer : FdNodes, docs : Seq(FdDocs), all : SUBSET FdDocs,
             sv : {s.sv}, open : BOOLEAN, reply : {s.reply}, owed : {s.owed}]
  BY <1>4 DEF Asking
<1>6. /\ t \in [at : {"ask", "serve", "reply"}, peer : FdNodes, docs : Seq(FdDocs), all : SUBSET FdDocs,
                sv : {t.sv}, open : BOOLEAN, reply : {t.reply}, owed : {t.owed}]
      /\ t.at = "serve" /\ t.docs = s.docs /\ t.all = s.all /\ t.owed = s.owed /\ t.sv = state_vector(Held(n, h))
  BY <1>1, <1>5
<1>7. h \in FdDocs /\ \A d \in s.all : d \in FdDocs
  BY <1>1, <1>2, <1>5
<1>8. t.sv \subseteq Held(n, h)'
  BY <1>3, <1>6, <1>7 DEF state_vector, Integrated
<1>9. Asking(n, t)'
  <2>1. /\ s.owed = [d \in s.all |-> s.owed[d]] /\ ToSet(s.docs) \subseteq s.all
        /\ \A d \in s.all \ ToSet(s.docs) : s.owed[d] \subseteq Held(n, d)
    BY <1>4 DEF Asking
  <2>2. /\ t.owed = [d \in t.all |-> t.owed[d]] /\ ToSet(t.docs) \subseteq t.all /\ t.docs # <<>> /\ h = Head(t.docs)
    BY <1>1, <1>2, <1>6, <2>1
  <2>3. \A d \in t.all \ ToSet(t.docs) : t.owed[d] \subseteq Held(n, d)'
    BY <1>3, <1>6, <1>7, <2>1
  <2>4. t.at # "reply"
    BY <1>6
  <2> QED BY <1>6, <1>8, <2>2, <2>3, <2>4 DEF Asking
<1>10. fdSync' = [fdSync EXCEPT ![n] = t]
  BY <1>1, <1>2 DEF FederationInv
<1> QED BY <1>2, <1>3, <1>9, <1>10, SyncMoves

LEMMA ServeStep ==
  ASSUME FederationInv, NEW n \in FdNodes, SyncServe(n)
  PROVE  FederationInv'
<1>1. PICK s, m, h, held, owed, t :
         /\ s = fdSync[n] /\ m = s.peer /\ h = Head(s.docs) /\ held = Held(m, h)
         /\ owed = [s.owed EXCEPT ![h] = held]
         /\ t = [s EXCEPT !.at = "reply", !.open = FALSE, !.reply = diff_since(held, s.sv), !.owed = owed]
  OBVIOUS
<1>2. /\ s.at = "serve" /\ fdClient' = fdClient /\ fdNet' = fdNet
      /\ fdStore' = [fdStore EXCEPT ![m] = apply_update(@, h, {})]
      /\ fdSync' = [fdSync EXCEPT ![n].at = "reply", ![n].open = FALSE,
                                  ![n].reply = diff_since(held, s.sv), ![n].owed[h] = held]
  BY <1>1 DEF SyncServe
<1>3. Asking(n, s)
  BY <1>1, <1>2, AskingNow
<1>4. /\ s \in [at : {"ask", "serve", "reply"}, peer : FdNodes, docs : Seq(FdDocs), all : SUBSET FdDocs,
                sv : {s.sv}, open : BOOLEAN, reply : {s.reply}, owed : {s.owed}]
      /\ s.owed = [d \in s.all |-> s.owed[d]] /\ ToSet(s.docs) \subseteq s.all /\ s.docs # <<>>
      /\ \A d \in s.all \ ToSet(s.docs) : s.owed[d] \subseteq Held(n, d)
      /\ s.sv \subseteq Held(n, h)
  BY <1>1, <1>2, <1>3 DEF Asking
<1>5. m \in FdNodes /\ h \in FdDocs /\ h \in ToSet(s.docs) /\ h \in s.all
  <2>1. m \in FdNodes
    BY <1>1, <1>4
  <2>2. s.docs \in Seq(FdDocs) /\ s.docs # <<>> /\ 1 \in DOMAIN s.docs /\ h = s.docs[1]
    BY <1>1, <1>4
  <2>3. h \in FdDocs /\ h \in ToSet(s.docs)
    BY <2>2 DEF ToSet
  <2> QED BY <1>4, <2>1, <2>3
<1>6. HeldGrows /\ StoresAreOfDocs' /\ AllMade'
  <2>1. PICK B : B = {}
    OBVIOUS
  <2>2. fdStore' = [fdStore EXCEPT ![m] = apply_update(@, h, B)] /\ \A b \in B : Made(b, h)'
    BY <1>2, <2>1
  <2> QED BY <1>2, <1>5, <2>2, NodeLearns
<1>7. /\ t \in [at : {"ask", "serve", "reply"}, peer : FdNodes, docs : Seq(FdDocs), all : SUBSET FdDocs,
                sv : {t.sv}, open : BOOLEAN, reply : {t.reply}, owed : {t.owed}]
      /\ t.at = "reply" /\ t.docs = s.docs /\ t.all = s.all /\ t.owed = owed /\ t.reply = diff_since(held, s.sv)
  BY <1>1, <1>4, ZenonT(40)
<1>8. owed = [d \in s.all |-> owed[d]] /\ owed[h] = held /\ \A d \in s.all : d # h => owed[d] = s.owed[d]
  BY <1>1, <1>4, <1>5
<1>9. \A d \in s.all \ ToSet(s.docs) : owed[d] \subseteq Held(n, d)'
  <2>1. ASSUME NEW d \in s.all \ ToSet(s.docs) PROVE owed[d] \subseteq Held(n, d)'
    <3>1. d \in FdDocs /\ d # h
      BY <1>4, <1>5
    <3>2. Held(n, d) \subseteq Held(n, d)'
      BY <1>6, <3>1 DEF HeldGrows
    <3> QED BY <1>4, <1>8, <3>1, <3>2
  <2> QED BY <2>1
<1>10. held \subseteq Held(n, h)' \cup t.reply
  <2>1. Held(n, h) \subseteq Held(n, h)'
    BY <1>5, <1>6 DEF HeldGrows
  <2> QED BY <1>4, <1>7, <2>1 DEF diff_since
<1>11. \A b \in t.reply : Made(b, h)'
  <2>1. ASSUME NEW b \in t.reply PROVE Made(b, h)'
    <3>1. b \in Held(m, h)
      BY <1>1, <1>7 DEF diff_since
    <3>2. Made(b, h)
      BY <1>5, <3>1 DEF FederationInv, AllMade
    <3> QED BY <1>2, <1>5, <1>6, <3>2, MadeStays
  <2> QED BY <2>1
<1>12. Asking(n, t)'
  <2>1. /\ t.owed = [d \in t.all |-> t.owed[d]] /\ ToSet(t.docs) \subseteq t.all /\ t.docs # <<>> /\ h = Head(t.docs)
    BY <1>1, <1>4, <1>7, <1>8, ZenonT(40)
  <2>2. \A d \in t.all \ ToSet(t.docs) : t.owed[d] \subseteq Held(n, d)'
    BY <1>7, <1>9
  <2>3. t.at # "serve" /\ t.owed[h] \subseteq Held(n, h)' \cup t.reply
    BY <1>7, <1>8, <1>10
  <2> QED BY <1>7, <1>11, <2>1, <2>2, <2>3 DEF Asking
<1>13. fdSync' = [fdSync EXCEPT ![n] = t]
  BY <1>1, <1>2, <1>4 DEF FederationInv
<1> QED BY <1>2, <1>6, <1>12, <1>13, SyncMoves

LEMMA Step2Step ==
  ASSUME FederationInv, NEW n \in FdNodes, SyncStep2(n)
  PROVE  FederationInv'
<1>1. PICK s, h, B, t : /\ s = fdSync[n] /\ h = Head(s.docs) /\ B = s.reply
                        /\ t = [s EXCEPT !.at = "ask", !.docs = Tail(s.docs)]
  OBVIOUS
<1>2. /\ s.at = "reply" /\ fdClient' = fdClient /\ fdNet' = fdNet
      /\ fdStore' = [fdStore EXCEPT ![n] = apply_update(@, h, B)]
      /\ fdSync' = [fdSync EXCEPT ![n].at = "ask", ![n].docs = Tail(@)]
  BY <1>1 DEF SyncStep2
<1>3. Asking(n, s)
  BY <1>1, <1>2, AskingNow
<1>4. /\ s \in [at : {"ask", "serve", "reply"}, peer : FdNodes, docs : Seq(FdDocs), all : SUBSET FdDocs,
                sv : {s.sv}, open : BOOLEAN, reply : {s.reply}, owed : {s.owed}]
      /\ s.owed = [d \in s.all |-> s.owed[d]] /\ ToSet(s.docs) \subseteq s.all /\ s.docs # <<>>
      /\ \A d \in s.all \ ToSet(s.docs) : s.owed[d] \subseteq Held(n, d)
      /\ s.owed[h] \subseteq Held(n, h) \cup B /\ \A b \in B : Made(b, h)
  BY <1>1, <1>2, <1>3 DEF Asking
<1>5. PICK docs, rest : docs = s.docs /\ rest = Tail(docs)
  OBVIOUS
<1>6. rest \in Seq(FdDocs) /\ h \in FdDocs /\ ToSet(rest) \subseteq ToSet(docs) /\ ToSet(docs) \subseteq ToSet(rest) \cup {h}
  <2>1. PICK k : k = Len(docs)
    OBVIOUS
  <2>2. docs \in Seq(FdDocs) /\ docs # <<>> /\ k \in Nat /\ k >= 1 /\ DOMAIN docs = 1..k /\ h = docs[1]
    BY <1>1, <1>4, <1>5, <2>1
  <2>3. rest \in Seq(FdDocs) /\ DOMAIN rest = 1..(k - 1) /\ \A i \in 1..(k - 1) : rest[i] = docs[i + 1]
    BY <1>5, <2>1, <2>2
  <2>4. \A i \in 1..(k - 1) : i + 1 \in 1..k
    BY <2>2
  <2>5. \A i \in 1..k : i = 1 \/ (i - 1 \in 1..(k - 1) /\ docs[i] = rest[i - 1])
    BY <2>2, <2>3
  <2>6. h \in FdDocs
    BY <2>2
  <2>7. ToSet(rest) \subseteq ToSet(docs)
    BY <2>2, <2>3, <2>4 DEF ToSet
  <2>8. ToSet(docs) \subseteq ToSet(rest) \cup {h}
    <3>1. ASSUME NEW i \in 1..k PROVE docs[i] = h \/ \E j \in 1..(k - 1) : docs[i] = rest[j]
      BY <2>2, <2>5
    <3>2. ToSet(docs) = {docs[i] : i \in 1..k} /\ ToSet(rest) = {rest[j] : j \in 1..(k - 1)}
      BY <2>2, <2>3 DEF ToSet
    <3> QED BY <3>1, <3>2
  <2> QED BY <2>3, <2>6, <2>7, <2>8
<1>7. \A b \in B : Made(b, h)'
  <2>1. HeldGrows
    BY <1>2, <1>6, NodeLearns
  <2> QED BY <1>2, <1>4, <1>6, <2>1, MadeStays
<1>8. HeldGrows /\ Held(n, h)' = Held(n, h) \cup B /\ StoresAreOfDocs' /\ AllMade'
  <2>1. HeldGrows /\ Held(n, h)' = Held(n, h) \cup B /\ StoresAreOfDocs' /\ ((\A b \in B : Made(b, h)') => AllMade')
    <3>1. h \in FdDocs /\ fdStore' = [fdStore EXCEPT ![n] = apply_update(@, h, B)] /\ fdClient' = fdClient
      BY <1>2, <1>6
    <3> QED BY ONLY FederationInv, n \in FdNodes, <3>1, NodeLearns
  <2> QED BY <1>7, <2>1
<1>9. /\ t \in [at : {"ask", "serve", "reply"}, peer : FdNodes, docs : Seq(FdDocs), all : SUBSET FdDocs,
                sv : {t.sv}, open : BOOLEAN, reply : {t.reply}, owed : {t.owed}]
      /\ t.at = "ask" /\ t.docs = rest /\ t.all = s.all /\ t.owed = s.owed
  BY <1>1, <1>4, <1>5, <1>6
<1>10. ASSUME NEW d \in s.all \ ToSet(rest) PROVE s.owed[d] \subseteq Held(n, d)'
  <2>1. CASE d = h
    BY <1>4, <1>8, <2>1
  <2>2. CASE d # h
    <3>1. d \in s.all \ ToSet(s.docs) /\ d \in FdDocs
      BY <1>4, <1>5, <1>6, <2>2
    <3>2. Held(n, d) \subseteq Held(n, d)'
      BY <1>8, <3>1 DEF HeldGrows
    <3> QED BY <1>4, <3>1, <3>2
  <2> QED BY <2>1, <2>2
<1>11. Asking(n, t)'
  BY <1>4, <1>5, <1>6, <1>9, <1>10 DEF Asking
<1>12. fdSync' = [fdSync EXCEPT ![n] = t]
  BY <1>1, <1>2, <1>4 DEF FederationInv
<1> QED BY <1>2, <1>8, <1>11, <1>12, SyncMoves

LEMMA EndStep ==
  ASSUME FederationInv, NEW n \in FdNodes, SyncEnd(n) \/ SyncReturn(n)
  PROVE  FederationInv'
<1>1. PICK s : s = fdSync[n]
  OBVIOUS
<1>2. fdStore' = fdStore /\ fdClient' = fdClient /\ fdNet' = fdNet
  BY DEF SyncEnd, SyncReturn
<1>3. HeldGrows /\ StoresAreOfDocs' /\ AllMade' /\ \A m \in FdNodes, d \in FdDocs : Held(m, d)' = Held(m, d)
  BY <1>2, SameStores
<1>4. CASE fdSync' = [fdSync EXCEPT ![n] = NoSync]
  <2>1. PICK t : t = NoSync
    OBVIOUS
  <2>2. fdSync' = [fdSync EXCEPT ![n] = t]
    BY <1>4, <2>1
  <2> QED BY <1>2, <1>3, <2>1, <2>2, SyncMoves
<1>5. CASE SyncEnd(n) /\ s.docs = <<>>
  <2>1. PICK t : t = [at |-> "ok", all |-> s.all, owed |-> s.owed]
    OBVIOUS
  <2>2. fdSync' = [fdSync EXCEPT ![n] = t] /\ s.at = "ask"
    BY <1>1, <1>5, <2>1 DEF SyncEnd, Synced
  <2>3. Asking(n, s)
    BY <1>1, <2>2, AskingNow
  <2>4. s.all \subseteq FdDocs /\ \A d \in s.all : s.owed[d] \subseteq Held(n, d)
    <3>1. ToSet(s.docs) = {}
      BY <1>5 DEF ToSet
    <3> QED BY <2>3, <3>1 DEF Asking
  <2>5. t \in [at : {"ok"}, all : SUBSET FdDocs, owed : {t.owed}] /\ t.all = s.all /\ t.owed = s.owed
    BY <2>1, <2>4
  <2>6. Answered(n, t)'
    BY <1>3, <2>4, <2>5 DEF Answered
  <2> QED BY <1>2, <1>3, <2>2, <2>6, SyncMoves
<1>6. CASE SyncEnd(n) /\ s.docs # <<>>
  BY <1>1, <1>4, <1>6 DEF SyncEnd, Synced
<1>7. CASE SyncReturn(n)
  BY <1>4, <1>7 DEF SyncReturn
<1> QED BY <1>5, <1>6, <1>7

LEMMA FederationStep ==
  ASSUME FederationInv, ReplicasNext \/ UNCHANGED rpVars
  PROVE  FederationInv'
<1>1. CASE UNCHANGED fdVars
  BY <1>1 DEF fdVars, FederationInv, StoresAreOfDocs, AllMade, Made, Asking, Answered, Held
<1>2. CASE ReplicasNext
  BY <1>1, <1>2, RestartStep, EditStep, ArriveStep, NothingStep, ConnectStep, Step1Step, ServeStep, Step2Step, EndStep, Zenon DEF ReplicasNext
<1> QED BY <1>1, <1>2 DEF rpVars

LEMMA FederationInvIsEnough ==
  ASSUME FederationInv
  PROVE  SyncOkIsComplete
<1>1. ASSUME NEW n \in FdNodes, fdSync[n].at = "ok", NEW d \in fdSync[n].all
      PROVE  /\ fdSync[n].owed[d] \subseteq Held(n, d)
             /\ Integrated(fdSync[n].owed[d]) \subseteq Integrated(Held(n, d))
  <2>1. PICK s : s = fdSync[n]
    OBVIOUS
  <2>2. s = NoSync \/ Asking(n, s) \/ Answered(n, s)
    BY <2>1 DEF FederationInv
  <2>3. s # NoSync /\ ~Asking(n, s)
    BY <1>1, <2>1 DEF NoSync, Asking
  <2>4. s.owed[d] \subseteq Held(n, d)
    BY <1>1, <2>1, <2>2, <2>3 DEF Answered
  <2>5. Integrated(s.owed[d]) \subseteq Integrated(Held(n, d))
    BY <2>4 DEF Integrated
  <2> QED BY <2>1, <2>4, <2>5
<1>2. ASSUME NEW n \in FdNodes, NEW d \in FdDocs, NEW b \in Held(n, d), b[1] = fdClient[b[1][1]]
      PROVE  b \in Held(b[1][1], d)
  <2>1. Made(b, d)
    BY DEF FederationInv, AllMade
  <2> QED BY <1>2, <2>1 DEF Made
<1> QED BY <1>1, <1>2 DEF SyncOkIsComplete

\* Replicas: a sync that answers Ok has brought all the peer had of the
\* documents this node knew when it began, although updates were lost, reordered
\* or made meanwhile and nodes restarted; replicas that heard of the same
\* operations agree on every document's winner, however often and in whatever
\* order they merged; and a query over any number of shards misses a matching
\* document of the split that wrote the manifest only when its shard could not
\* be searched or two candidates were nearer, or when its text does not hold the
\* word as it was asked while some shard's filter claims it.
THEOREM ReplicasAgree == Spec => []ReplicasConverge
<1>1. Init => FederationInv /\ OpsInv /\ ShardInv
  BY FederationInit, OpsInit, ShardInit DEF Init
<1>2. FederationInv /\ OpsInv /\ ShardInv /\ [Next]_vars => (FederationInv /\ OpsInv /\ ShardInv)'
  BY OneComponentMoves, FederationStep, OpsStep, ShardStep
<1>3. FederationInv /\ OpsInv /\ ShardInv => ReplicasConverge
  BY FederationInvIsEnough, OpsInvIsEnough, ShardInvIsEnough DEF ReplicasConverge
<1> QED BY <1>1, <1>2, <1>3, PTL DEF Spec

-----------------------------------------------------------------------------
(* Backups, merges and imports.                                            *)

\* Numbers are ordered, and finitely many have a greatest.
Below(S) == {pq \in S \X S : pq[1] < pq[2]}
LEMMA BelowOrders ==
  ASSUME NEW S, S \subseteq Nat
  PROVE  /\ Orders(Below(S), S)
         /\ \A p, q \in S : <<p, q>> \in Below(S) <=> p < q
         /\ \A x \in S : Preceding(S, Below(S), x) = {y \in S : y < x}
<1>1. \A p, q : <<p, q>> \in Below(S) <=> p \in S /\ q \in S /\ p < q
  BY Zenon DEF Below
<1>2. \A p \in S : p \in Int
  OBVIOUS
<1>3. Orders(Below(S), S)
  BY <1>1, <1>2 DEF Orders
<1>4. \A x \in S : Preceding(S, Below(S), x) = {y \in S : y < x}
  BY <1>1, Zenon DEF Preceding
<1> QED BY <1>1, <1>3, <1>4, Zenon
LEMMA FiniteHasGreatest ==
  ASSUME NEW S, IsFiniteSet(S), S \subseteq Nat, S # {}
  PROVE  \E x \in S : \A y \in S : y <= x
<1>1. PICK R : R = Below(S)
  OBVIOUS
<1>2. Orders(R, S) /\ \A p, q \in S : <<p, q>> \in R <=> p < q
  BY <1>1, BelowOrders
<1>3. PICK m : m = Cardinality(S) /\ m \in Nat
  BY FS_CardinalityType
<1>4. m # 0
  BY <1>3, FS_EmptySet
<1>5. m \in 1..m
  BY <1>3, <1>4, SMT
<1>6. PICK x \in S : Cardinality(Preceding(S, R, x)) = m - 1
  BY ONLY <1>2, <1>3, <1>5, IsFiniteSet(S), RanksNumber, Zenon
<1>7. PICK f : f = [s \in S |-> Cardinality(Preceding(S, R, s))]
  OBVIOUS
<1>8. /\ \A s \in S : f[s] \in Nat /\ f[s] <= m - 1
      /\ \A s, t \in S : <<s, t>> \in R => f[s] < f[t]
  BY ONLY <1>2, <1>3, <1>7, IsFiniteSet(S), RanksGrow, Zenon
<1>9. f[x] = m - 1
  BY <1>6, <1>7, Zenon
<1>10. ASSUME NEW y \in S PROVE y <= x
  <2>1. SUFFICES ASSUME x < y PROVE FALSE
    BY x \in Nat, y \in Nat, SMT
  <2>2. f[x] < f[y] /\ f[y] \in Nat /\ f[y] <= m - 1
    BY ONLY <1>2, <1>8, <2>1, x \in S, y \in S, Zenon
  <2> QED BY ONLY <1>3, <1>9, <2>2, SMT
<1> QED BY <1>10
\* The id INSERT gives: greater than all.
LEMMA NextId ==
  ASSUME NEW D, IsFiniteSet(D), D \subseteq Nat
  PROVE  /\ Max(D \cup {0}) + 1 \in Nat \ {0}
         /\ \A i \in D : i < Max(D \cup {0}) + 1
<1>1. PICK S : S = D \cup {0}
  OBVIOUS
<1>2. IsFiniteSet(S) /\ S \subseteq Nat /\ S # {}
  BY <1>1, FS_AddElement
<1>3. PICK x \in S : \A y \in S : y <= x
  BY ONLY <1>2, FiniteHasGreatest, Zenon
<1>4. \A y \in S : x >= y
  BY <1>2, <1>3, SMT
<1>5. Max(S) \in S /\ \A y \in S : Max(S) >= y
  <2>1. Max(S) = CHOOSE z \in S : \A y \in S : z >= y
    BY DEF Max
  <2> QED BY ONLY <1>4, <2>1, x \in S, Zenon
<1>6. PICK z \in Nat : z = Max(S)
  BY <1>2, <1>5
<1>7. \A i \in D : i < z + 1
  BY ONLY <1>1, <1>2, <1>5, <1>6, SMT
<1> QED BY ONLY <1>1, <1>6, <1>7, SMT

-----------------------------------------------------------------------------
(* Tables *)
Overlays(h, f, g) ==
    /\ DOMAIN h = DOMAIN f \cup DOMAIN g
    /\ \A i \in DOMAIN f : h[i] = f[i]
    /\ \A i \in DOMAIN g : i \notin DOMAIN f => h[i] = g[i]
    /\ h = [i \in DOMAIN h |-> h[i]]
LEMMA OverFacts ==
  ASSUME NEW f, NEW g, NEW h, h = Over(f, g)
  PROVE  Overlays(h, f, g)
<1>1. h = [i \in DOMAIN f \cup DOMAIN g |-> IF i \in DOMAIN f THEN f[i] ELSE g[i]]
  BY Zenon DEF Over
<1>2. DOMAIN h = DOMAIN f \cup DOMAIN g
  BY ONLY <1>1, Zenon
<1>3. h = [i \in DOMAIN h |-> h[i]]
  BY ONLY <1>1, SMT
<1> QED BY ONLY <1>1, <1>2, <1>3, Zenon DEF Overlays
LEMMA OverTables ==
  ASSUME NEW f, NEW g, IsTable(f), IsTable(g)
  PROVE  IsTable(Over(f, g))
<1>1. IsFiniteSet(DOMAIN f \cup DOMAIN g)
  BY FS_Union DEF IsTable
<1>2. PICK h : h = Over(f, g)
  OBVIOUS
<1>3. /\ DOMAIN h = DOMAIN f \cup DOMAIN g
      /\ \A i \in DOMAIN f : h[i] = f[i]
      /\ \A i \in DOMAIN g : i \notin DOMAIN f => h[i] = g[i]
      /\ h = [i \in DOMAIN h |-> h[i]]
  <2>1. Overlays(h, f, g)
    BY ONLY <1>2, OverFacts
  <2> QED BY ONLY <2>1, Zenon DEF Overlays
<1>4. ASSUME NEW i \in DOMAIN h PROVE IsRow(h[i])
  BY ONLY <1>3, <1>4, IsTable(f), IsTable(g), Zenon DEF IsTable
<1>5. DOMAIN h \subseteq Nat
  BY ONLY <1>3, IsTable(f), IsTable(g), Zenon DEF IsTable
<1>6. IsTable(h)
  BY ONLY <1>1, <1>3, <1>4, <1>5, Zenon DEF IsTable
<1> QED BY ONLY <1>2, <1>6, Zenon
LEMMA SlotTable ==
  ASSUME NEW i \in Nat, NEW row, IsRow(row)
  PROVE  IsTable(Slot(i, row)) /\ DOMAIN Slot(i, row) = {i} /\ Slot(i, row)[i] = row
<1>1. IsFiniteSet({i})
  BY FS_Singleton
<1>2. DOMAIN Slot(i, row) = {i} /\ Slot(i, row)[i] = row
  BY Zenon DEF Slot
<1>3. Slot(i, row) = [k \in DOMAIN Slot(i, row) |-> Slot(i, row)[k]]
  BY Zenon DEF Slot
<1> QED BY <1>1, <1>2, <1>3, Zenon DEF IsTable

-----------------------------------------------------------------------------
(* Merges: what one row of the second pack does, and keeps done.            *)
RowsLike(acc, row) == {i \in DOMAIN acc : IF row.uri # None THEN acc[i].uri = row.uri ELSE acc[i].text = row.text}
Grown(a, o) ==
    \A i \in DOMAIN a : i \in DOMAIN o /\ o[i].text = a[i].text /\ o[i].uri = a[i].uri /\ a[i].crdt \subseteq o[i].crdt
OnlyNew(a, o, row) ==
    \A j \in DOMAIN o : j \notin DOMAIN a =>
       /\ o[j] = row
       /\ \A i \in DOMAIN a : row.text # a[i].text /\ (row.uri # None => row.uri # a[i].uri)
Settled(row, o) ==
    /\ \A i \in RowsLike(o, row) : row.crdt \subseteq o[i].crdt
    /\ RowsLike(o, row) = {} => Known(o, row)
MergesRow(acc, row, o) ==
    /\ IsTable(o) /\ Grown(acc, o) /\ OnlyNew(acc, o, row) /\ Settled(row, o)
    /\ UniqueRows(acc) => UniqueRows(o)

LEMMA MergeOnto ==
  ASSUME NEW acc, NEW row, IsTable(acc), IsRow(row), RowsLike(acc, row) # {}
  PROVE  MergesRow(acc, row, MergeRow(acc, row))
<1>1. PICK o, same : o = MergeRow(acc, row) /\ same = RowsLike(acc, row)
  OBVIOUS
<1>2. o = [i \in DOMAIN acc |-> IF i \in same THEN [acc[i] EXCEPT !.crdt = merge_meta(@, row.crdt)] ELSE acc[i]]
  BY <1>1, Zenon DEF MergeRow, RowsLike
<1>3. DOMAIN o = DOMAIN acc /\ o = [i \in DOMAIN o |-> o[i]]
  BY <1>2, Zenon
<1>4. ASSUME NEW i \in DOMAIN acc
      PROVE  /\ IsRow(o[i]) /\ o[i].text = acc[i].text /\ o[i].uri = acc[i].uri
             /\ acc[i].crdt \subseteq o[i].crdt /\ (i \in same => row.crdt \subseteq o[i].crdt)
  <2>1. PICK t : t = acc[i]
    OBVIOUS
  <2>2. t = [uri |-> t.uri, text |-> t.text, title |-> t.title, meta |-> t.meta, sig |-> t.sig, crdt |-> t.crdt]
    BY <2>1 DEF IsTable, IsRow
  <2>3. CASE i \in same
    <3>1. PICK c : c = t.crdt \cup row.crdt
      OBVIOUS
    <3>2. o[i] = [t EXCEPT !.crdt = c]
      BY ONLY <1>2, <2>1, <2>3, <3>1, i \in DOMAIN acc, Zenon DEF merge_meta
    <3>3. o[i] = [uri |-> t.uri, text |-> t.text, title |-> t.title, meta |-> t.meta, sig |-> t.sig, crdt |-> c]
      BY ONLY <2>2, <3>2, SMT
    <3>4. IsRow(o[i]) /\ o[i].text = t.text /\ o[i].uri = t.uri /\ o[i].crdt = c
      BY ONLY <3>3, SMT DEF IsRow
    <3> QED BY ONLY <2>1, <3>1, <3>4, Zenon
  <2>4. CASE i \notin same
    <3>1. o[i] = t
      BY ONLY <1>2, <2>1, <2>4, i \in DOMAIN acc, Zenon
    <3> QED BY ONLY <2>1, <2>2, <2>4, <3>1, Zenon DEF IsRow
  <2> QED BY <2>3, <2>4
<1>5. IsTable(o)
  BY ONLY <1>3, <1>4, IsTable(acc), Zenon DEF IsTable
<1>6. Grown(acc, o) /\ OnlyNew(acc, o, row)
  BY ONLY <1>3, <1>4, Zenon DEF Grown, OnlyNew
<1>7. RowsLike(o, row) = same
  BY ONLY <1>1, <1>3, <1>4, Zenon DEF RowsLike
<1>8. Settled(row, o)
  <2>1. \A i \in same : i \in DOMAIN acc
    BY ONLY <1>1, Zenon DEF RowsLike
  <2> QED BY ONLY <1>1, <1>4, <1>7, <2>1, RowsLike(acc, row) # {}, Zenon DEF Settled
<1>9. ASSUME UniqueRows(acc) PROVE UniqueRows(o)
  <2>1. ASSUME NEW i \in DOMAIN o, NEW j \in DOMAIN o, i # j
        PROVE  o[i].text # o[j].text /\ (o[i].uri # None => o[i].uri # o[j].uri)
    <3>1. i \in DOMAIN acc /\ j \in DOMAIN acc
      BY ONLY <1>3, <2>1, Zenon
    <3>2. acc[i].text # acc[j].text /\ (acc[i].uri # None => acc[i].uri # acc[j].uri)
      BY ONLY <1>9, <2>1, <3>1, Zenon DEF UniqueRows
    <3>3. o[i].text = acc[i].text /\ o[i].uri = acc[i].uri /\ o[j].text = acc[j].text /\ o[j].uri = acc[j].uri
      BY ONLY <1>4, <3>1, Zenon
    <3> QED BY ONLY <3>2, <3>3, Zenon
  <2> QED BY ONLY <2>1, Zenon DEF UniqueRows
<1>10. MergesRow(acc, row, o)
  BY ONLY <1>5, <1>6, <1>8, <1>9, Zenon DEF MergesRow
<1> QED BY ONLY <1>1, <1>10, Zenon

LEMMA MergeKnown ==
  ASSUME NEW acc, NEW row, IsTable(acc), RowsLike(acc, row) = {}, Known(acc, row)
  PROVE  MergesRow(acc, row, MergeRow(acc, row))
<1>1. MergeRow(acc, row) = acc
  BY Zenon DEF MergeRow, RowsLike
<1>2. Grown(acc, acc) /\ OnlyNew(acc, acc, row) /\ Settled(row, acc)
  BY Zenon DEF Grown, OnlyNew, Settled
<1>3. MergesRow(acc, row, acc)
  BY ONLY <1>2, IsTable(acc), Zenon DEF MergesRow
<1> QED BY ONLY <1>1, <1>3, Zenon

LEMMA MergeAdds ==
  ASSUME NEW acc, NEW row, IsTable(acc), IsRow(row), RowsLike(acc, row) = {}, ~Known(acc, row)
  PROVE  MergesRow(acc, row, MergeRow(acc, row))
<1>1. PICK k : k = Max(DOMAIN acc \cup {0}) + 1
  OBVIOUS
<1>2. k \in Nat /\ \A i \in DOMAIN acc : i < k
  BY <1>1, NextId DEF IsTable
<1>3. k \notin DOMAIN acc
  BY <1>2 DEF IsTable
<1>4. PICK o : o = MergeRow(acc, row)
  OBVIOUS
<1>5. o = Over(Slot(k, row), acc)
  BY <1>1, <1>4, Zenon DEF MergeRow, RowsLike
<1>6. IsTable(Slot(k, row)) /\ DOMAIN Slot(k, row) = {k} /\ Slot(k, row)[k] = row
  BY <1>2, SlotTable
<1>7. IsTable(o)
  BY <1>5, <1>6, OverTables
<1>8. DOMAIN o = {k} \cup DOMAIN acc /\ o[k] = row /\ \A i \in DOMAIN acc : o[i] = acc[i]
  <2>1. PICK z : z = Slot(k, row)
    OBVIOUS
  <2>2. /\ DOMAIN o = DOMAIN z \cup DOMAIN acc
        /\ \A i \in DOMAIN z : o[i] = z[i]
        /\ \A i \in DOMAIN acc : i \notin DOMAIN z => o[i] = acc[i]
    <3>1. o = Over(z, acc)
      BY ONLY <1>5, <2>1
    <3>2. Overlays(o, z, acc)
      BY ONLY <3>1, OverFacts
    <3> QED BY ONLY <3>2, Zenon DEF Overlays
  <2>3. DOMAIN z = {k} /\ z[k] = row
    BY ONLY <1>6, <2>1, Zenon
  <2> QED BY ONLY <1>3, <2>2, <2>3, Zenon
<1>9. \A i \in DOMAIN acc : row.text # acc[i].text /\ (row.uri # None => row.uri # acc[i].uri)
  BY Zenon DEF Known, RowsLike
<1>10. Grown(acc, o) /\ OnlyNew(acc, o, row)
  BY ONLY <1>8, <1>9, Zenon DEF Grown, OnlyNew
<1>11. RowsLike(o, row) = {k}
  BY ONLY <1>8, RowsLike(acc, row) = {}, Zenon DEF RowsLike
<1>12. Settled(row, o)
  BY ONLY <1>8, <1>11, Zenon DEF Settled
<1>13. ASSUME UniqueRows(acc) PROVE UniqueRows(o)
  BY ONLY <1>8, <1>9, <1>13, Zenon DEF UniqueRows
<1>14. MergesRow(acc, row, o)
  BY ONLY <1>7, <1>10, <1>12, <1>13, Zenon DEF MergesRow
<1> QED BY ONLY <1>4, <1>14, Zenon

LEMMA OneMerged ==
  ASSUME NEW acc, NEW row, IsTable(acc), IsRow(row)
  PROVE  MergesRow(acc, row, MergeRow(acc, row))
  BY MergeOnto, MergeKnown, MergeAdds, Zenon

\* A row that has been merged stays merged, and merging it again changes nothing.
LEMMA StaysSettled ==
  ASSUME NEW row, NEW a, NEW o, NEW next, Settled(row, a), Grown(a, o), OnlyNew(a, o, next),
         row.uri # None => next.uri # row.uri
  PROVE  Settled(row, o)
<1>1. ASSUME NEW i \in RowsLike(o, row) PROVE i \in RowsLike(a, row)
  <2>1. i \in DOMAIN o /\ IF row.uri # None THEN o[i].uri = row.uri ELSE o[i].text = row.text
    BY ONLY <1>1, Zenon DEF RowsLike
  <2>2. CASE i \in DOMAIN a
    BY ONLY <2>1, <2>2, Grown(a, o), Zenon DEF Grown, RowsLike
  <2>3. CASE i \notin DOMAIN a
    <3>1. o[i] = next /\ \A k \in DOMAIN a : next.text # a[k].text /\ (next.uri # None => next.uri # a[k].uri)
      BY ONLY <2>1, <2>3, OnlyNew(a, o, next), Zenon DEF OnlyNew
    <3>2. row.uri = None /\ next.text = row.text
      BY ONLY <2>1, <3>1, row.uri # None => next.uri # row.uri, Zenon
    <3>3. RowsLike(a, row) = {}
      BY ONLY <3>1, <3>2, Zenon DEF RowsLike
    <3>4. PICK k \in DOMAIN a : a[k].text = row.text
      BY ONLY <3>3, Settled(row, a), Zenon DEF Settled, Known
    <3> QED BY ONLY <3>1, <3>2, <3>4, Zenon
  <2> QED BY ONLY <2>2, <2>3
<1>2. ASSUME NEW i \in RowsLike(a, row) PROVE i \in RowsLike(o, row) /\ row.crdt \subseteq o[i].crdt
  <2>1. i \in DOMAIN a /\ IF row.uri # None THEN a[i].uri = row.uri ELSE a[i].text = row.text
    BY ONLY <1>2, Zenon DEF RowsLike
  <2>2. i \in DOMAIN o /\ o[i].text = a[i].text /\ o[i].uri = a[i].uri /\ a[i].crdt \subseteq o[i].crdt
    BY ONLY <2>1, Grown(a, o), Zenon DEF Grown
  <2>3. row.crdt \subseteq a[i].crdt
    BY ONLY <1>2, Settled(row, a), Zenon DEF Settled
  <2> QED BY ONLY <2>1, <2>2, <2>3, Zenon DEF RowsLike
<1>3. ASSUME RowsLike(o, row) = {} PROVE Known(o, row)
  <2>1. RowsLike(a, row) = {}
    BY ONLY <1>2, <1>3, Zenon
  <2>2. PICK k \in DOMAIN a : a[k].text = row.text
    BY ONLY <2>1, Settled(row, a), Zenon DEF Settled, Known
  <2> QED BY ONLY <2>2, Grown(a, o), Zenon DEF Grown, Known
<1> QED BY ONLY <1>1, <1>2, <1>3, Zenon DEF Settled
LEMMA SettledStays ==
  ASSUME NEW row, NEW o, IsTable(o), Settled(row, o)
  PROVE  MergeRow(o, row) = o /\ Arrived(row, o)
<1>1. CASE RowsLike(o, row) # {}
  <2>1. MergeRow(o, row) = [i \in DOMAIN o |-> IF i \in RowsLike(o, row) THEN [o[i] EXCEPT !.crdt = merge_meta(@, row.crdt)] ELSE o[i]]
    BY ONLY <1>1, Zenon DEF MergeRow, RowsLike
  <2>2. ASSUME NEW i \in RowsLike(o, row) PROVE [o[i] EXCEPT !.crdt = merge_meta(@, row.crdt)] = o[i]
    <3>1. PICK t, c : t = o[i] /\ c = t.crdt \cup row.crdt
      OBVIOUS
    <3>2. row.crdt \subseteq t.crdt /\ i \in DOMAIN o
      BY ONLY <2>2, <3>1, Settled(row, o), Zenon DEF Settled, RowsLike
    <3>3. c = t.crdt
      BY ONLY <3>1, <3>2, Zenon
    <3>4. t = [uri |-> t.uri, text |-> t.text, title |-> t.title, meta |-> t.meta, sig |-> t.sig, crdt |-> t.crdt]
      BY ONLY <3>1, <3>2, IsTable(o), Zenon DEF IsTable, IsRow
    <3>5. [t EXCEPT !.crdt = c] = t
      BY ONLY <3>3, <3>4, SMT
    <3> QED BY ONLY <3>1, <3>5, Zenon DEF merge_meta
  <2>3. MergeRow(o, row) = [i \in DOMAIN o |-> o[i]]
    BY ONLY <2>1, <2>2, Zenon
  <2>5. Arrived(row, o)
    BY ONLY <1>1, Settled(row, o), Zenon DEF Arrived, Settled, RowsLike
  <2> QED BY ONLY <2>3, <2>5, IsTable(o), Zenon DEF IsTable
<1>2. CASE RowsLike(o, row) = {}
  <2>1. PICK k \in DOMAIN o : o[k].text = row.text
    BY ONLY <1>2, Settled(row, o), Zenon DEF Settled, Known
  <2>2. MergeRow(o, row) = o
    BY ONLY <1>2, <2>1, Zenon DEF MergeRow, RowsLike, Known
  <2>3. Arrived(row, o)
    BY ONLY <1>2, <2>1, Zenon DEF Arrived, RowsLike, Known
  <2> QED BY ONLY <2>2, <2>3
<1> QED BY ONLY <1>1, <1>2

-----------------------------------------------------------------------------
\* The rows of a table in the order of their ids, each once.
Lists(rows, m, y, b) ==
    /\ m \in Nat /\ rows = [k \in 1..m |-> rows[k]] /\ Len(rows) = m
    /\ \A k \in 1..m : y[k] \in DOMAIN b /\ rows[k] = b[y[k]]
    /\ \A i \in DOMAIN b : \E k \in 1..m : y[k] = i
    /\ \A j, k \in 1..m : y[j] = y[k] => j = k
LEMMA RowsInOrder ==
  ASSUME NEW b, IsTable(b)
  PROVE  \E m, y : Lists(InRowIdOrder(b), m, y, b)
<1> DEFINE S == DOMAIN b
<1>2. IsFiniteSet(S) /\ S \subseteq Nat
  BY DEF IsTable
<1>3. PICK m : m = Cardinality(S) /\ m \in Nat
  BY <1>2, FS_CardinalityType
<1>4. PICK R : R = Below(S)
  OBVIOUS
<1>5. Orders(R, S) /\ \A x \in S : Preceding(S, R, x) = {y \in S : y < x}
  BY ONLY <1>2, <1>4, BelowOrders, Zenon
<1>6. \A n \in 1..m : \E x \in S : Cardinality(Preceding(S, R, x)) = n - 1
  BY ONLY <1>2, <1>3, <1>5, RanksNumber, Zenon
<1>7. PICK y : y = [k \in 1..m |-> CHOOSE i \in S : Cardinality({j \in S : j < i}) = k - 1]
  OBVIOUS
<1>8. ASSUME NEW n \in 1..m PROVE y[n] \in S /\ Cardinality(Preceding(S, R, y[n])) = n - 1
  <2>1. y[n] = CHOOSE i \in S : Cardinality({j \in S : j < i}) = n - 1
    BY <1>7, Zenon
  <2>2. \E i \in S : Cardinality({j \in S : j < i}) = n - 1
    BY ONLY <1>5, <1>6, n \in 1..m, Zenon
  <2>3. y[n] \in S /\ Cardinality({j \in S : j < y[n]}) = n - 1
    BY ONLY <2>1, <2>2, Zenon
  <2> QED BY ONLY <1>5, <2>3, Zenon
<1>9. Ranks(y, m, S, R)
  <2>1. y \in [1..m -> S]
    BY ONLY <1>7, <1>8, Zenon
  <2> QED BY ONLY <1>8, <2>1, Zenon DEF Ranks
<1>10. y \in Bijection(1..m, S)
  BY ONLY <1>2, <1>3, <1>5, <1>9, RanksSort, Zenon
<1>11. /\ \A i \in S : \E k \in 1..m : y[k] = i
       /\ \A j, k \in 1..m : y[j] = y[k] => j = k
  BY ONLY <1>10, Zenon DEF Bijection, Injection, Surjection, IsInjective
<1>12. PICK rows : rows = InRowIdOrder(b)
  OBVIOUS
<1>13. rows = [k \in 1..m |-> b[CHOOSE i \in S : Cardinality({j \in S : j < i}) = k - 1]]
  BY ONLY <1>3, <1>12, Zenon DEF InRowIdOrder
<1>14. rows = [k \in 1..m |-> rows[k]] /\ \A k \in 1..m : rows[k] = b[y[k]]
  <2>1. rows = [k \in 1..m |-> rows[k]]
    BY ONLY <1>13, SMT
  <2>2. ASSUME NEW k \in 1..m PROVE rows[k] = b[y[k]]
    <3>1. PICK z : z = CHOOSE i \in S : Cardinality({j \in S : j < i}) = k - 1
      OBVIOUS
    <3>2. rows[k] = b[z]
      BY ONLY <1>13, <3>1, k \in 1..m, Zenon
    <3>3. y[k] = z
      BY ONLY <1>7, <3>1, k \in 1..m, Zenon
    <3> QED BY ONLY <3>2, <3>3, Zenon
  <2> QED BY ONLY <2>1, <2>2
<1>15. Len(rows) = m
  BY ONLY <1>3, <1>14, SMT
<1>16. Lists(rows, m, y, b)
  BY ONLY <1>3, <1>8, <1>11, <1>14, <1>15, Zenon DEF Lists
<1> QED BY ONLY <1>12, <1>16, Zenon

\* merge_packs goes through the rows of the second pack in turn.
Walks(f, a, rows, len) == f = [n \in 0..len |-> IF n = 0 THEN a ELSE MergeRow(f[n - 1], rows[n])]
LEMMA WalkExists ==
  ASSUME NEW len \in Nat, NEW a, NEW rows
  PROVE  \E f : Walks(f, a, rows, len)
<1>1. PICK T : T = {k \in 0..len : \E f : Walks(f, a, rows, k)}
  OBVIOUS
<1>2. 0 \in T
  <2>1. PICK f : f = [n \in 0..0 |-> a]
    OBVIOUS
  <2>2. \A n \in 0..0 : n = 0
    OBVIOUS
  <2>3. Walks(f, a, rows, 0)
    BY ONLY <2>1, <2>2, Zenon DEF Walks
  <2>4. 0 \in 0..len
    OBVIOUS
  <2> QED BY ONLY <1>1, <2>3, <2>4, Zenon
<1>3. ASSUME NEW k \in 0..(len - 1), k \in T PROVE k + 1 \in T
  <2>1. PICK f : Walks(f, a, rows, k)
    BY <1>1, <1>3
  <2>2. PICK g : g = [n \in 0..(k + 1) |-> IF n = k + 1 THEN MergeRow(f[k], rows[k + 1]) ELSE f[n]]
    OBVIOUS
  <2>3. /\ k \in Nat /\ k + 1 \in 0..len /\ k + 1 # 0 /\ (k + 1) - 1 = k /\ k + 1 \in 0..(k + 1)
        /\ \A n \in 0..(k + 1) : n = k + 1 \/ n \in 0..k
        /\ \A n \in 0..k : n # k + 1 /\ n \in 0..(k + 1) /\ (n # 0 => n - 1 \in 0..k)
    BY SMT
  <2>4. \A n \in 0..k : g[n] = f[n] /\ f[n] = IF n = 0 THEN a ELSE MergeRow(f[n - 1], rows[n])
    <3>1. \A n \in 0..k : g[n] = f[n]
      BY ONLY <2>2, <2>3, Zenon
    <3>2. \A n \in 0..k : f[n] = IF n = 0 THEN a ELSE MergeRow(f[n - 1], rows[n])
      BY ONLY <2>1, Zenon DEF Walks
    <3> QED BY ONLY <3>1, <3>2, Zenon
  <2>5. k \in 0..k
    BY <2>3
  <2>6. ASSUME NEW n \in 0..(k + 1) PROVE g[n] = IF n = 0 THEN a ELSE MergeRow(g[n - 1], rows[n])
    <3>1. CASE n = k + 1
      <4>1. g[n] = MergeRow(f[k], rows[n])
        BY ONLY <2>2, <2>3, <3>1, Zenon
      <4>2. g[n - 1] = f[k]
        BY ONLY <2>3, <2>4, <2>5, <3>1, Zenon
      <4> QED BY ONLY <2>3, <3>1, <4>1, <4>2, Zenon
    <3>2. CASE n \in 0..k
      <4>1. g[n] = IF n = 0 THEN a ELSE MergeRow(f[n - 1], rows[n])
        BY ONLY <2>4, <3>2, Zenon
      <4>2. n # 0 => g[n - 1] = f[n - 1]
        BY ONLY <2>3, <2>4, <3>2, Zenon
      <4> QED BY ONLY <4>1, <4>2, Zenon
    <3> QED BY ONLY <2>3, <2>6, <3>1, <3>2, Zenon
  <2>7. Walks(g, a, rows, k + 1)
    BY ONLY <2>2, <2>6, Zenon DEF Walks
  <2> QED BY ONLY <1>1, <2>3, <2>7, Zenon
<1>4. \A n \in 0..len : n \in T
  BY ONLY len \in Nat, <1>2, <1>3, UpTo
<1>5. len \in T
  BY <1>4
<1> QED BY ONLY <1>1, <1>5, Zenon
WalksTo(a, b, rows, len) == \E f : Walks(f, a, rows, len) /\ merge_packs(a, b) = f[len]
LEMMA MergeWalks ==
  ASSUME NEW a, NEW b, NEW rows, rows = InRowIdOrder(b), NEW len \in Nat, len = Len(rows)
  PROVE  WalksTo(a, b, rows, len)
<1>1. PICK f : f = CHOOSE g : Walks(g, a, rows, len)
  OBVIOUS
<1>2. Walks(f, a, rows, len)
  BY ONLY <1>1, len \in Nat, WalkExists, Zenon
<1>3. merge_packs(a, b) = f[len]
  BY ONLY <1>1, rows = InRowIdOrder(b), len = Len(rows), Zenon DEF merge_packs, Walks
<1> QED BY ONLY <1>2, <1>3, Zenon DEF WalksTo
StepsFrom(f, a, rows, len) ==
    f[0] = a /\ \A n \in 0..(len - 1) : n + 1 \in 1..len /\ f[n + 1] = MergeRow(f[n], rows[n + 1])
LEMMA WalkSteps ==
  ASSUME NEW len \in Nat, NEW f, NEW a, NEW rows, Walks(f, a, rows, len)
  PROVE  StepsFrom(f, a, rows, len)
<1>1. \A n \in 0..len : f[n] = IF n = 0 THEN a ELSE MergeRow(f[n - 1], rows[n])
  BY Zenon DEF Walks
<1>2. /\ 0 \in 0..len
      /\ \A n \in 0..(len - 1) : n + 1 \in 0..len /\ n + 1 \in 1..len /\ n + 1 # 0 /\ (n + 1) - 1 = n
  BY SMT
<1> QED BY ONLY <1>1, <1>2, Zenon DEF StepsFrom

\* What a merge gives: all of the first pack, all of the second, nothing twice.
Merged(a, b, out) ==
    /\ IsTable(out) /\ Grown(a, out) /\ (UniqueRows(a) => UniqueRows(out))
    /\ \A j \in DOMAIN b : Arrived(b[j], out)
    /\ merge_packs(out, b) = out
LEMMA MergesPacks ==
  ASSUME NEW a, NEW b \in TfPeers, IsTable(a)
  PROVE  Merged(a, b, merge_packs(a, b))
<1>1. IsTable(b) /\ UniqueRows(b)
  BY TransferAssumption
<1>2. PICK rows : rows = InRowIdOrder(b)
  OBVIOUS
<1>3. PICK len, y : Lists(rows, len, y, b)
  BY <1>1, <1>2, RowsInOrder
<1>4. len \in Nat /\ len = Len(rows)
  BY <1>3, Zenon DEF Lists
<1>5. PICK f : Walks(f, a, rows, len) /\ merge_packs(a, b) = f[len]
  <2>1. WalksTo(a, b, rows, len)
    BY ONLY <1>2, <1>4, MergeWalks
  <2> QED BY ONLY <2>1, Zenon DEF WalksTo
<1>6. f[0] = a /\ \A n \in 0..(len - 1) : n + 1 \in 1..len /\ f[n + 1] = MergeRow(f[n], rows[n + 1])
  <2>1. StepsFrom(f, a, rows, len)
    BY ONLY <1>4, <1>5, WalkSteps
  <2> QED BY ONLY <2>1, Zenon DEF StepsFrom
<1>7. \A k \in 1..len : IsRow(rows[k])
  BY ONLY <1>1, <1>3, Zenon DEF Lists, IsTable
<1>8. ASSUME NEW j \in 1..len, NEW k \in 1..len, j # k, rows[j].uri # None PROVE rows[k].uri # rows[j].uri
  <2>1. y[j] # y[k] /\ y[j] \in DOMAIN b /\ y[k] \in DOMAIN b /\ rows[j] = b[y[j]] /\ rows[k] = b[y[k]]
    BY ONLY <1>3, <1>8, Zenon DEF Lists
  <2> QED BY ONLY <1>1, <1>8, <2>1, Zenon DEF UniqueRows
<1> DEFINE Good(n) == /\ IsTable(f[n]) /\ Grown(a, f[n]) /\ (UniqueRows(a) => UniqueRows(f[n]))
                      /\ \A k \in 1..n : Settled(rows[k], f[n])
<1>9. PICK T : T = {n \in 0..len : Good(n)}
  OBVIOUS
<1>10. 0 \in T
  <2>1. 0 \in 0..len /\ \A k : k \notin 1..0
    BY ONLY <1>4, SMT
  <2>2. Grown(a, a)
    BY ONLY Zenon DEF Grown
  <2> QED BY ONLY <1>6, <1>9, <2>1, <2>2, IsTable(a), Zenon
<1>11. ASSUME NEW n \in 0..(len - 1), n \in T PROVE n + 1 \in T
  <2>1. PICK p, o, row : p = f[n] /\ o = f[n + 1] /\ row = rows[n + 1]
    OBVIOUS
  <2>2. n + 1 \in 1..len /\ n + 1 \in 0..len /\ \A k \in 1..(n + 1) : k = n + 1 \/ (k \in 1..n /\ k # n + 1 /\ k \in 1..len)
    BY ONLY <1>4, n \in 0..(len - 1), SMT
  <2>3. /\ IsTable(p) /\ Grown(a, p) /\ (UniqueRows(a) => UniqueRows(p))
        /\ \A k \in 1..n : Settled(rows[k], p)
    BY ONLY <1>9, <1>11, <2>1, Zenon
  <2>4. o = MergeRow(p, row) /\ IsRow(row)
    BY ONLY <1>6, <1>7, <2>1, <2>2, n \in 0..(len - 1), Zenon
  <2>5. MergesRow(p, row, o)
    BY ONLY <2>3, <2>4, OneMerged, Zenon
  <2>6. /\ IsTable(o) /\ Grown(p, o) /\ OnlyNew(p, o, row) /\ Settled(row, o)
        /\ UniqueRows(p) => UniqueRows(o)
    BY ONLY <2>5, Zenon DEF MergesRow
  <2>7. Grown(a, o)
    BY ONLY <2>3, <2>6, Zenon DEF Grown
  <2>8. ASSUME NEW k \in 1..(n + 1) PROVE Settled(rows[k], o)
    <3>1. CASE k = n + 1
      BY ONLY <2>1, <2>6, <3>1, Zenon
    <3>2. CASE k \in 1..n /\ k # n + 1 /\ k \in 1..len
      <4>1. Settled(rows[k], p)
        BY ONLY <2>3, <3>2, Zenon
      <4>2. rows[k].uri # None => row.uri # rows[k].uri
        BY ONLY <1>8, <2>1, <2>2, <3>2, Zenon
      <4> QED BY ONLY <2>6, <4>1, <4>2, StaysSettled, Zenon
    <3> QED BY ONLY <2>2, <2>8, <3>1, <3>2, Zenon
  <2>9. Good(n + 1)
    BY ONLY <2>1, <2>3, <2>6, <2>7, <2>8, Zenon
  <2> QED BY ONLY <1>9, <2>2, <2>9, Zenon
<1> HIDE DEF Good
<1>12. \A n \in 0..len : n \in T
  BY ONLY <1>4, <1>10, <1>11, UpTo, Zenon
<1>13. Good(len)
  <2>1. len \in 0..len
    BY ONLY <1>4, SMT
  <2> QED BY ONLY <1>9, <1>12, <2>1, Zenon
<1>14. PICK out : out = f[len]
  OBVIOUS
<1>15. /\ IsTable(out) /\ Grown(a, out) /\ (UniqueRows(a) => UniqueRows(out))
       /\ \A k \in 1..len : Settled(rows[k], out)
  BY ONLY <1>13, <1>14, Zenon DEF Good
<1>16. \A k \in 1..len : MergeRow(out, rows[k]) = out /\ Arrived(rows[k], out)
  BY ONLY <1>15, SettledStays, Zenon
<1>17. \A j \in DOMAIN b : Arrived(b[j], out)
  <2>1. ASSUME NEW j \in DOMAIN b PROVE Arrived(b[j], out)
    <3>1. PICK k \in 1..len : y[k] = j /\ rows[k] = b[y[k]]
      BY ONLY <1>3, j \in DOMAIN b, Zenon DEF Lists
    <3> QED BY ONLY <1>16, <3>1, Zenon
  <2> QED BY ONLY <2>1
<1>18. merge_packs(out, b) = out
  <2>1. PICK g : Walks(g, out, rows, len) /\ merge_packs(out, b) = g[len]
    <3>1. WalksTo(out, b, rows, len)
      BY ONLY <1>2, <1>4, MergeWalks
    <3> QED BY ONLY <3>1, Zenon DEF WalksTo
  <2>2. g[0] = out /\ \A n \in 0..(len - 1) : n + 1 \in 1..len /\ g[n + 1] = MergeRow(g[n], rows[n + 1])
    <3>1. StepsFrom(g, out, rows, len)
      BY ONLY <1>4, <2>1, WalkSteps
    <3> QED BY ONLY <3>1, Zenon DEF StepsFrom
  <2>3. PICK U : U = {n \in 0..len : g[n] = out}
    OBVIOUS
  <2>4. \A n \in 0..(len - 1) : n + 1 \in 0..len
    BY ONLY <1>4, SMT
  <2>5. 0 \in U /\ \A n \in 0..(len - 1) : n \in U => n + 1 \in U
    <3>1. 0 \in 0..len
      BY ONLY <1>4, SMT
    <3> QED BY ONLY <1>16, <2>2, <2>3, <2>4, <3>1, Zenon
  <2>6. \A n \in 0..len : n \in U
    BY ONLY <1>4, <2>5, UpTo, Zenon
  <2>7. len \in 0..len
    BY ONLY <1>4, SMT
  <2> QED BY ONLY <2>1, <2>3, <2>6, <2>7, Zenon
<1>19. Merged(a, b, out)
  BY ONLY <1>15, <1>17, <1>18, Zenon DEF Merged
<1> QED BY ONLY <1>5, <1>14, <1>19, Zenon

LEMMA EmptyTable == IsTable(<<>>) /\ DOMAIN <<>> = {}
<1>1. DOMAIN <<>> = {}
  OBVIOUS
<1>2. <<>> = [i \in {} |-> <<>>[i]]
  BY SMT
<1>3. IsFiniteSet({})
  BY FS_EmptySet
<1> QED BY <1>1, <1>2, <1>3 DEF IsTable
LEMMA OverEmpty ==
  ASSUME NEW f, f = [i \in DOMAIN f |-> f[i]]
  PROVE  Over(<<>>, f) = f /\ Over(f, <<>>) = f
<1>1. DOMAIN <<>> = {}
  BY EmptyTable
<1> QED BY <1>1, Zenon DEF Over
LEMMA OverOver ==
  ASSUME NEW f, NEW g, NEW h
  PROVE  Over(Over(f, g), h) = Over(f, Over(g, h))
<1>1. PICK l, r, u, v : u = Over(f, g) /\ v = Over(g, h) /\ l = Over(u, h) /\ r = Over(f, v)
  OBVIOUS
<1>2. Overlays(u, f, g) /\ Overlays(v, g, h) /\ Overlays(l, u, h) /\ Overlays(r, f, v)
  BY ONLY <1>1, OverFacts
<1>3. DOMAIN l = DOMAIN r
  BY ONLY <1>2, Zenon DEF Overlays
<1>4. ASSUME NEW i \in DOMAIN l PROVE l[i] = r[i]
  BY ONLY <1>2, <1>4, Zenon DEF Overlays
<1>5. l = [i \in DOMAIN l |-> l[i]] /\ r = [i \in DOMAIN r |-> r[i]]
  BY ONLY <1>2, Zenon DEF Overlays
<1>6. l = r
  BY ONLY <1>3, <1>4, <1>5, Zenon
<1> QED BY ONLY <1>1, <1>6, Zenon
LEMMA SameTables ==
  ASSUME NEW f, NEW g, IsTable(f), IsTable(g), DOMAIN f = DOMAIN g, \A i \in DOMAIN f : f[i] = g[i]
  PROVE  f = g
  BY Zenon DEF IsTable

-----------------------------------------------------------------------------
(* The brain, the pack and the running command.                             *)
IsPack(p) ==
    /\ p = [state |-> "whole", kind |-> p.kind, enc |-> p.enc, body |-> p.body, hash |-> p.hash, moments |-> p.moments]
    /\ IsTable(p.body) /\ p.hash \in p.moments
Copying(c, content) ==
    /\ c = [at |-> c.at, kind |-> c.kind, enc |-> c.enc, copied |-> c.copied, moments |-> c.moments]
    /\ IsTable(c.copied)
    /\ \/ /\ c.at = "copy" /\ content \in c.moments
          /\ \A i \in DOMAIN c.copied : i \in DOMAIN content /\ c.copied[i] = content[i]
       \/ c.at \in {"create", "write"} /\ c.copied \in c.moments
Restoring(c, wal, up, ok) ==
    /\ c = [at |-> "restore", image |-> c.image, moments |-> c.moments, clean |-> c.clean]
    /\ IsTable(c.image) /\ c.image \in c.moments
    /\ (c.clean => wal = <<>> /\ ~up) /\ ~ok
Importing(c) == c = [at |-> "import", todo |-> c.todo]
FilesInv ==
    /\ tfMain = [ok |-> tfMain.ok, rows |-> tfMain.rows] /\ IsTable(tfMain.rows) /\ IsTable(tfWal)
    /\ tfPack = NoPack \/ tfPack = TornPack \/ IsPack(tfPack)
    /\ \/ tfCli = CliIdle
       \/ tfJob = "packs" /\ Copying(tfCli, TfContent)
       \/ tfJob = "packs" /\ Restoring(tfCli, tfWal, tfUp, tfMain.ok)
       \/ tfJob = "rows" /\ Importing(tfCli)

LEMMA FilesInit == TransferInit => FilesInv
<1> SUFFICES ASSUME TransferInit PROVE FilesInv
  OBVIOUS
<1>1. tfMain = [ok |-> TRUE, rows |-> <<>>] /\ tfWal = <<>> /\ tfPack = NoPack /\ tfCli = CliIdle
  BY DEF TransferInit
<1>2. tfMain = [ok |-> tfMain.ok, rows |-> tfMain.rows] /\ tfMain.rows = <<>>
  BY <1>1
<1> QED BY <1>1, <1>2, EmptyTable DEF FilesInv

LEMMA ContentIsTable ==
  ASSUME FilesInv
  PROVE  IsTable(TfContent)
  BY OverTables DEF FilesInv, TfContent

\* What the commands do not touch.
LEMMA FilesFrame ==
  ASSUME FilesInv, UNCHANGED <<tfMain, tfWal, tfUp, tfPack, tfCli, tfJob>>
  PROVE  FilesInv'
  BY DEF FilesInv, TfContent

LEMMA CommitKeepsFiles ==
  ASSUME FilesInv, NEW slots, IsTable(slots), Commit(slots), tfMain.ok
  PROVE  FilesInv' /\ TfContent' = Over(slots, TfContent)
<1>1. /\ tfWal' = Over(slots, tfWal) /\ tfMain' = tfMain /\ tfPack' = tfPack /\ tfUp' = tfUp /\ tfJob' = tfJob
      /\ tfCli' = BackupSees(Over(slots, TfContent))
  BY DEF Commit
<1>2. IsTable(tfWal')
  BY <1>1, OverTables DEF FilesInv
<1>3. TfContent' = Over(slots, TfContent)
  BY <1>1, OverOver DEF TfContent
<1>4. \/ tfCli' = CliIdle
      \/ tfJob' = "packs" /\ Copying(tfCli', TfContent')
      \/ tfJob' = "rows" /\ Importing(tfCli')
  <2>1. CASE tfCli = CliIdle
    BY <1>1, <2>1 DEF BackupSees, CliIdle
  <2>2. CASE tfJob = "packs" /\ Copying(tfCli, TfContent)
    <3>1. CASE tfCli.at = "copy"
      <4>1. PICK t, w : t = tfCli /\ w = TfContent'
        OBVIOUS
      <4>2. tfCli' = [at |-> "copy", kind |-> t.kind, enc |-> t.enc, copied |-> <<>>, moments |-> t.moments \cup {w}]
        <5>1. t = [at |-> "copy", kind |-> t.kind, enc |-> t.enc, copied |-> t.copied, moments |-> t.moments]
          BY <2>2, <3>1, <4>1 DEF Copying
        <5>2. tfCli' = [t EXCEPT !.copied = <<>>, !.moments = t.moments \cup {w}]
          BY <1>1, <1>3, <3>1, <4>1 DEF BackupSees
        <5>3. PICK e, q : e = <<>> /\ q = t.moments \cup {w}
          OBVIOUS
        <5>4. tfCli' = [t EXCEPT !.copied = e, !.moments = q]
          BY ONLY <5>2, <5>3, Zenon
        <5>5. tfCli' = [at |-> "copy", kind |-> t.kind, enc |-> t.enc, copied |-> e, moments |-> q]
          <6>1. PICK u : u = [t EXCEPT !.copied = e]
            OBVIOUS
          <6>2. u = [at |-> "copy", kind |-> t.kind, enc |-> t.enc, copied |-> e, moments |-> t.moments]
            BY ONLY <5>1, <6>1, SMT
          <6>3. tfCli' = [u EXCEPT !.moments = q]
            BY ONLY <5>1, <5>4, <6>1, <6>2, Zenon
          <6> QED BY ONLY <6>2, <6>3, SMT
        <5> QED BY ONLY <5>3, <5>5, Zenon
      <4>3. Copying(tfCli', w)
        BY ONLY <4>2, EmptyTable, SMT DEF Copying
      <4> QED BY <1>1, <2>2, <4>1, <4>3
    <3>2. CASE tfCli.at # "copy"
      <4>1. tfCli' = tfCli
        BY <1>1, <3>2 DEF BackupSees
      <4>2. Copying(tfCli, TfContent')
        BY <2>2, <3>2, Zenon DEF Copying
      <4> QED BY <1>1, <2>2, <4>1, <4>2
    <3> QED BY <3>1, <3>2
  <2>3. CASE tfJob = "packs" /\ Restoring(tfCli, tfWal, tfUp, tfMain.ok)
    BY <2>3 DEF Restoring
  <2>4. CASE tfJob = "rows" /\ Importing(tfCli)
    <3>1. tfCli.at = "import"
      BY <2>4 DEF Importing
    <3> QED BY <1>1, <2>4, <3>1 DEF BackupSees
  <2> QED BY <2>1, <2>2, <2>3, <2>4 DEF FilesInv
<1>5. FilesInv'
  BY <1>1, <1>2, <1>4 DEF FilesInv
<1> QED BY <1>3, <1>5

LEMMA PutIsTable ==
  ASSUME FilesInv, NEW r \in TfRows
  PROVE  IsTable(Slot(Max(DOMAIN TfContent \cup {0}) + 1, r))
<1>1. IsTable(TfContent) /\ IsRow(r)
  BY ContentIsTable, TransferAssumption
<1>2. Max(DOMAIN TfContent \cup {0}) + 1 \in Nat
  BY <1>1, NextId DEF IsTable
<1> QED BY <1>1, <1>2, SlotTable
LEMMA SignIsTable ==
  ASSUME FilesInv, NEW i \in DOMAIN TfContent
  PROVE  IsTable(Slot(i, [TfContent[i] EXCEPT !.sig = 1]))
<1>1. IsTable(TfContent)
  BY ContentIsTable
<1>2. PICK t : t = TfContent[i]
  OBVIOUS
<1>3. i \in Nat /\ t = [uri |-> t.uri, text |-> t.text, title |-> t.title, meta |-> t.meta, sig |-> t.sig, crdt |-> t.crdt]
  BY <1>1, <1>2, Zenon DEF IsTable, IsRow
<1>4. IsRow([t EXCEPT !.sig = 1])
  BY ONLY <1>3, SMT DEF IsRow
<1> QED BY <1>2, <1>3, <1>4, SlotTable

LEMMA BrainKeepsFiles ==
  ASSUME FilesInv, TfOpen \/ TfPut \/ TfSign \/ TfClose \/ TfCrash
  PROVE  FilesInv'
<1>1. CASE TfOpen
  BY <1>1, Zenon DEF TfOpen, FilesInv, TfContent, Restoring
<1>2. CASE TfPut
  BY <1>2, PutIsTable, CommitKeepsFiles DEF TfPut
<1>3. CASE TfSign
  BY <1>3, SignIsTable, CommitKeepsFiles DEF TfSign
<1>4. CASE TfClose
  <2>1. tfMain' = [tfMain EXCEPT !.rows = TfContent] /\ tfWal' = <<>> /\ tfCli' = CliIdle /\ tfPack' = tfPack
    BY <1>4 DEF TfClose
  <2>2. tfMain' = [ok |-> tfMain.ok, rows |-> TfContent]
    BY <2>1 DEF FilesInv
  <2>3. tfMain' = [ok |-> tfMain'.ok, rows |-> tfMain'.rows] /\ IsTable(tfMain'.rows)
    BY <2>2, ContentIsTable
  <2> QED BY <2>1, <2>3, EmptyTable DEF FilesInv
<1>5. CASE TfCrash
  BY <1>5, Zenon DEF TfCrash, FilesInv, TfContent, Restoring
<1> QED BY <1>1, <1>2, <1>3, <1>4, <1>5

\* export: a copy that meets no commit is what the brain held then.
LEMMA BackupKeepsFiles ==
  ASSUME FilesInv, BackupStep
  PROVE  FilesInv'
<1>1. /\ tfCli.at = "copy" /\ tfMain' = tfMain /\ tfWal' = tfWal /\ tfPack' = tfPack /\ tfJob' = tfJob
      /\ TfContent' = TfContent
  BY DEF BackupStep, TfContent
<1>2. tfJob = "packs" /\ Copying(tfCli, TfContent)
  BY <1>1 DEF FilesInv, Restoring, Importing, CliIdle
<1>3. PICK t, w, left : t = tfCli /\ w = TfContent /\ left = DOMAIN w \ DOMAIN t.copied
  OBVIOUS
<1>4. /\ t = [at |-> "copy", kind |-> t.kind, enc |-> t.enc, copied |-> t.copied, moments |-> t.moments]
      /\ IsTable(t.copied) /\ w \in t.moments /\ IsTable(w)
      /\ \A i \in DOMAIN t.copied : i \in DOMAIN w /\ t.copied[i] = w[i]
  BY <1>1, <1>2, <1>3, ContentIsTable DEF Copying
<1>5. Copying(tfCli', w)
  <2>1. CASE left = {}
    <3>1. DOMAIN t.copied = DOMAIN w
      BY ONLY <1>3, <1>4, <2>1, Zenon
    <3>2. t.copied = w
      BY ONLY <1>4, <3>1, SameTables
    <3>3. tfCli' = [t EXCEPT !.at = "create"]
      BY <1>3, <2>1 DEF BackupStep
    <3>4. tfCli' = [at |-> "create", kind |-> t.kind, enc |-> t.enc, copied |-> t.copied, moments |-> t.moments]
      BY ONLY <1>4, <3>3, SMT
    <3> QED BY ONLY <1>4, <3>2, <3>4, SMT DEF Copying
  <2>2. CASE left # {}
    <3>1. PICK k, z : k = Min(left) /\ z = Over(Slot(k, w[k]), t.copied)
      OBVIOUS
    <3>2. k \in left
      <4>1. left \subseteq Nat
        BY ONLY <1>3, <1>4, Zenon DEF IsTable
      <4>2. \E x \in left : \A y \in left : x <= y
        BY ONLY <2>2, <4>1, LeastNat
      <4>3. k = CHOOSE x \in left : \A y \in left : x <= y
        BY <3>1 DEF Min
      <4> QED BY ONLY <4>2, <4>3, Zenon
    <3>3. k \in Nat /\ k \in DOMAIN w /\ IsRow(w[k])
      BY ONLY <1>3, <1>4, <3>2, Zenon DEF IsTable
    <3>4. PICK v : v = Slot(k, w[k])
      OBVIOUS
    <3>5. IsTable(v) /\ DOMAIN v = {k} /\ v[k] = w[k]
      BY ONLY <3>3, <3>4, SlotTable
    <3>6. IsTable(z)
      BY ONLY <1>4, <3>1, <3>4, <3>5, OverTables
    <3>7. Overlays(z, v, t.copied)
      <4>1. z = Over(v, t.copied)
        BY ONLY <3>1, <3>4
      <4> QED BY ONLY <4>1, OverFacts
    <3>8. \A i \in DOMAIN z : i \in DOMAIN w /\ z[i] = w[i]
      BY ONLY <1>4, <3>3, <3>5, <3>7, Zenon DEF Overlays
    <3>9. tfCli' = [t EXCEPT !.copied = z]
      BY <1>3, <2>2, <3>1 DEF BackupStep
    <3>10. tfCli' = [at |-> "copy", kind |-> t.kind, enc |-> t.enc, copied |-> z, moments |-> t.moments]
      BY ONLY <1>4, <3>9, SMT
    <3> QED BY ONLY <1>4, <3>6, <3>8, <3>10, SMT DEF Copying
  <2> QED BY ONLY <2>1, <2>2
<1> QED BY <1>1, <1>2, <1>3, <1>5 DEF FilesInv

LEMMA ExportKeepsFiles ==
  ASSUME FilesInv, ExportStart \/ ExportCreate \/ ExportWrite \/ PackDamage
  PROVE  FilesInv'
<1>1. CASE ExportStart
  <2>1. /\ tfMain' = tfMain /\ tfWal' = tfWal /\ tfPack' = tfPack /\ tfJob' = tfJob /\ tfJob = "packs"
        /\ TfContent' = TfContent
    BY <1>1 DEF ExportStart, Command, TfContent
  <2>2. PICK kind, enc : tfCli' = [at |-> "copy", kind |-> kind, enc |-> enc, copied |-> <<>>, moments |-> {TfContent}]
    BY <1>1, Zenon DEF ExportStart
  <2>3. Copying(tfCli', TfContent)
    <3>1. PICK w, e, q : w = TfContent /\ e = <<>> /\ q = {w}
      OBVIOUS
    <3>2. tfCli' = [at |-> "copy", kind |-> kind, enc |-> enc, copied |-> e, moments |-> q] /\ w \in q
      BY ONLY <2>2, <3>1, Zenon
    <3>3. IsTable(e) /\ DOMAIN e = {}
      BY ONLY <3>1, EmptyTable
    <3>4. Copying(tfCli', w)
      BY ONLY <3>2, <3>3, SMT DEF Copying
    <3> QED BY ONLY <3>1, <3>4, Zenon
  <2> QED BY <2>1, <2>3 DEF FilesInv
<1>2. CASE ExportCreate
  <2>1. /\ tfMain' = tfMain /\ tfWal' = tfWal /\ tfPack' = TornPack /\ tfJob' = tfJob
        /\ TfContent' = TfContent /\ tfCli.at = "create" /\ tfCli' = [tfCli EXCEPT !.at = "write"]
    BY <1>2 DEF ExportCreate, TfContent
  <2>2. tfJob = "packs" /\ Copying(tfCli, TfContent)
    BY <2>1 DEF FilesInv, Restoring, Importing, CliIdle
  <2>3. PICK t : t = tfCli
    OBVIOUS
  <2>4. /\ t = [at |-> "create", kind |-> t.kind, enc |-> t.enc, copied |-> t.copied, moments |-> t.moments]
        /\ IsTable(t.copied) /\ t.copied \in t.moments
    BY ONLY <2>1, <2>2, <2>3, Zenon DEF Copying
  <2>5. tfCli' = [at |-> "write", kind |-> t.kind, enc |-> t.enc, copied |-> t.copied, moments |-> t.moments]
    BY ONLY <2>1, <2>3, <2>4, SMT
  <2>6. Copying(tfCli', TfContent)
    BY ONLY <2>4, <2>5, SMT DEF Copying
  <2> QED BY <2>1, <2>2, <2>6 DEF FilesInv
<1>3. CASE ExportWrite
  <2>1. /\ tfMain' = tfMain /\ tfWal' = tfWal /\ tfJob' = tfJob /\ tfCli' = CliIdle
        /\ tfPack' = WholePack(tfCli.kind, tfCli.enc, tfCli.copied, tfCli.moments) /\ tfCli.at = "write"
    BY <1>3 DEF ExportWrite
  <2>2. Copying(tfCli, TfContent)
    BY <2>1 DEF FilesInv, Restoring, Importing, CliIdle
  <2>3. IsTable(tfCli.copied) /\ tfCli.copied \in tfCli.moments
    BY ONLY <2>1, <2>2, Zenon DEF Copying
  <2>4. IsPack(tfPack')
    BY ONLY <2>1, <2>3, SMT DEF IsPack, WholePack
  <2> QED BY <2>1, <2>4 DEF FilesInv
<1>4. CASE PackDamage
  <2>1. PICK p : p = tfPack
    OBVIOUS
  <2>2. IsPack(p)
    BY <1>4, <2>1 DEF PackDamage, FilesInv, NoPack, TornPack
  <2>3. PICK z : z = [i \in DOMAIN p.body |-> [p.body[i] EXCEPT !.text = -i]]
    OBVIOUS
  <2>4. tfPack' = [p EXCEPT !.body = z]
    BY <1>4, <2>1, <2>3 DEF PackDamage
  <2>5. IsTable(z)
    <3>1. DOMAIN z = DOMAIN p.body
      BY ONLY <2>3, Zenon
    <3>2. z = [i \in DOMAIN z |-> z[i]]
      BY ONLY <2>3, SMT
    <3>3. ASSUME NEW i \in DOMAIN z PROVE IsRow(z[i])
      <4>1. PICK x, v : x = p.body[i] /\ v = -i
        OBVIOUS
      <4>2. x = [uri |-> x.uri, text |-> x.text, title |-> x.title, meta |-> x.meta, sig |-> x.sig, crdt |-> x.crdt]
        BY ONLY <2>2, <3>1, <3>3, <4>1, Zenon DEF IsPack, IsTable, IsRow
      <4>3. z[i] = [x EXCEPT !.text = v]
        BY ONLY <2>3, <3>1, <3>3, <4>1, Zenon
      <4> QED BY ONLY <4>2, <4>3, SMT DEF IsRow
    <3> QED BY ONLY <2>2, <3>1, <3>2, <3>3, Zenon DEF IsPack, IsTable
  <2>6. /\ p = [state |-> "whole", kind |-> p.kind, enc |-> p.enc, body |-> p.body, hash |-> p.hash, moments |-> p.moments]
        /\ p.hash \in p.moments
    BY ONLY <2>2, Zenon DEF IsPack
  <2>7. tfPack' = [state |-> "whole", kind |-> p.kind, enc |-> p.enc, body |-> z, hash |-> p.hash, moments |-> p.moments]
    BY ONLY <2>4, <2>6, SMT
  <2>8. IsPack(tfPack')
    BY ONLY <2>5, <2>6, <2>7, SMT DEF IsPack
  <2>9. UNCHANGED <<tfMain, tfWal, tfUp, tfCli, tfJob>>
    BY <1>4 DEF PackDamage
  <2> QED BY <2>8, <2>9 DEF FilesInv, TfContent
<1> QED BY <1>1, <1>2, <1>3, <1>4

\* import: what is accepted is what was packed.
LEMMA RestoreKeepsFiles ==
  ASSUME FilesInv, RestoreBegin \/ RestoreWrite
  PROVE  FilesInv' /\ (tfLast' = NoResult \/ (tfLast'.what = "restored" /\ (tfLast'.sure => tfLast'.rows \in tfLast'.moments)))
<1>1. CASE RestoreBegin
  <2>1. /\ tfMain' = [ok |-> FALSE, rows |-> <<>>] /\ tfLast' = NoResult
        /\ UNCHANGED <<tfWal, tfUp, tfPack, tfJob>> /\ tfJob = "packs"
    BY <1>1 DEF RestoreBegin, Command
  <2>2. PICK how, pass : /\ Accepts(how, pass)
                         /\ tfCli' = [at |-> "restore", image |-> tfPack.body, moments |-> tfPack.moments,
                                      clean |-> tfWal = <<>> /\ ~tfUp]
    BY <1>1, Zenon DEF RestoreBegin
  <2>3. IsPack(tfPack)
    BY <2>2 DEF Accepts, FilesInv, NoPack, TornPack
  <2>4. PICK c : c = (tfWal = <<>> /\ ~tfUp)
    OBVIOUS
  <2>5. tfPack.body = tfPack.hash
    BY <2>2 DEF Accepts, import_magic, import_signed, import_raw
  <2>6. IsTable(tfPack.body) /\ tfPack.hash \in tfPack.moments
    BY ONLY <2>3, Zenon DEF IsPack
  <2>7. tfCli' = [at |-> "restore", image |-> tfPack.body, moments |-> tfPack.moments, clean |-> c]
    BY ONLY <2>2, <2>4, Zenon
  <2>8. Restoring(tfCli', tfWal, tfUp, FALSE)
    <3>1. PICK t : t = tfCli'
      OBVIOUS
    <3>2. t.image = tfPack.body /\ t.moments = tfPack.moments /\ t.clean = c
      BY ONLY <2>7, <3>1, Zenon
    <3>3. t = [at |-> "restore", image |-> t.image, moments |-> t.moments, clean |-> t.clean]
      BY ONLY <2>7, <3>1, <3>2, Zenon
    <3>4. t.image \in t.moments
      BY ONLY <2>5, <2>6, <3>2, Zenon
    <3>5. t.clean => tfWal = <<>> /\ ~tfUp
      BY ONLY <2>4, <3>2, Zenon
    <3>6. Restoring(t, tfWal, tfUp, FALSE)
      BY ONLY <2>6, <3>2, <3>3, <3>4, <3>5, Zenon DEF Restoring
    <3> QED BY ONLY <3>1, <3>6, Zenon
  <2>9. tfMain' = [ok |-> tfMain'.ok, rows |-> tfMain'.rows] /\ IsTable(tfMain'.rows) /\ tfMain'.ok = FALSE
    BY ONLY <2>1, EmptyTable
  <2>10. FilesInv'
    BY <2>1, <2>8, <2>9 DEF FilesInv
  <2> QED BY ONLY <2>1, <2>10
<1>2. CASE RestoreWrite
  <2>1. PICK c : c = tfCli
    OBVIOUS
  <2>2. Restoring(c, tfWal, tfUp, tfMain.ok)
    BY <1>2, <2>1 DEF RestoreWrite, FilesInv, Copying, Importing, CliIdle
  <2>3. PICK rows : rows = Over(tfWal, c.image)
    OBVIOUS
  <2>4. /\ tfMain' = [ok |-> TRUE, rows |-> IF tfUp THEN c.image ELSE rows]
        /\ tfWal' = IF tfUp THEN tfWal ELSE <<>>
        /\ tfLast' = [what |-> "restored", rows |-> rows, moments |-> c.moments, sure |-> c.clean]
        /\ tfCli' = CliIdle /\ tfPack' = tfPack
    BY <1>2, <2>1, <2>3 DEF RestoreWrite
  <2>5. IsTable(c.image) /\ IsTable(rows) /\ IsTable(tfWal)
    BY <2>2, <2>3, OverTables DEF Restoring, FilesInv
  <2>6. tfMain' = [ok |-> tfMain'.ok, rows |-> tfMain'.rows] /\ IsTable(tfMain'.rows)
    BY ONLY <2>4, <2>5
  <2>7. IsTable(tfWal')
    BY ONLY <2>4, <2>5, EmptyTable
  <2>8. FilesInv'
    BY <2>4, <2>6, <2>7 DEF FilesInv
  <2>9. ASSUME c.clean PROVE rows \in c.moments
    <3>1. tfWal = <<>> /\ c.image \in c.moments
      BY <2>2, <2>9 DEF Restoring
    <3>2. rows = c.image
      BY <2>3, <2>5, <3>1, OverEmpty DEF IsTable
    <3> QED BY <3>1, <3>2
  <2>10. tfLast'.what = "restored" /\ tfLast'.rows = rows /\ tfLast'.moments = c.moments /\ (tfLast'.sure => c.clean)
    BY ONLY <2>4, Zenon
  <2> QED BY ONLY <2>8, <2>9, <2>10, Zenon
<1> QED BY <1>1, <1>2

LEMMA MergeKeepsFiles ==
  ASSUME FilesInv, MergePacks
  PROVE  /\ FilesInv'
         /\ \E a, b, out : IsTable(a) /\ b \in TfPeers /\ out = merge_packs(a, b) /\ tfLast' = [what |-> "merged", a |-> a, b |-> b, out |-> out]
<1>1. PICK b, out : /\ b \in TfPeers /\ out = merge_packs(tfPack.body, b)
                    /\ tfLast' = [what |-> "merged", a |-> tfPack.body, b |-> b, out |-> out]
                    /\ tfPack' = WholePack("plain", FALSE, out, {out})
  BY Zenon DEF MergePacks
<1>2. IsPack(tfPack)
  BY DEF MergePacks, Accepts, FilesInv, NoPack, TornPack
<1>3. IsTable(tfPack.body)
  BY ONLY <1>2, Zenon DEF IsPack
<1>4. IsTable(out)
  <2>1. Merged(tfPack.body, b, out)
    BY ONLY <1>1, <1>3, MergesPacks
  <2> QED BY ONLY <2>1, Zenon DEF Merged
<1>5. IsPack(tfPack')
  <2>1. PICK q : q = {out}
    OBVIOUS
  <2>2. tfPack' = [state |-> "whole", kind |-> "plain", enc |-> FALSE, body |-> out, hash |-> out, moments |-> q] /\ out \in q
    BY ONLY <1>1, <2>1, Zenon DEF WholePack
  <2> QED BY ONLY <1>4, <2>2, SMT DEF IsPack
<1>6. UNCHANGED <<tfMain, tfWal, tfUp, tfCli, tfJob>>
  BY DEF MergePacks, Command
<1>7. FilesInv'
  BY <1>5, <1>6 DEF FilesInv, TfContent
<1> QED BY <1>1, <1>3, <1>7, Zenon

LEMMA RestKeepsFiles ==
  ASSUME FilesInv, ExportRows \/ ImportStart \/ ImportPut \/ CliCrash \/ \E c \in TfConns : SnapCopy(c) \/ SnapCreate(c) \/ SnapWrite(c) \/ SnapMerged(c) \/ SnapRemove(c)
  PROVE  FilesInv'
<1>1. CASE ExportRows
  <2>1. UNCHANGED <<tfMain, tfWal, tfUp, tfPack, tfCli, tfJob>>
    BY <1>1 DEF ExportRows, Command
  <2> QED BY <2>1, FilesFrame
<1>2. CASE ImportStart
  <2>1. /\ UNCHANGED <<tfMain, tfWal, tfUp, tfPack, tfJob>> /\ tfJob = "rows"
        /\ tfCli' = IF JsonParses(tfFile) THEN [at |-> "import", todo |-> Requests(tfFile)] ELSE CliIdle
    BY <1>2 DEF ImportStart, Command
  <2>2. tfCli' = CliIdle \/ Importing(tfCli')
    BY ONLY <2>1 DEF Importing
  <2> QED BY <2>1, <2>2 DEF FilesInv
<1>3. CASE ImportPut
  <2>1. UNCHANGED <<tfMain, tfWal, tfUp, tfPack, tfJob>> /\ tfCli.at = "import"
    BY <1>3 DEF ImportPut
  <2>2. tfJob = "rows" /\ Importing(tfCli)
    BY <2>1 DEF FilesInv, Restoring, Copying, CliIdle
  <2>3. tfCli' = CliIdle \/ tfCli' = [tfCli EXCEPT !.todo = Tail(tfCli.todo)]
    BY <1>3, Zenon DEF ImportPut
  <2>4. tfCli' = CliIdle \/ Importing(tfCli')
    BY ONLY <2>2, <2>3 DEF Importing
  <2> QED BY <2>1, <2>2, <2>4 DEF FilesInv
<1>4. CASE CliCrash
  <2>1. UNCHANGED <<tfMain, tfWal, tfUp, tfPack, tfJob>> /\ tfCli' = CliIdle
    BY <1>4 DEF CliCrash
  <2> QED BY <2>1 DEF FilesInv
<1>5. CASE \E c \in TfConns : SnapCopy(c) \/ SnapCreate(c) \/ SnapWrite(c) \/ SnapMerged(c) \/ SnapRemove(c)
  <2>1. UNCHANGED <<tfMain, tfWal, tfUp, tfPack, tfCli, tfJob>>
    BY <1>5, Zenon DEF SnapCopy, SnapCreate, SnapWrite, SnapMerged, SnapRemove, SnapFrame, Command
  <2> QED BY <2>1, FilesFrame
<1> QED BY <1>1, <1>2, <1>3, <1>4, <1>5

-----------------------------------------------------------------------------
\* Where no pack is restored, the brain keeps UNIQUE and stays readable.
QuietInv == tfJob # "packs" => UniqueRows(TfContent) /\ tfMain.ok

LEMMA PutIsUnique ==
  ASSUME NEW w, IsTable(w), UniqueRows(w), NEW r, ~Known(w, r), ~UriTaken(w, r), NEW n, n \notin DOMAIN w,
         NEW z, z = Over(Slot(n, r), w)
  PROVE  UniqueRows(z)
<1>1. PICK v : v = Slot(n, r)
  OBVIOUS
<1>2. DOMAIN v = {n} /\ v[n] = r
  BY <1>1, Zenon DEF Slot
<1>3. Overlays(z, v, w)
  <2>1. z = Over(v, w)
    BY ONLY <1>1, Zenon, z = Over(Slot(n, r), w)
  <2> QED BY ONLY <2>1, OverFacts
<1>4. DOMAIN z = {n} \cup DOMAIN w /\ z[n] = r /\ \A i \in DOMAIN w : z[i] = w[i]
  BY ONLY <1>2, <1>3, n \notin DOMAIN w, Zenon DEF Overlays
<1>5. \A i \in DOMAIN w : w[i].text # r.text /\ (r.uri # None => w[i].uri # r.uri)
  BY Zenon DEF Known, UriTaken
<1>6. SUFFICES ASSUME NEW i \in DOMAIN z, NEW j \in DOMAIN z, i # j
      PROVE  z[i].text # z[j].text /\ (z[i].uri # None => z[i].uri # z[j].uri)
  BY DEF UniqueRows
<1>7. CASE i = n
  BY ONLY <1>4, <1>5, <1>6, <1>7, Zenon
<1>8. CASE j = n
  BY ONLY <1>4, <1>5, <1>6, <1>8, Zenon
<1>9. CASE i # n /\ j # n
  <2>1. i \in DOMAIN w /\ j \in DOMAIN w
    BY ONLY <1>4, <1>6, <1>9, Zenon
  <2> QED BY <1>4, <1>6, <2>1, Zenon DEF UniqueRows
<1> QED BY <1>7, <1>8, <1>9

LEMMA SignIsUnique ==
  ASSUME NEW w, IsTable(w), UniqueRows(w), NEW i \in DOMAIN w, NEW z, z = Over(Slot(i, [w[i] EXCEPT !.sig = 1]), w)
  PROVE  UniqueRows(z)
<1>1. PICK t : t = w[i]
  OBVIOUS
<1>2. t = [uri |-> t.uri, text |-> t.text, title |-> t.title, meta |-> t.meta, sig |-> t.sig, crdt |-> t.crdt]
  BY <1>1, Zenon DEF IsTable, IsRow
<1>3. PICK x : x = [t EXCEPT !.sig = 1]
  OBVIOUS
<1>4. x.text = t.text /\ x.uri = t.uri
  BY ONLY <1>2, <1>3, SMT
<1>5. PICK v : v = Slot(i, x)
  OBVIOUS
<1>6. DOMAIN v = {i} /\ v[i] = x
  BY ONLY <1>5, Zenon DEF Slot
<1>7. Overlays(z, v, w)
  <2>1. z = Over(v, w)
    BY <1>1, <1>3, <1>5
  <2> QED BY ONLY <2>1, OverFacts
<1>8. DOMAIN z = DOMAIN w /\ \A j \in DOMAIN w : z[j].text = w[j].text /\ z[j].uri = w[j].uri
  BY <1>1, <1>4, <1>6, <1>7, Zenon DEF Overlays
<1>9. \A j, k \in DOMAIN w : j # k => w[j].text # w[k].text /\ (w[j].uri # None => w[j].uri # w[k].uri)
  BY DEF UniqueRows
<1>10. ASSUME NEW j \in DOMAIN z, NEW k \in DOMAIN z, j # k
       PROVE  z[j].text # z[k].text /\ (z[j].uri # None => z[j].uri # z[k].uri)
  <2>1. j \in DOMAIN w /\ k \in DOMAIN w
    BY ONLY <1>8, <1>10
  <2>2. z[j].text = w[j].text /\ z[j].uri = w[j].uri /\ z[k].text = w[k].text /\ z[k].uri = w[k].uri
    BY ONLY <1>8, <2>1, Zenon
  <2>3. w[j].text # w[k].text /\ (w[j].uri # None => w[j].uri # w[k].uri)
    BY ONLY <1>9, <1>10, <2>1, Zenon
  <2> QED BY ONLY <2>2, <2>3, Zenon
<1> QED BY ONLY <1>10, Zenon DEF UniqueRows

\* What a step can do to the rows of a brain that is not restored.
PutMoves ==
    \E r \in TfRows : /\ ~Known(TfContent, r) /\ ~UriTaken(TfContent, r)
                      /\ TfContent' = Over(Slot(Max(DOMAIN TfContent \cup {0}) + 1, r), TfContent)
SignMoves ==
    tfJob # "snap" /\ \E i \in DOMAIN TfContent : TfContent' = Over(Slot(i, [TfContent[i] EXCEPT !.sig = 1]), TfContent)
ContentMoves ==
    /\ tfJob' = tfJob
    /\ tfJob # "packs" => (tfMain.ok => tfMain'.ok) /\ (TfContent' = TfContent \/ PutMoves \/ SignMoves)

SnapStep == \E c \in TfConns : SnapCopy(c) \/ SnapCreate(c) \/ SnapWrite(c) \/ SnapMerged(c) \/ SnapRemove(c)

LEMMA StepsMoveContent ==
  ASSUME FilesInv, TransferNext
  PROVE  ContentMoves
<1>1. CASE UNCHANGED <<tfJob, tfMain, tfWal>>
  BY <1>1 DEF ContentMoves, TfContent
<1>2. CASE TfPut
  <2>1. PICK r \in TfRows : /\ ~Known(TfContent, r) /\ ~UriTaken(TfContent, r)
                           /\ Commit(Slot(Max(DOMAIN TfContent \cup {0}) + 1, r))
    BY <1>2 DEF TfPut
  <2>2. tfMain.ok
    BY <1>2 DEF TfPut
  <2>3. TfContent' = Over(Slot(Max(DOMAIN TfContent \cup {0}) + 1, r), TfContent)
    BY <2>1, <2>2, PutIsTable, CommitKeepsFiles
  <2>4. tfJob' = tfJob /\ tfMain' = tfMain
    BY <2>1 DEF Commit
  <2>5. PutMoves
    BY <2>1, <2>3 DEF PutMoves
  <2> QED BY <2>4, <2>5 DEF ContentMoves
<1>3. CASE TfSign
  <2>1. PICK i \in DOMAIN TfContent : Commit(Slot(i, [TfContent[i] EXCEPT !.sig = 1]))
    BY <1>3 DEF TfSign
  <2>2. tfMain.ok /\ tfJob # "snap"
    BY <1>3 DEF TfSign
  <2>3. TfContent' = Over(Slot(i, [TfContent[i] EXCEPT !.sig = 1]), TfContent)
    BY <2>1, <2>2, SignIsTable, CommitKeepsFiles
  <2>4. tfJob' = tfJob /\ tfMain' = tfMain
    BY <2>1 DEF Commit
  <2>5. SignMoves
    BY <2>2, <2>3 DEF SignMoves
  <2> QED BY <2>4, <2>5 DEF ContentMoves
<1>4. CASE TfClose
  <2>1. tfMain' = [tfMain EXCEPT !.rows = TfContent] /\ tfWal' = <<>> /\ tfJob' = tfJob
    BY <1>4 DEF TfClose
  <2>2. tfMain' = [ok |-> tfMain.ok, rows |-> TfContent]
    BY <2>1 DEF FilesInv
  <2>3. tfMain'.ok = tfMain.ok /\ tfMain'.rows = TfContent
    BY <2>2
  <2>4. TfContent' = Over(<<>>, TfContent)
    BY <2>1, <2>3 DEF TfContent
  <2>5. Over(<<>>, TfContent) = TfContent
    BY ContentIsTable, OverEmpty DEF IsTable
  <2> QED BY <2>1, <2>3, <2>4, <2>5 DEF ContentMoves
<1>5. CASE RestoreBegin
  BY <1>5 DEF RestoreBegin, Command, ContentMoves
<1>6. CASE RestoreWrite
  <2>1. tfCli.at = "restore" /\ tfJob' = tfJob
    BY <1>6 DEF RestoreWrite
  <2>2. tfJob = "packs"
    BY <2>1 DEF FilesInv, Importing, Copying, CliIdle
  <2> QED BY <2>1, <2>2 DEF ContentMoves
<1>7. CASE SnapStep
  BY <1>1, <1>7, Zenon DEF SnapStep, SnapCopy, SnapCreate, SnapWrite, SnapMerged, SnapRemove, SnapFrame, Command
<1>8. CASE TfOpen \/ TfCrash \/ BackupStep \/ ExportCreate \/ ExportWrite \/ PackDamage \/ ImportPut \/ CliCrash
  BY <1>1, <1>8, Zenon DEF TfOpen, TfCrash, BackupStep, ExportCreate, ExportWrite, PackDamage, ImportPut, CliCrash
<1>9. CASE ExportStart \/ MergePacks \/ ExportRows \/ ImportStart
  BY <1>1, <1>9, Zenon DEF ExportStart, MergePacks, ExportRows, ImportStart, Command
<1> QED BY <1>2, <1>3, <1>4, <1>5, <1>6, <1>7, <1>8, <1>9 DEF TransferNext, SnapStep

LEMMA QuietStays ==
  ASSUME FilesInv, QuietInv, ContentMoves
  PROVE  QuietInv'
<1>1. SUFFICES ASSUME tfJob' # "packs" PROVE UniqueRows(TfContent') /\ tfMain'.ok
  BY DEF QuietInv
<1>2. /\ tfJob # "packs" /\ tfMain'.ok /\ UniqueRows(TfContent)
      /\ TfContent' = TfContent \/ PutMoves \/ SignMoves
  BY <1>1 DEF ContentMoves, QuietInv
<1>3. IsTable(TfContent)
  BY ContentIsTable
<1>4. CASE PutMoves
  <2>1. PICK r \in TfRows : /\ ~Known(TfContent, r) /\ ~UriTaken(TfContent, r)
                           /\ TfContent' = Over(Slot(Max(DOMAIN TfContent \cup {0}) + 1, r), TfContent)
    BY <1>4 DEF PutMoves
  <2>2. PICK w, z, n : w = TfContent /\ z = TfContent' /\ n = Max(DOMAIN TfContent \cup {0}) + 1
    OBVIOUS
  <2>3. n \notin DOMAIN w
    <3>1. IsFiniteSet(DOMAIN w) /\ DOMAIN w \subseteq Nat
      BY <1>3, <2>2 DEF IsTable
    <3>2. n \in Nat \ {0} /\ \A i \in DOMAIN w : i < n
      BY <2>2, <3>1, NextId
    <3> QED BY ONLY <3>1, <3>2
  <2>4. UniqueRows(z)
    BY ONLY <1>2, <1>3, <2>1, <2>2, <2>3, PutIsUnique
  <2> QED BY <1>2, <2>2, <2>4
<1>5. CASE SignMoves
  <2>1. PICK i \in DOMAIN TfContent : TfContent' = Over(Slot(i, [TfContent[i] EXCEPT !.sig = 1]), TfContent)
    BY <1>5 DEF SignMoves
  <2>2. UniqueRows(TfContent')
    BY ONLY <1>2, <1>3, <2>1, SignIsUnique
  <2> QED BY <1>2, <2>2
<1> QED BY <1>2, <1>4, <1>5

(* SnapMerge: copies are nested, and a request never meets less than the    *)
(* oldest running one came with.                                            *)
Prefix(f, w) ==
    /\ IsTable(f) /\ \E k \in Nat : DOMAIN f = 1..k
    /\ \A i \in DOMAIN f : i \in DOMAIN w /\ f[i] = w[i]
Running(call) == call.at \in {"create", "write", "merge"}
Opened(call) == call.at \in {"write", "merge"}
IsCall(call, w) ==
    \/ call = CliIdle \/ call = [at |-> "remove"]
    \/ /\ Running(call) /\ Prefix(call.copy, w) /\ Prefix(call.floor, w) /\ call.peer \in TfPeers
       /\ Opened(call) => call = [at |-> call.at, copy |-> call.copy, floor |-> call.floor, peer |-> call.peer, ino |-> call.ino]
Under(f, g) == DOMAIN f \subseteq DOMAIN g
SnapShape(s) == s = [tmp |-> s.tmp, made |-> s.made, call |-> s.call] /\ s.call = [c \in TfConns |-> s.call[c]]
SnapHolds(s, w) ==
    /\ \A c \in TfConns : IsCall(s.call[c], w)
    /\ \A c, d \in TfConns : Running(s.call[c]) /\ Running(s.call[d]) => Under(s.call[c].floor, s.call[d].copy)
    /\ s.tmp.ok => Prefix(s.tmp.rows, w) /\ \A c \in TfConns : Opened(s.call[c]) => Under(s.call[c].floor, s.tmp.rows)
    /\ \E n \in Nat : DOMAIN w = 1..n
SnapInv ==
    /\ SnapShape(tfSnap)
    /\ tfJob # "snap" => \A c \in TfConns : tfSnap.call[c] = CliIdle
    /\ tfJob = "snap" => SnapHolds(tfSnap, TfContent)

LEMMA SnapInit == TransferInit => SnapInv /\ QuietInv
<1> SUFFICES ASSUME TransferInit PROVE SnapInv /\ QuietInv
  OBVIOUS
<1>1. PICK q, s : q = [c \in TfConns |-> CliIdle] /\ s = tfSnap
  OBVIOUS
<1>2. s = [tmp |-> NoTmp, made |-> 0, call |-> q]
  BY <1>1 DEF TransferInit
<1>3. s.call = q /\ s.tmp = NoTmp /\ s = [tmp |-> s.tmp, made |-> s.made, call |-> s.call]
  BY ONLY <1>2
<1>4. q = [c \in TfConns |-> q[c]] /\ \A c \in TfConns : q[c] = CliIdle
  BY ONLY <1>1, Zenon
<1>5. ~NoTmp.ok /\ CliIdle.at = "idle"
  BY DEF NoTmp, CliIdle
<1>6. tfMain.ok /\ TfContent = Over(<<>>, <<>>)
  BY DEF TransferInit, TfContent
<1>7. Over(<<>>, <<>>) = <<>>
  BY EmptyTable, OverEmpty DEF IsTable
<1>8. DOMAIN TfContent = {} /\ {} = 1..0
  BY <1>6, <1>7, EmptyTable
<1>9. \E n \in Nat : DOMAIN TfContent = 1..n
  BY ONLY <1>8
<1>10. ~Running(CliIdle) /\ ~Opened(CliIdle)
  BY ONLY <1>5 DEF Running, Opened
<1>11. SnapHolds(s, TfContent)
  BY ONLY <1>3, <1>4, <1>5, <1>9, <1>10, Zenon DEF SnapHolds, IsCall
<1>12. SnapShape(s)
  BY ONLY <1>3, <1>4, Zenon DEF SnapShape
<1>13. SnapInv
  BY <1>1, <1>3, <1>4, <1>11, <1>12 DEF SnapInv
<1>14. UniqueRows(TfContent)
  BY ONLY <1>8, Zenon DEF UniqueRows
<1> QED BY <1>6, <1>13, <1>14 DEF QuietInv

LEMMA PrefixGrows ==
  ASSUME NEW f, NEW w, NEW z, Prefix(f, w), \A i \in DOMAIN w : i \in DOMAIN z /\ z[i] = w[i]
  PROVE  Prefix(f, z)
  BY Zenon DEF Prefix

\* The brain grows, the requests stand.
LEMMA SnapGrows ==
  ASSUME NEW s, NEW w, NEW z, SnapHolds(s, w), \A i \in DOMAIN w : i \in DOMAIN z /\ z[i] = w[i],
         \E n \in Nat : DOMAIN z = 1..n
  PROVE  SnapHolds(s, z)
<1>1. \A f : Prefix(f, w) => Prefix(f, z)
  BY PrefixGrows
<1>2. \A c \in TfConns : IsCall(s.call[c], z)
  <2>1. ASSUME NEW c \in TfConns PROVE IsCall(s.call[c], z)
    <3>1. IsCall(s.call[c], w)
      BY <2>1 DEF SnapHolds
    <3> QED BY ONLY <1>1, <3>1, Zenon DEF IsCall
  <2> QED BY <2>1
<1> QED BY <1>1, <1>2, Zenon DEF SnapHolds

\* One request moves on.
Fits(x, s, c) ==
    Running(x) => /\ Under(x.floor, x.copy)
                  /\ \A d \in TfConns : d # c /\ Running(s.call[d]) => Under(x.floor, s.call[d].copy) /\ Under(s.call[d].floor, x.copy)
Leaves(x, tmp, s, w, c) ==
    tmp.ok => /\ Prefix(tmp.rows, w) /\ (Opened(x) => Under(x.floor, tmp.rows))
              /\ \A d \in TfConns : d # c /\ Opened(s.call[d]) => Under(s.call[d].floor, tmp.rows)
LEMMA CallMoves ==
  ASSUME NEW s, NEW w, SnapShape(s), SnapHolds(s, w), NEW c \in TfConns, NEW x, NEW tmp, NEW made, NEW t,
         t = [tmp |-> tmp, made |-> made, call |-> [s.call EXCEPT ![c] = x]],
         IsCall(x, w), Fits(x, s, c), Leaves(x, tmp, s, w, c)
  PROVE  SnapShape(t) /\ SnapHolds(t, w)
<1>1. PICK q : q = [s.call EXCEPT ![c] = x]
  OBVIOUS
<1>2. s.call = [d \in TfConns |-> s.call[d]]
  BY DEF SnapShape
<1>3. q = [d \in TfConns |-> q[d]] /\ q[c] = x /\ \A d \in TfConns : d # c => q[d] = s.call[d]
  BY ONLY <1>1, <1>2, c \in TfConns
<1>4. t = [tmp |-> tmp, made |-> made, call |-> q]
  BY <1>1
<1>5. t.call = q /\ t.tmp = tmp /\ t = [tmp |-> t.tmp, made |-> t.made, call |-> t.call]
  BY ONLY <1>4
<1>6. SnapShape(t)
  BY ONLY <1>3, <1>5, Zenon DEF SnapShape
<1>7. ASSUME NEW d \in TfConns PROVE IsCall(q[d], w)
  BY <1>3, <1>7, Zenon DEF SnapHolds
<1>8. ASSUME NEW d \in TfConns, NEW e \in TfConns, Running(q[d]), Running(q[e]) PROVE Under(q[d].floor, q[e].copy)
  <2>1. CASE d = c /\ e = c
    BY <1>3, <1>8, <2>1, Zenon DEF Fits
  <2>2. CASE d = c /\ e # c
    BY <1>3, <1>8, <2>2, Zenon DEF Fits
  <2>3. CASE d # c /\ e = c
    BY <1>3, <1>8, <2>3, Zenon DEF Fits
  <2>4. CASE d # c /\ e # c
    BY <1>3, <1>8, <2>4, Zenon DEF SnapHolds
  <2> QED BY <2>1, <2>2, <2>3, <2>4
<1>9. ASSUME tmp.ok PROVE Prefix(tmp.rows, w) /\ \A d \in TfConns : Opened(q[d]) => Under(q[d].floor, tmp.rows)
  BY <1>3, <1>9, Zenon DEF Leaves
<1>10. \E n \in Nat : DOMAIN w = 1..n
  BY DEF SnapHolds
<1>11. SnapHolds(t, w)
  BY ONLY <1>5, <1>7, <1>8, <1>9, <1>10, Zenon DEF SnapHolds
<1> QED BY ONLY <1>6, <1>11

\* What was there when the oldest running request came.
Oldest(copies, w) == CHOOSE h \in copies \cup {w} : \A g \in copies : Under(h, g)
LEMMA OldestIsUnderAll ==
  ASSUME NEW w, NEW copies, Prefix(w, w), \A g \in copies : Prefix(g, w), NEW f,
         f = Oldest(copies, w)
  PROVE  Prefix(f, w) /\ Under(f, w) /\ \A g \in copies : Under(f, g)
<1>1. \E h \in copies \cup {w} : \A g \in copies : Under(h, g)
  <2>1. CASE copies = {}
    BY ONLY <2>1, Zenon
  <2>2. CASE copies # {}
    <3>1. PICK T : T = {k \in Nat : \E g \in copies : DOMAIN g = 1..k}
      OBVIOUS
    <3>2. \A g \in copies : \E k \in Nat : DOMAIN g = 1..k
      BY Zenon DEF Prefix
    <3>3. T \subseteq Nat /\ T # {}
      BY ONLY <2>2, <3>1, <3>2, Zenon
    <3>4. PICK k \in T : \A j \in T : k <= j
      BY ONLY <3>3, LeastNat
    <3>5. PICK h \in copies : DOMAIN h = 1..k
      BY ONLY <3>1, <3>4, Zenon
    <3>6. ASSUME NEW g \in copies PROVE Under(h, g)
      <4>1. PICK j \in Nat : DOMAIN g = 1..j
        BY ONLY <3>2, <3>6
      <4>2. j \in T
        BY ONLY <3>1, <3>6, <4>1, Zenon
      <4>3. k \in Nat /\ k <= j
        BY ONLY <3>3, <3>4, <4>2, Zenon
      <4>4. 1..k \subseteq 1..j
        BY ONLY <4>1, <4>3
      <4> QED BY ONLY <3>5, <4>1, <4>4, Zenon DEF Under
    <3> QED BY ONLY <3>5, <3>6, Zenon
  <2> QED BY <2>1, <2>2
<1>2. f \in copies \cup {w} /\ \A g \in copies : Under(f, g)
  BY <1>1, Zenon DEF Oldest
<1>3. Prefix(f, w)
  BY <1>2, Zenon
<1> QED BY <1>2, <1>3, Zenon DEF Prefix, Under

SnapKept == SnapShape(tfSnap') /\ SnapHolds(tfSnap', TfContent)

LEMMA SnapCopied ==
  ASSUME FilesInv, SnapInv, tfJob = "snap", NEW c \in TfConns, SnapCopy(c)
  PROVE  SnapKept
<1>1. PICK s, w, f : s = tfSnap /\ w = TfContent /\ f = SnapOldest
  OBVIOUS
<1>2. SnapShape(s) /\ SnapHolds(s, w) /\ IsTable(w)
  BY <1>1, ContentIsTable DEF SnapInv
<1>3. PICK b \in TfPeers :
        SnapCall(c, [at |-> "create", copy |-> TfContent, floor |-> SnapOldest, peer |-> b], tfSnap.tmp, tfSnap.made)
  BY DEF SnapCopy
<1>4. PICK x : x = [at |-> "create", copy |-> w, floor |-> f, peer |-> b]
  OBVIOUS
<1>5. tfSnap' = [tmp |-> s.tmp, made |-> s.made, call |-> [s.call EXCEPT ![c] = x]]
  BY <1>1, <1>3, <1>4 DEF SnapCall
<1>6. PICK copies : copies = {s.call[d].copy : d \in {e \in TfConns : s.call[e].at \in {"create", "write", "merge"}}}
  OBVIOUS
<1>7. f = Oldest(copies, w)
  BY <1>1, <1>6 DEF SnapOldest, Under, Oldest
<1>8. \A d \in TfConns : Running(s.call[d]) => s.call[d].copy \in copies
  BY ONLY <1>6, Zenon DEF Running
<1>9. ASSUME NEW g \in copies PROVE Prefix(g, w)
  <2>1. PICK d \in TfConns : g = s.call[d].copy /\ Running(s.call[d])
    BY ONLY <1>6, <1>9, Zenon DEF Running
  <2>2. IsCall(s.call[d], w)
    BY ONLY <1>2, <2>1 DEF SnapHolds
  <2>3. s.call[d] # CliIdle /\ s.call[d] # [at |-> "remove"]
    BY ONLY <2>1 DEF Running, CliIdle
  <2> QED BY ONLY <2>1, <2>2, <2>3, Zenon DEF IsCall
<1>10. Prefix(w, w)
  BY ONLY <1>2, Zenon DEF Prefix, SnapHolds
<1>11. Prefix(f, w) /\ Under(f, w) /\ \A g \in copies : Under(f, g)
  <2>1. \A g \in copies : Prefix(g, w)
    BY ONLY <1>9
  <2> QED BY ONLY <1>7, <1>10, <2>1, OldestIsUnderAll
<1>12. x.at = "create" /\ x.copy = w /\ x.floor = f /\ x.peer = b
  BY ONLY <1>4
<1>13. Running(x) /\ ~Opened(x)
  BY ONLY <1>12 DEF Running, Opened
<1>14. IsCall(x, w)
  BY ONLY <1>3, <1>10, <1>11, <1>12, <1>13, Zenon DEF IsCall
<1>15. Fits(x, s, c)
  <2>1. ASSUME NEW d \in TfConns, Running(s.call[d]) PROVE Under(f, s.call[d].copy) /\ Under(s.call[d].floor, w)
    <3>1. Under(f, s.call[d].copy)
      BY ONLY <1>8, <1>11, <2>1, Zenon
    <3>2. IsCall(s.call[d], w)
      BY ONLY <1>2, <2>1 DEF SnapHolds
    <3>3. s.call[d] # CliIdle /\ s.call[d] # [at |-> "remove"]
      BY ONLY <2>1 DEF Running, CliIdle
    <3>4. Prefix(s.call[d].floor, w)
      BY ONLY <3>2, <3>3, Zenon DEF IsCall
    <3> QED BY ONLY <3>1, <3>4, Zenon DEF Prefix, Under
  <2> QED BY ONLY <1>11, <1>12, <2>1, Zenon DEF Fits
<1>16. Leaves(x, s.tmp, s, w, c)
  BY ONLY <1>2, <1>13, Zenon DEF Leaves, SnapHolds
<1>17. SnapShape(tfSnap') /\ SnapHolds(tfSnap', w)
  BY ONLY <1>2, <1>5, <1>14, <1>15, <1>16, c \in TfConns, CallMoves
<1> QED BY <1>1, <1>17 DEF SnapKept

\* A request that is running has what it came with.
LEMMA CallFacts ==
  ASSUME NEW s, NEW w, SnapHolds(s, w), NEW c \in TfConns, Running(s.call[c])
  PROVE  /\ Prefix(s.call[c].copy, w) /\ Prefix(s.call[c].floor, w) /\ s.call[c].peer \in TfPeers
         /\ Fits(s.call[c], s, c)
         /\ Opened(s.call[c]) => s.call[c] = [at |-> s.call[c].at, copy |-> s.call[c].copy, floor |-> s.call[c].floor,
                                              peer |-> s.call[c].peer, ino |-> s.call[c].ino]
<1>1. IsCall(s.call[c], w)
  BY DEF SnapHolds
<1>2. s.call[c] # CliIdle /\ s.call[c] # [at |-> "remove"]
  BY DEF Running, CliIdle
<1>3. Fits(s.call[c], s, c)
  BY Zenon DEF SnapHolds, Fits
<1> QED BY ONLY <1>1, <1>2, <1>3, Zenon DEF IsCall

LEMMA SnapCreated ==
  ASSUME FilesInv, SnapInv, tfJob = "snap", NEW c \in TfConns, SnapCreate(c)
  PROVE  SnapKept
<1>1. PICK s, w, y : s = tfSnap /\ w = TfContent /\ y = tfSnap.call[c]
  OBVIOUS
<1>2. SnapShape(s) /\ SnapHolds(s, w)
  BY <1>1 DEF SnapInv
<1>3. PICK ino, made : /\ y.at = "create"
                       /\ SnapCall(c, SnapOpened(y, ino), [ino |-> ino, ok |-> FALSE, rows |-> <<>>], made)
  BY <1>1, Zenon DEF SnapCreate
<1>4. PICK x, tmp : x = SnapOpened(y, ino) /\ tmp = [ino |-> ino, ok |-> FALSE, rows |-> <<>>]
  OBVIOUS
<1>5. tfSnap' = [tmp |-> tmp, made |-> made, call |-> [s.call EXCEPT ![c] = x]]
  BY <1>1, <1>3, <1>4 DEF SnapCall
<1>6. Running(y)
  BY ONLY <1>3 DEF Running
<1>7. Prefix(y.copy, w) /\ Prefix(y.floor, w) /\ y.peer \in TfPeers /\ Fits(y, s, c)
  <2>1. y = s.call[c]
    BY <1>1
  <2> QED BY ONLY <1>2, <1>6, <2>1, c \in TfConns, CallFacts
<1>8. x = [at |-> "write", copy |-> y.copy, floor |-> y.floor, peer |-> y.peer, ino |-> ino] 
  BY ONLY <1>4 DEF SnapOpened
<1>9. x.at = "write" /\ x.copy = y.copy /\ x.floor = y.floor /\ x.peer = y.peer /\ x.ino = ino
  BY ONLY <1>8
<1>10. Running(x)
  BY ONLY <1>9 DEF Running
<1>11. IsCall(x, w)
  BY ONLY <1>7, <1>8, <1>9, <1>10, Zenon DEF IsCall
<1>12. Fits(x, s, c)
  BY ONLY <1>6, <1>7, <1>9, Zenon DEF Fits
<1>13. ~tmp.ok
  BY ONLY <1>4
<1>14. Leaves(x, tmp, s, w, c)
  BY ONLY <1>13, Zenon DEF Leaves
<1>15. SnapShape(tfSnap') /\ SnapHolds(tfSnap', w)
  BY ONLY <1>2, <1>5, <1>11, <1>12, <1>14, c \in TfConns, CallMoves
<1> QED BY <1>1, <1>15 DEF SnapKept

LEMMA SnapWritten ==
  ASSUME FilesInv, SnapInv, tfJob = "snap", NEW c \in TfConns, SnapWrite(c)
  PROVE  SnapKept
<1>1. PICK s, w, y : s = tfSnap /\ w = TfContent /\ y = tfSnap.call[c]
  OBVIOUS
<1>2. SnapShape(s) /\ SnapHolds(s, w)
  BY <1>1 DEF SnapInv
<1>3. PICK ok : /\ y.at = "write"
                /\ SnapCall(c, [y EXCEPT !.at = "merge"],
                            IF s.tmp.ino # y.ino THEN s.tmp ELSE [ino |-> y.ino, ok |-> ok, rows |-> y.copy], s.made)
  BY <1>1, Zenon DEF SnapWrite
<1>4. PICK x, tmp : /\ x = [y EXCEPT !.at = "merge"]
                    /\ tmp = IF s.tmp.ino # y.ino THEN s.tmp ELSE [ino |-> y.ino, ok |-> ok, rows |-> y.copy]
  OBVIOUS
<1>5. tfSnap' = [tmp |-> tmp, made |-> s.made, call |-> [s.call EXCEPT ![c] = x]]
  BY <1>1, <1>3, <1>4 DEF SnapCall
<1>6. Running(y) /\ Opened(y)
  BY ONLY <1>3 DEF Running, Opened
<1>7. /\ Prefix(y.copy, w) /\ Prefix(y.floor, w) /\ y.peer \in TfPeers /\ Fits(y, s, c)
      /\ y = [at |-> y.at, copy |-> y.copy, floor |-> y.floor, peer |-> y.peer, ino |-> y.ino]
  <2>1. y = s.call[c]
    BY <1>1
  <2> QED BY ONLY <1>2, <1>6, <2>1, c \in TfConns, CallFacts
<1>8. x = [at |-> "merge", copy |-> y.copy, floor |-> y.floor, peer |-> y.peer, ino |-> y.ino] 
  BY ONLY <1>4, <1>7, SMT
<1>9. x.at = "merge" /\ x.copy = y.copy /\ x.floor = y.floor /\ x.peer = y.peer /\ x.ino = y.ino
  BY ONLY <1>8
<1>10. Running(x)
  BY ONLY <1>9 DEF Running
<1>11. IsCall(x, w)
  BY ONLY <1>7, <1>8, <1>9, <1>10, Zenon DEF IsCall
<1>12. Fits(x, s, c)
  BY ONLY <1>6, <1>7, <1>9, Zenon DEF Fits
<1>13. Leaves(x, tmp, s, w, c)
  <2>1. CASE tmp = s.tmp
    <3>1. y = s.call[c]
      BY <1>1
    <3> QED BY ONLY <1>2, <1>6, <1>9, <2>1, <3>1, c \in TfConns, Zenon DEF Leaves, SnapHolds
  <2>2. CASE tmp = [ino |-> y.ino, ok |-> ok, rows |-> y.copy]
    <3>1. tmp.rows = y.copy
      BY ONLY <2>2
    <3>2. \A d \in TfConns : Opened(s.call[d]) => Running(s.call[d])
      BY DEF Opened, Running
    <3> QED BY ONLY <1>6, <1>7, <1>9, <3>1, <3>2, Zenon DEF Leaves, Fits
  <2> QED BY ONLY <1>4, <2>1, <2>2, Zenon
<1>14. SnapShape(tfSnap') /\ SnapHolds(tfSnap', w)
  BY ONLY <1>2, <1>5, <1>11, <1>12, <1>13, c \in TfConns, CallMoves
<1> QED BY <1>1, <1>14 DEF SnapKept

\* What a SnapMerge answers.
SnapMergeFrom(last, w) ==
    \E before, a, b, out :
       /\ last = [what |-> "snapmerge", before |-> before, a |-> a, b |-> b, out |-> out]
       /\ Prefix(before, w) /\ Prefix(a, w) /\ Under(before, a) /\ b \in TfPeers /\ out = merge_packs(a, b)
LEMMA SnapAnswered ==
  ASSUME FilesInv, SnapInv, tfJob = "snap", NEW c \in TfConns, SnapMerged(c)
  PROVE  SnapKept /\ (tfLast' = NoResult \/ SnapMergeFrom(tfLast', TfContent))
<1>1. PICK s, w, y : s = tfSnap /\ w = TfContent /\ y = tfSnap.call[c]
  OBVIOUS
<1>2. SnapShape(s) /\ SnapHolds(s, w)
  BY <1>1 DEF SnapInv
<1>3. /\ y.at = "merge"
      /\ tfLast' = IF s.tmp.ok THEN [what |-> "snapmerge", before |-> y.floor, a |-> s.tmp.rows, b |-> y.peer,
                                     out |-> merge_packs(s.tmp.rows, y.peer)]
                   ELSE NoResult
      /\ SnapCall(c, [at |-> "remove"], s.tmp, s.made)
  BY <1>1, Zenon DEF SnapMerged
<1>4. PICK x : x = [at |-> "remove"]
  OBVIOUS
<1>5. tfSnap' = [tmp |-> s.tmp, made |-> s.made, call |-> [s.call EXCEPT ![c] = x]]
  BY <1>1, <1>3, <1>4 DEF SnapCall
<1>6. Running(y) /\ Opened(y)
  BY ONLY <1>3 DEF Running, Opened
<1>7. Prefix(y.floor, w) /\ y.peer \in TfPeers
  <2>1. y = s.call[c]
    BY <1>1
  <2> QED BY ONLY <1>2, <1>6, <2>1, c \in TfConns, CallFacts
<1>8. ~Running(x) /\ ~Opened(x)
  BY ONLY <1>4 DEF Running, Opened
<1>9. IsCall(x, w) /\ Fits(x, s, c) /\ Leaves(x, s.tmp, s, w, c)
  BY ONLY <1>2, <1>4, <1>8, Zenon DEF IsCall, Fits, Leaves, SnapHolds
<1>10. SnapShape(tfSnap') /\ SnapHolds(tfSnap', w)
  BY ONLY <1>2, <1>5, <1>9, c \in TfConns, CallMoves
<1>11. ASSUME s.tmp.ok PROVE SnapMergeFrom(tfLast', w)
  <2>1. y = s.call[c]
    BY <1>1
  <2>2. Prefix(s.tmp.rows, w) /\ Under(y.floor, s.tmp.rows)
    BY ONLY <1>2, <1>6, <1>11, <2>1, c \in TfConns, Zenon DEF SnapHolds
  <2>3. tfLast' = [what |-> "snapmerge", before |-> y.floor, a |-> s.tmp.rows, b |-> y.peer, out |-> merge_packs(s.tmp.rows, y.peer)]
    BY ONLY <1>3, <1>11, Zenon
  <2> QED BY ONLY <1>7, <2>2, <2>3, Zenon DEF SnapMergeFrom
<1> QED BY <1>1, <1>3, <1>10, <1>11 DEF SnapKept

LEMMA SnapRemoved ==
  ASSUME FilesInv, SnapInv, tfJob = "snap", NEW c \in TfConns, SnapRemove(c)
  PROVE  SnapKept
<1>1. PICK s, w : s = tfSnap /\ w = TfContent
  OBVIOUS
<1>2. SnapShape(s) /\ SnapHolds(s, w)
  BY <1>1 DEF SnapInv
<1>3. tfSnap' = [tmp |-> NoTmp, made |-> s.made, call |-> [s.call EXCEPT ![c] = CliIdle]]
  BY <1>1 DEF SnapRemove, SnapCall
<1>4. ~Running(CliIdle) /\ ~Opened(CliIdle) /\ ~NoTmp.ok
  BY DEF Running, Opened, CliIdle, NoTmp
<1>5. IsCall(CliIdle, w) /\ Fits(CliIdle, s, c) /\ Leaves(CliIdle, NoTmp, s, w, c)
  BY ONLY <1>4, Zenon DEF IsCall, Fits, Leaves
<1>6. SnapShape(tfSnap') /\ SnapHolds(tfSnap', w)
  BY ONLY <1>2, <1>3, <1>5, c \in TfConns, CallMoves
<1> QED BY <1>1, <1>6 DEF SnapKept

\* SnapMerge only runs in a history of its own.
LEMMA SnapJobs ==
  ASSUME SnapInv, NEW c \in TfConns, SnapCopy(c) \/ SnapCreate(c) \/ SnapWrite(c) \/ SnapMerged(c) \/ SnapRemove(c)
  PROVE  tfJob = "snap" /\ UNCHANGED <<tfMain, tfWal, tfUp, tfPack, tfFile, tfDest, tfCli, tfJob>>
<1>1. UNCHANGED <<tfMain, tfWal, tfUp, tfPack, tfFile, tfDest, tfCli, tfJob>>
  BY Zenon DEF SnapCopy, SnapCreate, SnapWrite, SnapMerged, SnapRemove, SnapFrame, Command
<1>2. CASE SnapCopy(c)
  BY <1>1, <1>2 DEF SnapCopy, Command
<1>3. CASE SnapCreate(c) \/ SnapWrite(c) \/ SnapMerged(c) \/ SnapRemove(c)
  <2>1. tfSnap.call[c].at \in {"create", "write", "merge", "remove"}
    BY <1>3, Zenon DEF SnapCreate, SnapWrite, SnapMerged, SnapRemove
  <2>2. tfSnap.call[c] # CliIdle
    BY ONLY <2>1 DEF CliIdle
  <2> QED BY <1>1, <2>2 DEF SnapInv
<1> QED BY <1>2, <1>3

LEMMA NextAfter ==
  ASSUME NEW n \in Nat, NEW D, D = 1..n
  PROVE  Max(D \cup {0}) + 1 = n + 1
<1>1. PICK S, m : S = D \cup {0} /\ m = Max(D \cup {0})
  OBVIOUS
<1>2. n \in S /\ \A y \in S : n >= y
  BY <1>1
<1>3. m = CHOOSE x \in S : \A y \in S : x >= y
  BY <1>1 DEF Max
<1>4. m \in S /\ \A y \in S : m >= y
  BY ONLY <1>2, <1>3, Zenon
<1>5. m \in Nat
  BY <1>1, <1>4
<1>6. m >= n /\ n >= m
  BY ONLY <1>2, <1>4, Zenon
<1> QED BY <1>1, <1>5, <1>6

LEMMA OthersKeepSnap ==
  ASSUME TransferNext
  PROVE  SnapStep \/ tfSnap' = tfSnap
<1>1. CASE TfPut \/ TfSign
  BY <1>1, Zenon DEF TfPut, TfSign, Commit
<1>2. CASE TfOpen \/ TfClose \/ TfCrash \/ ExportStart \/ BackupStep \/ ExportCreate \/ ExportWrite \/ PackDamage
  BY <1>2, Zenon DEF TfOpen, TfClose, TfCrash, ExportStart, BackupStep, ExportCreate, ExportWrite, PackDamage
<1>3. CASE RestoreBegin \/ RestoreWrite \/ MergePacks \/ ExportRows \/ ImportStart \/ ImportPut \/ CliCrash
  BY <1>3, Zenon DEF RestoreBegin, RestoreWrite, MergePacks, ExportRows, ImportStart, ImportPut, CliCrash
<1> QED BY <1>1, <1>2, <1>3 DEF TransferNext, SnapStep

LEMMA SnapStays ==
  ASSUME FilesInv, SnapInv, TransferNext
  PROVE  SnapInv'
<1>1. CASE SnapStep
  <2>1. PICK c \in TfConns : SnapCopy(c) \/ SnapCreate(c) \/ SnapWrite(c) \/ SnapMerged(c) \/ SnapRemove(c)
    BY <1>1 DEF SnapStep
  <2>2. tfJob = "snap" /\ tfJob' = tfJob /\ TfContent' = TfContent
    BY <2>1, SnapJobs DEF TfContent
  <2>3. SnapKept
    BY <2>1, <2>2, SnapCopied, SnapCreated, SnapWritten, SnapAnswered, SnapRemoved
  <2> QED BY <2>2, <2>3 DEF SnapKept, SnapInv
<1>2. CASE tfSnap' = tfSnap
  <2>1. ContentMoves
    BY StepsMoveContent
  <2>2. CASE tfJob # "snap"
    BY <1>2, <2>1, <2>2 DEF SnapInv, ContentMoves
  <2>3. CASE tfJob = "snap"
    <3>1. tfJob' = tfJob /\ (TfContent' = TfContent \/ PutMoves)
      BY <2>1, <2>3 DEF ContentMoves, SignMoves
    <3>2. PICK s, w, z : s = tfSnap /\ w = TfContent /\ z = TfContent'
      OBVIOUS
    <3>3. SnapShape(s) /\ SnapHolds(s, w) /\ IsTable(w)
      BY <2>3, <3>2, ContentIsTable DEF SnapInv
    <3>4. ASSUME PutMoves PROVE SnapHolds(s, z)
      <4>1. PICK n \in Nat : DOMAIN w = 1..n
        BY ONLY <3>3 DEF SnapHolds
      <4>2. PICK r : z = Over(Slot(Max(DOMAIN w \cup {0}) + 1, r), w)
        BY <3>2, <3>4, Zenon DEF PutMoves
      <4>3. Max(DOMAIN w \cup {0}) + 1 = n + 1
        BY ONLY <4>1, NextAfter
      <4>4. PICK v : v = Slot(n + 1, r)
        OBVIOUS
      <4>5. z = Over(v, w)
        BY ONLY <4>2, <4>3, <4>4, Zenon
      <4>6. DOMAIN v = {n + 1}
        BY ONLY <4>4, Zenon DEF Slot
      <4>7. Overlays(z, v, w)
        BY ONLY <4>5, OverFacts
      <4>8. n + 1 \notin DOMAIN w /\ n + 1 \in Nat /\ {n + 1} \cup 1..n = 1..(n + 1)
        BY ONLY <4>1
      <4>9. DOMAIN z = 1..(n + 1) /\ \A i \in DOMAIN w : i \in DOMAIN z /\ z[i] = w[i]
        <5>1. DOMAIN z = {n + 1} \cup DOMAIN w
          BY ONLY <4>6, <4>7, Zenon DEF Overlays
        <5>2. DOMAIN z = 1..(n + 1)
          BY ONLY <4>1, <4>8, <5>1, Zenon
        <5>3. \A i \in DOMAIN w : i \notin DOMAIN v
          BY ONLY <4>6, <4>8, Zenon
        <5> QED BY ONLY <4>7, <5>1, <5>2, <5>3, Zenon DEF Overlays
      <4>10. \E k \in Nat : DOMAIN z = 1..k
        BY ONLY <4>8, <4>9
      <4>11. \A i \in DOMAIN w : i \in DOMAIN z /\ z[i] = w[i]
        BY ONLY <4>9
      <4> QED BY ONLY <3>3, <4>10, <4>11, SnapGrows
    <3> QED BY <1>2, <2>3, <3>1, <3>2, <3>3, <3>4 DEF SnapInv
  <2> QED BY <2>2, <2>3
<1> QED BY <1>1, <1>2, OthersKeepSnap

-----------------------------------------------------------------------------
(* Row files: an import puts the rows of the file, in their order.          *)
IsList(s) == \E n \in Nat : s = [k \in 1..n |-> s[k]]
FileHolds(f) ==
    \/ f = [fmt |-> "none"]
    \/ f = [fmt |-> f.fmt, lines |-> f.lines] /\ f.fmt \in Formats /\ IsList(f.lines) /\ UniqueRows(f.lines)
RoundTrips(f, rows) ==
    LET lines == f.lines
        kept == {k \in DOMAIN lines : f.fmt = "csv" => lines[k].text # None}
    IN /\ DOMAIN rows = 1..Cardinality(kept)
       /\ \A k \in kept : rows[Cardinality({j \in kept : j <= k})] = lines[k]

LEMMA ListFacts ==
  ASSUME NEW s, NEW n \in Nat, s = [k \in 1..n |-> s[k]]
  PROVE  Len(s) = n /\ DOMAIN s = 1..n
  OBVIOUS

\* A subset of the positions, in order.
KeptAt(kept, i) == CHOOSE k \in kept : Cardinality({j \in kept : j <= k}) = i
LEMMA KeptAtRank ==
  ASSUME NEW kept, NEW i, \E k \in kept : Rank(kept, k) = i
  PROVE  KeptAt(kept, i) \in kept /\ Rank(kept, KeptAt(kept, i)) = i
  BY Zenon DEF KeptAt, Rank, Upto
KeptRows(lines, kept) == [i \in 1..Cardinality(kept) |-> lines[KeptAt(kept, i)]]
KeepsRows(lines, kept, req) ==
    /\ DOMAIN req = 1..Cardinality(kept) /\ IsList(req) /\ UniqueRows(req)
    /\ \A k \in kept : req[Rank(kept, k)] = lines[k]
LEMMA KeptInOrder ==
  ASSUME NEW lines, NEW n \in Nat, DOMAIN lines = 1..n, UniqueRows(lines), NEW kept, kept \subseteq 1..n, NEW req,
         req = KeptRows(lines, kept)
  PROVE  KeepsRows(lines, kept, req)
<1>1. PICK m : m = Cardinality(kept)
  OBVIOUS
<1>2. /\ m \in 0..n
      /\ \A k \in kept : Rank(kept, k) \in 1..m
      /\ \A j, k \in kept : j < k => Rank(kept, j) < Rank(kept, k)
      /\ \A r \in 1..m : \E k \in kept : Rank(kept, k) = r
  BY <1>1, RankFacts
<1>3. PICK y : y = [i \in 1..m |-> KeptAt(kept, i)]
  OBVIOUS
<1>4. req = [i \in 1..m |-> lines[y[i]]]
  BY <1>1, <1>3, Zenon DEF KeptRows
<1>5. \A i \in 1..m : y[i] = KeptAt(kept, i)
  BY ONLY <1>3, Zenon
<1>6. \A i \in 1..m : y[i] \in kept /\ Rank(kept, y[i]) = i
  BY ONLY <1>2, <1>5, KeptAtRank
<1>7. \A j, k \in kept : Rank(kept, j) = Rank(kept, k) => j = k
  <2>1. SUFFICES ASSUME NEW j \in kept, NEW k \in kept, Rank(kept, j) = Rank(kept, k), j # k PROVE FALSE
    OBVIOUS
  <2>2. j \in Nat /\ k \in Nat
    OBVIOUS
  <2>3. j < k \/ k < j
    BY ONLY <2>1, <2>2
  <2>4. Rank(kept, j) < Rank(kept, k) \/ Rank(kept, k) < Rank(kept, j)
    BY ONLY <1>2, <2>1, <2>3, Zenon
  <2>5. Rank(kept, j) \in Int /\ Rank(kept, k) \in Int
    <3>1. \A r \in 1..m : r \in Int
      BY ONLY <1>2
    <3> QED BY ONLY <1>2, <2>1, <3>1, Zenon
  <2> QED BY ONLY <2>1, <2>4, <2>5
<1>8. m \in Nat
  BY ONLY <1>2, n \in Nat
<1>9. DOMAIN req = 1..m /\ \A i \in 1..m : req[i] = lines[y[i]]
  BY ONLY <1>4, Zenon
<1>10. IsList(req)
  <2>1. req = [i \in 1..m |-> req[i]]
    BY ONLY <1>4, SMT
  <2> QED BY ONLY <1>8, <2>1 DEF IsList
<1>11. ASSUME NEW k \in kept PROVE req[Rank(kept, k)] = lines[k]
  <2>1. Rank(kept, k) \in 1..m
    BY ONLY <1>2, <1>11
  <2>2. y[Rank(kept, k)] = k
    BY ONLY <1>6, <1>7, <1>11, <2>1, Zenon
  <2> QED BY ONLY <1>9, <2>1, <2>2, Zenon
<1>12. \A i, j \in 1..m : i # j => y[i] # y[j] /\ y[i] \in 1..n /\ y[j] \in 1..n
  BY <1>6, Zenon
<1>13. ASSUME NEW i \in DOMAIN req, NEW j \in DOMAIN req, i # j
       PROVE  req[i].text # req[j].text /\ (req[i].uri # None => req[i].uri # req[j].uri)
  <2>1. i \in 1..m /\ j \in 1..m
    BY ONLY <1>9, <1>13, Zenon
  <2>2. PICK p, q : p = y[i] /\ q = y[j]
    OBVIOUS
  <2>3. p # q /\ p \in DOMAIN lines /\ q \in DOMAIN lines
    BY <1>12, <1>13, <2>1, <2>2, Zenon
  <2>4. lines[p].text # lines[q].text /\ (lines[p].uri # None => lines[p].uri # lines[q].uri)
    BY <2>3, Zenon DEF UniqueRows
  <2>5. req[i] = lines[p] /\ req[j] = lines[q]
    BY ONLY <1>9, <2>1, <2>2, Zenon
  <2> QED BY ONLY <2>4, <2>5, Zenon
<1>14. UniqueRows(req)
  BY ONLY <1>13, Zenon DEF UniqueRows
<1> QED BY ONLY <1>1, <1>9, <1>10, <1>11, <1>14, Zenon DEF KeepsRows

LEMMA AllKept ==
  ASSUME NEW n \in Nat
  PROVE  Cardinality(1..n) = n /\ \A k \in 1..n : Cardinality({j \in 1..n : j <= k}) = k
<1>1. Cardinality(1..n) = n
  BY FS_Interval
<1>2. ASSUME NEW k \in 1..n PROVE Cardinality({j \in 1..n : j <= k}) = k
  <2>1. {j \in 1..n : j <= k} = 1..k /\ k \in Nat
    BY <1>2
  <2>2. Cardinality(1..k) = k
    BY ONLY <2>1, FS_Interval
  <2> QED BY ONLY <2>1, <2>2, Zenon
<1> QED BY ONLY <1>1, <1>2

LEMMA WholeRoundTrips ==
  ASSUME NEW f, f.fmt # "csv", IsList(f.lines)
  PROVE  RoundTrips(f, f.lines)
<1>1. PICK n \in Nat : f.lines = [k \in 1..n |-> f.lines[k]]
  BY DEF IsList
<1>2. DOMAIN f.lines = 1..n
  BY ONLY <1>1
<1>3. PICK kept : kept = {k \in DOMAIN f.lines : f.fmt = "csv" => f.lines[k].text # None}
  OBVIOUS
<1>4. kept = 1..n
  BY <1>2, <1>3, Zenon
<1>5. Cardinality(kept) = n /\ \A k \in kept : Cardinality({j \in kept : j <= k}) = k
  BY ONLY <1>1, <1>4, AllKept
<1> QED BY ONLY <1>2, <1>3, <1>5, Zenon DEF RoundTrips

Asked(f, req) == IsList(req) /\ UniqueRows(req) /\ (JsonParses(f) => RoundTrips(f, req))
LEMMA RequestFacts ==
  ASSUME NEW f, FileHolds(f), f.fmt # "none"
  PROVE  Asked(f, Requests(f))
<1>1. f.fmt \in Formats /\ IsList(f.lines) /\ UniqueRows(f.lines)
  BY DEF FileHolds
<1>2. CASE f.fmt = "csv"
  <2>1. PICK lines, kept : lines = f.lines /\ kept = {k \in DOMAIN lines : lines[k].text # None}
    OBVIOUS
  <2>2. PICK n \in Nat : lines = [k \in 1..n |-> lines[k]]
    BY <1>1, <2>1 DEF IsList
  <2>3. DOMAIN lines = 1..n /\ kept \subseteq 1..n
    BY ONLY <2>1, <2>2
  <2>4. PICK req : req = KeptRows(lines, kept)
    OBVIOUS
  <2>5. Requests(f) = req
    <3>1. Requests(f) = import_dsv(lines)
      BY <1>2, <2>1 DEF Requests
    <3>2. import_dsv(lines) = req
      BY <2>1, <2>4 DEF import_dsv, KeptAt, KeptRows
    <3> QED BY ONLY <3>1, <3>2
  <2>6. UniqueRows(lines)
    BY <1>1, <2>1
  <2>7. /\ DOMAIN req = 1..Cardinality(kept) /\ IsList(req) /\ UniqueRows(req)
        /\ \A k \in kept : req[Rank(kept, k)] = lines[k]
    <3>1. KeepsRows(lines, kept, req)
      BY ONLY n \in Nat, <2>3, <2>4, <2>6, KeptInOrder
    <3> QED BY ONLY <3>1, Zenon DEF KeepsRows
  <2>8. kept = {k \in DOMAIN f.lines : f.fmt = "csv" => f.lines[k].text # None}
    BY ONLY <1>2, <2>1, Zenon
  <2>9. RoundTrips(f, req)
    BY ONLY <2>1, <2>7, <2>8, Zenon DEF RoundTrips, Rank, Upto
  <2> QED BY ONLY <2>5, <2>7, <2>9, Zenon DEF Asked
<1>3. CASE f.fmt # "csv"
  <2>1. RoundTrips(f, f.lines)
    BY ONLY <1>1, <1>3, WholeRoundTrips
  <2>2. CASE Requests(f) = f.lines
    BY ONLY <1>1, <2>1, <2>2, Zenon DEF Asked
  <2>3. CASE f.fmt = "json" /\ Len(f.lines) # 1
    <3>1. Requests(f) = <<>>
      BY ONLY <2>3 DEF Requests, import_json
    <3>2. ~JsonParses(f)
      BY ONLY <2>3 DEF JsonParses
    <3>3. DOMAIN <<>> = {} /\ <<>> = [k \in 1..0 |-> <<>>[k]]
      OBVIOUS
    <3>4. IsList(<<>>)
      BY ONLY <3>3 DEF IsList
    <3>5. UniqueRows(<<>>)
      BY ONLY <3>3, Zenon DEF UniqueRows
    <3> QED BY ONLY <3>1, <3>2, <3>4, <3>5, Zenon DEF Asked
  <2>4. CASE f.fmt # "json" \/ Len(f.lines) = 1
    <3>1. Requests(f) = f.lines
      BY ONLY <1>1, <1>3, <2>4 DEF Requests, import_json, import_jsonl, Formats
    <3> QED BY ONLY <2>2, <3>1
  <2> QED BY <2>3, <2>4
<1> QED BY <1>2, <1>3

\* An export gives a file of distinct rows.
LEMMA ExportsFile ==
  ASSUME NEW w, IsTable(w), UniqueRows(w), NEW fmt \in Formats, NEW f,
         f = [fmt |-> fmt, lines |-> [k \in DOMAIN InRowIdOrder(w) |-> RowOf(fmt, InRowIdOrder(w)[k])]]
  PROVE  FileHolds(f) /\ f.fmt # "none"
<1>1. PICK rows, lines : rows = InRowIdOrder(w) /\ lines = [k \in DOMAIN rows |-> RowOf(fmt, rows[k])]
  OBVIOUS
<1>2. PICK m, y : Lists(rows, m, y, w)
  BY <1>1, RowsInOrder
<1>3. m \in Nat /\ rows = [k \in 1..m |-> rows[k]]
  BY ONLY <1>2, Zenon DEF Lists
<1>4. DOMAIN rows = 1..m
  BY ONLY <1>3
<1>5. lines = [k \in 1..m |-> lines[k]] /\ DOMAIN lines = 1..m /\ \A k \in 1..m : lines[k] = RowOf(fmt, rows[k])
  BY ONLY <1>1, <1>4, SMT
<1>6. \A r : RowOf(fmt, r).text = r.text /\ RowOf(fmt, r).uri = r.uri
  BY DEF RowOf, export_dsv, export_jsonl
<1>7. ASSUME NEW i \in DOMAIN lines, NEW j \in DOMAIN lines, i # j
      PROVE  lines[i].text # lines[j].text /\ (lines[i].uri # None => lines[i].uri # lines[j].uri)
  <2>1. i \in 1..m /\ j \in 1..m
    BY ONLY <1>5, <1>7, Zenon
  <2>2. PICK p, q : p = y[i] /\ q = y[j]
    OBVIOUS
  <2>3. p \in DOMAIN w /\ q \in DOMAIN w /\ p # q /\ rows[i] = w[p] /\ rows[j] = w[q]
    BY ONLY <1>2, <1>7, <2>1, <2>2, Zenon DEF Lists
  <2>4. w[p].text # w[q].text /\ (w[p].uri # None => w[p].uri # w[q].uri)
    BY <2>3, Zenon DEF UniqueRows
  <2>5. lines[i].text = w[p].text /\ lines[i].uri = w[p].uri /\ lines[j].text = w[q].text /\ lines[j].uri = w[q].uri
    BY ONLY <1>5, <1>6, <2>1, <2>3, Zenon
  <2> QED BY ONLY <2>4, <2>5, Zenon
<1>8. UniqueRows(lines)
  BY ONLY <1>7, Zenon DEF UniqueRows
<1>9. IsList(lines)
  BY ONLY <1>3, <1>5 DEF IsList
<1>10. f = [fmt |-> fmt, lines |-> lines]
  BY <1>1, Zenon
<1>11. f.fmt = fmt /\ f.lines = lines
  BY ONLY <1>10
<1>12. fmt # "none"
  BY DEF Formats
<1> QED BY ONLY <1>8, <1>9, <1>10, <1>11, <1>12, fmt \in Formats, Zenon DEF FileHolds

-----------------------------------------------------------------------------
Filled(req, len, dest, n) ==
    /\ len \in Nat /\ n \in 0..len /\ req = [k \in 1..len |-> req[k]] /\ dest = [k \in 1..n |-> req[k]]
Remaining(req, len, todo, m) == m \in 0..len /\ todo = [k \in 1..(len - m) |-> req[m + k]]
Importable(f, dest, cli) ==
    \E len, n :
       /\ Filled(Requests(f), len, dest, n)
       /\ cli.at = "import" => JsonParses(f) /\ \E m \in 0..n : Remaining(Requests(f), len, cli.todo, m)
RowsInv ==
    /\ FileHolds(tfFile)
    /\ tfFile.fmt = "none" => tfDest = <<>> /\ tfCli.at # "import"
    /\ tfFile.fmt # "none" => Importable(tfFile, tfDest, tfCli)

\* One put of the import.
LEMMA PutsNext ==
  ASSUME NEW req, NEW len, NEW dest, NEW n, NEW todo, NEW m, Filled(req, len, dest, n), UniqueRows(req),
         m \in 0..n, Remaining(req, len, todo, m), todo # <<>>, NEW r, r = Head(todo)
  PROVE  /\ Known(dest, r) \/ ~UriTaken(dest, r)
         /\ \E k : Filled(req, len, PutRow(dest, r), k) /\ m + 1 \in 0..k
         /\ Remaining(req, len, Tail(todo), m + 1)
<1>1. /\ len \in Nat /\ n \in 0..len /\ m \in 0..len /\ m <= n /\ m \in Nat /\ n \in Nat /\ len - m \in Nat
      /\ m \in Int /\ n \in Int
  BY DEF Filled, Remaining
<1>2. PICK l : l = len - m
  OBVIOUS
<1>3. l \in Nat /\ todo = [k \in 1..l |-> req[m + k]]
  BY <1>1, <1>2 DEF Remaining
<1>4. l # 0
  <2>1. CASE l = 0
    <3>1. todo = [k \in 1..0 |-> req[m + k]]
      BY ONLY <1>3, <2>1
    <3>2. todo = <<>>
      BY ONLY <3>1, SMT
    <3> QED BY <3>2
  <2> QED BY <2>1
<1>5. DOMAIN todo = 1..l /\ Len(todo) = l
  BY ONLY <1>3
<1>6. r = req[m + 1] /\ m + 1 \in 1..len
  <2>1. 1 \in 1..l
    BY ONLY <1>3, <1>4
  <2>2. todo[1] = req[m + 1]
    BY ONLY <1>3, <2>1, Zenon
  <2>3. r = todo[1]
    BY SMT
  <2>4. m + 1 \in 1..len
    BY ONLY <1>1, <1>2, <1>3, <1>4
  <2> QED BY ONLY <2>2, <2>3, <2>4
<1>7. Remaining(req, len, Tail(todo), m + 1)
  <2>1. m + 1 \in 0..len /\ l - 1 = len - (m + 1) /\ l - 1 \in Nat
    BY ONLY <1>1, <1>2, <1>3, <1>4
  <2>2. Tail(todo) = [k \in 1..(l - 1) |-> todo[k + 1]]
    <3>1. PICK S : S = {todo[k] : k \in 1..l}
      OBVIOUS
    <3>2. todo = [k \in 1..l |-> todo[k]]
      BY ONLY <1>3, SMT
    <3>3. todo \in Seq(S)
      BY ONLY <1>3, <3>1, <3>2
    <3>4. PICK t : t = Tail(todo)
      OBVIOUS
    <3>5. t \in Seq(S) /\ Len(t) = l - 1 /\ \A k \in 1..(l - 1) : t[k] = todo[k + 1]
      BY ONLY <1>3, <1>4, <1>5, <3>3, <3>4
    <3>6. t = [k \in 1..(l - 1) |-> t[k]]
      BY ONLY <3>5
    <3> QED BY ONLY <3>4, <3>5, <3>6, Zenon
  <2>3. \A k \in 1..(l - 1) : todo[k + 1] = req[(m + 1) + k]
    <3>1. ASSUME NEW k \in 1..(l - 1) PROVE todo[k + 1] = req[(m + 1) + k]
      <4>1. k + 1 \in 1..l /\ m + (k + 1) = (m + 1) + k
        BY ONLY <1>1, <1>3, <3>1
      <4>2. todo[k + 1] = req[m + (k + 1)]
        BY ONLY <1>3, <4>1, Zenon
      <4> QED BY ONLY <4>1, <4>2, Zenon
    <3> QED BY ONLY <3>1
  <2>4. Tail(todo) = [k \in 1..(l - 1) |-> req[(m + 1) + k]]
    BY ONLY <2>2, <2>3, Zenon
  <2>5. Tail(todo) = [k \in 1..(len - (m + 1)) |-> req[(m + 1) + k]]
    BY ONLY <2>1, <2>4, Zenon
  <2> QED BY ONLY <2>1, <2>5, Zenon DEF Remaining
<1>8. /\ req = [k \in 1..len |-> req[k]] /\ dest = [k \in 1..n |-> req[k]]
  BY DEF Filled
<1>9. /\ DOMAIN req = 1..len /\ DOMAIN dest = 1..n /\ \A k \in 1..n : dest[k] = req[k] /\ k \in 1..len
  BY ONLY <1>1, <1>8
<1>10. \A i, j \in 1..len : i # j => req[i].text # req[j].text /\ (req[i].uri # None => req[i].uri # req[j].uri)
  BY <1>9, Zenon DEF UniqueRows
<1>11. CASE Known(dest, r)
  <2>1. PICK i \in 1..n : req[i].text = req[m + 1].text
    BY ONLY <1>6, <1>9, <1>11, Zenon DEF Known
  <2>2. i = m + 1
    BY ONLY <1>6, <1>9, <1>10, <2>1, Zenon
  <2>3. m + 1 \in 0..n
    BY ONLY <1>1, <2>1, <2>2
  <2>4. PutRow(dest, r) = dest
    BY ONLY <1>11, Zenon DEF PutRow
  <2> QED BY <1>7, <1>11, <2>3, <2>4
<1>12. CASE ~Known(dest, r)
  <2>1. m = n
    <3>1. CASE m + 1 \in 1..n
      <4>1. dest[m + 1] = r /\ m + 1 \in DOMAIN dest
        BY ONLY <1>6, <1>9, <3>1, Zenon
      <4> QED BY ONLY <1>12, <4>1, Zenon DEF Known
    <3>2. CASE m + 1 \notin 1..n
      BY ONLY <1>1, <3>2
    <3> QED BY ONLY <3>1, <3>2
  <2>2. \A i \in 1..n : i # m + 1 /\ i \in 1..len
    BY ONLY <1>1, <2>1
  <2>3. ~UriTaken(dest, r)
    BY ONLY <1>6, <1>9, <1>10, <2>2, Zenon DEF UriTaken
  <2>4. PICK z : z = Append(dest, r)
    OBVIOUS
  <2>5. PutRow(dest, r) = z
    BY ONLY <1>12, <2>4, Zenon DEF PutRow
  <2>6. dest = [k \in 1..n |-> dest[k]]
    BY ONLY <1>8, SMT
  <2>7. z = [k \in 1..(n + 1) |-> z[k]] /\ z[n + 1] = r /\ \A k \in 1..n : z[k] = dest[k]
    BY ONLY <1>1, <2>4, <2>6, AppendedFacts
  <2>8. \A k \in 1..(n + 1) : k = n + 1 \/ k \in 1..n
    BY ONLY <1>1
  <2>9. \A k \in 1..(n + 1) : z[k] = req[k]
    BY ONLY <1>6, <1>9, <2>1, <2>7, <2>8, Zenon
  <2>10. z = [k \in 1..(n + 1) |-> req[k]]
    BY ONLY <2>7, <2>9, Zenon
  <2>11. n + 1 \in 0..len /\ m + 1 \in 0..(n + 1)
    BY ONLY <1>1, <1>6, <2>1
  <2>12. Filled(req, len, z, n + 1)
    BY ONLY <1>1, <1>8, <2>10, <2>11, Zenon DEF Filled
  <2> QED BY ONLY <1>7, <2>3, <2>5, <2>11, <2>12, Zenon
<1> QED BY <1>11, <1>12

LEMMA RowsInit == TransferInit => RowsInv
<1> SUFFICES ASSUME TransferInit PROVE RowsInv
  OBVIOUS
<1>1. tfFile = [fmt |-> "none"] /\ tfDest = <<>> /\ tfCli = CliIdle
  BY DEF TransferInit
<1>2. tfFile.fmt = "none" /\ tfCli.at = "idle"
  BY <1>1 DEF CliIdle
<1> QED BY <1>1, <1>2 DEF RowsInv, FileHolds

LEMMA OnlyRowsImport ==
  ASSUME FilesInv
  PROVE  /\ tfJob # "rows" => tfCli.at # "import"
         /\ tfJob = "rows" => tfCli = CliIdle \/ Importing(tfCli)
<1>1. CliIdle.at = "idle"
  BY DEF CliIdle
<1>2. \A c, w : Copying(c, w) => c.at # "import"
  BY DEF Copying
<1>3. \A c, w, u, k : Restoring(c, w, u, k) => c.at # "import"
  BY DEF Restoring
<1> QED BY <1>1, <1>2, <1>3, Zenon DEF FilesInv

LEMMA RowsFrame ==
  ASSUME RowsInv, UNCHANGED <<tfFile, tfDest>>, tfCli' = tfCli \/ tfCli'.at # "import"
  PROVE  RowsInv'
<1>1. tfFile' = tfFile /\ tfDest' = tfDest
  OBVIOUS
<1>2. ASSUME Importable(tfFile, tfDest, tfCli) PROVE Importable(tfFile, tfDest, tfCli')
  BY <1>2, Zenon DEF Importable
<1> QED BY <1>1, <1>2, Zenon DEF RowsInv

\* What a step leaves alone.
LEMMA FilesOfRows ==
  ASSUME TransferNext
  PROVE  ExportRows \/ ImportPut \/ UNCHANGED <<tfFile, tfDest>>
<1>1. CASE TfPut \/ TfSign
  BY <1>1, Zenon DEF TfPut, TfSign, Commit
<1>2. CASE TfOpen \/ TfClose \/ TfCrash \/ ExportStart \/ BackupStep \/ ExportCreate \/ ExportWrite \/ PackDamage
  BY <1>2, Zenon DEF TfOpen, TfClose, TfCrash, ExportStart, BackupStep, ExportCreate, ExportWrite, PackDamage
<1>3. CASE RestoreBegin \/ RestoreWrite \/ MergePacks \/ ImportStart \/ CliCrash
  BY <1>3, Zenon DEF RestoreBegin, RestoreWrite, MergePacks, ImportStart, CliCrash
<1>4. CASE SnapStep
  BY <1>4, Zenon DEF SnapStep, SnapCopy, SnapCreate, SnapWrite, SnapMerged, SnapRemove, SnapFrame
<1> QED BY <1>1, <1>2, <1>3, <1>4 DEF TransferNext, SnapStep

\* In a history of row files the commands are exports and imports.
LEMMA CliOfRows ==
  ASSUME FilesInv, TransferNext, tfJob = "rows"
  PROVE  ExportRows \/ ImportStart \/ ImportPut \/ tfCli' = tfCli \/ tfCli'.at # "import"
<1>1. tfCli = CliIdle \/ Importing(tfCli)
  BY OnlyRowsImport
<1>2. tfCli.at \in {"idle", "import"}
  BY <1>1 DEF CliIdle, Importing
<1>3. CASE TfPut \/ TfSign
  BY <1>2, <1>3 DEF TfPut, TfSign, Commit, BackupSees
<1>4. CASE TfOpen \/ TfClose \/ TfCrash \/ PackDamage
  BY <1>4, Zenon DEF TfOpen, TfClose, TfCrash, PackDamage
<1>5. CASE BackupStep \/ ExportCreate \/ ExportWrite \/ RestoreWrite
  BY <1>2, <1>5 DEF BackupStep, ExportCreate, ExportWrite, RestoreWrite
<1>6. CASE ExportStart \/ RestoreBegin \/ MergePacks
  BY <1>6 DEF ExportStart, RestoreBegin, MergePacks, Command
<1>7. CASE CliCrash
  BY <1>7 DEF CliCrash, CliIdle
<1>8. CASE SnapStep
  BY <1>8, Zenon DEF SnapStep, SnapCopy, SnapCreate, SnapWrite, SnapMerged, SnapRemove, SnapFrame
<1> QED BY <1>3, <1>4, <1>5, <1>6, <1>7, <1>8 DEF TransferNext, SnapStep

\* A list with nothing left.
LEMMA NothingLeft ==
  ASSUME NEW req, NEW len, NEW dest, NEW n, NEW m, Filled(req, len, dest, n), m \in 0..n, Remaining(req, len, <<>>, m)
  PROVE  dest = req
<1>1. len \in Nat /\ n \in 0..len /\ req = [k \in 1..len |-> req[k]] /\ dest = [k \in 1..n |-> req[k]]
  BY DEF Filled
<1>2. m \in 0..len /\ <<>> = [k \in 1..(len - m) |-> req[m + k]]
  BY DEF Remaining
<1>3. 1..(len - m) = {}
  <2>1. DOMAIN <<>> = {}
    OBVIOUS
  <2>2. DOMAIN [k \in 1..(len - m) |-> req[m + k]] = 1..(len - m)
    BY Zenon
  <2> QED BY ONLY <1>2, <2>1, <2>2, Zenon
<1>4. n = len
  <2>1. m = len
    BY ONLY <1>1, <1>2, <1>3
  <2> QED BY <1>1, <2>1
<1> QED BY ONLY <1>1, <1>4, Zenon

Imported(last) == \E f, rows : last = [what |-> "imported", file |-> f, rows |-> rows] /\ RoundTrips(f, rows)

LEMMA RowsExported ==
  ASSUME FilesInv, QuietInv, ExportRows
  PROVE  RowsInv'
<1>1. tfJob = "rows" /\ tfCli' = tfCli /\ tfCli = CliIdle /\ tfDest' = <<>>
  BY DEF ExportRows, Command
<1>2. PICK fmt \in Formats :
        tfFile' = [fmt |-> fmt, lines |-> [k \in DOMAIN InRowIdOrder(TfContent) |-> RowOf(fmt, InRowIdOrder(TfContent)[k])]]
  BY DEF ExportRows
<1>3. IsTable(TfContent) /\ UniqueRows(TfContent)
  BY <1>1, ContentIsTable DEF QuietInv
<1>4. FileHolds(tfFile') /\ tfFile'.fmt # "none"
  BY ONLY <1>2, <1>3, ExportsFile
<1>5. tfCli'.at # "import"
  BY <1>1 DEF CliIdle
<1>6. PICK req : req = Requests(tfFile')
  OBVIOUS
<1>7. Asked(tfFile', req)
  BY ONLY <1>4, <1>6, RequestFacts
<1>8. PICK len \in Nat : req = [k \in 1..len |-> req[k]]
  BY ONLY <1>7 DEF Asked, IsList
<1>9. <<>> = [k \in 1..0 |-> req[k]] /\ 0 \in 0..len
  BY ONLY <1>8
<1>10. Filled(req, len, tfDest', 0)
  BY ONLY <1>1, <1>8, <1>9, Zenon DEF Filled
<1>11. Importable(tfFile', tfDest', tfCli')
  BY ONLY <1>5, <1>6, <1>10, Zenon DEF Importable
<1> QED BY <1>4, <1>11 DEF RowsInv

LEMMA RowsStarted ==
  ASSUME FilesInv, RowsInv, ImportStart
  PROVE  RowsInv'
<1>1. tfFile' = tfFile /\ tfDest' = tfDest /\ tfFile.fmt # "none"
  BY DEF ImportStart
<1>2. PICK req : req = Requests(tfFile)
  OBVIOUS
<1>3. tfCli' = IF JsonParses(tfFile) THEN [at |-> "import", todo |-> req] ELSE CliIdle
  BY <1>2 DEF ImportStart
<1>4. PICK len, n : Filled(req, len, tfDest, n)
  BY <1>1, <1>2, Zenon DEF RowsInv, Importable
<1>5. len \in Nat /\ n \in 0..len /\ req = [k \in 1..len |-> req[k]]
  BY ONLY <1>4 DEF Filled
<1>6. 0 \in 0..n /\ 0 \in 0..len /\ len - 0 = len /\ \A k \in 1..len : 0 + k = k
  BY ONLY <1>5
<1>7. req = [k \in 1..(len - 0) |-> req[0 + k]]
  BY ONLY <1>5, <1>6, Zenon
<1>8. tfCli'.at = "import" => JsonParses(tfFile) /\ Remaining(req, len, tfCli'.todo, 0)
  BY ONLY <1>3, <1>6, <1>7 DEF Remaining, CliIdle
<1>9. Importable(tfFile, tfDest, tfCli')
  BY ONLY <1>1, <1>2, <1>4, <1>6, <1>8, Zenon DEF Importable
<1> QED BY <1>1, <1>9 DEF RowsInv

LEMMA RowsPut ==
  ASSUME FilesInv, RowsInv, ImportPut
  PROVE  RowsInv' /\ (tfLast' = tfLast \/ Imported(tfLast'))
<1>1. tfCli.at = "import" /\ tfFile' = tfFile
  BY DEF ImportPut
<1>2. tfFile.fmt # "none" /\ FileHolds(tfFile) /\ Importable(tfFile, tfDest, tfCli)
  BY <1>1 DEF RowsInv
<1>3. PICK req, todo, dest : req = Requests(tfFile) /\ todo = tfCli.todo /\ dest = tfDest
  OBVIOUS
<1>4. Asked(tfFile, req)
  BY ONLY <1>2, <1>3, RequestFacts
<1>5. PICK len, n : /\ Filled(req, len, dest, n) /\ JsonParses(tfFile) /\ \E m \in 0..n : Remaining(req, len, todo, m)
  BY <1>1, <1>2, <1>3, Zenon DEF Importable
<1>6. PICK m \in 0..n : Remaining(req, len, todo, m)
  BY ONLY <1>5
<1>7. CliIdle.at # "import"
  BY DEF CliIdle
<1>8. CASE todo = <<>>
  <2>1. tfLast' = [what |-> "imported", file |-> tfFile, rows |-> dest] /\ tfCli' = CliIdle /\ tfDest' = tfDest
    BY <1>3, <1>8 DEF ImportPut
  <2>2. dest = req
    <3>1. Remaining(req, len, <<>>, m)
      BY ONLY <1>6, <1>8, Zenon
    <3> QED BY ONLY <1>5, <1>6, <3>1, NothingLeft
  <2>3. RoundTrips(tfFile, dest)
    BY ONLY <1>4, <1>5, <2>2, Zenon DEF Asked
  <2>4. Imported(tfLast')
    BY ONLY <2>1, <2>3, Zenon DEF Imported
  <2>5. RowsInv'
    BY <1>1, <1>7, <2>1, RowsFrame
  <2> QED BY ONLY <2>4, <2>5
<1>9. CASE todo # <<>>
  <2>1. PICK r : r = Head(todo)
    OBVIOUS
  <2>2. UniqueRows(req)
    BY ONLY <1>4 DEF Asked
  <2>3. /\ Known(dest, r) \/ ~UriTaken(dest, r)
        /\ \E k : Filled(req, len, PutRow(dest, r), k) /\ m + 1 \in 0..k
        /\ Remaining(req, len, Tail(todo), m + 1)
    BY ONLY <1>5, <1>6, <1>9, <2>1, <2>2, PutsNext
  <2>4. tfDest' = PutRow(dest, r) /\ tfCli' = [tfCli EXCEPT !.todo = Tail(todo)] /\ tfLast' = tfLast
    <3>1. ~(~Known(tfDest, Head(tfCli.todo)) /\ UriTaken(tfDest, Head(tfCli.todo)))
      BY ONLY <1>3, <2>1, <2>3, Zenon
    <3> QED BY <1>3, <1>9, <2>1, <3>1, Zenon DEF ImportPut
  <2>5. Importing(tfCli)
    BY <1>1, OnlyRowsImport DEF CliIdle
  <2>6. tfCli'.todo = Tail(todo)
    BY ONLY <2>4, <2>5 DEF Importing
  <2>7. PICK k : Filled(req, len, tfDest', k) /\ m + 1 \in 0..k
    BY ONLY <2>3, <2>4, Zenon
  <2>8. Importable(tfFile, tfDest', tfCli')
    BY ONLY <1>3, <1>5, <2>3, <2>6, <2>7, Zenon DEF Importable
  <2>9. RowsInv'
    BY <1>1, <1>2, <2>8 DEF RowsInv
  <2> QED BY ONLY <2>4, <2>9
<1> QED BY <1>8, <1>9

LEMMA RowsStay ==
  ASSUME FilesInv, QuietInv, RowsInv, TransferNext, FilesInv'
  PROVE  RowsInv'
<1>1. CASE ExportRows
  BY <1>1, RowsExported
<1>2. CASE ImportStart
  BY <1>2, RowsStarted
<1>3. CASE ImportPut
  BY <1>3, RowsPut
<1>4. CASE ~ExportRows /\ ~ImportStart /\ ~ImportPut
  <2>1. UNCHANGED <<tfFile, tfDest>>
    BY <1>4, FilesOfRows
  <2>2. tfJob' = tfJob
    BY StepsMoveContent DEF ContentMoves
  <2>3. CASE tfJob = "rows"
    BY <1>4, <2>1, <2>3, CliOfRows, RowsFrame
  <2>4. CASE tfJob # "rows"
    <3>1. tfCli'.at # "import"
      <4>1. CliIdle.at # "import"
        BY DEF CliIdle
      <4>2. \A c, w : Copying(c, w) => c.at # "import"
        BY DEF Copying
      <4>3. \A c, w, u, k : Restoring(c, w, u, k) => c.at # "import"
        BY DEF Restoring
      <4>4. tfCli' = CliIdle \/ Copying(tfCli', TfContent') \/ Restoring(tfCli', tfWal', tfUp', tfMain'.ok)
        BY <2>2, <2>4, Zenon DEF FilesInv
      <4> QED BY ONLY <4>1, <4>2, <4>3, <4>4, Zenon
    <3> QED BY <2>1, <3>1, RowsFrame
  <2> QED BY <2>3, <2>4
<1> QED BY <1>1, <1>2, <1>3, <1>4

(* What the last command may have answered.                                 *)
RestoredOk(l) == l.what = "restored" /\ l.sure => l.rows \in l.moments
SnapOk(l) ==
    l.what = "snapmerge" => \A i \in DOMAIN l.before : \E j \in DOMAIN l.out : l.out[j].text = l.before[i].text
MergedOk(l) ==
    l.what \in {"merged", "snapmerge"} =>
       /\ Grown(l.a, l.out) /\ \A j \in DOMAIN l.b : Arrived(l.b[j], l.out)
       /\ UniqueRows(l.a) \/ l.what = "snapmerge" => UniqueRows(l.out)
       /\ merge_packs(l.out, l.b) = l.out
ImportedOk(l) == l.what = "imported" => RoundTrips(l.file, l.rows)
LastOk(l) == RestoredOk(l) /\ SnapOk(l) /\ MergedOk(l) /\ ImportedOk(l)

LEMMA AnswersHold == LastOk(tfLast) => RestoredAsSaved /\ MergeKeepsBoth /\ ImportsRoundTrip
<1> SUFFICES ASSUME LastOk(tfLast) PROVE RestoredAsSaved /\ MergeKeepsBoth /\ ImportsRoundTrip
  OBVIOUS
<1>1. RestoredOk(tfLast) /\ SnapOk(tfLast) /\ MergedOk(tfLast) /\ ImportedOk(tfLast)
  BY DEF LastOk
<1>2. RestoredAsSaved
  BY ONLY <1>1 DEF RestoredOk, RestoredAsSaved
<1>3. SnapMergeIsComplete
  BY ONLY <1>1, Zenon DEF SnapOk, SnapMergeIsComplete
<1>4. MergeKeepsBoth
  BY ONLY <1>1, <1>3, Zenon DEF MergedOk, MergeKeepsBoth, Grown
<1>5. ImportsRoundTrip
  BY ONLY <1>1, Zenon DEF ImportedOk, ImportsRoundTrip, RoundTrips
<1> QED BY <1>2, <1>4, <1>5

LEMMA NoAnswerOk == LastOk(NoResult)
<1>1. NoResult.what = "none"
  BY DEF NoResult
<1> QED BY ONLY <1>1 DEF LastOk, RestoredOk, SnapOk, MergedOk, ImportedOk
LEMMA RestoreOk ==
  ASSUME NEW l, l.what = "restored", l.sure => l.rows \in l.moments
  PROVE  LastOk(l)
  BY DEF LastOk, RestoredOk, SnapOk, MergedOk, ImportedOk
LEMMA ImportOk ==
  ASSUME NEW l, Imported(l)
  PROVE  LastOk(l)
<1>1. PICK f, rows : l = [what |-> "imported", file |-> f, rows |-> rows] /\ RoundTrips(f, rows)
  BY DEF Imported
<1>2. l.what = "imported" /\ l.file = f /\ l.rows = rows
  BY ONLY <1>1
<1>3. RoundTrips(l.file, l.rows)
  BY ONLY <1>1, <1>2, Zenon
<1> QED BY ONLY <1>2, <1>3 DEF LastOk, RestoredOk, SnapOk, MergedOk, ImportedOk
LEMMA MergeOk ==
  ASSUME NEW l, NEW a, NEW b \in TfPeers, NEW out, IsTable(a), out = merge_packs(a, b),
         l = [what |-> "merged", a |-> a, b |-> b, out |-> out]
  PROVE  LastOk(l)
<1>1. Merged(a, b, out)
  BY MergesPacks
<1>2. l.what = "merged" /\ l.a = a /\ l.b = b /\ l.out = out
  OBVIOUS
<1>3. MergedOk(l)
  BY ONLY <1>1, <1>2, Zenon DEF Merged, MergedOk
<1> QED BY ONLY <1>2, <1>3 DEF LastOk, RestoredOk, SnapOk, ImportedOk
LEMMA SnapMergeOk ==
  ASSUME NEW l, NEW w, SnapMergeFrom(l, w), UniqueRows(w)
  PROVE  LastOk(l)
<1>1. PICK before, a, b, out :
        /\ l = [what |-> "snapmerge", before |-> before, a |-> a, b |-> b, out |-> out]
        /\ Prefix(before, w) /\ Prefix(a, w) /\ Under(before, a) /\ b \in TfPeers /\ out = merge_packs(a, b)
  BY DEF SnapMergeFrom
<1>2. l.what = "snapmerge" /\ l.a = a /\ l.b = b /\ l.out = out /\ l.before = before
  BY ONLY <1>1
<1>3. IsTable(a) /\ \A i \in DOMAIN a : i \in DOMAIN w /\ a[i] = w[i]
  BY ONLY <1>1, Zenon DEF Prefix
<1>4. Merged(a, b, out)
  BY ONLY <1>1, <1>3, MergesPacks
<1>5. UniqueRows(a)
  BY <1>3, Zenon DEF UniqueRows
<1>6. MergedOk(l)
  BY ONLY <1>2, <1>4, <1>5, Zenon DEF Merged, MergedOk
<1>7. ASSUME NEW i \in DOMAIN before PROVE i \in DOMAIN out /\ out[i].text = before[i].text
  <2>1. i \in DOMAIN a /\ a[i] = before[i]
    BY ONLY <1>1, <1>3, <1>7, Zenon DEF Prefix, Under
  <2> QED BY ONLY <1>4, <2>1, Zenon DEF Merged, Grown
<1>8. SnapOk(l)
  BY ONLY <1>2, <1>7, Zenon DEF SnapOk
<1> QED BY ONLY <1>2, <1>6, <1>8 DEF LastOk, RestoredOk, ImportedOk

-----------------------------------------------------------------------------
TransferInv == FilesInv /\ QuietInv /\ SnapInv /\ RowsInv /\ LastOk(tfLast)

LEMMA TransferStarts == TransferInit => TransferInv
<1> SUFFICES ASSUME TransferInit PROVE TransferInv
  OBVIOUS
<1>1. tfLast = NoResult
  BY DEF TransferInit
<1> QED BY <1>1, FilesInit, SnapInit, RowsInit, NoAnswerOk DEF TransferInv

LEMMA StepsKeepFiles ==
  ASSUME FilesInv, TransferNext
  PROVE  FilesInv'
<1>1. CASE TfOpen \/ TfPut \/ TfSign \/ TfClose \/ TfCrash
  BY <1>1, BrainKeepsFiles
<1>2. CASE BackupStep
  BY <1>2, BackupKeepsFiles
<1>3. CASE ExportStart \/ ExportCreate \/ ExportWrite \/ PackDamage
  BY <1>3, ExportKeepsFiles
<1>4. CASE RestoreBegin \/ RestoreWrite
  BY <1>4, RestoreKeepsFiles
<1>5. CASE MergePacks
  BY <1>5, MergeKeepsFiles
<1>6. CASE ExportRows \/ ImportStart \/ ImportPut \/ CliCrash \/ SnapStep
  BY <1>6, RestKeepsFiles DEF SnapStep
<1> QED BY <1>1, <1>2, <1>3, <1>4, <1>5, <1>6 DEF TransferNext, SnapStep

LEMMA StepsAnswerRight ==
  ASSUME FilesInv, QuietInv, SnapInv, RowsInv, LastOk(tfLast), TransferNext
  PROVE  LastOk(tfLast')
<1>1. CASE tfLast' = tfLast
  BY <1>1
<1>2. CASE tfLast' = NoResult
  BY <1>2, NoAnswerOk
<1>3. CASE TfPut \/ TfSign
  BY <1>1, <1>3, Zenon DEF TfPut, TfSign, Commit
<1>4. CASE TfOpen \/ TfClose \/ TfCrash \/ BackupStep \/ ExportCreate \/ ExportWrite \/ PackDamage \/ CliCrash
  BY <1>1, <1>4, Zenon DEF TfOpen, TfClose, TfCrash, BackupStep, ExportCreate, ExportWrite, PackDamage, CliCrash
<1>5. CASE ExportStart \/ ExportRows \/ ImportStart
  BY <1>2, <1>5, Zenon DEF ExportStart, ExportRows, ImportStart
<1>6. CASE RestoreBegin \/ RestoreWrite
  BY <1>2, <1>6, RestoreKeepsFiles, RestoreOk
<1>7. CASE MergePacks
  <2>1. PICK a, b, out : /\ IsTable(a) /\ b \in TfPeers /\ out = merge_packs(a, b)
                         /\ tfLast' = [what |-> "merged", a |-> a, b |-> b, out |-> out]
    BY <1>7, MergeKeepsFiles
  <2> QED BY ONLY <2>1, MergeOk
<1>8. CASE SnapStep
  <2>1. PICK c \in TfConns : SnapCopy(c) \/ SnapCreate(c) \/ SnapWrite(c) \/ SnapMerged(c) \/ SnapRemove(c)
    BY <1>8 DEF SnapStep
  <2>2. CASE SnapCopy(c) \/ SnapCreate(c) \/ SnapWrite(c) \/ SnapRemove(c)
    BY <1>2, <2>2, Zenon DEF SnapCopy, SnapCreate, SnapWrite, SnapRemove
  <2>3. CASE SnapMerged(c)
    <3>1. tfJob = "snap"
      BY <2>3, SnapJobs
    <3>2. tfLast' = NoResult \/ SnapMergeFrom(tfLast', TfContent)
      BY <2>3, <3>1, SnapAnswered
    <3>3. UniqueRows(TfContent)
      BY <3>1 DEF QuietInv
    <3> QED BY <1>2, <3>2, <3>3, SnapMergeOk
  <2> QED BY <2>1, <2>2, <2>3
<1>9. CASE ImportPut
  <2>1. tfLast' = tfLast \/ Imported(tfLast')
    BY <1>9, RowsPut
  <2> QED BY <1>1, <2>1, ImportOk
<1> QED BY <1>3, <1>4, <1>5, <1>6, <1>7, <1>8, <1>9 DEF TransferNext, SnapStep

LEMMA TransferSteps ==
  ASSUME TransferInv, TransferNext \/ UNCHANGED tfVars
  PROVE  TransferInv'
<1>1. FilesInv /\ QuietInv /\ SnapInv /\ RowsInv /\ LastOk(tfLast)
  BY DEF TransferInv
<1>2. CASE UNCHANGED tfVars
  <2>1. UNCHANGED <<tfMain, tfWal, tfUp, tfPack, tfFile, tfDest, tfCli, tfLast, tfSnap, tfJob>>
    BY <1>2 DEF tfVars
  <2>2. FilesInv'
    BY <1>1, <2>1, FilesFrame
  <2>3. QuietInv' /\ SnapInv'
    BY <1>1, <2>1, Zenon DEF QuietInv, SnapInv, TfContent
  <2>4. RowsInv'
    BY <1>1, <2>1, RowsFrame
  <2> QED BY <1>1, <2>1, <2>2, <2>3, <2>4 DEF TransferInv
<1>3. CASE TransferNext
  <2>1. FilesInv'
    BY <1>1, <1>3, StepsKeepFiles
  <2>2. QuietInv'
    BY <1>1, <1>3, StepsMoveContent, QuietStays
  <2>3. SnapInv'
    BY <1>1, <1>3, SnapStays
  <2>4. RowsInv'
    BY <1>1, <1>3, <2>1, RowsStay
  <2>5. LastOk(tfLast')
    BY <1>1, <1>3, StepsAnswerRight
  <2> QED BY <2>1, <2>2, <2>3, <2>4, <2>5 DEF TransferInv
<1> QED BY <1>2, <1>3

\* Backups and imports: a restore of a pack into a closed database without a log
\* gives the rows the brain had at one moment of the export, whatever was written,
\* cut or damaged meanwhile; a merge of packs, and SnapMerge on one shared file,
\* keep the rows and the CRDT updates of both sides, except those of a row of the
\* second whose text is there under another uri, repeat nothing and change nothing
\* when they are run again; an import that is accepted (a .json file needs exactly
\* one row) and ends, however often it was cut, gives the rows of the exported
\* file in their order.
THEOREM BackupsAreWhole == Spec => [](part = "transfer" => RestoredAsSaved /\ MergeKeepsBoth /\ ImportsRoundTrip)
<1>1. Init => TransferInv
  BY TransferStarts DEF Init
<1>2. TransferInv /\ [Next]_vars => TransferInv'
  BY OneComponentMoves, TransferSteps
<1>3. TransferInv => RestoredAsSaved /\ MergeKeepsBoth /\ ImportsRoundTrip
  BY AnswersHold DEF TransferInv
<1> QED BY <1>1, <1>2, <1>3, PTL DEF Spec
=============================================================================
