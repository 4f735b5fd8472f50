------------------------------ MODULE LiveQuery ------------------------------
(***************************************************************************)
(* Live queries (crates/synapsed/src/livequery.rs): the daemon emits an    *)
(* event per put into a broadcast channel of fixed capacity; every         *)
(* WebSocket connection sends its filter, subscribes and forwards the      *)
(* events that match.  The channel (tokio, external) keeps the last        *)
(* LqCapacity events; a receiver further behind is told how many it lost   *)
(* and goes on with the oldest one kept.                                   *)
(***************************************************************************)
EXTENDS Integers, Sequences, SequencesExt, FiniteSets

CONSTANTS LqClients, LqCapacity,
          LqEvents,        \* what can be emitted: [title, uri], "none" for an absent one
          LqMaxEvents      \* bound on emitted events

ASSUME LiveAssumption == LqCapacity \in Nat \ {0}    \* tokio refuses a channel without room

VARIABLES lqEmitted,   \* every event emitted, in order
          lqConn,      \* client -> its connection
          lqAuthOn     \* the daemon has a token

lqVars == <<lqEmitted, lqConn, lqAuthOn>>

NoFilter == [contains |-> "any", uri_prefix |-> "any"]
Filters == [contains : {"any", "x"}, uri_prefix : {"any", "u"}]
Closed == [at |-> "closed", filter |-> NoFilter, from |-> 0, pos |-> 0, sent |-> <<>>, lost |-> {}]

LiveInit ==
    /\ lqEmitted = <<>>
    /\ lqConn = [c \in LqClients |-> Closed]
    /\ lqAuthOn \in BOOLEAN

\* LiveBroker::emit never waits; without receivers the event is dropped.
LiveEmit ==
    /\ Len(lqEmitted) < LqMaxEvents
    /\ \E e \in LqEvents : lqEmitted' = Append(lqEmitted, e)
    /\ UNCHANGED <<lqConn, lqAuthOn>>

\* ws_handler: the token when there is one, then a loopback origin or none.
LiveUpgrade(c) ==
    /\ lqConn[c].at = "closed"
    /\ \E token \in {"right", "wrong", "absent"}, origin \in {"absent", "loopback", "other"} :
          /\ lqAuthOn => token = "right"
          /\ origin # "other"
    /\ lqConn' = [lqConn EXCEPT ![c] = [Closed EXCEPT !.at = "open"]]
    /\ UNCHANGED <<lqEmitted, lqAuthOn>>

\* handle_socket: the first message is the filter, none when it is not a
\* JSON filter; then subscribe, which sees what is emitted from now on.
LiveSubscribe(c) ==
    /\ lqConn[c].at = "open"
    /\ \E f \in Filters :
          lqConn' = [lqConn EXCEPT ![c] = [Closed EXCEPT !.at = "live", !.filter = f, !.from = Len(lqEmitted), !.pos = Len(lqEmitted)]]
    /\ UNCHANGED <<lqEmitted, lqAuthOn>>

matches_filter(e, f) ==
    /\ f.contains = "any" \/ e.title = f.contains
    /\ f.uri_prefix = "any" \/ e.uri = f.uri_prefix

\* Mutant of LiveForward.
ForwardFromTheEnd(c) ==
    LET me == lqConn[c] IN
    /\ me.at = "live" /\ me.pos < Len(lqEmitted)
    /\ lqConn' = [lqConn EXCEPT ![c] =
          IF Len(lqEmitted) - me.pos > LqCapacity
          THEN [me EXCEPT !.pos = Len(lqEmitted), !.lost = @ \cup ((me.pos + 1)..Len(lqEmitted))]
          ELSE [me EXCEPT !.pos = @ + 1, !.sent = IF matches_filter(lqEmitted[me.pos + 1], me.filter) THEN Append(@, me.pos + 1) ELSE @]]
    /\ UNCHANGED <<lqEmitted, lqAuthOn>>

\* rx.recv(): the next event, or Lagged(n).
LiveForward(c) ==
    LET me == lqConn[c]
        e == lqEmitted[me.pos + 1] IN
    /\ me.at = "live" /\ me.pos < Len(lqEmitted)
    /\ lqConn' = [lqConn EXCEPT ![c] =
          IF Len(lqEmitted) - me.pos > LqCapacity
          THEN [me EXCEPT !.pos = Len(lqEmitted) - LqCapacity, !.lost = @ \cup ((me.pos + 1)..(Len(lqEmitted) - LqCapacity))]
          ELSE [me EXCEPT !.pos = @ + 1, !.sent = IF matches_filter(e, me.filter) THEN Append(@, me.pos + 1) ELSE @]]
    /\ UNCHANGED <<lqEmitted, lqAuthOn>>

\* The client closes, or a send fails.
LiveDetach(c) ==
    /\ lqConn[c].at # "closed"
    /\ lqConn' = [lqConn EXCEPT ![c] = Closed]
    /\ UNCHANGED <<lqEmitted, lqAuthOn>>

LiveNext ==
    \/ LiveEmit
    \/ \E c \in LqClients : LiveUpgrade(c) \/ LiveSubscribe(c) \/ LiveForward(c) \/ LiveDetach(c)

-----------------------------------------------------------------------------
(* What a subscriber has been sent is, in order and without repetition,     *)
(* every event since it subscribed that matches its filter, except those it *)
(* was told it lost; and an event is lost only to a subscriber that was     *)
(* more than the capacity behind when a later event was emitted.            *)
SentOrLost ==
    \A c \in LqClients : LET me == lqConn[c] IN
        me.at = "live" =>
            /\ Range(me.sent) = {i \in (me.from + 1)..me.pos : i \notin me.lost /\ matches_filter(lqEmitted[i], me.filter)}
            /\ \A j, k \in DOMAIN me.sent : j < k => me.sent[j] < me.sent[k]
            /\ \A i \in me.lost : i + LqCapacity <= Len(lqEmitted)
            /\ me.lost \cap ((Len(lqEmitted) - LqCapacity + 1)..Len(lqEmitted)) = {}
=============================================================================
