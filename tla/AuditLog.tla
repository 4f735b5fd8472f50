------------------------------ MODULE AuditLog ------------------------------
(***************************************************************************)
(* The audit chain (crates/synapse-audit).  The daemon appends, holding    *)
(* its store mutex; audit_query and audit_verify of the MCP server read.   *)
(* A hash is modelled by what it is computed from: hashing onto prev a     *)
(* byte string is appending that string to prev, so two hashes are equal   *)
(* exactly when the hashed bytes are.  The fields of an event are hashed   *)
(* one after the other without separators, an absent one as no bytes.      *)
(***************************************************************************)
EXTENDS Integers, Sequences, SequencesExt

CONSTANTS AuFields,     \* [actor, action, target, space, meta], each a sequence of tokens
          AuMaxEvents,  \* bound on appended events
          AuMaxEdits    \* bound on changes made behind the program's back

VARIABLES auRows,       \* audit_events in id order
          auLastId,     \* AUTOINCREMENT: the greatest id ever given out
          auClock,
          auHist,       \* every row as it was appended
          auEdits

auVars == <<auRows, auLastId, auClock, auHist, auEdits>>

NoHash == <<>>          \* NULL, hashed as 32 zero bytes

AuditInit ==
    /\ auRows = <<>> /\ auHist = <<>>
    /\ auLastId = 0 /\ auClock = 0 /\ auEdits = 0

HashedBytes(ts, e) == <<ts>> \o e.actor \o e.action \o e.target \o e.space \o e.meta
\* Mutant of event_hash.
EventHashNoPrev(ts, e, prev) == <<HashedBytes(ts, e)>>

event_hash(ts, e, prev) == Append(prev, HashedBytes(ts, e))

last_hash(rows) == IF rows = <<>> THEN NoHash ELSE Last(rows).hash

\* append.  The clock may stand still between two events (whole seconds).
AuditAppend(e) ==
    /\ auLastId < AuMaxEvents
    /\ \E ts \in {auClock, auClock + 1} :
          LET row == [id |-> auLastId + 1, ts |-> ts, ev |-> e, prev_hash |-> last_hash(auRows),
                      hash |-> event_hash(ts, e, last_hash(auRows))] IN
          /\ auRows' = Append(auRows, row)
          /\ auHist' = Append(auHist, row)
          /\ auLastId' = row.id
          /\ auClock' = ts
    /\ UNCHANGED auEdits

\* Mutant of query_range.
RangeClosed(since, until) == SelectSeq(auRows, LAMBDA r : r.ts >= since /\ r.ts <= until)

\* query_range, then truncate(limit) in audit_query: [since, until), id order.
query_range(since, until) == SelectSeq(auRows, LAMBDA r : r.ts >= since /\ r.ts < until)
audit_query(since, until, limit) ==
    LET found == query_range(since, until) IN SubSeq(found, 1, IF Len(found) < limit THEN Len(found) ELSE limit)

\* Mutant of verify_chain.
VerifyHashesOnly(rows) ==
    \A i \in DOMAIN rows : rows[i].hash = event_hash(rows[i].ts, rows[i].ev, last_hash(SubSeq(rows, 1, i - 1)))

\* verify_chain: recompute every hash from the stored fields and the
\* predecessor's stored hash, and compare prev_hash with it.
verify_chain(rows) ==
    \A i \in DOMAIN rows :
        LET prev == last_hash(SubSeq(rows, 1, i - 1)) IN
        /\ rows[i].hash = event_hash(rows[i].ts, rows[i].ev, prev)
        /\ rows[i].prev_hash = prev

\* Somebody changes the table with another SQLite client.
AuditEdit ==
    /\ auEdits < AuMaxEdits
    /\ auEdits' = auEdits + 1
    /\ \E i \in DOMAIN auRows :
          \/ auRows' = RemoveAt(auRows, i)
          \/ auRows' = [auRows EXCEPT ![i].prev_hash = NoHash]
          \/ \E e \in AuFields : auRows' = [auRows EXCEPT ![i].ev = e]
          \/ \E j \in DOMAIN auRows : auRows' = [auRows EXCEPT ![i].hash = auRows[j].hash]
    /\ UNCHANGED <<auLastId, auClock, auHist>>

AuditNext == (\E e \in AuFields : AuditAppend(e)) \/ AuditEdit

-----------------------------------------------------------------------------
\* What a row says once its fields run together.
Said(rows) == [i \in DOMAIN rows |->
    <<HashedBytes(rows[i].ts, rows[i].ev), rows[i].prev_hash, rows[i].hash>>]

(* audit_verify answers "verified" exactly when the table says what was     *)
(* appended, up to missing events at its end: no event changed, dropped or  *)
(* put elsewhere in the middle goes unnoticed, later appends on top of a    *)
(* damaged row do not heal it, and an untouched log is never refused.       *)
(* (A byte moved from one field to the next is not noticed: the fields are  *)
(* hashed without separators.)                                              *)
VerifiesIffUntouched ==
    verify_chain(auRows) <=> \/ IsPrefix(Said(auRows), Said(auHist))
                             \/ \E n \in 0..Len(auHist) : \E k \in DOMAIN auHist :
                                   /\ Said(auRows) = SubSeq(Said(auHist), 1, n) \o SubSeq(Said(auHist), k, Len(auHist))
                                   /\ auHist[k].prev_hash = last_hash(SubSeq(auHist, 1, n))

(* However often the table was edited and appended to: a verified log is a  *)
(* walk along the hashes of appended rows.  Each of its rows says what an   *)
(* appended one said and stands on the hash of the row before it, and none  *)
(* is there twice.  Until the first edit the log is the one appended and is *)
(* verified.                                                                *)
VerifiedIsAppended ==
    /\ verify_chain(auRows) <=>
          \A i \in DOMAIN auRows :
              /\ \E k \in DOMAIN auHist : Said(auRows)[i] = Said(auHist)[k]
              /\ auRows[i].prev_hash = last_hash(SubSeq(auRows, 1, i - 1))
    /\ verify_chain(auRows) => \A i, j \in DOMAIN auRows : auRows[i].hash = auRows[j].hash => i = j
    /\ auEdits = 0 => auRows = auHist /\ verify_chain(auRows)

(* Paging through the log by time, one second at a time, shows every row    *)
(* exactly once and in the order of the ids: the intervals of audit_query   *)
(* are half open.                                                           *)
QueryPagesTile ==
    /\ FlattenSeq([t \in 1..(auClock + 1) |-> query_range(t - 1, t)]) = query_range(0, auClock + 1)
    /\ \A k \in 1..3 : IsPrefix(audit_query(0, auClock + 1, k), auRows)
=============================================================================
