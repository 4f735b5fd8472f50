------------------------------ MODULE EventLog ------------------------------
(***************************************************************************)
(* The event log of crates/synapse-ultra: events.rs (single and batch      *)
(* ingest with a deduplication key), the sessions they open, the FTS shadow*)
(* table kept by triggers (schema.rs) and the lake that old events are     *)
(* archived to (lake.rs).  Several processes work on one brain.db; every   *)
(* statement outside BEGIN/COMMIT is a transaction of its own.             *)
(***************************************************************************)
EXTENDS Integers, Sequences, SequencesExt, FiniteSets

CONSTANTS EvProcs,
          EvEvents,     \* events that may be ingested: [ts, session, body, big]
          EvFiles,      \* batches: sequences over EvEvents \cup {BadLine}
          EvCutoffs,    \* archive cutoffs
          EvMaxRows, EvMaxCuts

ASSUME EventLogAssumption == \A f \in EvFiles : f \in Seq(Range(f))

NoSession == 0
BadLine == [ts |-> -1, session |-> NoSession, body |-> 0, big |-> FALSE]

VARIABLES evRows,     \* synapse_events: set of [id, ts, session, body, big, seen]
          evLastId,   \* AUTOINCREMENT
          evFts,      \* rowids in synapse_events_fts
          evSess,     \* sessions: session -> [start, end], end = -1 for NULL
          evLake,     \* synapse_lake.synapse_events: sequence of [id, text], text = FALSE for a NULL content
          evCols,     \* columns of the lake table: 0 no catalog, 6 made by init, 8 made by hand
          evPc,       \* process -> what it is in the middle of
          evGone,     \* history: rows deleted without a whole copy in the lake: [id, last, bare, big],
                      \* last the id last seen by the copy, bare if the lake has the row without its content
          evCuts      \* history: crashes

evVars == <<evRows, evLastId, evFts, evSess, evLake, evCols, evPc, evGone, evCuts>>

EvIdle == [at |-> "idle"]

EventLogInit ==
    /\ evRows = {} /\ evLastId = 0 /\ evFts = {} /\ evSess = <<>>
    /\ evLake = <<>> /\ evCols \in {0, 8}
    /\ evPc = [p \in EvProcs |-> EvIdle]
    /\ evGone = {} /\ evCuts = 0

\* Event::dedup_key leaves the timestamp out.
dedup_key(e) == <<e.session, e.body>>
Stored(e) == \E r \in evRows : dedup_key(r) = dedup_key(e)

\* A commit makes the snapshot of every open read transaction old.
Moved(p, next) ==
    [q \in EvProcs |-> IF q = p THEN next
                       ELSE IF evPc[q].at = "batch" THEN [evPc[q] EXCEPT !.old = TRUE] ELSE evPc[q]]

\* Mutant of Upserted: only the UPDATE.
UpsertedKnown(sess, e) == IF e.session \in DOMAIN sess THEN [sess EXCEPT ![e.session].end = e.ts] ELSE sess

\* INSERT INTO sessions ... ON CONFLICT DO UPDATE SET ended_at.
Upserted(sess, e) ==
    IF e.session = NoSession THEN sess
    ELSE IF e.session \in DOMAIN sess THEN [sess EXCEPT ![e.session].end = e.ts]
    ELSE [s \in DOMAIN sess \cup {e.session} |-> IF s = e.session THEN [start |-> e.ts, end |-> -1] ELSE sess[s]]

\* Upserted by one event after the other.
UpsertedAll(sess, new) ==
    LET Of(s) == {i \in DOMAIN new : new[i].session = s} IN
    [s \in DOMAIN sess \cup ({new[i].session : i \in DOMAIN new} \ {NoSession}) |->
        [start |-> IF s \in DOMAIN sess THEN sess[s].start ELSE new[Min(Of(s))].ts,
         end |-> IF Of(s) = {} THEN sess[s].end
                 ELSE IF s \in DOMAIN sess \/ Cardinality(Of(s)) > 1 THEN new[Max(Of(s))].ts ELSE -1]]

EventRow(e, id, seen) ==
    [id |-> id, ts |-> e.ts, session |-> e.session, body |-> e.body, big |-> e.big, seen |-> seen]

-----------------------------------------------------------------------------
\* ingest_event, statement by statement: the SELECT on blake3 ...
IngestLook(p) ==
    /\ evPc[p] = EvIdle
    /\ evLastId < EvMaxRows
    /\ \E e \in EvEvents :
          /\ ~Stored(e)
          /\ evPc' = [evPc EXCEPT ![p] = [at |-> "session", ev |-> e, seen |-> evLastId]]
    /\ UNCHANGED <<evRows, evLastId, evFts, evSess, evLake, evCols, evGone, evCuts>>

\* ... the upsert of its session ...
IngestSession(p) ==
    /\ evPc[p].at = "session"
    /\ evSess' = Upserted(evSess, evPc[p].ev)
    /\ evPc' = Moved(p, [evPc[p] EXCEPT !.at = "insert"])
    /\ UNCHANGED <<evRows, evLastId, evFts, evLake, evCols, evGone, evCuts>>

\* ... the INSERT with its trigger.  A content over 1024 bytes is stored
\* compressed only, and the trigger skips a NULL content.
Fts(rows) == {r.id : r \in {x \in rows : ~x.big}}
IngestInsert(p) ==
    /\ evPc[p].at = "insert"
    /\ LET row == EventRow(evPc[p].ev, evLastId + 1, evPc[p].seen) IN
          /\ evRows' = evRows \cup {row}
          /\ evFts' = evFts \cup Fts({row})
    /\ evLastId' = evLastId + 1
    /\ evPc' = Moved(p, EvIdle)
    /\ UNCHANGED <<evSess, evLake, evCols, evGone, evCuts>>

-----------------------------------------------------------------------------
\* The n-th number of a set of numbers.
Nth(K, n) == CHOOSE k \in K : Cardinality({j \in K : j <= k}) = n

\* The events of a file that are new, in order, against the rows and the
\* earlier events of the file.
NewLines(f) ==
    {k \in DOMAIN f : ~Stored(f[k]) /\ \A i \in 1..(k - 1) : dedup_key(f[i]) # dedup_key(f[k])}
BatchNew(f) == [n \in 1..Cardinality(NewLines(f)) |-> f[Nth(NewLines(f), n)]]

\* ingest_events and ingest_jsonl_file: BEGIN, and the first SELECT takes the
\* snapshot every later statement of the transaction reads.
BatchBegin(p) ==
    /\ evPc[p] = EvIdle
    /\ \E f \in EvFiles :
          /\ evLastId + Len(f) <= EvMaxRows
          /\ evPc' = [evPc EXCEPT ![p] = [at |-> "batch", bad |-> BadLine \in Range(f), new |-> BatchNew(f), old |-> FALSE]]
    /\ UNCHANGED <<evRows, evLastId, evFts, evSess, evLake, evCols, evGone, evCuts>>

\* Mutant of BatchRefused: autocommitted statements, nothing is refused.
BatchNeverRefused(pc) == FALSE

\* The first INSERT takes the write lock, which SQLite refuses to a snapshot
\* that is no longer the newest; a line that does not parse rolls back too.
BatchRefused(pc) == pc.old

BatchFails(p) ==
    /\ evPc[p].at = "batch"
    /\ evPc[p].bad \/ (BatchRefused(evPc[p]) /\ evPc[p].new # <<>>)
    /\ evPc' = [evPc EXCEPT ![p] = EvIdle]
    /\ UNCHANGED <<evRows, evLastId, evFts, evSess, evLake, evCols, evGone, evCuts>>

BatchCommit(p) ==
    /\ evPc[p].at = "batch"
    /\ ~evPc[p].bad
    /\ LET new == evPc[p].new
           rows == {EventRow(new[i], evLastId + i, evLastId + i - 1) : i \in DOMAIN new} IN
       /\ new = <<>> \/ ~BatchRefused(evPc[p])
       /\ evRows' = evRows \cup rows
       /\ evFts' = evFts \cup Fts(rows)
       /\ evLastId' = evLastId + Len(new)
       /\ evSess' = UpsertedAll(evSess, new)
       /\ evPc' = IF new = <<>> THEN [evPc EXCEPT ![p] = EvIdle] ELSE Moved(p, EvIdle)
    /\ UNCHANGED <<evLake, evCols, evGone, evCuts>>

-----------------------------------------------------------------------------
\* lake::init: CREATE TABLE IF NOT EXISTS with six columns.
LakeInit ==
    /\ evCols = 0
    /\ evCols' = 6
    /\ UNCHANGED <<evRows, evLastId, evFts, evSess, evLake, evPc, evGone, evCuts>>

Old(rows, cutoff) == {r \in rows : r.ts < cutoff}
ById(rows) ==
    LET ids == {r.id : r \in rows} IN
    [n \in 1..Cardinality(ids) |-> CHOOSE r \in rows : r.id = Nth(ids, n)]

\* archive: one duckdb call copies the old rows to a Parquet file and inserts
\* it into the lake.  The INSERT has eight columns; against the table that
\* init makes it fails and the call returns an error with nothing moved.  No
\* row copied: no DELETE.  The copy takes content and leaves content_zst out, so
\* a row over 1024 bytes arrives without its text.
ArchiveCopy(p) ==
    /\ evPc[p] = EvIdle
    /\ evCols = 8
    /\ \E c \in EvCutoffs :
          LET copy == ById(Old(evRows, c)) IN
          /\ copy # <<>>
          /\ evLake' = evLake \o [i \in DOMAIN copy |-> [id |-> copy[i].id, text |-> ~copy[i].big]]
          /\ evPc' = [evPc EXCEPT ![p] = [at |-> "archive", cutoff |-> c, last |-> evLastId]]
    /\ UNCHANGED <<evRows, evLastId, evFts, evSess, evCols, evGone, evCuts>>

\* Mutant of ArchiveDeletes: the cutoff is inclusive here and not in the copy.
ArchiveDeletesAtCutoff(pc) == Old(evRows, pc.cutoff + 1)

\* The DELETE on a connection of its own, by cutoff, not by what was copied.
ArchiveDeletes(pc) == Old(evRows, pc.cutoff)

ArchiveDelete(p) ==
    /\ evPc[p].at = "archive"
    /\ LET del == ArchiveDeletes(evPc[p])
           copied == {evLake[i].id : i \in DOMAIN evLake}
           whole == {evLake[i].id : i \in {j \in DOMAIN evLake : evLake[j].text}} IN
       /\ evRows' = evRows \ del
       /\ evFts' = evFts \ Fts(del)
       /\ evGone' = evGone \cup {[id |-> r.id, last |-> evPc[p].last, bare |-> r.id \in copied, big |-> r.big] :
                                    r \in {x \in del : x.id \notin whole}}
    /\ evPc' = Moved(p, EvIdle)
    /\ UNCHANGED <<evLastId, evSess, evLake, evCols, evCuts>>

\* A process ends between two statements; an open transaction is undone.
EvCrash(p) ==
    /\ evPc[p] # EvIdle
    /\ evCuts < EvMaxCuts
    /\ evCuts' = evCuts + 1
    /\ evPc' = [evPc EXCEPT ![p] = EvIdle]
    /\ UNCHANGED <<evRows, evLastId, evFts, evSess, evLake, evCols, evGone>>

EventLogNext ==
    \/ LakeInit
    \/ \E p \in EvProcs :
          \/ IngestLook(p) \/ IngestSession(p) \/ IngestInsert(p)
          \/ BatchBegin(p) \/ BatchFails(p) \/ BatchCommit(p)
          \/ ArchiveCopy(p) \/ ArchiveDelete(p)
          \/ EvCrash(p)

-----------------------------------------------------------------------------
(* Two rows with one deduplication key come only from a single ingest that  *)
(* overlapped the other one's insert: the later row was looked for before   *)
(* the earlier one existed.  A batch never repeats a row it can see, however*)
(* it interleaves with other processes, because its transaction is refused  *)
(* once another process has committed.                                      *)
TwiceOnlyByOverlap ==
    \A r, s \in evRows : r.id < s.id /\ dedup_key(r) = dedup_key(s) => s.seen < r.id

(* An event leaves the brain only for the lake, where it arrives with its   *)
(* content, with two exceptions: one that was ingested with an old          *)
(* timestamp between the copy and the delete of a running archive is gone,  *)
(* and of one over 1024 bytes, stored compressed only, the lake gets the    *)
(* row and never the content (lake.rs:17 says that archive "moves" rows).   *)
GoneOnlyIfLate == \A g \in evGone : IF g.bare THEN g.big ELSE g.id > g.last

(* The full-text table holds exactly the rows stored as plain text, those   *)
(* of up to 1024 bytes, through ingests, batches, rollbacks and archives:   *)
(* a longer event is found by no search.  Every row's session is listed.    *)
LogIsSearchable ==
    /\ evFts = Fts(evRows)
    /\ \A r \in evRows : r.session # NoSession => r.session \in DOMAIN evSess
=============================================================================
