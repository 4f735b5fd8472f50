----------------------------- MODULE DocTables ------------------------------
(***************************************************************************)
(* The SQLite tables of synapse-core that hold documents (db.rs, migrate): *)
(* docs, docs_vec and the external-content FTS5 index docs_fts with its    *)
(* AFTER INSERT trigger docs_ai.  SQLite transactions are atomic, so every *)
(* operator below is the effect of one committed transaction.  Procs are   *)
(* the operating-system processes (the daemon, a CLI or MCP process) that  *)
(* have opened a Store on the same brain.db.                               *)
(***************************************************************************)
EXTENDS BrainTypes

CONSTANTS
    Procs,      \* processes with a Store on the same database file
    NoIndex,    \* an in-memory index that is not built
    Faults,     \* which index failures may happen, a subset of FaultKinds
    Ops         \* which operations the callers use, a subset of OpKinds

\* Failures the code survives by logging a warning:
\*   "ann"       usearch add fails after the SQL commit
\*   "annSearch" usearch search fails, search_vec falls through
\*   "putLex"    tantivy add/commit fails inside put_inner
\*   "mirror"    tantivy add fails inside mirror_batch_to_tantivy
\*   "lexCommit" the deferred tantivy commit fails inside search_lex
FaultKinds == {"ann", "annSearch", "putLex", "mirror", "lexCommit"}

\* The operations a caller can ask for.  Runs with several processes leave
\* some out to stay small.
OpKinds == {"put", "batch", "fast", "deferred", "delete", "merge", "flush",
            "close", "lex", "vec", "warm"}

ASSUME ConstantsAssumption ==
    /\ MaxId \in Nat \ {0}
    /\ MaxBatch \in Nat \ {0}
    /\ NoText \notin Texts
    /\ NoVec \notin Vecs
    /\ Faults \subseteq FaultKinds
    /\ Ops \subseteq OpKinds

VARIABLES
    docs,      \* docs: row id -> text, NoText where there is no row
    vecs,      \* docs_vec: row id -> embedding
    fts,       \* rowids in docs_fts
    ftsRows,   \* the row total FTS5 keeps for docs_fts
    trigger,   \* is the trigger docs_ai installed?
    seq        \* sqlite_sequence: the largest id AUTOINCREMENT ever gave

tables == <<docs, vecs, fts, ftsRows, trigger, seq>>

LiveIds == {i \in Ids : docs[i] # NoText}
Stored(t) == \E i \in Ids : docs[i] = t

\* SELECT COALESCE(MAX(id),0) FROM docs
MaxDocId == CHOOSE m \in 0..MaxId :
               /\ m \in LiveIds \cup {0}
               /\ \A i \in LiveIds : i <= m

DocTablesInit ==
    /\ docs = [i \in Ids |-> NoText]
    /\ vecs = EmptyVecTable
    /\ fts = {}
    /\ ftsRows = 0
    /\ trigger = TRUE
    /\ seq = 0

-----------------------------------------------------------------------------
\* The positions of rs that SELECT id FROM docs WHERE blake3 = ? does not
\* find: the text is neither stored nor inserted earlier in the same batch.
Fresh(rs) == {k \in DOMAIN rs : /\ ~Stored(rs[k].text)
                                /\ \A j \in 1..(k - 1) : rs[j].text # rs[k].text}

\* Mutant: ids as INTEGER PRIMARY KEY without AUTOINCREMENT gives them, from
\* the largest id still in the table.
AssignsWithoutAutoincrement(rs, ids, n) ==
    LET top == MaxDocId + Cardinality(Fresh(rs))
    IN  /\ n = IF top > seq THEN top ELSE seq
        /\ \A k \in Fresh(rs) : ids[k] > MaxDocId /\ ids[k] <= top
        /\ \A j, k \in Fresh(rs) : j < k => ids[j] < ids[k]
        /\ \A k \in DOMAIN rs \ Fresh(rs) :
              \/ docs[ids[k]] = rs[k].text
              \/ \E j \in Fresh(rs) : rs[j].text = rs[k].text /\ ids[k] = ids[j]

\* ids is what the insert loop of put_inner / put_batch returns for rs when
\* AUTOINCREMENT goes on to n: fresh rows take seq+1, seq+2, ... in batch
\* order, every other position gets the id of the row with its text.
Assigns(rs, ids, n) ==
    /\ \A k \in Fresh(rs) : ids[k] > seq /\ ids[k] <= n
    /\ \A j, k \in Fresh(rs) : j < k => ids[j] < ids[k]
    /\ \A i \in (seq + 1)..n : \E k \in Fresh(rs) : ids[k] = i
    /\ \A k \in DOMAIN rs \ Fresh(rs) :
          \/ docs[ids[k]] = rs[k].text
          \/ \E j \in Fresh(rs) : rs[j].text = rs[k].text /\ ids[k] = ids[j]

\* The transaction that inserts the fresh rows of rs.  docs_fts follows
\* through the trigger when it is installed, or through the bulk
\* INSERT ... SELECT ... WHERE id > max_before of a deferred batch.
InsertRows(rs, ids, n, bulkFts) ==
    LET new == {ids[k] : k \in Fresh(rs)}
        RowOf(i) == CHOOSE k \in Fresh(rs) : ids[k] = i
        byTrigger == IF trigger THEN new ELSE {}
        byMerge == IF bulkFts THEN {i \in LiveIds \cup new : i > MaxDocId} ELSE {}
    IN  /\ docs' = [i \in Ids |-> IF i \in new THEN rs[RowOf(i)].text ELSE docs[i]]
        /\ vecs' = [i \in Ids |-> IF i \in new THEN rs[RowOf(i)].vec ELSE vecs[i]]
        /\ fts' = fts \cup byTrigger \cup byMerge
        /\ ftsRows' = ftsRows + Cardinality(byTrigger) + Cardinality(byMerge)
        /\ seq' = n
        /\ UNCHANGED trigger

\* FTS5 refuses to take a row out of docs_fts ("database disk image is
\* malformed") when its row total would fall below zero.  delete() takes it
\* out twice: by its own DELETE FROM docs_fts, whose failure it ignores, and
\* by the trigger docs_ad of DELETE FROM docs, whose failure rolls back.
\* (FTS5 guards its token totals in the same way; with texts of one length
\* the two guards agree.)
DeleteAccepted(i) == docs[i] = NoText \/ ftsRows >= 2

\* delete(): rows leave docs_vec, docs_fts and docs in one transaction.
DeleteRow(i) ==
    /\ DeleteAccepted(i)
    /\ docs' = [docs EXCEPT ![i] = NoText]
    /\ vecs' = [vecs EXCEPT ![i] = NoVec]
    /\ fts' = fts \ {i}
    /\ ftsRows' = IF docs[i] = NoText THEN ftsRows ELSE ftsRows - 2
    /\ UNCHANGED <<trigger, seq>>

\* UPDATE docs: the trigger docs_au takes the row out of docs_fts and puts
\* it back, under the same guard.
TouchRow(i) ==
    /\ docs[i] # NoText
    /\ ftsRows >= 1
    /\ fts' = fts \cup {i}
    /\ UNCHANGED <<docs, vecs, ftsRows, trigger, seq>>

\* DROP TRIGGER docs_ai / CREATE TRIGGER IF NOT EXISTS docs_ai
SetTrigger(b) == trigger' = b /\ UNCHANGED <<docs, vecs, fts, ftsRows, seq>>

-----------------------------------------------------------------------------
(***************************************************************************)
(* The bridge from docs to the typed-memory layer (sota.rs): one raw       *)
(* memory per document and one extraction_queue row per document.          *)
(* memories.doc_id is a foreign key into docs (the bundled SQLite enforces *)
(* foreign keys by default); extraction_queue.doc_id is a plain primary    *)
(* key.                                                                    *)
(***************************************************************************)

VARIABLES
    rawMem,    \* row id of docs -> number of active raw memories it has
    queue      \* doc ids with an extraction_queue row

memory == <<rawMem, queue>>

RawMemoryInit == rawMem = [i \in Ids |-> 0] /\ queue = {}

\* put_memory(conn, id, Raw, ...): the INSERT fails on a deleted document.
InsertRaw(i) ==
    /\ docs[i] # NoText
    /\ rawMem' = [rawMem EXCEPT ![i] = @ + 1]
    /\ UNCHANGED queue

\* Mutant: the enqueue step is forgotten.
ForgetsToEnqueue(i) == UNCHANGED <<rawMem, queue>>

\* enqueue_extraction: INSERT OR IGNORE, no foreign key.
EnqueueExtraction(i) == queue' = queue \cup {i} /\ UNCHANGED rawMem

\* Mutant: the batch creates the memories and forgets the queue.
EnqueueBatchMemoriesOnly(ids) ==
    /\ \A k \in DOMAIN ids : docs[ids[k]] # NoText
    /\ rawMem' = [i \in Ids |-> IF rawMem[i] = 0 /\ \E k \in DOMAIN ids : ids[k] = i
                                THEN 1 ELSE rawMem[i]]
    /\ UNCHANGED queue

\* ensure_raw_memory_and_enqueue_batch on the ids of a batch.  The set-based
\* INSERT ... SELECT ... WHERE NOT EXISTS reads memories as they were before
\* the statement, so an id listed twice is inserted twice.
EnqueueBatch(ids) ==
    LET Times(i) == Cardinality({k \in DOMAIN ids : ids[k] = i})
    IN  /\ \A k \in DOMAIN ids : docs[ids[k]] # NoText
        /\ rawMem' = [i \in Ids |-> IF rawMem[i] = 0 THEN Times(i) ELSE rawMem[i]]
        /\ queue' = queue \cup {ids[k] : k \in DOMAIN ids}

\* delete() removes the memories and the queue row of the document.
ForgetDoc(i) ==
    /\ rawMem' = [rawMem EXCEPT ![i] = 0]
    /\ queue' = queue \ {i}
=============================================================================
