------------------------------- MODULE Store --------------------------------
(***************************************************************************)
(* synapse-core's Store (vendor/synapse-db/crates/synapse-core/src/db.rs): *)
(* the SQLite tables, the raw-memory bridge and the three derived indexes  *)
(* (usearch sidecar, tantivy, ndarray) under puts, batches, deletes,       *)
(* searches, flushes, crashes and reopens, by one or several processes.    *)
(*                                                                         *)
(* Each process runs one operation at a time (&mut self).  An operation is *)
(* cut into one step per committed SQL statement or transaction, because   *)
(* other processes and crashes can fall between them; the updates of the   *)
(* process's private in-memory indexes that end it are one step.           *)
(***************************************************************************)
EXTENDS AnnSidecar, LexIndex

VARIABLES
    pc,        \* process -> where its current operation stands
    kind,      \* process -> which put it runs
    rows,      \* process -> the rows of that put: [id, vec, fresh]
    deficit,   \* process -> rows missing from the loaded sidecar (open)
    \* History variables, read by no action:
    cut,       \* ids whose put was cut (by a crash, or by the rollback of its
               \* batch's enqueue) before the raw memory was queued
    ghostLoad  \* has a reopen loaded a sidecar that holds a deleted row?

control == <<pc, kind, rows, deficit>>
history == <<cut, ghostLoad>>
indexes == <<ann, annFile, lexAt, staged, lexRam, lexDisk, lexMark, nd>>
vars == <<docs, vecs, fts, ftsRows, trigger, seq, rawMem, queue, indexes, control, history>>

Row == [id : Ids, vec : Vecs \cup {NoVec}, fresh : BOOLEAN]
PutKinds == {"put", "batch", "fast", "deferred"}
PcValues == {"down", "opening", "idle", "rawSelect", "rawInsert", "enqueue",
             "enqueueBatch", "dropped", "retrigger", "mirror"}

RowSeqs == {<<>>} \cup UNION {[1..n -> Row] : n \in 1..MaxBatch}
\* After the commit of a put's transaction and before its end.
PutSteps == {"rawSelect", "rawInsert", "enqueue", "enqueueBatch", "retrigger", "mirror"}

Init ==
    /\ DocTablesInit
    /\ RawMemoryInit
    /\ AnnInit
    /\ LexInit
    /\ NdInit
    /\ pc = [p \in Procs |-> "down"]
    /\ kind = [p \in Procs |-> "put"]
    /\ rows = [p \in Procs |-> <<>>]
    /\ deficit = [p \in Procs |-> 0]
    /\ cut = {}
    /\ ghostLoad = FALSE

Goto(p, l) == pc' = [pc EXCEPT ![p] = l]
Finish(p) == /\ Goto(p, "idle")
             /\ rows' = [rows EXCEPT ![p] = <<>>]
             /\ UNCHANGED <<kind, deficit>>

-----------------------------------------------------------------------------
(* open, close, crash                                                      *)

\* Mutant: migrate() does not bring the trigger back.
OpenLoadLeavesTrigger(p) ==
    /\ pc[p] = "down"
    /\ AnnLoad(p)
    /\ deficit' = [deficit EXCEPT ![p] = LoadDeficit]
    /\ ghostLoad' = (ghostLoad \/ Present(annFile) \ Present(vecs) # {})
    /\ Goto(p, "opening")
    /\ UNCHANGED <<tables, memory, annFile, lex, nd, kind, rows, cut>>

\* migrate() (which reinstalls the trigger), load of the sidecar, row count.
OpenLoad(p) ==
    /\ pc[p] = "down"
    /\ SetTrigger(TRUE)
    /\ AnnLoad(p)
    /\ deficit' = [deficit EXCEPT ![p] = LoadDeficit]
    /\ ghostLoad' = (ghostLoad \/ Present(annFile) \ Present(vecs) # {})
    /\ Goto(p, "opening")
    /\ UNCHANGED <<memory, annFile, lex, nd, kind, rows, cut>>

\* rebuild_ann_tail and the tantivy warm start.
OpenFinish(p) ==
    /\ pc[p] = "opening"
    /\ AnnInjectTail(p, deficit[p])
    /\ WarmStart(p)
    /\ deficit' = [deficit EXCEPT ![p] = 0]
    /\ Goto(p, "idle")
    /\ UNCHANGED <<tables, memory, annFile, nd, kind, rows, history>>

\* Everything the process holds in memory goes with it.
LoseMemory(p) ==
    /\ ann' = [ann EXCEPT ![p] = EmptyVecTable]
    /\ LexClose(p)
    /\ NdDrop(p)
    /\ Goto(p, "down")
    /\ rows' = [rows EXCEPT ![p] = <<>>]
    /\ deficit' = [deficit EXCEPT ![p] = 0]
    /\ UNCHANGED <<tables, memory, kind>>

\* impl Drop for Store: save the sidecar, drop the rest.
Close(p) ==
    /\ pc[p] = "idle"
    /\ AnnSave(p)
    /\ LoseMemory(p)
    /\ UNCHANGED history

\* SIGKILL, or the daemon's process::exit, at any point.
Crash(p) ==
    /\ pc[p] # "down"
    /\ LoseMemory(p)
    /\ cut' = IF pc[p] \in PutSteps \ {"mirror"}
              THEN cut \cup {rows[p][k].id : k \in DOMAIN rows[p]} ELSE cut
    /\ UNCHANGED <<annFile, ghostLoad>>

\* flush_ann
FlushAnn(p) ==
    /\ pc[p] = "idle"
    /\ AnnSave(p)
    /\ UNCHANGED <<tables, memory, ann, lex, nd, control, history>>

-----------------------------------------------------------------------------
(* put, put_batch, put_batch_fast, put_batch_deferred_fts                  *)

\* The transaction all four share.  A failing one (dimension mismatch, a
\* UNIQUE uri, SQLITE_BUSY) rolls back and changes nothing.
CommitRows(p, rs, bulkFts, next) ==
    \E n \in seq..MaxId, ids \in [DOMAIN rs -> Ids] :
       /\ Assigns(rs, ids, n)
       /\ InsertRows(rs, ids, n, bulkFts)
       /\ rows' = [rows EXCEPT ![p] = [k \in DOMAIN rs |->
                     [id |-> ids[k], vec |-> rs[k].vec, fresh |-> k \in Fresh(rs)]]]
       /\ Goto(p, next)
       /\ UNCHANGED <<memory, indexes, deficit, history>>

Put(p, r) ==
    /\ pc[p] = "idle"
    /\ CommitRows(p, <<r>>, FALSE, "rawSelect")
    /\ kind' = [kind EXCEPT ![p] = "put"]

PutBatch(p, rs) ==
    /\ pc[p] = "idle"
    /\ CommitRows(p, rs, FALSE, "enqueueBatch")
    /\ kind' = [kind EXCEPT ![p] = "batch"]

PutBatchFast(p, rs) ==
    /\ pc[p] = "idle"
    /\ rs \in PlainBatches
    /\ CommitRows(p, rs, FALSE, "enqueueBatch")
    /\ kind' = [kind EXCEPT ![p] = "fast"]

\* put_batch_deferred_fts drops the trigger in a statement of its own ...
DropTrigger(p) ==
    /\ pc[p] = "idle"
    /\ SetTrigger(FALSE)
    /\ Goto(p, "dropped")
    /\ kind' = [kind EXCEPT ![p] = "deferred"]
    /\ UNCHANGED <<memory, indexes, rows, deficit, history>>

\* ... inserts the batch and merges FTS5 in one transaction ...
DeferredTx(p, rs) ==
    /\ pc[p] = "dropped"
    /\ rs \in PlainBatches
    /\ CommitRows(p, rs, TRUE, "retrigger")
    /\ UNCHANGED kind

\* ... and recreates the trigger, after an error too.
CreateTrigger(p) ==
    /\ pc[p] \in {"dropped", "retrigger"}
    /\ SetTrigger(TRUE)
    /\ Goto(p, IF pc[p] = "retrigger" THEN "enqueueBatch" ELSE "idle")
    /\ UNCHANGED <<memory, indexes, kind, rows, deficit, history>>

\* ensure_raw_memory of a single put: a SELECT ...
RawSelect(p) ==
    /\ pc[p] = "rawSelect"
    /\ Goto(p, IF rawMem[rows[p][1].id] = 0 THEN "rawInsert" ELSE "enqueue")
    /\ UNCHANGED <<tables, memory, indexes, kind, rows, deficit, history>>

\* The end of ensure_raw_memory_and_enqueue, also when it fails: a
\* deduplicated put returns, a fresh row goes on to the indexes.
AfterRaw(p) == IF rows[p][1].fresh
               THEN Goto(p, "mirror") /\ UNCHANGED <<kind, rows, deficit>>
               ELSE Finish(p)

\* ... then an INSERT, refused by the foreign key when the row is gone.
RawInsert(p) ==
    /\ pc[p] = "rawInsert"
    /\ \/ /\ InsertRaw(rows[p][1].id)
          /\ Goto(p, "enqueue")
          /\ UNCHANGED <<kind, rows, deficit>>
       \/ /\ docs[rows[p][1].id] = NoText
          /\ AfterRaw(p)
          /\ UNCHANGED memory
    /\ UNCHANGED <<tables, indexes, history>>

Enqueue(p) ==
    /\ pc[p] = "enqueue"
    /\ EnqueueExtraction(rows[p][1].id)
    /\ AfterRaw(p)
    /\ UNCHANGED <<tables, indexes, history>>

\* ensure_raw_memory_and_enqueue_batch: one transaction, rolled back for
\* the whole batch when the foreign key refuses one of the rows.
RawBatch(p) ==
    /\ pc[p] = "enqueueBatch"
    /\ LET ids == [k \in DOMAIN rows[p] |-> rows[p][k].id]
       IN  \/ EnqueueBatch(ids) /\ UNCHANGED cut
           \/ /\ \E k \in DOMAIN ids : docs[ids[k]] = NoText
              /\ cut' = cut \cup {ids[k] : k \in DOMAIN ids}
              /\ UNCHANGED memory
    /\ Goto(p, "mirror")
    /\ UNCHANGED <<tables, indexes, kind, rows, deficit, ghostLoad>>

\* The in-memory indexes at the end of a put.
Mirror(p) ==
    /\ pc[p] = "mirror"
    /\ IF kind[p] \in {"put", "batch"}
       THEN AnnInsert(p, rows[p]) /\ NdAddRows(p, rows[p])
       ELSE UNCHANGED <<ann, nd>>
    /\ IF kind[p] = "put" THEN LexPut(p, rows[p][1].id) ELSE LexMirrorBatch(p, rows[p])
    /\ Finish(p)
    /\ UNCHANGED <<tables, memory, annFile, history>>

-----------------------------------------------------------------------------
(* delete, merge, searches                                                 *)

\* delete(): one transaction, then ann.remove and the ndarray cache.  The
\* tantivy index is not told.  A refused transaction changes nothing.
Delete(p, i) ==
    /\ pc[p] = "idle"
    /\ DeleteRow(i)
    /\ ForgetDoc(i)
    /\ AnnRemove(p, i)
    /\ NdDrop(p)
    /\ UNCHANGED <<annFile, lex, control, history>>

\* merge_crdt(): UPDATE docs, for the merged CRDT column.
MergeCrdt(p, i) ==
    /\ pc[p] = "idle"
    /\ TouchRow(i)
    /\ UNCHANGED <<memory, indexes, control, history>>

SearchLex(p) ==
    /\ pc[p] = "idle"
    /\ LexSearch(p)
    /\ UNCHANGED <<tables, memory, ann, annFile, nd, control, history>>

\* search_vec builds the ndarray cache when the ANN index gives no hits.
SearchVec(p) ==
    /\ pc[p] = "idle"
    /\ AnnLen(p) = 0 \/ "annSearch" \in Faults
    /\ NdBuild(p)
    /\ UNCHANGED <<tables, memory, ann, annFile, lex, control, history>>

WarmTurbo(p) ==
    /\ pc[p] = "idle"
    /\ NdBuild(p)
    /\ UNCHANGED <<tables, memory, ann, annFile, lex, control, history>>

TakeNdarraySearch(p) ==
    /\ pc[p] = "idle"
    /\ NdDrop(p)
    /\ UNCHANGED <<tables, memory, ann, annFile, lex, control, history>>

-----------------------------------------------------------------------------
\* The steps of an operation under way, and the crash that can cut it.
Continue(p) ==
    \/ OpenFinish(p) \/ Crash(p)
    \/ RawSelect(p) \/ RawInsert(p) \/ Enqueue(p) \/ RawBatch(p) \/ Mirror(p)
    \/ \E rs \in PlainBatches : DeferredTx(p, rs)
    \/ CreateTrigger(p)

\* What a caller can start on an idle (or closed) store.
Call(p) ==
    \/ OpenLoad(p)
    \/ "close" \in Ops /\ Close(p)
    \/ "flush" \in Ops /\ FlushAnn(p)
    \/ "put" \in Ops /\ \E r \in PutRequest : Put(p, r)
    \/ "batch" \in Ops /\ \E rs \in Batches : PutBatch(p, rs)
    \/ "fast" \in Ops /\ \E rs \in PlainBatches : PutBatchFast(p, rs)
    \/ "deferred" \in Ops /\ DropTrigger(p)
    \/ "delete" \in Ops /\ \E i \in Ids : Delete(p, i)
    \/ "merge" \in Ops /\ \E i \in Ids : MergeCrdt(p, i)
    \/ "lex" \in Ops /\ SearchLex(p)
    \/ "vec" \in Ops /\ SearchVec(p)
    \/ "warm" \in Ops /\ (WarmTurbo(p) \/ TakeNdarraySearch(p))

Next == \E p \in Procs : Call(p) \/ Continue(p)

Spec == Init /\ [][Next]_vars

\* The tables as the abstract brain other components see.
B == INSTANCE Brain

-----------------------------------------------------------------------------
(* Properties                                                              *)

TablesType ==
    /\ docs \in [Ids -> Texts \cup {NoText}]
    /\ vecs \in VecTable
    /\ fts \in SUBSET Ids
    /\ ftsRows \in Nat
    /\ trigger \in BOOLEAN
    /\ seq \in 0..MaxId

MemoryType == rawMem \in [Ids -> Nat] /\ queue \in SUBSET Ids

AnnType == ann \in [Procs -> VecTable] /\ annFile \in VecTable

LexType ==
    /\ lexAt \in [Procs -> {"none", "disk", "ram"}]
    /\ staged \in [Procs -> SUBSET Ids]
    /\ lexRam \in [Procs -> SUBSET Ids]
    /\ lexDisk \in SUBSET Ids
    /\ lexMark \in 0..MaxId

NdType == nd \in [Procs -> VecTable \cup {NoIndex}]

\* A process in the middle of a put holds at least one row.
ControlType ==
    /\ pc \in [Procs -> PcValues]
    /\ kind \in [Procs -> PutKinds]
    /\ rows \in [Procs -> RowSeqs]
    /\ deficit \in [Procs -> 0..MaxId]
    /\ \A p \in Procs : pc[p] \in PutSteps <=> rows[p] # <<>>

HistoryType == cut \in SUBSET Ids /\ ghostLoad \in BOOLEAN

\* Every variable of the store has its type, and a process carries the rows
\* of a put exactly between the commit of its transaction and its last step.
TypeOK ==
    TablesType /\ MemoryType /\ AnnType /\ LexType /\ NdType /\ ControlType /\ HistoryType

\* An id found in a process's usearch index, or in the sidecar file, never
\* denotes another vector than docs_vec has under it: stale sidecars, failed
\* adds, deduplicated batches and other processes can make the index
\* incomplete or leave ghosts in it, but never make a hit hydrate to the
\* wrong document.  It rests on AUTOINCREMENT never reusing an id and on
\* put_batch mirroring only freshly inserted rows.
AnnNeverLies ==
    \A i \in Present(vecs) :
       /\ annFile[i] \in {vecs[i], NoVec}
       /\ \A p \in Procs : ann[p][i] \in {vecs[i], NoVec}

\* A row id that has denoted a document is never given to another one: only
\* ids above sqlite_sequence come to life.
RowIdsNeverReused ==
    [][\A i \in Ids : docs'[i] \in {docs[i], NoText} \/ (docs[i] = NoText /\ i > seq)]_vars

\* Every interleaving of the store's transactions, by any number of
\* processes and with crashes between them, is a behaviour of Brain: a put
\* whose SELECT, INSERT and id assignment were not one transaction, or a
\* delete that left the embedding, would show here.
StoreImplementsBrain == B!Spec

\* With one process, whose usearch adds succeed, an idle store finds every
\* row of docs_vec through the ANN index after any number of crashes, as long
\* as no reopen met a sidecar that still held a deleted row.
SidecarComplete ==
    ~ghostLoad => \A p \in Procs : pc[p] = "idle" => Present(vecs) \subseteq Present(ann[p])

\* The durable high-water mark is never ahead of the durable index: every
\* document at or below last_indexed_doc_id is committed to tantivy, so the
\* warm start after a crash, which only looks above the mark, misses none.
MarkNeverAhead == \A i \in LiveIds : i <= lexMark => i \in lexDisk

\* An idle process whose tantivy index is open has every document in it,
\* committed or staged for the commit the next search makes.
LexComplete ==
    \A p \in Procs : pc[p] = "idle" /\ lexAt[p] # "none" =>
        LiveIds \subseteq Committed(p) \cup staged[p]

\* docs_fts indexes exactly the documents, although a deferred batch drops
\* the trigger and a crash can leave the database without it.
FtsComplete == fts = LiveIds

\* The raw memory and the extraction_queue row of a document are missing only
\* while its put is under way, or when a crash or the rollback of its batch's
\* enqueue cut that put: no failure of an index, no deduplicated re-put and no
\* other process's delete of another document loses them.
OnlyCutPutsLoseMemory ==
    \A i \in LiveIds \ cut :
       \/ rawMem[i] > 0 /\ i \in queue
       \/ \E p \in Procs : \E k \in DOMAIN rows[p] : rows[p][k].id = i

\* A warm ndarray cache of an idle process holds every row of docs_vec, with
\* its vector.
NdComplete ==
    \A p \in Procs : pc[p] = "idle" /\ ~NdEmpty(p) =>
        \A i \in Present(vecs) : nd[p][i] = vecs[i]

\* Every index derived from the tables can find every document: the sidecar,
\* the persistent and the open tantivy index, docs_fts and the ndarray cache.
IndexesComplete ==
    /\ SidecarComplete
    /\ MarkNeverAhead
    /\ LexComplete
    /\ FtsComplete
    /\ NdComplete

-----------------------------------------------------------------------------
(* A claim of the code's comments that the code does not keep              *)

\* ann.rs: "a SIGKILL between SQL commit and sidecar save is recoverable -
\* next open rebuilds".
SidecarRecovers ==
    \A p \in Procs : pc[p] = "idle" => Present(vecs) \subseteq Present(ann[p])
=============================================================================
