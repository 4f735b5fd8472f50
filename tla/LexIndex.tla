------------------------------ MODULE LexIndex ------------------------------
(***************************************************************************)
(* The tantivy BM25 index (synapse-fts, and its use in db.rs).  One process *)
(* at a time holds the writer lock of the persistent index; a process that *)
(* finds it locked falls back to an index in RAM.  Documents are staged by *)
(* add() and become durable and visible at commit().  The file             *)
(* synapse_meta.json holds the high-water mark last_indexed_doc_id.        *)
(* Nothing ever removes a document from the index.                         *)
(***************************************************************************)
EXTENDS DocTables

VARIABLES
    lexAt,     \* process -> "none", "disk" or "ram": the index it has open
    staged,    \* process -> ids added but not committed
    lexRam,    \* process -> ids committed in its RAM index
    lexDisk,   \* ids committed in the persistent index
    lexMark    \* last_indexed_doc_id, 0 when the file is missing

lex == <<lexAt, staged, lexRam, lexDisk, lexMark>>

LexInit ==
    /\ lexAt = [p \in Procs |-> "none"]
    /\ staged = [p \in Procs |-> {}]
    /\ lexRam = [p \in Procs |-> {}]
    /\ lexDisk = {}
    /\ lexMark = 0

LexLocked == \E q \in Procs : lexAt[q] = "disk"

\* What a search of process p can see.
Committed(p) == IF lexAt[p] = "disk" THEN lexDisk
                ELSE IF lexAt[p] = "ram" THEN lexRam[p] ELSE {}

\* Mutant: off by one at the mark.
DeltaOffByOne(mark) == {i \in LiveIds : i > mark + 1}

\* Opening an index indexes the documents above its high-water mark (0 for
\* a RAM index), commits, and moves the mark to the last of them.
Delta(mark) == {i \in LiveIds : i > mark}

OpenDisk(p) ==
    /\ ~LexLocked
    /\ lexAt' = [lexAt EXCEPT ![p] = "disk"]
    /\ lexDisk' = lexDisk \cup Delta(lexMark)
    /\ lexMark' = IF Delta(lexMark) = {} THEN lexMark ELSE MaxDocId
    /\ UNCHANGED <<staged, lexRam>>

OpenRam(p) ==
    /\ lexAt' = [lexAt EXCEPT ![p] = "ram"]
    /\ lexRam' = [lexRam EXCEPT ![p] = Delta(0)]
    /\ UNCHANGED <<staged, lexDisk, lexMark>>

\* init_tantivy_warm_start
WarmStart(p) == \/ OpenDisk(p)
                \/ LexLocked /\ OpenRam(p)

\* Dropping the FtsIndex: staged adds are gone, the lock is released.
LexClose(p) ==
    /\ lexAt' = [lexAt EXCEPT ![p] = "none"]
    /\ staged' = [staged EXCEPT ![p] = {}]
    /\ lexRam' = [lexRam EXCEPT ![p] = {}]
    /\ UNCHANGED <<lexDisk, lexMark>>

\* commit(): ids become visible together with everything staged before.
LexCommit(p, ids) ==
    /\ IF lexAt[p] = "disk"
       THEN lexDisk' = lexDisk \cup staged[p] \cup ids /\ UNCHANGED lexRam
       ELSE /\ lexRam' = [lexRam EXCEPT ![p] = @ \cup staged[p] \cup ids]
            /\ UNCHANGED lexDisk
    /\ staged' = [staged EXCEPT ![p] = {}]

\* Mutant: the mark moves before the add, which can still fail.
LexPutMarksFirst(p, i) ==
    \/ /\ lexAt[p] # "none"
       /\ LexCommit(p, {i})
       /\ UNCHANGED <<lexAt, lexMark>>
    \/ /\ lexAt[p] = "disk" /\ "putLex" \in Faults
       /\ lexAt' = [lexAt EXCEPT ![p] = "none"]
       /\ lexMark' = i
       /\ UNCHANGED <<staged, lexRam, lexDisk>>
    \/ lexAt[p] = "none" /\ UNCHANGED lex

\* put_inner: add and commit, or drop the index when either fails.
LexPut(p, i) ==
    \/ /\ lexAt[p] # "none"
       /\ LexCommit(p, {i})
       /\ UNCHANGED <<lexAt, lexMark>>
    \/ /\ lexAt[p] # "none" /\ "putLex" \in Faults
       /\ LexClose(p)
    \/ lexAt[p] = "none" /\ UNCHANGED lex

\* mirror_batch_to_tantivy: stage the whole batch, stop at the first add
\* that fails, commit nothing.
LexMirrorBatch(p, rows) ==
    IF lexAt[p] = "none" THEN UNCHANGED lex
    ELSE /\ \E n \in IF "mirror" \in Faults THEN 0..Len(rows) ELSE {Len(rows)} :
               staged' = [staged EXCEPT ![p] = @ \cup {rows[k].id : k \in 1..n}]
         /\ UNCHANGED <<lexAt, lexRam, lexDisk, lexMark>>

\* Mutant: the mark moves although the staged adds are not committed.
MarkWithoutCommit(p) ==
    /\ lexAt[p] # "none"
    /\ lexMark' = IF lexAt[p] = "disk" /\ MaxDocId > 0 THEN MaxDocId ELSE lexMark
    /\ UNCHANGED <<lexAt, staged, lexRam, lexDisk>>

\* search_lex on an open index: commit what is staged (a failure is only
\* logged and leaves it staged), then move the mark to MAX(id).
LexSearchOpen(p) ==
    /\ lexAt[p] # "none"
    /\ \/ LexCommit(p, {})
       \/ "lexCommit" \in Faults /\ staged[p] # {} /\ UNCHANGED <<staged, lexRam, lexDisk>>
    /\ lexMark' = IF lexAt[p] = "disk" /\ MaxDocId > 0 THEN MaxDocId ELSE lexMark
    /\ UNCHANGED lexAt

\* search_lex when put_inner dropped the index: reopen the persistent index
\* (its directory exists), index the delta, and mark MAX(id).  Fails, with
\* no effect, when another process holds the lock.
LexSearchReopen(p) ==
    /\ lexAt[p] = "none"
    /\ ~LexLocked
    /\ lexAt' = [lexAt EXCEPT ![p] = "disk"]
    /\ lexDisk' = lexDisk \cup Delta(lexMark)
    /\ lexMark' = IF MaxDocId > 0 THEN MaxDocId ELSE lexMark
    /\ UNCHANGED <<staged, lexRam>>

LexSearch(p) == LexSearchOpen(p) \/ LexSearchReopen(p)
=============================================================================
