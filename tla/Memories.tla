------------------------------ MODULE Memories ------------------------------
(***************************************************************************)
(* The typed-memory tables of brain.db (crates/synapse-core/src/sota.rs):  *)
(* memories, memory_edges, entities and extraction_queue, and the          *)
(* statements every writer uses.  A row is active while superseded_by is   *)
(* NULL.  Row ids are INTEGER PRIMARY KEY without AUTOINCREMENT: the next  *)
(* one is the greatest in use plus one.  Foreign keys are enforced (the    *)
(* bundled SQLite): a statement that would break one fails.                *)
(***************************************************************************)
EXTENDS Integers, Sequences, FiniteSets, FiniteSetsExt

CONSTANTS MaxDoc,    \* documents are 1..MaxDoc, in the order of their puts
          MaxMem,    \* bound on memory row ids
          Names,     \* entity names
          NoName

ASSUME MemAssumption == MaxDoc \in Nat /\ MaxMem \in Nat

VARIABLES
    live,      \* ids of the rows of docs
    lastDoc,   \* the greatest document id ever given out
    mems,      \* memory row id -> row
    edges,     \* memory_edges of type 'supersedes': <<new, old>>
    entities,  \* rows of entities, by canonical_name
    queue      \* document -> status of its queue row

memVars == <<live, lastDoc, mems, edges, entities, queue>>

Docs == 1..MaxDoc
Types == {"raw", "fact"}          \* raw, and one of the typed ones
Statuses == {"none", "pending", "done", "error", "skipped", "promoted"}
NoMem == 0
\* item = 0: not written by an extraction pass.
MemRow == [doc : Docs, type : Types, entity : Names \cup {NoName}, item : Nat,
           superseded_by : 0..MaxMem]

Active(m) == m \in DOMAIN mems /\ mems[m].superseded_by = NoMem
ActiveOf(d) == {m \in DOMAIN mems : mems[m].doc = d /\ Active(m)}
NextMem == IF DOMAIN mems = {} THEN 1 ELSE Max(DOMAIN mems) + 1

MemInit ==
    /\ live = {}
    /\ lastDoc = 0
    /\ mems = <<>>
    /\ edges = {}
    /\ entities = {}
    /\ queue = [d \in Docs |-> "none"]

NewRow(d, t, e, k) == [doc |-> d, type |-> t, entity |-> e, item |-> k, superseded_by |-> NoMem]

\* put_memory, put_memory_with_date: one INSERT; the document must exist.
WithMemory(ms, m, row) == [x \in DOMAIN ms \cup {m} |-> IF x = m THEN row ELSE ms[x]]

\* supersede's UPDATE.
Superseded(ms, old, new) == IF old \in DOMAIN ms THEN [ms EXCEPT ![old].superseded_by = new] ELSE ms

SetStatus(q, d, s) == IF q[d] = "none" THEN q ELSE [q EXCEPT ![d] = s]

\* A put: the document, its raw memory and its queue row.  The raw memory
\* and the queue row can be missing after a crash (see Store).
PutDoc(cut) ==
    /\ lastDoc < MaxDoc
    /\ NextMem <= MaxMem
    /\ lastDoc' = lastDoc + 1
    /\ live' = live \cup {lastDoc + 1}
    /\ IF cut THEN UNCHANGED <<mems, queue>>
       ELSE /\ mems' = WithMemory(mems, NextMem, NewRow(lastDoc + 1, "raw", NoName, 0))
            /\ queue' = [queue EXCEPT ![lastDoc + 1] = "pending"]
    /\ UNCHANGED <<edges, entities>>

\* Mutant: delete leaves superseded_by of the rows under the deleted ones.
DeleteDocKeepsPointers(d) ==
    LET gone == {m \in DOMAIN mems : mems[m].doc = d} IN
    /\ d \in live
    /\ live' = live \ {d}
    /\ edges' = {e \in edges : e[1] \notin gone /\ e[2] \notin gone}
    /\ mems' = [m \in DOMAIN mems \ gone |-> mems[m]]
    /\ queue' = [queue EXCEPT ![d] = "none"]
    /\ UNCHANGED <<lastDoc, entities>>

\* Store::delete, one transaction.
DeleteDoc(d) ==
    LET gone == {m \in DOMAIN mems : mems[m].doc = d} IN
    /\ d \in live
    /\ live' = live \ {d}
    /\ edges' = {e \in edges : e[1] \notin gone /\ e[2] \notin gone}
    /\ mems' = [m \in DOMAIN mems \ gone |->
                  IF mems[m].superseded_by \in gone
                  THEN [mems[m] EXCEPT !.superseded_by = NoMem] ELSE mems[m]]
    /\ queue' = [queue EXCEPT ![d] = "none"]
    /\ UNCHANGED <<lastDoc, entities>>

\* Mutant: promotion takes any row of the document, superseded or not.
PromotableAny(d) ==
    LET own == {m \in DOMAIN mems : mems[m].doc = d /\ mems[m].entity = NoName}
    IN IF own = {} THEN {NextMem} ELSE own

\* The row promote_doc_memory updates: an active row without entity, a raw
\* one before others, else a new row.  updated_ts counts seconds, so any
\* order of rows is possible.
Promotable(d) ==
    LET own == {m \in ActiveOf(d) : mems[m].entity = NoName}
        raw == {m \in own : mems[m].type = "raw"}
    IN IF raw # {} THEN raw ELSE IF own # {} THEN own ELSE {NextMem}

\* promote_doc_memory: one transaction; old = 0 is "supersedes nothing".
PromoteDoc(d, old) ==
    /\ d \in live
    /\ old # d
    /\ \E m \in Promotable(d) :
         /\ m <= MaxMem
         /\ LET row == IF m \in DOMAIN mems THEN [mems[m] EXCEPT !.type = "fact"]
                       ELSE NewRow(d, "fact", NoName, 0)
                promoted == WithMemory(mems, m, row)
            IN IF old = 0
               THEN mems' = promoted /\ UNCHANGED edges
               ELSE \E o \in ActiveOf(old) :
                      /\ mems' = Superseded(promoted, o, m)
                      /\ edges' = edges \cup {<<m, o>>}
    /\ queue' = [queue EXCEPT ![d] = "promoted"]
    /\ UNCHANGED <<live, lastDoc, entities>>

\* doc_memory_state: what a reader is told about a document.
doc_memory_state(d) ==
    IF \A m \in DOMAIN mems : mems[m].doc # d THEN "unknown"
    ELSE IF ActiveOf(d) # {} THEN "active" ELSE "superseded"

\* What following superseded_by from row m meets in n steps, for each n.
Chain(m) ==
    LET reach[n \in 0..MaxMem] ==
            IF n = 0 THEN {m}
            ELSE reach[n - 1] \cup {mems[x].superseded_by : x \in reach[n - 1] \cap DOMAIN mems}
    IN reach

\* The end of a chain of supersessions, or the set it runs into.
Successors(m) == Chain(m)[MaxMem] \ {NoMem}
=============================================================================
