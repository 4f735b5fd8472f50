----------------------------- MODULE BrainTypes -----------------------------
(***************************************************************************)
(* Constants and value sets of the document tables of a brain.db, shared   *)
(* by the Store that implements them and by the daemon that serves them.   *)
(*                                                                         *)
(* A document's text stands for its blake3 hash (docs.blake3 is UNIQUE), an *)
(* embedding is one of Vecs, NoVec means "no embedding".  Row ids come from *)
(* SQLite's AUTOINCREMENT, cut at MaxId.                                    *)
(***************************************************************************)
EXTENDS Naturals, FiniteSets, Sequences

CONSTANTS
    Texts,      \* document texts
    Vecs,       \* embeddings
    NoText,     \* marks a row id that holds no row of docs
    NoVec,      \* marks a missing embedding / row of docs_vec
    MaxId,      \* bound on row ids
    MaxBatch    \* bound on the length of a batch

ASSUME BrainAssumption ==
    /\ MaxId \in Nat \ {0}
    /\ MaxBatch \in Nat \ {0}
    /\ NoText \notin Texts
    /\ NoVec \notin Vecs

Ids == 1..MaxId

\* PutRequest: the fields the store branches on.
PutRequest == [text : Texts, vec : Vecs \cup {NoVec}]

\* A batch of requests; put_batch_fast and put_batch_deferred_fts reject
\* every batch that carries an embedding.
Batches == UNION {[1..n -> PutRequest] : n \in 1..MaxBatch}
PlainBatches == {rs \in Batches : \A k \in DOMAIN rs : rs[k].vec = NoVec}

\* Vector tables and vector indexes map an id to its embedding.
VecTable == [Ids -> Vecs \cup {NoVec}]
EmptyVecTable == [i \in Ids |-> NoVec]
Present(t) == {i \in Ids : t[i] # NoVec}
=============================================================================
