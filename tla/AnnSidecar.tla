----------------------------- MODULE AnnSidecar -----------------------------
(***************************************************************************)
(* The two vector indexes next to docs_vec.                                *)
(* The usearch HNSW index (ann.rs, usearch_backend.rs):                    *)
(* every process holds one in memory, loaded from and saved to the same    *)
(* sidecar file brain.db.usearch.  save() writes a temporary file and      *)
(* renames it, so the file always holds some complete earlier index.       *)
(***************************************************************************)
EXTENDS DocTables

VARIABLES
    ann,       \* process -> its in-memory index
    annFile    \* the sidecar file; EmptyVecTable when it does not exist

AnnInit == ann = [p \in Procs |-> EmptyVecTable] /\ annFile = EmptyVecTable

AnnLen(p) == Cardinality(Present(ann[p]))

\* A row mirrored after its SQL commit: rows[k] = [id, vec, fresh].
\* usearch refuses a key it already holds; a failed add is only logged.
AnnInsert(p, rows) ==
    \E failed \in IF "ann" \in Faults THEN SUBSET DOMAIN rows ELSE {{}} :
       LET Mirrors(k, i) == /\ k \in DOMAIN rows \ failed
                            /\ rows[k].fresh /\ rows[k].id = i
           NewVec(i) == rows[CHOOSE k \in DOMAIN rows : Mirrors(k, i)].vec
       IN  ann' = [ann EXCEPT ![p] = [i \in Ids |->
                     IF ann[p][i] = NoVec /\ \E k \in DOMAIN rows : Mirrors(k, i)
                     THEN NewVec(i) ELSE ann[p][i]]]

\* Ann::remove
AnnRemove(p, i) == ann' = [ann EXCEPT ![p][i] = NoVec]

\* Mutant: ORDER BY id without DESC takes the oldest rows.
AnnHead(deficit) == {i \in Present(vecs) :
                       Cardinality({j \in Present(vecs) : j < i}) < deficit}

\* rebuild_ann_tail: the newest `deficit` rows of docs_vec, skipping the ids
\* that are loaded already.
AnnTail(deficit) == {i \in Present(vecs) :
                       Cardinality({j \in Present(vecs) : j > i}) < deficit}
AnnInjectTail(p, deficit) ==
    ann' = [ann EXCEPT ![p] = [i \in Ids |->
              IF ann[p][i] = NoVec /\ i \in AnnTail(deficit)
              THEN vecs[i] ELSE ann[p][i]]]

\* Mutant: the subtraction without the length comparison around it.
UncheckedDeficit == Cardinality(Present(vecs)) - Cardinality(Present(annFile))

\* Ann::open_or_empty, and the deficit Store::open computes from the row
\* count of docs_vec and the length of the loaded index.
AnnLoad(p) == ann' = [ann EXCEPT ![p] = annFile]
LoadDeficit == LET rows == Cardinality(Present(vecs))
                   loaded == Cardinality(Present(annFile))
               IN  IF loaded < rows THEN rows - loaded ELSE 0

\* flush_ann, and the save in Drop
AnnSave(p) == annFile' = ann[p]

-----------------------------------------------------------------------------
(* The in-memory ndarray index a Store builds lazily from docs_vec         *)
(* (turbo/ndarray_search.rs and its use in db.rs).                         *)

VARIABLE nd    \* process -> NoIndex or a table id -> embedding

NdInit == nd = [p \in Procs |-> NoIndex]

NdEmpty(p) == nd[p] = NoIndex \/ nd[p] = EmptyVecTable

\* from_connection(docs_vec); an empty docs_vec installs the empty index.
NdBuild(p) ==
    nd' = IF nd[p] = NoIndex THEN [nd EXCEPT ![p] = vecs] ELSE nd

\* Mutant: only the first row of a batch reaches the cache.
NdAddFirstRow(p, rows) ==
    nd' = IF NdEmpty(p) \/ rows[1].vec = NoVec THEN nd
          ELSE [nd EXCEPT ![p][rows[1].id] = IF @ = NoVec THEN rows[1].vec ELSE @]

\* add_row for every row that carries an embedding; an id that is in the
\* index already keeps its vector, an index without rows is not extended.
NdAddRows(p, rows) ==
    LET Adds(k, i) == k \in DOMAIN rows /\ rows[k].id = i /\ rows[k].vec # NoVec
        First(i) == CHOOSE k \in DOMAIN rows :
                       Adds(k, i) /\ \A j \in 1..(k - 1) : ~Adds(j, i)
    IN  nd' = IF NdEmpty(p) THEN nd
              ELSE [nd EXCEPT ![p] = [i \in Ids |->
                      IF nd[p][i] = NoVec /\ \E k \in DOMAIN rows : Adds(k, i)
                      THEN rows[First(i)].vec ELSE nd[p][i]]]

\* delete() and take_ndarray_search() leave no cache behind.
NdDrop(p) == nd' = [nd EXCEPT ![p] = NoIndex]
=============================================================================
