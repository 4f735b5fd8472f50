---------------------------- MODULE StoreProofs -----------------------------
(***************************************************************************)
(* Proofs about Store: type correctness, the stability of row ids, the     *)
(* agreement of the usearch index with docs_vec, and what the raw-memory   *)
(* bridge keeps, for any number of processes, ids, batches and failures;   *)
(* and the completeness of the derived indexes with one process.           *)
(***************************************************************************)
EXTENDS Store, NumberFacts

\* Every set of ids is finite.
LEMMA IdSetCardinality ==
  ASSUME NEW S, S \subseteq Ids
  PROVE  IsFiniteSet(S) /\ Cardinality(S) \in 0..MaxId
  BY PartOfInterval, BrainAssumption DEF Ids

\* Two sets of ids without a common one.
LEMMA DisjointCount ==
  ASSUME NEW S, NEW T, S \subseteq Ids, T \subseteq Ids, S \cap T = {}
  PROVE  /\ Cardinality(S \cup T) = Cardinality(S) + Cardinality(T)
         /\ Cardinality(S) \in Nat /\ Cardinality(T) \in Nat
  BY DisjointParts, BrainAssumption DEF Ids

\* A single put is the batch of one request.
LEMMA OneIsABatch ==
  ASSUME NEW r \in PutRequest
  PROVE  <<r>> \in Batches
<1>1. <<r>> \in [1..1 -> PutRequest]
  OBVIOUS
<1>2. 1 \in 1..MaxBatch
  BY BrainAssumption
<1> QED BY <1>1, <1>2 DEF Batches

\* SELECT COALESCE(MAX(id),0): the CHOOSE of MaxDocId has a witness, so it is
\* the largest id of docs.
LEMMA MaxDocIdIsMax ==
  ASSUME TablesType
  PROVE  /\ MaxDocId \in 0..MaxId
         /\ MaxDocId \in LiveIds \cup {0}
         /\ \A i \in LiveIds : i <= MaxDocId
<1> USE ConstantsAssumption DEF Ids
<1> DEFINE T == {MaxId - i : i \in LiveIds}
<1>1. CASE LiveIds = {}
  BY <1>1 DEF MaxDocId
<1>2. CASE LiveIds # {}
  <2>1. T \subseteq Nat /\ T # {}
    BY <1>2 DEF LiveIds
  <2>3. PICK x \in T : \A y \in T : x <= y
    BY <2>1, LeastNat
  <2>4. PICK m \in LiveIds : x = MaxId - m
    OBVIOUS
  <2>5. \A i \in LiveIds : i <= m
    BY <2>3, <2>4 DEF LiveIds
  <2>6. m \in 0..MaxId
    BY DEF LiveIds
  <2> QED BY <2>5, <2>6 DEF MaxDocId
<1> QED BY <1>1, <1>2

-----------------------------------------------------------------------------
(* Type correctness                                                        *)

\* The transaction of a put keeps the tables well typed, whatever ids it gave.
LEMMA InsertRowsType ==
  ASSUME TablesType, NEW rs \in Batches, NEW n \in seq..MaxId,
         NEW ids \in [DOMAIN rs -> Ids], NEW b \in BOOLEAN,
         InsertRows(rs, ids, n, b)
  PROVE  TablesType'
<1> DEFINE new == {ids[k] : k \in Fresh(rs)}
           RowOf(i) == CHOOSE k \in Fresh(rs) : ids[k] = i
           byTrigger == IF trigger THEN new ELSE {}
           byMerge == IF b THEN {i \in LiveIds \cup new : i > MaxDocId} ELSE {}
<1>1. \A k \in DOMAIN rs : rs[k].text \in Texts /\ rs[k].vec \in Vecs \cup {NoVec}
  BY DEF Batches, PutRequest
<1>2. \A i \in new : RowOf(i) \in DOMAIN rs
  BY DEF Fresh
<1>3. /\ docs' = [i \in Ids |-> IF i \in new THEN rs[RowOf(i)].text ELSE docs[i]]
      /\ vecs' = [i \in Ids |-> IF i \in new THEN rs[RowOf(i)].vec ELSE vecs[i]]
      /\ fts' = fts \cup byTrigger \cup byMerge
      /\ ftsRows' = ftsRows + Cardinality(byTrigger) + Cardinality(byMerge)
      /\ seq' = n
      /\ trigger' = trigger
  BY Zenon DEF InsertRows
<1>4. new \subseteq Ids
  BY DEF Fresh
<1> HIDE DEF new, RowOf
<1>5. docs' \in [Ids -> Texts \cup {NoText}]
  BY <1>1, <1>2, <1>3 DEF TablesType
<1>6. vecs' \in VecTable
  BY <1>1, <1>2, <1>3 DEF TablesType, VecTable
<1>9. byTrigger \subseteq Ids /\ byMerge \subseteq Ids
  BY <1>4 DEF LiveIds
<1> HIDE DEF byTrigger, byMerge
<1>7. fts' \in SUBSET Ids /\ ftsRows' \in Nat
  BY <1>3, <1>9, IdSetCardinality DEF TablesType
<1>8. seq' \in 0..MaxId /\ trigger' \in BOOLEAN
  BY <1>3, ConstantsAssumption DEF TablesType
<1> QED BY <1>5, <1>6, <1>7, <1>8 DEF TablesType

\* The rows a put carries after its commit are a nonempty sequence of rows.
LEMMA RowsOfBatch ==
  ASSUME NEW rs \in Batches, NEW ids \in [DOMAIN rs -> Ids],
         NEW new
  PROVE  LET rw == [k \in DOMAIN rs |->
                     [id |-> ids[k], vec |-> rs[k].vec, fresh |-> k \in new]]
         IN  rw \in RowSeqs /\ rw # <<>>
<1> DEFINE rw == [k \in DOMAIN rs |->
                    [id |-> ids[k], vec |-> rs[k].vec, fresh |-> k \in new]]
<1>1. PICK m \in 1..MaxBatch : rs \in [1..m -> PutRequest]
  BY DEF Batches
<1>2. \A k \in DOMAIN rs : rw[k] \in Row
  BY <1>1 DEF Row, PutRequest
<1>3. rw \in [1..m -> Row]
  BY <1>1, <1>2
<1>4. DOMAIN rw = 1..m
  BY <1>1
<1>5. 1 \in 1..m
  BY ConstantsAssumption
<1> HIDE DEF rw
<1>6. rw # <<>>
  BY <1>4, <1>5
<1>7. rw \in RowSeqs
  BY <1>3 DEF RowSeqs
<1> QED BY <1>6, <1>7 DEF rw

\* The number of rows open() finds missing never underflows (Store::open).
LEMMA LoadDeficitType ==
  ASSUME vecs \in VecTable, annFile \in VecTable
  PROVE  LoadDeficit \in 0..MaxId
<1> DEFINE a == Cardinality(Present(vecs))
           b == Cardinality(Present(annFile))
<1>1. a \in 0..MaxId /\ b \in 0..MaxId
  BY IdSetCardinality DEF Present
<1>2. LoadDeficit = IF b < a THEN a - b ELSE 0
  BY DEF LoadDeficit
<1> HIDE DEF a, b
<1> QED BY <1>1, <1>2, ConstantsAssumption

\* Mirroring rows into an index keeps it a vector table.
LEMMA AnnInsertType ==
  ASSUME ann \in [Procs -> VecTable], NEW p \in Procs, NEW rw \in RowSeqs,
         AnnInsert(p, rw)
  PROVE  ann' \in [Procs -> VecTable]
<1>1. PICK failed : LET Mirrors(k, i) == /\ k \in DOMAIN rw \ failed
                                         /\ rw[k].fresh /\ rw[k].id = i
                        NewVec(i) == rw[CHOOSE k \in DOMAIN rw : Mirrors(k, i)].vec
                    IN  ann' = [ann EXCEPT ![p] = [i \in Ids |->
                                  IF ann[p][i] = NoVec /\ \E k \in DOMAIN rw : Mirrors(k, i)
                                  THEN NewVec(i) ELSE ann[p][i]]]
  BY Zenon DEF AnnInsert
<1> DEFINE Mirrors(k, i) == /\ k \in DOMAIN rw \ failed
                            /\ rw[k].fresh /\ rw[k].id = i
           Sel(i) == CHOOSE k \in DOMAIN rw : Mirrors(k, i)
<1>2. \A i \in Ids : (\E k \in DOMAIN rw : Mirrors(k, i)) => Sel(i) \in DOMAIN rw
  OBVIOUS
<1>3. \A k \in DOMAIN rw : rw[k].vec \in Vecs \cup {NoVec}
  BY DEF RowSeqs, Row
<1> HIDE DEF Sel
<1>4. ann' = [ann EXCEPT ![p] = [i \in Ids |->
                 IF ann[p][i] = NoVec /\ \E k \in DOMAIN rw : Mirrors(k, i)
                 THEN rw[Sel(i)].vec ELSE ann[p][i]]]
  BY <1>1, Zenon DEF Sel
<1> HIDE DEF Mirrors
<1> QED BY <1>2, <1>3, <1>4 DEF VecTable

\* put_batch's add_row loop keeps the ndarray cache well typed.
LEMMA NdAddRowsType ==
  ASSUME NdType, NEW p \in Procs, NEW rw \in RowSeqs, rw # <<>>,
         NdAddRows(p, rw)
  PROVE  NdType'
<1> DEFINE Adds(k, i) == k \in DOMAIN rw /\ rw[k].id = i /\ rw[k].vec # NoVec
           First(i) == CHOOSE k \in DOMAIN rw :
                          Adds(k, i) /\ \A j \in 1..(k - 1) : ~Adds(j, i)
<1>1. PICK m \in 1..MaxBatch : rw \in [1..m -> Row]
  BY DEF RowSeqs
<1>2. ASSUME NEW i \in Ids, NEW k \in DOMAIN rw, Adds(k, i)
      PROVE  First(i) \in DOMAIN rw
  <2> DEFINE Good == {j \in Nat : Adds(j, i)}
  <2>1. Good \subseteq Nat /\ Good # {}
    BY <1>1, <1>2
  <2>2. PICK f \in Good : \A j \in Good : f <= j
    BY <2>1, LeastNat
  <2>3. f \in DOMAIN rw /\ Adds(f, i) /\ \A j \in 1..(f - 1) : ~Adds(j, i)
    BY <2>2, <1>1
  <2> QED BY <2>3
<1>3. \A k \in DOMAIN rw : rw[k].vec \in Vecs \cup {NoVec}
  BY <1>1 DEF Row
<1>4. nd' = IF NdEmpty(p) THEN nd
            ELSE [nd EXCEPT ![p] = [i \in Ids |->
                    IF nd[p][i] = NoVec /\ \E k \in DOMAIN rw : Adds(k, i)
                    THEN rw[First(i)].vec ELSE nd[p][i]]]
  BY Zenon DEF NdAddRows
<1>5. ~NdEmpty(p) => nd[p] \in VecTable
  BY DEF NdType, NdEmpty
<1> HIDE DEF Adds, First
<1> QED BY <1>2, <1>3, <1>4, <1>5 DEF NdType, VecTable

\* ensure_raw_memory_and_enqueue_batch keeps memories and queue well typed.
LEMMA EnqueueBatchType ==
  ASSUME MemoryType, NEW ids, DOMAIN ids \subseteq 1..MaxBatch,
         \A k \in DOMAIN ids : ids[k] \in Ids, EnqueueBatch(ids)
  PROVE  MemoryType'
<1> DEFINE Times(i) == Cardinality({k \in DOMAIN ids : ids[k] = i})
<1>1. \A i \in Ids : Times(i) \in Nat
  <2> SUFFICES ASSUME NEW i \in Ids PROVE Times(i) \in Nat
    OBVIOUS
  <2>1. IsFiniteSet(1..MaxBatch)
    BY FS_Interval, ConstantsAssumption
  <2>2. {k \in DOMAIN ids : ids[k] = i} \subseteq 1..MaxBatch
    OBVIOUS
  <2> QED BY <2>1, <2>2, FS_Subset, FS_CardinalityType
<1>2. /\ rawMem' = [i \in Ids |-> IF rawMem[i] = 0 THEN Times(i) ELSE rawMem[i]]
      /\ queue' = queue \cup {ids[k] : k \in DOMAIN ids}
  BY Zenon DEF EnqueueBatch
<1> HIDE DEF Times
<1> QED BY <1>1, <1>2 DEF MemoryType

\* A process between two puts has an empty list of rows.
LEMMA EmptyRows == <<>> \in RowSeqs
  BY DEF RowSeqs

\* Initially every variable has its type.
LEMMA TypeInit == Init => TypeOK
<1> SUFFICES ASSUME Init PROVE TypeOK
  OBVIOUS
<1> USE ConstantsAssumption
<1>1. TablesType /\ MemoryType
  BY DEF Init, DocTablesInit, RawMemoryInit, TablesType, MemoryType, EmptyVecTable, VecTable
<1>2. AnnType /\ NdType
  BY DEF Init, AnnInit, NdInit, AnnType, NdType, EmptyVecTable, VecTable
<1>3. LexType
  BY DEF Init, LexInit, LexType
<1>4. /\ pc \in [Procs -> PcValues]
      /\ kind \in [Procs -> PutKinds]
      /\ \A p \in Procs : pc[p] \notin PutSteps
  BY DEF Init, PcValues, PutKinds, PutSteps
<1>5. /\ rows \in [Procs -> RowSeqs]
      /\ deficit \in [Procs -> 0..MaxId]
      /\ \A p \in Procs : rows[p] = <<>>
  BY EmptyRows DEF Init
<1>6. HistoryType
  BY DEF Init, HistoryType
<1> QED BY <1>1, <1>2, <1>3, <1>4, <1>5, <1>6 DEF TypeOK, ControlType

\* The transaction of a put, of any kind.
LEMMA CommitRowsType ==
  ASSUME TypeOK, NEW p \in Procs, NEW rs \in Batches, NEW b \in BOOLEAN,
         NEW l \in PutSteps, CommitRows(p, rs, b, l),
         kind' \in [Procs -> PutKinds]
  PROVE  TypeOK'
<1>1. PICK n \in seq..MaxId, ids \in [DOMAIN rs -> Ids] :
         /\ InsertRows(rs, ids, n, b)
         /\ rows' = [rows EXCEPT ![p] = [k \in DOMAIN rs |->
                       [id |-> ids[k], vec |-> rs[k].vec, fresh |-> k \in Fresh(rs)]]]
         /\ Goto(p, l)
         /\ UNCHANGED <<memory, indexes, deficit, history>>
  BY Zenon DEF CommitRows
<1> DEFINE rw == [k \in DOMAIN rs |->
                    [id |-> ids[k], vec |-> rs[k].vec, fresh |-> k \in Fresh(rs)]]
<1>2. rw \in RowSeqs /\ rw # <<>>
  BY RowsOfBatch
<1>3. rows' = [rows EXCEPT ![p] = rw]
  BY <1>1
<1> HIDE DEF rw
<1>4. TablesType'
  BY <1>1, InsertRowsType DEF TypeOK
<1>5. MemoryType' /\ HistoryType'
  BY <1>1 DEF TypeOK, MemoryType, HistoryType, memory, history
<1>6. AnnType' /\ LexType' /\ NdType'
  BY <1>1 DEF TypeOK, AnnType, LexType, NdType, indexes
<1>7. ControlType'
  <2>1. pc' \in [Procs -> PcValues] /\ rows' \in [Procs -> RowSeqs] /\ deficit' \in [Procs -> 0..MaxId]
    BY <1>1, <1>2, <1>3 DEF TypeOK, ControlType, Goto, PutSteps, PcValues
  <2>2. \A q \in Procs : pc'[q] \in PutSteps <=> rows'[q] # <<>>
    BY <1>1, <1>2, <1>3 DEF TypeOK, ControlType, Goto
  <2> QED BY <2>1, <2>2 DEF ControlType
<1> QED BY <1>4, <1>5, <1>6, <1>7 DEF TypeOK

\* Every operation on the tantivy index keeps its variables well typed.
LEMMA LexCloseType ==
  ASSUME LexType, NEW p \in Procs, LexClose(p)
  PROVE  LexType'
  BY DEF LexType, LexClose

\* A tantivy commit moves ids into the process's own or the shared index.
LEMMA LexCommitType ==
  ASSUME LexType, NEW p \in Procs, NEW ids \in SUBSET Ids, LexCommit(p, ids)
  PROVE  /\ staged' \in [Procs -> SUBSET Ids]
         /\ lexRam' \in [Procs -> SUBSET Ids]
         /\ lexDisk' \in SUBSET Ids
  BY DEF LexType, LexCommit

\* init_tantivy_warm_start keeps the tantivy state well typed.
LEMMA WarmStartType ==
  ASSUME TablesType, LexType, NEW p \in Procs, WarmStart(p)
  PROVE  LexType'
<1>1. \A m : Delta(m) \in SUBSET Ids
  BY DEF Delta, LiveIds
<1> QED BY <1>1, MaxDocIdIsMax DEF LexType, WarmStart, OpenDisk, OpenRam

\* search_lex, with its deferred commit and its reopen, keeps it well typed.
LEMMA LexSearchType ==
  ASSUME TablesType, LexType, NEW p \in Procs, LexSearch(p)
  PROVE  LexType'
<1>1. \A m : Delta(m) \in SUBSET Ids
  BY DEF Delta, LiveIds
<1>2. CASE LexSearchOpen(p)
  <2>1. /\ staged' \in [Procs -> SUBSET Ids]
        /\ lexRam' \in [Procs -> SUBSET Ids]
        /\ lexDisk' \in SUBSET Ids
    BY <1>2, LexCommitType DEF LexSearchOpen, LexType
  <2> QED BY <1>2, <2>1, MaxDocIdIsMax DEF LexSearchOpen, LexType
<1>3. CASE LexSearchReopen(p)
  BY <1>1, <1>3, MaxDocIdIsMax DEF LexSearchReopen, LexType
<1> QED BY <1>2, <1>3 DEF LexSearch

\* put_inner's tantivy mirror keeps it well typed.
LEMMA LexPutType ==
  ASSUME LexType, NEW p \in Procs, NEW i \in Ids, LexPut(p, i)
  PROVE  LexType'
<1>1. CASE LexCommit(p, {i}) /\ UNCHANGED <<lexAt, lexMark>>
  BY <1>1, LexCommitType DEF LexType
<1>2. CASE LexClose(p)
  BY <1>2, LexCloseType
<1>3. CASE UNCHANGED lex
  BY <1>3 DEF LexType, lex
<1> QED BY <1>1, <1>2, <1>3 DEF LexPut

\* mirror_batch_to_tantivy keeps it well typed.
LEMMA LexMirrorType ==
  ASSUME LexType, NEW p \in Procs, NEW rw \in RowSeqs, LexMirrorBatch(p, rw)
  PROVE  LexType'
<1>1. CASE lexAt[p] = "none"
  BY <1>1 DEF LexMirrorBatch, LexType, lex
<1>2. CASE lexAt[p] # "none"
  <2>1. PICK n \in 0..Len(rw) :
          staged' = [staged EXCEPT ![p] = @ \cup {rw[k].id : k \in 1..n}]
    <3>1. Len(rw) \in Nat
      BY DEF RowSeqs
    <3> QED BY <1>2, <3>1 DEF LexMirrorBatch
  <2>2. {rw[k].id : k \in 1..n} \subseteq Ids
    <3>1. \A k \in DOMAIN rw : rw[k].id \in Ids
      BY DEF RowSeqs, Row
    <3>2. 1..n \subseteq DOMAIN rw
      BY DEF RowSeqs
    <3> QED BY <3>1, <3>2
  <2> QED BY <1>2, <2>1, <2>2 DEF LexMirrorBatch, LexType
<1> QED BY <1>1, <1>2

\* Ending an operation, and losing everything a process holds in memory.
LEMMA FinishType ==
  ASSUME ControlType, NEW p \in Procs, Finish(p)
  PROVE  ControlType'
<1>1. pc' \in [Procs -> PcValues] /\ pc' = [pc EXCEPT ![p] = "idle"] /\ "idle" \notin PutSteps
  BY DEF Finish, Goto, ControlType, PcValues, PutSteps
<1>2. rows' \in [Procs -> RowSeqs] /\ rows' = [rows EXCEPT ![p] = <<>>]
  BY EmptyRows DEF Finish, ControlType
<1> QED BY <1>1, <1>2 DEF Finish, ControlType

\* The end of a process, by Drop or by a crash, keeps every type.
LEMMA LoseMemoryType ==
  ASSUME TypeOK, NEW p \in Procs, LoseMemory(p), annFile' \in VecTable, HistoryType'
  PROVE  TypeOK'
<1>1. TablesType' /\ MemoryType'
  BY DEF TypeOK, TablesType, MemoryType, LoseMemory, tables, memory
<1>2. AnnType' /\ NdType'
  BY DEF TypeOK, AnnType, NdType, LoseMemory, NdDrop, EmptyVecTable, VecTable
<1>3. LexType'
  BY LexCloseType DEF TypeOK, LoseMemory
<1>4. ControlType'
  <2>1. pc' \in [Procs -> PcValues] /\ pc' = [pc EXCEPT ![p] = "down"] /\ "down" \notin PutSteps
    BY DEF TypeOK, LoseMemory, Goto, ControlType, PcValues, PutSteps
  <2>2. rows' \in [Procs -> RowSeqs] /\ rows' = [rows EXCEPT ![p] = <<>>]
    BY EmptyRows DEF TypeOK, LoseMemory, ControlType
  <2> QED BY <2>1, <2>2, ConstantsAssumption DEF TypeOK, LoseMemory, ControlType
<1> QED BY <1>1, <1>2, <1>3, <1>4 DEF TypeOK

\* Moving on inside an operation: between two steps of the same put, or
\* between two places where no rows are held.
LEMMA GotoType ==
  ASSUME ControlType, NEW p \in Procs, NEW l \in PcValues, Goto(p, l),
         pc[p] \in PutSteps <=> l \in PutSteps, UNCHANGED <<rows, deficit>>,
         kind' \in [Procs -> PutKinds]
  PROVE  ControlType'
  BY DEF ControlType, Goto

\* A process in the middle of a put has a first row.
LEMMA FirstRow ==
  ASSUME ControlType, NEW p \in Procs, pc[p] \in PutSteps
  PROVE  /\ rows[p] \in RowSeqs /\ rows[p] # <<>>
         /\ 1 \in DOMAIN rows[p]
         /\ DOMAIN rows[p] \subseteq 1..MaxBatch
         /\ \A k \in DOMAIN rows[p] : rows[p][k] \in Row
<1>1. rows[p] \in RowSeqs /\ rows[p] # <<>>
  BY DEF ControlType
<1>2. PICK m \in 1..MaxBatch : rows[p] \in [1..m -> Row]
  BY <1>1 DEF RowSeqs
<1> QED BY <1>1, <1>2, ConstantsAssumption

\* Steps that end a single put's raw-memory phase.
LEMMA AfterRawType ==
  ASSUME ControlType, NEW p \in Procs, pc[p] \in PutSteps, AfterRaw(p)
  PROVE  ControlType'
<1>1. CASE rows[p][1].fresh
  <2>1. "mirror" \in PcValues /\ "mirror" \in PutSteps
    BY DEF PcValues, PutSteps
  <2> QED BY <1>1, <2>1, GotoType DEF AfterRaw, ControlType
<1>2. CASE ~rows[p][1].fresh
  BY <1>2, FinishType DEF AfterRaw
<1> QED BY <1>1, <1>2

\* Every step of an operation under way keeps every variable well typed.
LEMMA TypeContinue ==
  ASSUME TypeOK, NEW p \in Procs, Continue(p)
  PROVE  TypeOK'
<1> USE DEF PcValues, PutSteps
<1>1. CASE OpenFinish(p)
  <2>1. TablesType' /\ MemoryType' /\ NdType' /\ HistoryType'
    BY <1>1 DEF OpenFinish, TypeOK, TablesType, MemoryType, NdType, HistoryType, tables, memory, history
  <2>2. AnnType'
    BY <1>1 DEF OpenFinish, TypeOK, AnnType, TablesType, AnnInjectTail, VecTable
  <2>3. LexType'
    BY <1>1, WarmStartType DEF OpenFinish, TypeOK
  <2>4. ControlType'
    BY <1>1, ConstantsAssumption DEF OpenFinish, TypeOK, ControlType, Goto
  <2> QED BY <2>1, <2>2, <2>3, <2>4 DEF TypeOK
<1>2. CASE Crash(p)
  <2>1. ASSUME pc[p] \in PutSteps
        PROVE  {rows[p][k].id : k \in DOMAIN rows[p]} \subseteq Ids
    <3>1. \A k \in DOMAIN rows[p] : rows[p][k] \in Row
      BY <2>1, FirstRow DEF TypeOK
    <3> QED BY <3>1 DEF Row
  <2>2. HistoryType'
    BY <1>2, <2>1 DEF Crash, TypeOK, HistoryType
  <2> QED BY <1>2, <2>2, LoseMemoryType DEF Crash, TypeOK, AnnType
<1>3. CASE RawSelect(p)
  <2>1. ControlType'
    BY <1>3, GotoType DEF RawSelect, TypeOK, ControlType
  <2> QED BY <1>3, <2>1 DEF RawSelect, TypeOK, TablesType, MemoryType, AnnType, LexType, NdType,
            HistoryType, tables, memory, indexes, history
<1>4. CASE RawInsert(p)
  <2>1. rows[p][1].id \in Ids
    BY <1>4, FirstRow DEF RawInsert, TypeOK, Row
  <2>2. MemoryType'
    BY <1>4, <2>1 DEF RawInsert, TypeOK, MemoryType, InsertRaw, memory
  <2>3. ControlType'
    <3>1. CASE Goto(p, "enqueue") /\ UNCHANGED <<kind, rows, deficit>>
      BY <1>4, <3>1, GotoType DEF RawInsert, TypeOK, ControlType
    <3>2. CASE AfterRaw(p)
      BY <1>4, <3>2, AfterRawType DEF RawInsert, TypeOK
    <3> QED BY <1>4, <3>1, <3>2 DEF RawInsert
  <2> QED BY <1>4, <2>2, <2>3 DEF RawInsert, TypeOK, TablesType, AnnType, LexType, NdType,
            HistoryType, tables, indexes, history
<1>5. CASE Enqueue(p)
  <2>1. rows[p][1].id \in Ids
    BY <1>5, FirstRow DEF Enqueue, TypeOK, Row
  <2>2. MemoryType'
    BY <1>5, <2>1 DEF Enqueue, EnqueueExtraction, TypeOK, MemoryType
  <2>3. ControlType'
    BY <1>5, AfterRawType DEF Enqueue, TypeOK
  <2> QED BY <1>5, <2>2, <2>3 DEF Enqueue, TypeOK, TablesType, AnnType, LexType, NdType,
            HistoryType, tables, indexes, history
<1>6. CASE RawBatch(p)
  <2> DEFINE ids == [k \in DOMAIN rows[p] |-> rows[p][k].id]
  <2>1. DOMAIN ids \subseteq 1..MaxBatch /\ \A k \in DOMAIN ids : ids[k] \in Ids
    BY <1>6, FirstRow DEF RawBatch, TypeOK, Row
  <2>2. \/ EnqueueBatch(ids) /\ UNCHANGED cut
        \/ UNCHANGED memory /\ cut' = cut \cup {ids[k] : k \in DOMAIN ids}
    BY <1>6, Zenon DEF RawBatch
  <2> HIDE DEF ids
  <2>3. MemoryType'
    BY <2>1, <2>2, EnqueueBatchType DEF TypeOK, MemoryType, memory
  <2>4. ControlType'
    BY <1>6, GotoType DEF RawBatch, TypeOK, ControlType
  <2>5. HistoryType'
    BY <1>6, <2>1, <2>2 DEF RawBatch, TypeOK, HistoryType
  <2> QED BY <1>6, <2>3, <2>4, <2>5 DEF RawBatch, TypeOK, TablesType, AnnType, LexType, NdType,
            tables, indexes
<1>7. CASE Mirror(p)
  <2>1. /\ rows[p] \in RowSeqs /\ rows[p] # <<>>
        /\ rows[p][1].id \in Ids
    BY <1>7, FirstRow DEF Mirror, TypeOK, Row
  <2>2. AnnType'
    BY <1>7, <2>1, AnnInsertType DEF Mirror, TypeOK, AnnType
  <2>3. NdType'
    <3>1. CASE kind[p] \in {"put", "batch"}
      BY <1>7, <2>1, <3>1, NdAddRowsType DEF Mirror, TypeOK
    <3>2. CASE kind[p] \notin {"put", "batch"}
      BY <1>7, <3>2 DEF Mirror, TypeOK, NdType
    <3> QED BY <3>1, <3>2
  <2>4. LexType'
    BY <1>7, <2>1, LexPutType, LexMirrorType DEF Mirror, TypeOK
  <2>5. ControlType'
    BY <1>7, FinishType DEF Mirror, TypeOK
  <2> QED BY <1>7, <2>2, <2>3, <2>4, <2>5 DEF Mirror, TypeOK, TablesType, MemoryType,
            HistoryType, tables, memory, history
<1>8. ASSUME NEW rs \in PlainBatches, DeferredTx(p, rs) PROVE TypeOK'
  <2>1. rs \in Batches /\ TRUE \in BOOLEAN /\ "retrigger" \in PutSteps
    BY DEF PlainBatches
  <2>2. CommitRows(p, rs, TRUE, "retrigger") /\ kind' \in [Procs -> PutKinds]
    BY <1>8 DEF DeferredTx, TypeOK, ControlType
  <2> QED BY <2>1, <2>2, CommitRowsType
<1>9. CASE CreateTrigger(p)
  <2>1. ControlType'
    BY <1>9, GotoType DEF CreateTrigger, TypeOK, ControlType
  <2> QED BY <1>9, <2>1 DEF CreateTrigger, SetTrigger, TypeOK, TablesType, MemoryType, AnnType, LexType,
            NdType, HistoryType, memory, indexes, history
<1> QED BY <1>1, <1>2, <1>3, <1>4, <1>5, <1>6, <1>7, <1>8, <1>9 DEF Continue

\* Every call on an idle or closed store keeps every variable well typed.
LEMMA TypeCall ==
  ASSUME TypeOK, NEW p \in Procs, Call(p)
  PROVE  TypeOK'
<1> USE DEF PcValues, PutSteps
<1>1. CASE OpenLoad(p)
  <2>1. deficit' \in [Procs -> 0..MaxId]
    BY <1>1, LoadDeficitType DEF OpenLoad, TypeOK, TablesType, AnnType, ControlType
  <2>2. ControlType'
    BY <1>1, <2>1 DEF OpenLoad, TypeOK, ControlType, Goto
  <2>3. AnnType' /\ HistoryType'
    BY <1>1 DEF OpenLoad, AnnLoad, TypeOK, AnnType, HistoryType
  <2> QED BY <1>1, <2>2, <2>3 DEF OpenLoad, SetTrigger, TypeOK, TablesType, MemoryType, LexType, NdType,
            memory, lex
<1>2. CASE Close(p)
  <2>1. annFile' \in VecTable /\ HistoryType'
    BY <1>2 DEF Close, AnnSave, TypeOK, AnnType, HistoryType, history
  <2> QED BY <1>2, <2>1, LoseMemoryType DEF Close
<1>3. CASE FlushAnn(p)
  BY <1>3 DEF FlushAnn, AnnSave, TypeOK, TablesType, MemoryType, AnnType, LexType, NdType, ControlType,
     HistoryType, tables, memory, lex, control, history
<1>4. ASSUME NEW r \in PutRequest, Put(p, r) PROVE TypeOK'
  <2>1. <<r>> \in Batches /\ FALSE \in BOOLEAN /\ "rawSelect" \in PutSteps
    BY OneIsABatch
  <2>2. CommitRows(p, <<r>>, FALSE, "rawSelect") /\ kind' \in [Procs -> PutKinds]
    BY <1>4 DEF Put, TypeOK, ControlType, PutKinds
  <2> QED BY <2>1, <2>2, CommitRowsType
<1>5. ASSUME NEW rs \in Batches, PutBatch(p, rs) PROVE TypeOK'
  <2>1. FALSE \in BOOLEAN /\ "enqueueBatch" \in PutSteps
    OBVIOUS
  <2>2. CommitRows(p, rs, FALSE, "enqueueBatch") /\ kind' \in [Procs -> PutKinds]
    BY <1>5 DEF PutBatch, TypeOK, ControlType, PutKinds
  <2> QED BY <2>1, <2>2, CommitRowsType
<1>6. ASSUME NEW rs \in PlainBatches, PutBatchFast(p, rs) PROVE TypeOK'
  <2>1. rs \in Batches /\ FALSE \in BOOLEAN /\ "enqueueBatch" \in PutSteps
    BY DEF PlainBatches
  <2>2. CommitRows(p, rs, FALSE, "enqueueBatch") /\ kind' \in [Procs -> PutKinds]
    BY <1>6 DEF PutBatchFast, TypeOK, ControlType, PutKinds
  <2> QED BY <2>1, <2>2, CommitRowsType
<1>7. CASE DropTrigger(p)
  <2>1. ControlType'
    BY <1>7, GotoType DEF DropTrigger, TypeOK, ControlType, PutKinds
  <2> QED BY <1>7, <2>1 DEF DropTrigger, SetTrigger, TypeOK, TablesType, MemoryType, AnnType, LexType,
            NdType, HistoryType, memory, indexes, history
<1>8. ASSUME NEW i \in Ids, Delete(p, i) PROVE TypeOK'
  <2>1. TablesType' /\ MemoryType'
    BY <1>8 DEF Delete, DeleteRow, DeleteAccepted, ForgetDoc, TypeOK, TablesType, MemoryType, VecTable
  <2>2. AnnType' /\ NdType'
    BY <1>8 DEF Delete, AnnRemove, NdDrop, TypeOK, AnnType, NdType, VecTable
  <2> QED BY <1>8, <2>1, <2>2 DEF Delete, TypeOK, LexType, ControlType, HistoryType, lex, control, history
<1>9. ASSUME NEW i \in Ids, MergeCrdt(p, i) PROVE TypeOK'
  BY <1>9 DEF MergeCrdt, TouchRow, TypeOK, TablesType, MemoryType, AnnType, LexType, NdType, ControlType,
     HistoryType, memory, indexes, control, history
<1>10. CASE SearchLex(p)
  <2>1. LexType'
    BY <1>10, LexSearchType DEF SearchLex, TypeOK
  <2> QED BY <1>10, <2>1 DEF SearchLex, TypeOK, TablesType, MemoryType, AnnType, NdType, ControlType,
            HistoryType, tables, memory, control, history
<1>11. CASE SearchVec(p) \/ WarmTurbo(p) \/ TakeNdarraySearch(p)
  <2>1. NdType'
    BY <1>11 DEF SearchVec, WarmTurbo, TakeNdarraySearch, NdBuild, NdDrop, TypeOK, TablesType, NdType
  <2> QED BY <1>11, <2>1 DEF SearchVec, WarmTurbo, TakeNdarraySearch, TypeOK, TablesType, MemoryType,
            AnnType, LexType, ControlType, HistoryType, tables, memory, lex, control, history
<1> QED BY <1>1, <1>2, <1>3, <1>4, <1>5, <1>6, <1>7, <1>8, <1>9, <1>10, <1>11 DEF Call

\* Every reachable state of the store is well typed.
THEOREM TypeCorrect == Spec => []TypeOK
<1>1. TypeOK /\ [Next]_vars => TypeOK'
  <2>1. CASE UNCHANGED vars
    BY <2>1 DEF vars, indexes, control, history, TypeOK, TablesType, MemoryType, AnnType, LexType,
       NdType, ControlType, HistoryType
  <2> QED BY <2>1, TypeCall, TypeContinue DEF Next
<1> QED BY <1>1, TypeInit, PTL DEF Spec

-----------------------------------------------------------------------------
(* Row ids and the usearch index                                           *)

\* Above sqlite_sequence nothing exists yet, in any table or index.
UnusedAboveSeq ==
    \A i \in Ids : i > seq =>
       /\ docs[i] = NoText
       /\ vecs[i] = NoVec
       /\ annFile[i] = NoVec
       /\ \A p \in Procs : ann[p][i] = NoVec

\* The rows of a put under way have been given out, and those it inserted
\* still have their vector unless they were deleted meanwhile.
RowsCommitted ==
    \A p \in Procs : \A k \in DOMAIN rows[p] :
       /\ rows[p][k].id \in Ids
       /\ rows[p][k].id <= seq
       /\ rows[p][k].fresh => vecs[rows[p][k].id] \in {rows[p][k].vec, NoVec}

\* AnnNeverLies is not inductive: that a row a process mirrors after its
\* commit agrees with docs_vec needs RowsCommitted, and that an inserted row
\* meets no old entry in an index needs UnusedAboveSeq.
AnnInv == TypeOK /\ UnusedAboveSeq /\ RowsCommitted /\ AnnNeverLies

\* What the transaction of a put does to the tables, position by position.
CommitEffect(p, rs, b, l, ids) ==
    /\ seq <= seq' /\ seq' \in 0..MaxId
    /\ \A k \in DOMAIN rs : ids[k] <= seq'
    /\ \A k \in Fresh(rs) : /\ k \in DOMAIN rs /\ ids[k] > seq
                            /\ docs'[ids[k]] = rs[k].text
                            /\ vecs'[ids[k]] = rs[k].vec
    /\ \A i \in Ids : \/ \E k \in Fresh(rs) : ids[k] = i
                      \/ docs'[i] = docs[i] /\ vecs'[i] = vecs[i]
    /\ \A i \in Ids : i > seq /\ i <= seq' => \E k \in Fresh(rs) : ids[k] = i
    /\ fts' = fts \cup (IF trigger THEN {ids[k] : k \in Fresh(rs)} ELSE {})
                  \cup (IF b THEN {i \in LiveIds \cup {ids[k] : k \in Fresh(rs)} : i > MaxDocId} ELSE {})
    /\ rows' = [rows EXCEPT ![p] = [k \in DOMAIN rs |->
                  [id |-> ids[k], vec |-> rs[k].vec, fresh |-> k \in Fresh(rs)]]]
    /\ Goto(p, l)
    /\ UNCHANGED <<trigger, memory, indexes, deficit, history>>

\* The transaction of a put has the effect CommitEffect for some assignment
\* of ids.
LEMMA CommitFacts ==
  ASSUME TypeOK, UnusedAboveSeq, NEW p \in Procs, NEW rs \in Batches, NEW b \in BOOLEAN,
         NEW l, CommitRows(p, rs, b, l)
  PROVE  \E ids \in [DOMAIN rs -> Ids] : CommitEffect(p, rs, b, l, ids)
<1>1. PICK n \in seq..MaxId, ids \in [DOMAIN rs -> Ids] :
         /\ Assigns(rs, ids, n)
         /\ InsertRows(rs, ids, n, b)
         /\ rows' = [rows EXCEPT ![p] = [k \in DOMAIN rs |->
                       [id |-> ids[k], vec |-> rs[k].vec, fresh |-> k \in Fresh(rs)]]]
         /\ Goto(p, l)
         /\ UNCHANGED <<memory, indexes, deficit, history>>
  BY Zenon DEF CommitRows
<1> DEFINE new == {ids[k] : k \in Fresh(rs)}
           RowOf(i) == CHOOSE k \in Fresh(rs) : ids[k] = i
<1>2. /\ docs' = [i \in Ids |-> IF i \in new THEN rs[RowOf(i)].text ELSE docs[i]]
      /\ vecs' = [i \in Ids |-> IF i \in new THEN rs[RowOf(i)].vec ELSE vecs[i]]
      /\ fts' = fts \cup (IF trigger THEN new ELSE {})
                    \cup (IF b THEN {i \in LiveIds \cup new : i > MaxDocId} ELSE {})
      /\ seq' = n
      /\ trigger' = trigger
  BY <1>1, Zenon DEF InsertRows
<1>3. PICK m \in 1..MaxBatch : rs \in [1..m -> PutRequest]
  BY DEF Batches
<1>4. seq \in 0..MaxId /\ seq <= n /\ n \in 0..MaxId
  BY ConstantsAssumption DEF TypeOK, TablesType
<1>5. Fresh(rs) \subseteq DOMAIN rs
  BY DEF Fresh
<1>6. \A k \in Fresh(rs) : ids[k] > seq /\ ids[k] <= n
  BY <1>1 DEF Assigns
<1>7. \A j, k \in Fresh(rs) : ids[j] = ids[k] => j = k
  <2> SUFFICES ASSUME NEW j \in Fresh(rs), NEW k \in Fresh(rs), ids[j] = ids[k], j # k
               PROVE  FALSE
    OBVIOUS
  <2>1. j \in 1..m /\ k \in 1..m /\ ids[j] \in Ids /\ ids[k] \in Ids
    BY <1>3, <1>5
  <2>2. j < k \/ k < j
    BY <2>1
  <2>3. ids[j] < ids[k] \/ ids[k] < ids[j]
    BY <1>1, <2>2 DEF Assigns
  <2> QED BY <2>1, <2>3 DEF Ids
<1>8. \A k \in Fresh(rs) : RowOf(ids[k]) = k
  BY <1>7
<1>9. ASSUME NEW k \in DOMAIN rs PROVE ids[k] <= n
  <2>1. CASE k \in Fresh(rs)
    BY <1>6, <2>1
  <2>2. CASE \E j \in Fresh(rs) : ids[k] = ids[j]
    BY <1>6, <2>2
  <2>3. CASE docs[ids[k]] = rs[k].text
    <3>1. rs[k].text \in Texts /\ ids[k] \in Ids
      BY <1>3 DEF PutRequest
    <3>2. docs[ids[k]] # NoText
      BY <2>3, <3>1, ConstantsAssumption
    <3> QED BY <3>1, <3>2, <1>4 DEF UnusedAboveSeq, Ids
  <2> QED BY <1>1, <2>1, <2>2, <2>3 DEF Assigns
<1> HIDE DEF RowOf
<1>10. \A k \in Fresh(rs) : docs'[ids[k]] = rs[k].text /\ vecs'[ids[k]] = rs[k].vec
  <2> SUFFICES ASSUME NEW k \in Fresh(rs)
               PROVE  docs'[ids[k]] = rs[k].text /\ vecs'[ids[k]] = rs[k].vec
    OBVIOUS
  <2>1. ids[k] \in Ids /\ ids[k] \in new
    BY <1>5
  <2> HIDE DEF new
  <2> QED BY <1>2, <1>8, <2>1
<1>11. \A i \in Ids : i \in new \/ (docs'[i] = docs[i] /\ vecs'[i] = vecs[i])
  <2> HIDE DEF new
  <2> QED BY <1>2
<1> WITNESS ids \in [DOMAIN rs -> Ids]
<1>12. seq <= seq' /\ seq' \in 0..MaxId /\ \A k \in DOMAIN rs : ids[k] <= seq'
  BY <1>2, <1>4, <1>9
<1>13. \A i \in Ids : \/ \E k \in Fresh(rs) : ids[k] = i
                      \/ docs'[i] = docs[i] /\ vecs'[i] = vecs[i]
  BY <1>11
<1>14. \A i \in Ids : i > seq /\ i <= seq' => \E k \in Fresh(rs) : ids[k] = i
  <2> SUFFICES ASSUME NEW i \in Ids, i > seq, i <= seq'
               PROVE  i \in (seq + 1)..n
    BY <1>1, Zenon DEF Assigns
  <2> QED BY <1>2, <1>4 DEF Ids
<1> QED BY <1>1, <1>2, <1>5, <1>6, <1>10, <1>12, <1>13, <1>14, Zenon DEF CommitEffect

\* AnnInv holds of a new database.
LEMMA AnnInvInit == Init => AnnInv
<1> SUFFICES ASSUME Init PROVE AnnInv
  OBVIOUS
<1>1. UnusedAboveSeq /\ AnnNeverLies
  BY DEF Init, DocTablesInit, AnnInit, EmptyVecTable, UnusedAboveSeq, AnnNeverLies, Present
<1>2. RowsCommitted
  BY DEF Init, RowsCommitted
<1> QED BY <1>1, <1>2, TypeInit DEF AnnInv

\* The transaction of a put keeps ids fresh and no index entry in conflict.
LEMMA CommitAnnInv ==
  ASSUME AnnInv, NEW p \in Procs, NEW rs \in Batches, NEW b \in BOOLEAN,
         NEW l, CommitRows(p, rs, b, l)
  PROVE  UnusedAboveSeq' /\ RowsCommitted' /\ AnnNeverLies'
<1>0. PICK ids \in [DOMAIN rs -> Ids] : CommitEffect(p, rs, b, l, ids)
  BY CommitFacts DEF AnnInv
<1> USE DEF Ids
<1>1. /\ seq <= seq' /\ seq' \in 0..MaxId
      /\ \A k \in DOMAIN rs : ids[k] <= seq'
      /\ \A k \in Fresh(rs) : /\ k \in DOMAIN rs /\ ids[k] > seq
                              /\ vecs'[ids[k]] = rs[k].vec
      /\ \A i \in Ids : \/ \E k \in Fresh(rs) : ids[k] = i
                        \/ docs'[i] = docs[i] /\ vecs'[i] = vecs[i]
      /\ rows' = [rows EXCEPT ![p] = [k \in DOMAIN rs |->
                    [id |-> ids[k], vec |-> rs[k].vec, fresh |-> k \in Fresh(rs)]]]
      /\ UNCHANGED indexes
  BY <1>0, Zenon DEF CommitEffect
<1>2. seq \in 0..MaxId /\ ann' = ann /\ annFile' = annFile
  BY <1>1 DEF AnnInv, TypeOK, TablesType, indexes
<1>3. UnusedAboveSeq'
  BY <1>1, <1>2, ConstantsAssumption DEF AnnInv, UnusedAboveSeq
<1>4. AnnNeverLies'
  <2> SUFFICES ASSUME NEW i \in Present(vecs)'
               PROVE  /\ annFile[i] \in {vecs'[i], NoVec}
                      /\ \A q \in Procs : ann[q][i] \in {vecs'[i], NoVec}
    BY <1>2 DEF AnnNeverLies
  <2>1. i \in Ids /\ vecs'[i] # NoVec
    BY DEF Present
  <2>2. CASE i > seq
    BY <1>2, <2>1, <2>2 DEF AnnInv, UnusedAboveSeq
  <2>3. CASE i <= seq
    <3>1. vecs'[i] = vecs[i]
      BY <1>1, <1>2, <2>1, <2>3
    <3> QED BY <2>1, <3>1 DEF AnnInv, AnnNeverLies, Present
  <2> QED BY <1>2, <2>1, <2>2, <2>3
<1>5. RowsCommitted'
  <2> SUFFICES ASSUME NEW q \in Procs, NEW k \in DOMAIN rows'[q]
               PROVE  /\ rows'[q][k].id \in Ids
                      /\ rows'[q][k].id <= seq'
                      /\ rows'[q][k].fresh => vecs'[rows'[q][k].id] \in {rows'[q][k].vec, NoVec}
    BY DEF RowsCommitted
  <2>1. CASE q = p
    <3>1. /\ k \in DOMAIN rs
          /\ rows'[q][k] = [id |-> ids[k], vec |-> rs[k].vec, fresh |-> k \in Fresh(rs)]
      BY <1>1, <2>1 DEF AnnInv, TypeOK, ControlType
    <3>2. ids[k] \in Ids /\ ids[k] <= seq'
      BY <1>1, <3>1
    <3>3. k \in Fresh(rs) => vecs'[ids[k]] = rs[k].vec
      BY <1>1
    <3>4. rows'[q][k].id = ids[k] /\ rows'[q][k].vec = rs[k].vec
      BY <3>1
    <3>5. ASSUME rows'[q][k].fresh PROVE k \in Fresh(rs)
      <4> SUFFICES ASSUME k \notin Fresh(rs) PROVE FALSE
        OBVIOUS
      <4>1. (k \in Fresh(rs)) = FALSE
        OBVIOUS
      <4>2. rows'[q][k] = [id |-> ids[k], vec |-> rs[k].vec, fresh |-> FALSE]
        BY <3>1, <4>1, Zenon
      <4>3. rows'[q][k].fresh = FALSE
        BY <4>2
      <4> QED BY <3>5, <4>3, Zenon
    <3> QED BY <3>2, <3>3, <3>4, <3>5, Zenon
  <2>2. CASE q # p
    <3>1. rows'[q] = rows[q]
      BY <1>1, <2>2 DEF AnnInv, TypeOK, ControlType
    <3>2. /\ rows[q][k].id \in Ids /\ rows[q][k].id <= seq
          /\ rows[q][k].fresh => vecs[rows[q][k].id] \in {rows[q][k].vec, NoVec}
      BY <3>1 DEF AnnInv, RowsCommitted
    <3>3. vecs'[rows[q][k].id] = vecs[rows[q][k].id]
      BY <1>1, <1>2, <3>2
    <3> QED BY <1>1, <1>2, <3>1, <3>2, <3>3
  <2> QED BY <2>1, <2>2
<1> QED BY <1>3, <1>4, <1>5

\* An index entry v under id i that UnusedAboveSeq and AnnNeverLies allow.
Agrees(i, v) == /\ i > seq => v = NoVec
                /\ vecs[i] # NoVec => v \in {vecs[i], NoVec}

\* Every vector the indexes hold agrees with docs_vec.
LEMMA EntriesAgree ==
  ASSUME AnnInv
  PROVE  \A i \in Ids : /\ Agrees(i, NoVec) /\ Agrees(i, vecs[i]) /\ Agrees(i, annFile[i])
                        /\ \A p \in Procs : Agrees(i, ann[p][i])
  BY DEF AnnInv, UnusedAboveSeq, AnnNeverLies, Agrees, Present

\* Any step that leaves the tables alone, ends puts or keeps their rows, and
\* leaves entries in the indexes that agree with docs_vec.
LEMMA IndexStep ==
  ASSUME AnnInv, UNCHANGED <<docs, vecs, seq>>,
         \A q \in Procs : rows'[q] \in {rows[q], <<>>},
         \A i \in Ids : Agrees(i, annFile'[i]) /\ \A q \in Procs : Agrees(i, ann'[q][i])
  PROVE  UnusedAboveSeq' /\ RowsCommitted' /\ AnnNeverLies'
<1>1. UnusedAboveSeq'
  BY DEF AnnInv, UnusedAboveSeq, Agrees
<1>2. AnnNeverLies'
  BY DEF AnnNeverLies, Agrees, Present
<1>3. RowsCommitted'
  BY DEF AnnInv, RowsCommitted
<1> QED BY <1>1, <1>2, <1>3

\* Steps that touch neither the tables of vectors nor the vector indexes.
LEMMA QuietStep ==
  ASSUME AnnInv, UNCHANGED <<docs, vecs, seq, ann, annFile>>,
         \A q \in Procs : rows'[q] \in {rows[q], <<>>}
  PROVE  UnusedAboveSeq' /\ RowsCommitted' /\ AnnNeverLies'
  BY IndexStep, EntriesAgree

\* The end of a put empties the rows of its process and of no other.
LEMMA FinishRows ==
  ASSUME ControlType, NEW p \in Procs, Finish(p)
  PROVE  \A q \in Procs : rows'[q] \in {rows[q], <<>>}
  BY DEF Finish, ControlType

\* usearch adds after the commit.
LEMMA MirrorAnnInv ==
  ASSUME AnnInv, NEW p \in Procs, Mirror(p)
  PROVE  UnusedAboveSeq' /\ RowsCommitted' /\ AnnNeverLies'
<1>1. CASE kind[p] \notin {"put", "batch"}
  BY <1>1, QuietStep, FinishRows DEF Mirror, AnnInv, TypeOK, tables
<1>2. CASE kind[p] \in {"put", "batch"}
  <2> DEFINE rw == rows[p]
  <2>1. AnnInsert(p, rw)
    BY <1>2 DEF Mirror
  <2>2. PICK failed : LET Mirrors(k, i) == /\ k \in DOMAIN rw \ failed
                                           /\ rw[k].fresh /\ rw[k].id = i
                          NewVec(i) == rw[CHOOSE k \in DOMAIN rw : Mirrors(k, i)].vec
                      IN  ann' = [ann EXCEPT ![p] = [i \in Ids |->
                                    IF ann[p][i] = NoVec /\ \E k \in DOMAIN rw : Mirrors(k, i)
                                    THEN NewVec(i) ELSE ann[p][i]]]
    BY <2>1, Zenon DEF AnnInsert
  <2> DEFINE Mirrors(k, i) == /\ k \in DOMAIN rw \ failed
                              /\ rw[k].fresh /\ rw[k].id = i
             Sel(i) == CHOOSE k \in DOMAIN rw : Mirrors(k, i)
  <2>3. ASSUME NEW i \in Ids, \E k \in DOMAIN rw : Mirrors(k, i)
        PROVE  Agrees(i, rw[Sel(i)].vec)
    <3>1. Sel(i) \in DOMAIN rw /\ Mirrors(Sel(i), i)
      BY <2>3
    <3> HIDE DEF Sel
    <3>2. i <= seq /\ vecs[i] \in {rw[Sel(i)].vec, NoVec}
      BY <3>1 DEF AnnInv, RowsCommitted
    <3>3. seq \in Nat /\ i \in Nat
      BY DEF AnnInv, TypeOK, TablesType, Ids
    <3> QED BY <3>2, <3>3 DEF Agrees
  <2> HIDE DEF Sel
  <2>4. ann' = [ann EXCEPT ![p] = [i \in Ids |->
                   IF ann[p][i] = NoVec /\ \E k \in DOMAIN rw : Mirrors(k, i)
                   THEN rw[Sel(i)].vec ELSE ann[p][i]]]
    BY <2>2, Zenon DEF Sel
  <2> HIDE DEF Mirrors
  <2>5. \A i \in Ids : \A q \in Procs : Agrees(i, ann'[q][i])
    <3> SUFFICES ASSUME NEW i \in Ids, NEW q \in Procs PROVE Agrees(i, ann'[q][i])
      OBVIOUS
    <3>1. ann'[q][i] = ann[q][i] \/ (ann'[q][i] = rw[Sel(i)].vec /\ \E k \in DOMAIN rw : Mirrors(k, i))
      BY <2>4 DEF AnnInv, TypeOK, AnnType
    <3> QED BY <3>1, <2>3, EntriesAgree
  <2>6. \A q \in Procs : rows'[q] \in {rows[q], <<>>}
    BY FinishRows DEF Mirror, AnnInv, TypeOK
  <2> QED BY <2>5, <2>6, EntriesAgree, IndexStep DEF Mirror, tables
<1> QED BY <1>1, <1>2

\* A process that loses its memory, or loads the sidecar, agrees again.
LEMMA LoseMemoryAnnInv ==
  ASSUME AnnInv, NEW p \in Procs, LoseMemory(p),
         annFile' = annFile \/ annFile' = ann[p]
  PROVE  UnusedAboveSeq' /\ RowsCommitted' /\ AnnNeverLies'
<1>1. \A i \in Ids : Agrees(i, annFile'[i])
  BY EntriesAgree
<1>2. \A i \in Ids : \A q \in Procs : ann'[q][i] = ann[q][i] \/ ann'[q][i] = NoVec
  BY DEF LoseMemory, EmptyVecTable, AnnInv, TypeOK, AnnType
<1>3. \A q \in Procs : rows'[q] \in {rows[q], <<>>}
  BY DEF LoseMemory, AnnInv, TypeOK, ControlType
<1> QED BY <1>1, <1>2, <1>3, EntriesAgree, IndexStep DEF LoseMemory, tables

\* Every step of an operation under way keeps the invariant.
LEMMA AnnInvContinue ==
  ASSUME AnnInv, NEW p \in Procs, Continue(p)
  PROVE  UnusedAboveSeq' /\ RowsCommitted' /\ AnnNeverLies'
<1>0. TypeOK
  BY DEF AnnInv
<1>1. CASE OpenFinish(p)
  <2>1. \A i \in Ids : \A q \in Procs : ann'[q][i] \in {ann[q][i], vecs[i]}
    BY <1>1 DEF OpenFinish, AnnInjectTail, AnnInv, TypeOK, AnnType
  <2> QED BY <1>1, <2>1, EntriesAgree, IndexStep DEF OpenFinish, tables
<1>2. CASE Crash(p)
  BY <1>2, LoseMemoryAnnInv DEF Crash
<1>3. CASE RawSelect(p)
  BY <1>3, QuietStep DEF RawSelect, tables, indexes
<1>4. CASE RawInsert(p)
  BY <1>0, <1>4, QuietStep, FinishRows DEF RawInsert, AfterRaw, TypeOK, tables, indexes
<1>5. CASE Enqueue(p)
  BY <1>0, <1>5, QuietStep, FinishRows DEF Enqueue, AfterRaw, TypeOK, tables, indexes
<1>6. CASE RawBatch(p)
  BY <1>6, QuietStep DEF RawBatch, tables, indexes
<1>7. CASE Mirror(p)
  BY <1>7, MirrorAnnInv
<1>8. ASSUME NEW rs \in PlainBatches, DeferredTx(p, rs)
      PROVE  UnusedAboveSeq' /\ RowsCommitted' /\ AnnNeverLies'
  <2>1. rs \in Batches /\ TRUE \in BOOLEAN
    BY DEF PlainBatches
  <2> QED BY <1>8, <2>1, CommitAnnInv DEF DeferredTx
<1>9. CASE CreateTrigger(p)
  BY <1>9, QuietStep DEF CreateTrigger, SetTrigger, indexes
<1> QED BY <1>1, <1>2, <1>3, <1>4, <1>5, <1>6, <1>7, <1>8, <1>9 DEF Continue

\* Every call keeps the invariant.
LEMMA AnnInvCall ==
  ASSUME AnnInv, NEW p \in Procs, Call(p)
  PROVE  UnusedAboveSeq' /\ RowsCommitted' /\ AnnNeverLies'
<1>1. CASE OpenLoad(p)
  <2>1. \A i \in Ids : \A q \in Procs : ann'[q][i] \in {ann[q][i], annFile[i]}
    BY <1>1 DEF OpenLoad, AnnLoad, AnnInv, TypeOK, AnnType
  <2> QED BY <1>1, <2>1, EntriesAgree, IndexStep DEF OpenLoad, SetTrigger
<1>2. CASE Close(p)
  BY <1>2, LoseMemoryAnnInv DEF Close, AnnSave
<1>3. CASE FlushAnn(p)
  <2>1. \A i \in Ids : annFile'[i] = ann[p][i]
    BY <1>3 DEF FlushAnn, AnnSave
  <2> QED BY <1>3, <2>1, EntriesAgree, IndexStep DEF FlushAnn, tables, control
<1>4. ASSUME NEW r \in PutRequest, Put(p, r)
      PROVE  UnusedAboveSeq' /\ RowsCommitted' /\ AnnNeverLies'
  BY <1>4, OneIsABatch, CommitAnnInv DEF Put
<1>5. ASSUME NEW rs \in Batches, PutBatch(p, rs)
      PROVE  UnusedAboveSeq' /\ RowsCommitted' /\ AnnNeverLies'
  BY <1>5, CommitAnnInv DEF PutBatch
<1>6. ASSUME NEW rs \in PlainBatches, PutBatchFast(p, rs)
      PROVE  UnusedAboveSeq' /\ RowsCommitted' /\ AnnNeverLies'
  BY <1>6, CommitAnnInv DEF PutBatchFast, PlainBatches
<1>7. CASE DropTrigger(p)
  BY <1>7, QuietStep DEF DropTrigger, SetTrigger, indexes
<1>8. ASSUME NEW i \in Ids, Delete(p, i)
      PROVE  UnusedAboveSeq' /\ RowsCommitted' /\ AnnNeverLies'
  <2>1. \A j \in Ids : \A q \in Procs : ann'[q][j] \in {ann[q][j], NoVec}
    BY <1>8 DEF Delete, AnnRemove, AnnInv, TypeOK, AnnType, VecTable
  <2>2. \A j \in Ids : docs'[j] \in {docs[j], NoText} /\ vecs'[j] \in {vecs[j], NoVec}
    BY <1>8 DEF Delete, DeleteRow, AnnInv, TypeOK, TablesType, VecTable
  <2>3. seq' = seq /\ annFile' = annFile /\ rows' = rows
    BY <1>8 DEF Delete, DeleteRow, control
  <2>4. UnusedAboveSeq'
    BY <2>1, <2>2, <2>3 DEF AnnInv, UnusedAboveSeq
  <2>5. AnnNeverLies'
    BY <2>1, <2>2, <2>3 DEF AnnInv, AnnNeverLies, Present
  <2>6. RowsCommitted'
    BY <2>2, <2>3 DEF AnnInv, RowsCommitted
  <2> QED BY <2>4, <2>5, <2>6
<1>9. ASSUME NEW i \in Ids, MergeCrdt(p, i)
      PROVE  UnusedAboveSeq' /\ RowsCommitted' /\ AnnNeverLies'
  BY <1>9, QuietStep DEF MergeCrdt, TouchRow, indexes, control
<1>10. CASE SearchLex(p) \/ SearchVec(p) \/ WarmTurbo(p) \/ TakeNdarraySearch(p)
  BY <1>10, QuietStep DEF SearchLex, SearchVec, WarmTurbo, TakeNdarraySearch, tables, control
<1> QED BY <1>1, <1>2, <1>3, <1>4, <1>5, <1>6, <1>7, <1>8, <1>9, <1>10 DEF Call

\* AnnInv is inductive.
LEMMA AnnInvStep == AnnInv /\ [Next]_vars => AnnInv'
<1> SUFFICES ASSUME AnnInv, [Next]_vars PROVE AnnInv'
  OBVIOUS
<1>1. CASE UNCHANGED vars
  BY <1>1 DEF vars, indexes, control, history, AnnInv, UnusedAboveSeq, RowsCommitted, AnnNeverLies,
     Present, TypeOK, TablesType, MemoryType, AnnType, LexType, NdType, ControlType, HistoryType
<1>2. CASE Next
  <2>1. TypeOK'
    BY <1>2, TypeCall, TypeContinue DEF Next, AnnInv
  <2> QED BY <1>2, <2>1, AnnInvCall, AnnInvContinue DEF Next, AnnInv
<1> QED BY <1>1, <1>2

\* AnnInv holds in every reachable state.
LEMMA AnnInvAlways == Spec => []AnnInv
  BY AnnInvInit, AnnInvStep, PTL DEF Spec

\* No hit of the usearch index ever stands for another document's vector.
THEOREM AnnHitsAreHonest == Spec => []AnnNeverLies
<1>1. AnnInv => AnnNeverLies
  BY DEF AnnInv
<1> QED BY <1>1, AnnInvAlways, PTL

\* The ids of docs after one step of one process.
LEMMA IdsStep ==
  ASSUME AnnInv, NEW p \in Procs, Call(p) \/ Continue(p)
  PROVE  \A i \in Ids : docs'[i] \in {docs[i], NoText} \/ (docs[i] = NoText /\ i > seq)
<1> DEFINE A == \A i \in Ids : docs'[i] \in {docs[i], NoText} \/ (docs[i] = NoText /\ i > seq)
<1>1. ASSUME NEW rs \in Batches, NEW b \in BOOLEAN, NEW l, CommitRows(p, rs, b, l)
      PROVE  A
  <2>1. PICK ids \in [DOMAIN rs -> Ids] : CommitEffect(p, rs, b, l, ids)
    BY <1>1, CommitFacts DEF AnnInv
  <2>2. /\ \A k \in Fresh(rs) : ids[k] > seq
        /\ \A i \in Ids : (\E k \in Fresh(rs) : ids[k] = i) \/ docs'[i] = docs[i]
    BY <2>1, Zenon DEF CommitEffect
  <2> QED BY <2>2 DEF AnnInv, UnusedAboveSeq
<1>2. ASSUME NEW i \in Ids, Delete(p, i) PROVE A
  BY <1>2 DEF Delete, DeleteRow, AnnInv, TypeOK, TablesType
<1>3. ASSUME docs' = docs PROVE A
  BY <1>3
<1>4. ASSUME NEW r \in PutRequest, Put(p, r) PROVE A
  BY <1>1, <1>4, OneIsABatch DEF Put
<1>5. ASSUME NEW rs \in Batches, PutBatch(p, rs) \/ PutBatchFast(p, rs) \/ DeferredTx(p, rs)
      PROVE  A
  BY <1>1, <1>5 DEF PutBatch, PutBatchFast, DeferredTx
<1> HIDE DEF A
<1>6. ASSUME Call(p) PROVE A
  <2>1. ASSUME OpenLoad(p) \/ DropTrigger(p) PROVE A
    BY <2>1, <1>3 DEF OpenLoad, DropTrigger, SetTrigger
  <2>2. ASSUME \/ Close(p) \/ FlushAnn(p) \/ SearchLex(p) \/ SearchVec(p)
               \/ WarmTurbo(p) \/ TakeNdarraySearch(p) \/ \E i \in Ids : MergeCrdt(p, i)
        PROVE  A
    BY <2>2, <1>3 DEF Close, LoseMemory, FlushAnn, SearchLex, SearchVec, WarmTurbo,
       TakeNdarraySearch, MergeCrdt, TouchRow, tables
  <2> QED BY <1>2, <1>4, <1>5, <1>6, <2>1, <2>2 DEF Call, PlainBatches
<1>7. ASSUME Continue(p) PROVE A
  <2>1. ASSUME CreateTrigger(p) PROVE A
    BY <2>1, <1>3 DEF CreateTrigger, SetTrigger
  <2>2. ASSUME \/ OpenFinish(p) \/ Crash(p) \/ RawSelect(p) \/ RawInsert(p)
               \/ Enqueue(p) \/ RawBatch(p) \/ Mirror(p)
        PROVE  A
    BY <2>2, <1>3 DEF OpenFinish, Crash, LoseMemory, RawSelect, RawInsert, Enqueue, RawBatch,
       Mirror, tables
  <2> QED BY <1>5, <1>7, <2>1, <2>2 DEF Continue, PlainBatches
<1> QED BY <1>6, <1>7 DEF A

\* A row id that has denoted a document never denotes another one, whatever
\* processes share the database and wherever they crash.
THEOREM IdsAreForever == Spec => RowIdsNeverReused
<1>1. AnnInv /\ [Next]_vars =>
        [\A i \in Ids : docs'[i] \in {docs[i], NoText} \/ (docs[i] = NoText /\ i > seq)]_vars
  BY IdsStep DEF Next
<1> QED BY <1>1, AnnInvAlways, PTL DEF Spec, RowIdsNeverReused

-----------------------------------------------------------------------------
(* The raw memory and the extraction queue                                 *)

\* A single put carries one row; once a put is past the creation of the raw
\* memory, or of the queue row, its documents have it unless they are gone or
\* the enqueue was rolled back.
RawPhase ==
    \A p \in Procs :
       /\ pc[p] \in {"rawSelect", "rawInsert", "enqueue"} => DOMAIN rows[p] = {1}
       /\ \A k \in DOMAIN rows[p] :
             docs[rows[p][k].id] # NoText /\ rows[p][k].id \notin cut =>
                /\ pc[p] \in {"enqueue", "mirror"} => rawMem[rows[p][k].id] > 0
                /\ pc[p] = "mirror" => rows[p][k].id \in queue

MemInv == AnnInv /\ RawPhase /\ OnlyCutPutsLoseMemory

\* OnlyCutPutsLoseMemory for one document.
Kept(i) == \/ rawMem[i] > 0 /\ i \in queue
           \/ \E p \in Procs : \E k \in DOMAIN rows[p] : rows[p][k].id = i

\* MemInv holds of a new database.
LEMMA MemInvInit == Init => MemInv
<1> SUFFICES ASSUME Init PROVE RawPhase /\ OnlyCutPutsLoseMemory
  BY AnnInvInit DEF MemInv
<1>1. LiveIds = {}
  BY DEF Init, DocTablesInit, LiveIds
<1> QED BY <1>1 DEF Init, RawPhase, OnlyCutPutsLoseMemory

\* The transaction of a put leaves its rows to the raw-memory steps after it.
LEMMA CommitMemInv ==
  ASSUME MemInv, NEW p \in Procs, NEW rs \in Batches, NEW b \in BOOLEAN,
         NEW l, CommitRows(p, rs, b, l), pc[p] \notin PutSteps,
         l \in {"enqueueBatch", "retrigger"} \/ (l = "rawSelect" /\ DOMAIN rs = {1})
  PROVE  RawPhase' /\ OnlyCutPutsLoseMemory'
<1>1. PICK ids \in [DOMAIN rs -> Ids] : CommitEffect(p, rs, b, l, ids)
  BY CommitFacts DEF MemInv, AnnInv
<1>2. /\ \A k \in Fresh(rs) : k \in DOMAIN rs /\ ids[k] > seq
      /\ \A i \in Ids : (\E k \in Fresh(rs) : ids[k] = i) \/ docs'[i] = docs[i]
      /\ rows' = [rows EXCEPT ![p] = [k \in DOMAIN rs |->
                    [id |-> ids[k], vec |-> rs[k].vec, fresh |-> k \in Fresh(rs)]]]
      /\ pc' = [pc EXCEPT ![p] = l]
      /\ UNCHANGED <<rawMem, queue, cut>>
  BY <1>1, Zenon DEF CommitEffect, Goto, memory, history
<1>3. rows \in [Procs -> RowSeqs] /\ pc \in [Procs -> PcValues] /\ rows[p] = <<>>
  BY DEF MemInv, AnnInv, TypeOK, ControlType
<1>4. /\ DOMAIN rows'[p] = DOMAIN rs
      /\ \A k \in DOMAIN rs : rows'[p][k].id = ids[k]
      /\ \A q \in Procs : q # p => rows'[q] = rows[q] /\ pc'[q] = pc[q]
      /\ pc'[p] = l
  BY <1>2, <1>3
<1>5. RawPhase'
  <2> SUFFICES ASSUME NEW q \in Procs
        PROVE  /\ pc'[q] \in {"rawSelect", "rawInsert", "enqueue"} => DOMAIN rows'[q] = {1}
               /\ \A k \in DOMAIN rows'[q] :
                    docs'[rows'[q][k].id] # NoText /\ rows'[q][k].id \notin cut' =>
                    /\ pc'[q] \in {"enqueue", "mirror"} => rawMem'[rows'[q][k].id] > 0
                    /\ pc'[q] = "mirror" => rows'[q][k].id \in queue'
    BY DEF RawPhase
  <2>1. CASE q = p
    BY <1>4, <2>1
  <2>2. CASE q # p
    <3>1. rows'[q] = rows[q] /\ pc'[q] = pc[q]
      BY <1>4, <2>2
    <3>2. \A k \in DOMAIN rows[q] : docs'[rows[q][k].id] = docs[rows[q][k].id]
      <4> SUFFICES ASSUME NEW k \in DOMAIN rows[q]
                   PROVE  docs'[rows[q][k].id] = docs[rows[q][k].id]
        OBVIOUS
      <4>1. rows[q][k].id \in Ids /\ rows[q][k].id <= seq
        BY DEF MemInv, AnnInv, RowsCommitted
      <4>2. seq \in Nat
        BY DEF MemInv, AnnInv, TypeOK, TablesType
      <4> QED BY <1>2, <4>1, <4>2 DEF Ids
    <3> QED BY <1>2, <3>1, <3>2 DEF MemInv, RawPhase
  <2> QED BY <2>1, <2>2
<1>6. OnlyCutPutsLoseMemory'
  <2> SUFFICES ASSUME NEW i \in Ids, docs'[i] # NoText, i \notin cut
        PROVE  \/ rawMem[i] > 0 /\ i \in queue
               \/ \E q \in Procs : \E k \in DOMAIN rows'[q] : rows'[q][k].id = i
    BY <1>2 DEF OnlyCutPutsLoseMemory, LiveIds
  <2>1. CASE \E k \in Fresh(rs) : ids[k] = i
    BY <1>2, <1>4, <2>1
  <2>2. CASE docs'[i] = docs[i]
    <3>1. Kept(i)
      BY <2>2 DEF MemInv, OnlyCutPutsLoseMemory, LiveIds, Kept
    <3> QED BY <1>3, <1>4, <3>1 DEF Kept
  <2> QED BY <1>2, <2>1, <2>2
<1> QED BY <1>5, <1>6

\* Steps that create no document, forget memories only of deleted ones and
\* move no put forward.
LEMMA MemQuiet ==
  ASSUME MemInv, UNCHANGED <<rows, cut>>,
         \A i \in Ids : docs'[i] # NoText =>
            docs[i] # NoText /\ rawMem'[i] = rawMem[i] /\ (i \in queue => i \in queue'),
         \A q \in Procs : \/ pc'[q] = pc[q]
                          \/ rows[q] = <<>> /\ pc'[q] \notin {"rawSelect", "rawInsert", "enqueue"}
                          \/ pc'[q] = "enqueueBatch"
  PROVE  RawPhase' /\ OnlyCutPutsLoseMemory'
<1>1. \A q \in Procs : \A k \in DOMAIN rows[q] : rows[q][k].id \in Ids
  BY DEF MemInv, AnnInv, RowsCommitted
<1>2. RawPhase'
  BY <1>1 DEF MemInv, RawPhase
<1>3. OnlyCutPutsLoseMemory'
  BY DEF MemInv, OnlyCutPutsLoseMemory, LiveIds
<1> QED BY <1>2, <1>3

\* A process that ends leaves only cut puts without a raw memory.
LEMMA LoseMemoryMemInv ==
  ASSUME MemInv, NEW p \in Procs, LoseMemory(p),
         \/ cut' = cut /\ pc[p] \notin PutSteps \ {"mirror"}
         \/ cut' = cut \cup {rows[p][k].id : k \in DOMAIN rows[p]}
  PROVE  RawPhase' /\ OnlyCutPutsLoseMemory'
<1>1. /\ docs' = docs /\ rawMem' = rawMem /\ queue' = queue
      /\ rows' = [rows EXCEPT ![p] = <<>>] /\ pc' = [pc EXCEPT ![p] = "down"]
  BY DEF LoseMemory, tables, memory, Goto
<1>2. rows \in [Procs -> RowSeqs] /\ pc \in [Procs -> PcValues]
  BY DEF MemInv, AnnInv, TypeOK, ControlType
<1>3. /\ rows'[p] = <<>> /\ pc'[p] = "down"
      /\ \A q \in Procs : q # p => rows'[q] = rows[q] /\ pc'[q] = pc[q]
  BY <1>1, <1>2
<1>4. RawPhase'
  BY <1>1, <1>3 DEF MemInv, RawPhase
<1>5. OnlyCutPutsLoseMemory'
  <2> SUFFICES ASSUME NEW i \in Ids, docs[i] # NoText, i \notin cut'
        PROVE  \/ rawMem[i] > 0 /\ i \in queue
               \/ \E q \in Procs : \E k \in DOMAIN rows'[q] : rows'[q][k].id = i
    BY <1>1 DEF OnlyCutPutsLoseMemory, LiveIds
  <2>1. Kept(i)
    BY DEF MemInv, OnlyCutPutsLoseMemory, LiveIds, Kept
  <2>2. ASSUME NEW k \in DOMAIN rows[p], rows[p][k].id = i
        PROVE  rawMem[i] > 0 /\ i \in queue
    <3>1. pc[p] \notin PutSteps \ {"mirror"}
      BY <2>2
    <3>2. pc[p] \in PutSteps
      BY DEF MemInv, AnnInv, TypeOK, ControlType
    <3>3. pc[p] = "mirror"
      BY <3>1, <3>2
    <3> QED BY <2>2, <3>3 DEF MemInv, RawPhase
  <2> QED BY <1>3, <2>1, <2>2 DEF Kept
<1> QED BY <1>4, <1>5

\* Steps of a put that go on to label l with the same rows.
LEMMA MemGoto ==
  ASSUME MemInv, NEW p \in Procs, NEW l, Goto(p, l), UNCHANGED <<docs, rows>>,
         pc[p] \in PutSteps, cut \subseteq cut',
         \A i \in Ids : rawMem[i] > 0 => rawMem'[i] > 0,
         \A i \in Ids : i \in queue => i \in queue',
         l \in {"rawInsert", "enqueue"} => DOMAIN rows[p] = {1},
         l # "rawSelect",
         \A k \in DOMAIN rows[p] : docs[rows[p][k].id] # NoText /\ rows[p][k].id \notin cut' =>
            /\ l \in {"enqueue", "mirror"} => rawMem'[rows[p][k].id] > 0
            /\ l = "mirror" => rows[p][k].id \in queue'
  PROVE  RawPhase' /\ OnlyCutPutsLoseMemory'
<1>1. \A q \in Procs : \A k \in DOMAIN rows[q] : rows[q][k].id \in Ids
  BY DEF MemInv, AnnInv, RowsCommitted
<1>2. pc'[p] = l /\ \A q \in Procs : q # p => pc'[q] = pc[q]
  BY DEF Goto, MemInv, AnnInv, TypeOK, ControlType
<1>3. RawPhase'
  BY <1>1, <1>2 DEF MemInv, RawPhase
<1>4. OnlyCutPutsLoseMemory'
  BY DEF MemInv, OnlyCutPutsLoseMemory, LiveIds
<1> QED BY <1>3, <1>4

\* Steps that end a put whose documents have what they need.
LEMMA MemFinish ==
  ASSUME MemInv, NEW p \in Procs, Finish(p), UNCHANGED <<docs, cut>>,
         \A i \in Ids : rawMem[i] > 0 => rawMem'[i] > 0,
         \A i \in Ids : i \in queue => i \in queue',
         \A k \in DOMAIN rows[p] : docs[rows[p][k].id] # NoText /\ rows[p][k].id \notin cut =>
            rawMem'[rows[p][k].id] > 0 /\ rows[p][k].id \in queue'
  PROVE  RawPhase' /\ OnlyCutPutsLoseMemory'
<1>0. \A q \in Procs : \A k \in DOMAIN rows[q] : rows[q][k].id \in Ids
  BY DEF MemInv, AnnInv, RowsCommitted
<1>1. /\ rows' = [rows EXCEPT ![p] = <<>>] /\ pc' = [pc EXCEPT ![p] = "idle"]
      /\ rows \in [Procs -> RowSeqs] /\ pc \in [Procs -> PcValues]
  BY DEF Finish, Goto, MemInv, AnnInv, TypeOK, ControlType
<1>2. /\ rows'[p] = <<>> /\ pc'[p] = "idle"
      /\ \A q \in Procs : q # p => rows'[q] = rows[q] /\ pc'[q] = pc[q]
  BY <1>1
<1>3. RawPhase'
  BY <1>0, <1>2 DEF MemInv, RawPhase
<1>4. OnlyCutPutsLoseMemory'
  <2> SUFFICES ASSUME NEW i \in Ids, docs[i] # NoText, i \notin cut
        PROVE  \/ rawMem'[i] > 0 /\ i \in queue'
               \/ \E q \in Procs : \E k \in DOMAIN rows'[q] : rows'[q][k].id = i
    BY DEF OnlyCutPutsLoseMemory, LiveIds
  <2>1. Kept(i)
    BY DEF MemInv, OnlyCutPutsLoseMemory, LiveIds, Kept
  <2> QED BY <1>2, <2>1 DEF Kept
<1> QED BY <1>3, <1>4

\* EnqueueBatch gives every document of the batch a memory and a queue row.
LEMMA EnqueueBatchKeeps ==
  ASSUME MemoryType, NEW ids, DOMAIN ids \subseteq 1..MaxBatch,
         \A k \in DOMAIN ids : ids[k] \in Ids, EnqueueBatch(ids)
  PROVE  /\ \A i \in Ids : rawMem[i] > 0 => rawMem'[i] > 0
         /\ \A i \in Ids : i \in queue => i \in queue'
         /\ \A k \in DOMAIN ids : rawMem'[ids[k]] > 0 /\ ids[k] \in queue'
<1> DEFINE Times(i) == Cardinality({k \in DOMAIN ids : ids[k] = i})
<1>1. ASSUME NEW k \in DOMAIN ids PROVE Times(ids[k]) > 0
  <2> DEFINE S == {j \in DOMAIN ids : ids[j] = ids[k]}
  <2>1. IsFiniteSet(1..MaxBatch)
    BY FS_Interval, ConstantsAssumption
  <2>2. S \subseteq 1..MaxBatch /\ k \in S
    OBVIOUS
  <2>3. IsFiniteSet(S)
    BY <2>1, <2>2, FS_Subset
  <2> HIDE DEF S
  <2>4. Cardinality(S) \in Nat /\ Cardinality(S) # 0
    BY <2>2, <2>3, FS_CardinalityType, FS_EmptySet
  <2> QED BY <2>4 DEF S
<1>2. /\ rawMem' = [i \in Ids |-> IF rawMem[i] = 0 THEN Times(i) ELSE rawMem[i]]
      /\ queue' = queue \cup {ids[k] : k \in DOMAIN ids}
  BY Zenon DEF EnqueueBatch
<1> HIDE DEF Times
<1> QED BY <1>1, <1>2 DEF MemoryType

\* The later steps of a put keep MemInv.
LEMMA MemInvContinue ==
  ASSUME MemInv, NEW p \in Procs, Continue(p)
  PROVE  RawPhase' /\ OnlyCutPutsLoseMemory'
<1> USE DEF PutSteps
<1>0. TypeOK /\ AnnInv /\ RawPhase /\ ControlType
  BY DEF MemInv, AnnInv, TypeOK
<1>a. \A k \in DOMAIN rows[p] : rows[p][k].id \in Ids
  BY <1>0 DEF AnnInv, RowsCommitted
<1>1. CASE OpenFinish(p)
  <2>1. rows[p] = <<>>
    BY <1>0, <1>1 DEF OpenFinish, ControlType
  <2> QED BY <1>0, <1>1, <2>1, MemQuiet DEF OpenFinish, Goto, ControlType, tables, memory, history
<1>2. CASE Crash(p)
  BY <1>2, LoseMemoryMemInv DEF Crash
<1>3. CASE RawSelect(p)
  <2> DEFINE l == IF rawMem[rows[p][1].id] = 0 THEN "rawInsert" ELSE "enqueue"
  <2>1. DOMAIN rows[p] = {1} /\ pc[p] \in PutSteps /\ Goto(p, l)
    BY <1>0, <1>3 DEF RawSelect, RawPhase
  <2>2. rawMem[rows[p][1].id] \in Nat
    BY <1>0, <1>a, <2>1 DEF TypeOK, MemoryType
  <2>3. l \in {"rawInsert", "enqueue"} /\ (l = "enqueue" => rawMem[rows[p][1].id] > 0)
    BY <2>2
  <2>4. UNCHANGED <<docs, rows, cut, rawMem, queue>>
    BY <1>3 DEF RawSelect, tables, memory, history
  <2> HIDE DEF l
  <2> QED BY <2>1, <2>3, <2>4, MemGoto
<1>4. CASE RawInsert(p)
  <2>1. DOMAIN rows[p] = {1} /\ pc[p] \in PutSteps /\ rows[p][1].id \in Ids
    BY <1>0, <1>a, <1>4 DEF RawInsert, RawPhase
  <2>2. CASE InsertRaw(rows[p][1].id) /\ Goto(p, "enqueue") /\ UNCHANGED <<kind, rows, deficit>>
    <3>1. /\ \A i \in Ids : rawMem[i] > 0 => rawMem'[i] > 0
          /\ rawMem'[rows[p][1].id] > 0
          /\ queue' = queue
      BY <1>0, <2>1, <2>2 DEF InsertRaw, TypeOK, MemoryType
    <3> QED BY <1>4, <2>1, <2>2, <3>1, MemGoto DEF RawInsert, tables, history
  <2>3. CASE docs[rows[p][1].id] = NoText /\ AfterRaw(p) /\ UNCHANGED memory
    <3>1. CASE Finish(p)
      BY <1>4, <2>1, <2>3, <3>1, MemFinish DEF RawInsert, tables, memory, history
    <3>2. CASE Goto(p, "mirror") /\ UNCHANGED <<kind, rows, deficit>>
      BY <1>4, <2>1, <2>3, <3>2, MemGoto DEF RawInsert, tables, memory, history
    <3> QED BY <2>3, <3>1, <3>2 DEF AfterRaw
  <2> QED BY <1>4, <2>2, <2>3 DEF RawInsert
<1>5. CASE Enqueue(p)
  <2>1. DOMAIN rows[p] = {1} /\ pc[p] \in PutSteps /\ rows[p][1].id \in Ids
    BY <1>0, <1>a, <1>5 DEF Enqueue, RawPhase
  <2>2. /\ rawMem' = rawMem
        /\ docs[rows[p][1].id] # NoText /\ rows[p][1].id \notin cut => rawMem[rows[p][1].id] > 0
        /\ queue' = queue \cup {rows[p][1].id}
    BY <1>0, <1>5, <2>1 DEF Enqueue, EnqueueExtraction, RawPhase
  <2>3. CASE Finish(p)
    BY <1>5, <2>1, <2>2, <2>3, MemFinish DEF Enqueue, tables, history
  <2>4. CASE Goto(p, "mirror") /\ UNCHANGED <<kind, rows, deficit>>
    BY <1>5, <2>1, <2>2, <2>4, MemGoto DEF Enqueue, tables, history
  <2> QED BY <1>5, <2>3, <2>4 DEF Enqueue, AfterRaw
<1>6. CASE RawBatch(p)
  <2> DEFINE ids == [k \in DOMAIN rows[p] |-> rows[p][k].id]
  <2>1. DOMAIN ids \subseteq 1..MaxBatch /\ \A k \in DOMAIN ids : ids[k] \in Ids
    BY <1>0, <1>6, FirstRow DEF RawBatch, Row
  <2>2. /\ DOMAIN ids = DOMAIN rows[p] /\ \A k \in DOMAIN rows[p] : ids[k] = rows[p][k].id
        /\ \/ EnqueueBatch(ids) /\ UNCHANGED cut
           \/ UNCHANGED memory /\ cut' = cut \cup {ids[k] : k \in DOMAIN ids}
    BY <1>6, Zenon DEF RawBatch
  <2>3. Goto(p, "mirror") /\ UNCHANGED <<docs, rows>> /\ pc[p] \in PutSteps
    BY <1>6 DEF RawBatch, tables
  <2> HIDE DEF ids
  <2>4. CASE EnqueueBatch(ids) /\ UNCHANGED cut
    <3>1. /\ \A i \in Ids : rawMem[i] > 0 => rawMem'[i] > 0
          /\ \A i \in Ids : i \in queue => i \in queue'
          /\ \A k \in DOMAIN ids : rawMem'[ids[k]] > 0 /\ ids[k] \in queue'
      BY <1>0, <2>1, <2>4, EnqueueBatchKeeps DEF TypeOK
    <3> QED BY <2>2, <2>3, <2>4, <3>1, MemGoto
  <2>5. CASE UNCHANGED memory /\ cut' = cut \cup {ids[k] : k \in DOMAIN ids}
    BY <2>2, <2>3, <2>5, MemGoto DEF memory
  <2> QED BY <2>2, <2>4, <2>5
<1>7. CASE Mirror(p)
  <2>1. \A k \in DOMAIN rows[p] : docs[rows[p][k].id] # NoText /\ rows[p][k].id \notin cut =>
           rawMem[rows[p][k].id] > 0 /\ rows[p][k].id \in queue
    BY <1>0, <1>7 DEF Mirror, RawPhase
  <2> QED BY <1>7, <2>1, MemFinish DEF Mirror, tables, memory, history
<1>8. ASSUME NEW rs \in PlainBatches, DeferredTx(p, rs)
      PROVE  RawPhase' /\ OnlyCutPutsLoseMemory'
  BY <1>8, CommitMemInv DEF DeferredTx, PlainBatches
<1>9. CASE CreateTrigger(p)
  <2>1. CASE pc[p] = "dropped"
    <3>1. rows[p] = <<>>
      BY <1>0, <2>1 DEF ControlType
    <3> QED BY <1>0, <1>9, <2>1, <3>1, MemQuiet DEF CreateTrigger, SetTrigger, Goto, ControlType, memory, history
  <2>2. CASE pc[p] = "retrigger"
    BY <1>0, <1>9, <2>2, MemQuiet DEF CreateTrigger, SetTrigger, Goto, ControlType, memory, history
  <2> QED BY <1>9, <2>1, <2>2 DEF CreateTrigger
<1> QED BY <1>1, <1>2, <1>3, <1>4, <1>5, <1>6, <1>7, <1>8, <1>9 DEF Continue

\* The first step of every operation keeps MemInv.
LEMMA MemInvCall ==
  ASSUME MemInv, NEW p \in Procs, Call(p)
  PROVE  RawPhase' /\ OnlyCutPutsLoseMemory'
<1> USE DEF PutSteps
<1>0. TypeOK /\ ControlType
  BY DEF MemInv, AnnInv, TypeOK
<1>1. CASE OpenLoad(p) \/ DropTrigger(p)
  <2>1. rows[p] = <<>>
    BY <1>0, <1>1 DEF OpenLoad, DropTrigger, ControlType
  <2> QED BY <1>0, <1>1, <2>1, MemQuiet
          DEF OpenLoad, DropTrigger, SetTrigger, Goto, ControlType, memory, history
<1>2. CASE Close(p)
  BY <1>2, LoseMemoryMemInv DEF Close, history
<1>3. ASSUME NEW r \in PutRequest, Put(p, r)
      PROVE  RawPhase' /\ OnlyCutPutsLoseMemory'
  <2>1. <<r>> \in Batches /\ DOMAIN <<r>> = {1}
    BY OneIsABatch
  <2> QED BY <1>3, <2>1, CommitMemInv DEF Put
<1>4. ASSUME NEW rs \in Batches, PutBatch(p, rs)
      PROVE  RawPhase' /\ OnlyCutPutsLoseMemory'
  BY <1>4, CommitMemInv DEF PutBatch
<1>5. ASSUME NEW rs \in PlainBatches, PutBatchFast(p, rs)
      PROVE  RawPhase' /\ OnlyCutPutsLoseMemory'
  BY <1>5, CommitMemInv DEF PutBatchFast, PlainBatches
<1>6. ASSUME NEW i \in Ids, Delete(p, i)
      PROVE  RawPhase' /\ OnlyCutPutsLoseMemory'
  <2>1. \A j \in Ids : docs'[j] # NoText =>
           docs[j] # NoText /\ rawMem'[j] = rawMem[j] /\ (j \in queue => j \in queue')
    BY <1>0, <1>6 DEF Delete, DeleteRow, ForgetDoc, TypeOK, TablesType, MemoryType
  <2> QED BY <1>6, <2>1, MemQuiet DEF Delete, control, history
<1>7. CASE \/ FlushAnn(p) \/ SearchLex(p) \/ SearchVec(p) \/ WarmTurbo(p)
           \/ TakeNdarraySearch(p) \/ \E i \in Ids : MergeCrdt(p, i)
  <2>1. UNCHANGED <<docs, rawMem, queue, rows, cut, pc>>
    BY <1>7 DEF FlushAnn, SearchLex, SearchVec, WarmTurbo, TakeNdarraySearch, MergeCrdt, TouchRow,
       tables, memory, control, history
  <2> QED BY <2>1, MemQuiet
<1> QED BY <1>1, <1>2, <1>3, <1>4, <1>5, <1>6, <1>7 DEF Call

\* For any number of processes: the raw memory and the queue row of a stored
\* document are missing only while its put is under way or after it was cut.
THEOREM MemoryIsKept == Spec => []OnlyCutPutsLoseMemory
<1>1. MemInv /\ [Next]_vars => MemInv'
  <2> SUFFICES ASSUME MemInv, [Next]_vars PROVE MemInv'
    OBVIOUS
  <2>1. AnnInv'
    BY AnnInvStep DEF MemInv
  <2>2. CASE UNCHANGED vars
    BY <2>1, <2>2 DEF vars, control, history, MemInv, RawPhase, OnlyCutPutsLoseMemory, LiveIds
  <2>3. CASE Next
    BY <2>1, <2>3, MemInvCall, MemInvContinue DEF Next, MemInv
  <2> QED BY <2>2, <2>3
<1>2. MemInv => OnlyCutPutsLoseMemory
  BY DEF MemInv
<1> QED BY <1>1, <1>2, MemInvInit, PTL DEF Spec

-----------------------------------------------------------------------------
(* The Store implements Brain                                              *)


\* A committed put or batch adds documents nobody has stored under the next
\* unused ids, or changes no document at all.
LEMMA CommitAdds ==
  ASSUME AnnInv, NEW p \in Procs, NEW rs \in Batches, NEW b \in BOOLEAN,
         NEW l, CommitRows(p, rs, b, l), TablesType'
  PROVE  B!Next \/ UNCHANGED <<docs, vecs, seq>>
<1>0. PICK ids \in [DOMAIN rs -> Ids] : CommitEffect(p, rs, b, l, ids)
  BY CommitFacts DEF AnnInv
<1>1. /\ seq <= seq' /\ seq' \in 0..MaxId
      /\ \A k \in DOMAIN rs : ids[k] <= seq'
      /\ \A k \in Fresh(rs) : /\ k \in DOMAIN rs /\ ids[k] > seq
                              /\ docs'[ids[k]] = rs[k].text
                              /\ vecs'[ids[k]] = rs[k].vec
      /\ \A i \in Ids : \/ \E k \in Fresh(rs) : ids[k] = i
                        \/ docs'[i] = docs[i] /\ vecs'[i] = vecs[i]
      /\ \A i \in Ids : i > seq /\ i <= seq' => \E k \in Fresh(rs) : ids[k] = i
  BY <1>0, Zenon DEF CommitEffect
<1>2. PICK m \in 1..MaxBatch : rs \in [1..m -> PutRequest]
  BY DEF Batches
<1>3. /\ seq \in 0..MaxId /\ MaxId \in Nat
      /\ docs \in [Ids -> Texts \cup {NoText}] /\ docs' \in [Ids -> Texts \cup {NoText}]
      /\ vecs \in [Ids -> Vecs \cup {NoVec}] /\ vecs' \in [Ids -> Vecs \cup {NoVec}]
  BY ConstantsAssumption DEF AnnInv, TypeOK, TablesType, VecTable
<1>4. \A i \in Ids : i <= seq \/ i > seq' => docs'[i] = docs[i] /\ vecs'[i] = vecs[i]
  BY <1>1, <1>3 DEF Ids
<1>5. CASE seq' = seq
  <2>1. \A i \in Ids : docs'[i] = docs[i] /\ vecs'[i] = vecs[i]
    BY <1>4, <1>5, <1>3 DEF Ids
  <2> QED BY <1>3, <1>5, <2>1
<1>6. CASE seq' # seq
  <2>1. \A i \in Ids : i > seq /\ i <= seq' =>
           /\ docs'[i] \in Texts
           /\ vecs'[i] \in Vecs \cup {NoVec}
           /\ \A j \in Ids : docs'[j] = docs'[i] => j = i
    <3> SUFFICES ASSUME NEW i \in Ids, i > seq, i <= seq'
                 PROVE  /\ docs'[i] \in Texts
                        /\ vecs'[i] \in Vecs \cup {NoVec}
                        /\ \A j \in Ids : docs'[j] = docs'[i] => j = i
      OBVIOUS
    <3>1. PICK k \in Fresh(rs) : ids[k] = i
      BY <1>1
    <3>2. k \in 1..m /\ docs'[i] = rs[k].text /\ rs[k].text \in Texts /\ ~Stored(rs[k].text)
          /\ \A j \in 1..(k - 1) : rs[j].text # rs[k].text
      BY <1>1, <1>2, <3>1 DEF Fresh, PutRequest
    <3>3. ASSUME NEW j \in Ids, docs'[j] = docs'[i] PROVE j = i
      <4>1. docs[j] # rs[k].text
        BY <3>2 DEF Stored
      <4>2. PICK h \in Fresh(rs) : ids[h] = j
        BY <1>1, <3>2, <3>3, <4>1
      <4>3. h \in 1..m /\ rs[h].text = rs[k].text
            /\ \A g \in 1..(h - 1) : rs[g].text # rs[h].text
        BY <1>1, <1>2, <3>2, <3>3, <4>2 DEF Fresh
      <4>4. h = k
        BY <3>2, <4>3
      <4> QED BY <3>1, <4>2, <4>4
    <3> QED BY <1>3, <3>2, <3>3
  <2>2. B!Add(seq')
    BY <1>3, <1>4, <2>1 DEF B!Add, B!Ids, Ids
  <2>3. seq' \in (seq + 1)..MaxId
    BY <1>1, <1>3, <1>6
  <2> QED BY <2>2, <2>3 DEF B!Next
<1> QED BY <1>5, <1>6

\* One step of one process is a step of Brain, or leaves the brain alone.
LEMMA BrainStep ==
  ASSUME AnnInv, TypeOK', NEW p \in Procs, Call(p) \/ Continue(p)
  PROVE  B!Next \/ UNCHANGED <<docs, vecs, seq>>
<1> DEFINE A == B!Next \/ UNCHANGED <<docs, vecs, seq>>
<1>1. ASSUME NEW rs \in Batches, NEW b \in BOOLEAN, NEW l, CommitRows(p, rs, b, l)
      PROVE  A
  BY <1>1, CommitAdds DEF TypeOK
<1>2. ASSUME NEW i \in Ids, Delete(p, i) PROVE A
  BY <1>2 DEF Delete, DeleteRow, B!Next, B!Remove, B!Ids, Ids
<1>3. ASSUME UNCHANGED <<docs, vecs, seq>> PROVE A
  BY <1>3
<1>4. ASSUME NEW r \in PutRequest, Put(p, r) PROVE A
  BY <1>1, <1>4, OneIsABatch DEF Put
<1>5. ASSUME NEW rs \in Batches, PutBatch(p, rs) \/ PutBatchFast(p, rs) \/ DeferredTx(p, rs)
      PROVE  A
  BY <1>1, <1>5 DEF PutBatch, PutBatchFast, DeferredTx
<1> HIDE DEF A
<1>6. ASSUME Call(p) PROVE A
  <2>1. ASSUME OpenLoad(p) \/ DropTrigger(p) PROVE A
    BY <2>1, <1>3 DEF OpenLoad, DropTrigger, SetTrigger
  <2>2. ASSUME \/ Close(p) \/ FlushAnn(p) \/ SearchLex(p) \/ SearchVec(p)
               \/ WarmTurbo(p) \/ TakeNdarraySearch(p) \/ \E i \in Ids : MergeCrdt(p, i)
        PROVE  A
    BY <2>2, <1>3 DEF Close, LoseMemory, FlushAnn, SearchLex, SearchVec, WarmTurbo,
       TakeNdarraySearch, MergeCrdt, TouchRow, tables
  <2> QED BY <1>2, <1>4, <1>5, <1>6, <2>1, <2>2 DEF Call, PlainBatches
<1>7. ASSUME Continue(p) PROVE A
  <2>1. ASSUME CreateTrigger(p) PROVE A
    BY <2>1, <1>3 DEF CreateTrigger, SetTrigger
  <2>2. ASSUME \/ OpenFinish(p) \/ Crash(p) \/ RawSelect(p) \/ RawInsert(p)
               \/ Enqueue(p) \/ RawBatch(p) \/ Mirror(p)
        PROVE  A
    BY <2>2, <1>3 DEF OpenFinish, Crash, LoseMemory, RawSelect, RawInsert, Enqueue, RawBatch,
       Mirror, tables
  <2> QED BY <1>5, <1>7, <2>1, <2>2 DEF Continue, PlainBatches
<1> QED BY <1>6, <1>7 DEF A

\* Whatever the processes, crashes and faults, the tables behave as the
\* content-addressed map of Brain.
THEOREM StoreIsABrain == Spec => StoreImplementsBrain
<1>1. Init => B!Init
  BY DEF Init, DocTablesInit, EmptyVecTable, B!Init, B!Ids, Ids
<1>2. AnnInv /\ AnnInv' /\ [Next]_vars => [B!Next]_<<docs, vecs, seq>>
  <2> SUFFICES ASSUME AnnInv, AnnInv', [Next]_vars
               PROVE  B!Next \/ UNCHANGED <<docs, vecs, seq>>
    OBVIOUS
  <2>1. CASE UNCHANGED vars
    BY <2>1 DEF vars
  <2>2. CASE Next
    BY <2>2, BrainStep DEF Next, AnnInv
  <2> QED BY <2>1, <2>2
<1>3. [B!Next]_<<docs, vecs, seq>> <=> [B!Next]_B!brain
  BY DEF B!brain
<1> QED BY <1>1, <1>2, <1>3, AnnInvAlways, PTL DEF Spec, StoreImplementsBrain, B!Spec

-----------------------------------------------------------------------------
(* With one process whose index adds and deferred commits succeed, the     *)
(* usearch sidecar, the tantivy index and its mark, docs_fts and the       *)
(* ndarray cache lack no document, after any history of puts, batches,     *)
(* deletes, searches, flushes, crashes and reopens.                        *)

\* The ids that the put under way in process p has inserted.
FreshIds(p) == {rows[p][k].id : k \in {j \in DOMAIN rows[p] : rows[p][j].fresh}}

\* A process that is neither closed nor in Store::open.
Running(p) == pc[p] \notin {"down", "opening"}

\* What kind of put holds which rows: a single put one row, a batch without
\* embeddings only rows without one, and the row a batch inserts for a text
\* stands before the other positions with that text.
PutShape ==
    \A p \in Procs :
       /\ kind[p] = "put" /\ rows[p] # <<>> => DOMAIN rows[p] = {1}
       /\ pc[p] \in {"rawSelect", "rawInsert", "enqueue"} => kind[p] = "put"
       /\ pc[p] = "dropped" => kind[p] = "deferred"
       /\ kind[p] \in {"fast", "deferred"} => \A k \in DOMAIN rows[p] : rows[p][k].vec = NoVec
       /\ \A j, k \in DOMAIN rows[p] :
             rows[p][k].fresh /\ rows[p][j].id = rows[p][k].id => k <= j

\* The rows of docs_vec that the sidecar file lacks are newer than all it
\* holds, which is what makes the tail of docs_vec the right rows to rebuild.
FileIsAPrefix ==
    \A i \in Present(vecs) \ Present(annFile) : \A j \in Present(annFile) : j < i

\* Store::open counts exactly the missing rows.
DeficitIsExact ==
    \A p \in Procs : pc[p] = "opening" =>
       /\ ann[p] = annFile
       /\ Present(annFile) \subseteq Present(vecs)
       /\ deficit[p] = Cardinality(Present(vecs) \ Present(annFile))

\* Between its commit and its mirror step a put's rows are the only ones the
\* usearch index may lack.
AnnLacksOnlyFresh ==
    \A p \in Procs : Running(p) => Present(vecs) \subseteq Present(ann[p]) \cup FreshIds(p)

SideInv == ~ghostLoad => FileIsAPrefix /\ DeficitIsExact /\ AnnLacksOnlyFresh

\* The trigger is missing only inside a deferred batch, or after a crash in
\* one, before the next open brings it back.
FtsInv ==
    /\ FtsComplete
    /\ \A p \in Procs : pc[p] \notin {"down", "dropped", "retrigger"} => trigger

\* A warm ndarray cache lacks only the rows of the put under way.
NdInv ==
    \A p \in Procs : ~NdEmpty(p) => \A i \in Ids :
       /\ i > seq => nd[p][i] = NoVec
       /\ vecs[i] # NoVec => nd[p][i] = vecs[i] \/ (nd[p][i] = NoVec /\ i \in FreshIds(p))

\* A single process never meets the tantivy writer lock; its index lacks only
\* the rows of the put under way, and the mark is behind sqlite_sequence.
LexInv ==
    /\ MarkNeverAhead
    /\ lexMark <= seq
    /\ \A p \in Procs :
          /\ lexAt[p] # "ram"
          /\ Running(p) \/ lexAt[p] = "none"
          /\ lexAt[p] = "none" => staged[p] = {}
          /\ lexAt[p] = "disk" => LiveIds \subseteq lexDisk \cup staged[p] \cup FreshIds(p)

\* None of the parts of IndexesComplete is inductive: each speaks of idle
\* processes only and says nothing of the rows between commit and mirror.
IdxInv == AnnInv /\ PutShape /\ SideInv /\ FtsInv /\ NdInv /\ LexInv

\* The rows FreshIds collects.
LEMMA FreshIdsOf ==
  ASSUME NEW p \in Procs, NEW i
  PROVE  i \in FreshIds(p) <=> \E k \in DOMAIN rows[p] : rows[p][k].fresh /\ rows[p][k].id = i
  BY DEF FreshIds

\* IdxInv holds of a new database.
LEMMA IdxInvInit == Init => IdxInv
<1> SUFFICES ASSUME Init PROVE IdxInv
  OBVIOUS
<1>1. /\ docs = [i \in Ids |-> NoText] /\ vecs = EmptyVecTable /\ fts = {} /\ trigger = TRUE /\ seq = 0
      /\ ann = [p \in Procs |-> EmptyVecTable] /\ annFile = EmptyVecTable
      /\ nd = [p \in Procs |-> NoIndex]
      /\ lexAt = [p \in Procs |-> "none"] /\ staged = [p \in Procs |-> {}]
      /\ lexDisk = {} /\ lexMark = 0
      /\ pc = [p \in Procs |-> "down"]
      /\ kind = [p \in Procs |-> "put"] /\ rows = [p \in Procs |-> <<>>]
  BY DEF Init, DocTablesInit, AnnInit, NdInit, LexInit
<1>2. LiveIds = {} /\ Present(vecs) = {} /\ Present(annFile) = {}
  BY <1>1 DEF LiveIds, Present, EmptyVecTable
<1>3. PutShape
  BY <1>1 DEF PutShape
<1>4. SideInv
  BY <1>1, <1>2 DEF SideInv, FileIsAPrefix, DeficitIsExact, AnnLacksOnlyFresh, Running
<1>5. FtsInv /\ NdInv
  BY <1>1, <1>2 DEF FtsInv, FtsComplete, NdInv, NdEmpty
<1>6. LexInv
  BY <1>1, <1>2 DEF LexInv, MarkNeverAhead, Running
<1> QED BY <1>3, <1>4, <1>5, <1>6, AnnInvInit DEF IdxInv

\* The row a batch inserts for a text stands before the other positions that
\* get its id, and positions it did not insert for had a row before.
LEMMA FreshIsFirst ==
  ASSUME TypeOK, UnusedAboveSeq, NEW p \in Procs, NEW rs \in Batches, NEW b \in BOOLEAN,
         NEW l, CommitRows(p, rs, b, l)
  PROVE  \A j, k \in DOMAIN rows'[p] :
            rows'[p][k].fresh /\ rows'[p][j].id = rows'[p][k].id => k <= j
<1>1. PICK n \in seq..MaxId, ids \in [DOMAIN rs -> Ids] :
         /\ Assigns(rs, ids, n)
         /\ rows' = [rows EXCEPT ![p] = [k \in DOMAIN rs |->
                       [id |-> ids[k], vec |-> rs[k].vec, fresh |-> k \in Fresh(rs)]]]
  BY Zenon DEF CommitRows
<1>2. PICK m \in 1..MaxBatch : rs \in [1..m -> PutRequest]
  BY DEF Batches
<1>3. rows'[p] = [k \in DOMAIN rs |->
                    [id |-> ids[k], vec |-> rs[k].vec, fresh |-> k \in Fresh(rs)]]
  BY <1>1 DEF TypeOK, ControlType
<1>4. DOMAIN rows'[p] = 1..m /\ DOMAIN rs = 1..m
  BY <1>2, <1>3
<1> SUFFICES ASSUME NEW j \in 1..m, NEW k \in 1..m, rows'[p][k].fresh,
                    rows'[p][j].id = rows'[p][k].id, j < k
             PROVE  FALSE
  BY <1>4
<1>5. /\ rows'[p][k] = [id |-> ids[k], vec |-> rs[k].vec, fresh |-> k \in Fresh(rs)]
      /\ rows'[p][j] = [id |-> ids[j], vec |-> rs[j].vec, fresh |-> j \in Fresh(rs)]
  BY <1>3, <1>4, Zenon
<1>6. k \in Fresh(rs) /\ ids[j] = ids[k]
  <2>1. rows'[p][k].id = ids[k] /\ rows'[p][j].id = ids[j]
    BY <1>5
  <2>2. ASSUME k \notin Fresh(rs) PROVE FALSE
    <3>1. (k \in Fresh(rs)) = FALSE
      BY <2>2
    <3>2. rows'[p][k] = [id |-> ids[k], vec |-> rs[k].vec, fresh |-> FALSE]
      BY <1>5, <3>1, Zenon
    <3>3. rows'[p][k].fresh = FALSE
      BY <3>2
    <3> QED BY <3>3, Zenon
  <2> QED BY <2>1, <2>2
<1>7. ~Stored(rs[k].text) /\ \A h \in 1..(k - 1) : rs[h].text # rs[k].text
  BY <1>6 DEF Fresh
<1>8. ids[k] > seq /\ ids[k] \in Ids /\ seq \in 0..MaxId
  BY <1>1, <1>4, <1>6 DEF Assigns, TypeOK, TablesType
<1>9. CASE j \in Fresh(rs)
  <2>1. ids[j] < ids[k]
    BY <1>1, <1>6, <1>9 DEF Assigns
  <2> QED BY <1>6, <1>8, <2>1 DEF Ids
<1>10. CASE j \notin Fresh(rs)
  <2>1. CASE docs[ids[j]] = rs[j].text
    <3>1. docs[ids[k]] = NoText
      BY <1>8 DEF UnusedAboveSeq
    <3>2. rs[j].text \in Texts
      BY <1>2 DEF PutRequest
    <3> QED BY <2>1, <3>1, <3>2, <1>6, ConstantsAssumption
  <2>2. ASSUME NEW h \in Fresh(rs), rs[h].text = rs[j].text, ids[j] = ids[h] PROVE FALSE
    <3>1. h \in 1..m
      BY <1>4 DEF Fresh
    <3>2. h = k
      <4>1. h < k => ids[h] < ids[k]
        BY <1>1, <1>6 DEF Assigns
      <4>2. k < h => ids[k] < ids[h]
        BY <1>1, <1>6 DEF Assigns
      <4>3. ids[h] = ids[k] /\ ids[k] \in Nat
        BY <1>6, <1>8, <2>2 DEF Ids
      <4> QED BY <3>1, <4>1, <4>2, <4>3
    <3>3. j \in 1..(k - 1)
      OBVIOUS
    <3> QED BY <1>7, <2>2, <3>2, <3>3
  <2> QED BY <1>1, <1>4, <1>10, <2>1, <2>2 DEF Assigns
<1> QED BY <1>9, <1>10

\* A row record says fresh exactly when it was built so.
LEMMA FreshField ==
  ASSUME NEW a, NEW v, NEW c \in BOOLEAN
  PROVE  /\ [id |-> a, vec |-> v, fresh |-> c].fresh = c
         /\ [id |-> a, vec |-> v, fresh |-> c].id = a
         /\ [id |-> a, vec |-> v, fresh |-> c].vec = v
  OBVIOUS

\* What the transaction of a put leaves to be mirrored.
LEMMA CommitFresh ==
  ASSUME TypeOK, NEW p \in Procs, NEW rs \in Batches, NEW b, NEW l, NEW ids \in [DOMAIN rs -> Ids],
         CommitEffect(p, rs, b, l, ids)
  PROVE  /\ DOMAIN rows'[p] = DOMAIN rs
         /\ \A k \in DOMAIN rs : rows'[p][k].vec = rs[k].vec
         /\ FreshIds(p)' = {ids[k] : k \in Fresh(rs)}
<1>1. /\ rows' = [rows EXCEPT ![p] = [k \in DOMAIN rs |->
                   [id |-> ids[k], vec |-> rs[k].vec, fresh |-> k \in Fresh(rs)]]]
      /\ Fresh(rs) \subseteq DOMAIN rs
  BY Zenon DEF CommitEffect, Fresh
<1>2. rows'[p] = [k \in DOMAIN rs |->
                    [id |-> ids[k], vec |-> rs[k].vec, fresh |-> k \in Fresh(rs)]]
  BY <1>1, Zenon DEF TypeOK, ControlType
<1>3. \A k \in DOMAIN rs : rows'[p][k] = [id |-> ids[k], vec |-> rs[k].vec, fresh |-> k \in Fresh(rs)]
  BY <1>2, Zenon
<1>4. ASSUME NEW k \in DOMAIN rs
      PROVE  /\ rows'[p][k].fresh <=> k \in Fresh(rs)
             /\ rows'[p][k].id = ids[k] /\ rows'[p][k].vec = rs[k].vec
  <2>1. (k \in Fresh(rs)) \in BOOLEAN
    OBVIOUS
  <2>2. PICK c \in BOOLEAN : c = (k \in Fresh(rs))
    BY <2>1, Zenon
  <2>3. rows'[p][k] = [id |-> ids[k], vec |-> rs[k].vec, fresh |-> c]
    BY <1>3, <2>2, Zenon
  <2>4. rows'[p][k].fresh = c /\ rows'[p][k].id = ids[k] /\ rows'[p][k].vec = rs[k].vec
    BY <2>3, FreshField
  <2>5. c <=> k \in Fresh(rs)
    BY <2>2
  <2> QED BY <2>4, <2>5, Zenon
<1>5. DOMAIN rows'[p] = DOMAIN rs
  BY <1>2, Zenon
<1>6. FreshIds(p)' = {ids[k] : k \in Fresh(rs)}
  <2>1. FreshIds(p)' = {rows'[p][k].id : k \in {j \in DOMAIN rows'[p] : rows'[p][j].fresh}}
    BY Zenon DEF FreshIds
  <2>2. \A i : i \in FreshIds(p)' <=> \E k \in DOMAIN rows'[p] : rows'[p][k].fresh /\ i = rows'[p][k].id
    BY <2>1, Zenon
  <2>3. \A i : i \in FreshIds(p)' <=> \E k \in Fresh(rs) : i = ids[k]
    <3> SUFFICES ASSUME NEW i PROVE i \in FreshIds(p)' <=> \E k \in Fresh(rs) : i = ids[k]
      OBVIOUS
    <3>1. ASSUME NEW k \in DOMAIN rs, rows'[p][k].fresh, i = rows'[p][k].id
          PROVE  k \in Fresh(rs) /\ i = ids[k]
      BY <3>1, <1>4, Zenon
    <3>2. ASSUME NEW k \in Fresh(rs), i = ids[k]
          PROVE  k \in DOMAIN rs /\ rows'[p][k].fresh /\ i = rows'[p][k].id
      <4>1. k \in DOMAIN rs
        BY <1>1
      <4> QED BY <3>2, <4>1, <1>4, Zenon
    <3> QED BY <1>5, <2>2, <3>1, <3>2, Zenon
  <2> QED BY <2>3
<1> QED BY <1>4, <1>5, <1>6

\* The transaction of a put by the only process.
LEMMA CommitIdx ==
  ASSUME IdxInv, NEW p, Procs = {p}, NEW rs \in Batches, NEW b \in BOOLEAN,
         NEW l \in {"rawSelect", "enqueueBatch", "retrigger"}, CommitRows(p, rs, b, l),
         pc[p] = IF b THEN "dropped" ELSE "idle", (l = "retrigger") <=> b,
         kind'[p] = "put" => DOMAIN rs = {1},
         l = "rawSelect" => kind'[p] = "put",
         kind'[p] \in {"fast", "deferred"} => rs \in PlainBatches
  PROVE  PutShape' /\ SideInv' /\ FtsInv' /\ NdInv' /\ LexInv'
<1>0. p \in Procs /\ TypeOK /\ UnusedAboveSeq
  BY DEF IdxInv, AnnInv
<1>1. PICK ids \in [DOMAIN rs -> Ids] : CommitEffect(p, rs, b, l, ids)
  BY <1>0, CommitFacts
<1> DEFINE new == {ids[k] : k \in Fresh(rs)}
<1>2. /\ seq <= seq' /\ seq' \in 0..MaxId
      /\ \A k \in Fresh(rs) : k \in DOMAIN rs /\ ids[k] > seq /\ docs'[ids[k]] = rs[k].text
                              /\ vecs'[ids[k]] = rs[k].vec
      /\ \A i \in Ids : \/ \E k \in Fresh(rs) : ids[k] = i
                        \/ docs'[i] = docs[i] /\ vecs'[i] = vecs[i]
      /\ fts' = fts \cup (IF trigger THEN new ELSE {})
                    \cup (IF b THEN {i \in LiveIds \cup new : i > MaxDocId} ELSE {})
      /\ Goto(p, l)
      /\ UNCHANGED <<trigger, memory, indexes, deficit, history>>
  BY <1>1, Zenon DEF CommitEffect
<1>3. /\ DOMAIN rows'[p] = DOMAIN rs
      /\ \A k \in DOMAIN rs : rows'[p][k].vec = rs[k].vec
      /\ FreshIds(p)' = new
  BY <1>0, <1>1, CommitFresh
<1>4. /\ ann' = ann /\ annFile' = annFile /\ nd' = nd /\ lexAt' = lexAt /\ staged' = staged
      /\ lexDisk' = lexDisk /\ lexMark' = lexMark /\ ghostLoad' = ghostLoad /\ trigger' = trigger
      /\ pc'[p] = l
  BY <1>0, <1>2 DEF indexes, history, Goto, TypeOK, ControlType
<1>5. rows[p] = <<>> /\ pc[p] \in {"idle", "dropped"} /\ FreshIds(p) = {}
  BY <1>0 DEF TypeOK, ControlType, PutSteps, FreshIds
<1>6. /\ new \subseteq Ids
      /\ \A i \in new : i > seq /\ i \in Ids /\ docs'[i] # NoText
      /\ \A i \in Ids \ new : docs'[i] = docs[i] /\ vecs'[i] = vecs[i]
  <2>1. \A k \in DOMAIN rs : rs[k].text # NoText
    BY ConstantsAssumption DEF Batches, PutRequest
  <2> QED BY <1>2, <2>1
<1> HIDE DEF new
<1>7. LiveIds' = LiveIds \cup new
  BY <1>6 DEF LiveIds
<1>8. Present(vecs)' \subseteq Present(vecs) \cup new
  BY <1>6 DEF Present
<1>9. seq \in Nat /\ seq' \in Nat /\ Ids \subseteq Nat
  BY <1>0, <1>2 DEF TypeOK, TablesType, Ids
<1>10. PutShape'
  <2>1. kind'[p] \in {"fast", "deferred"} => \A k \in DOMAIN rs : rs[k].vec = NoVec
    BY DEF PlainBatches
  <2>2. \A j, k \in DOMAIN rows'[p] :
            rows'[p][k].fresh /\ rows'[p][j].id = rows'[p][k].id => k <= j
    BY <1>0, FreshIsFirst
  <2>3. /\ kind'[p] = "put" /\ rows'[p] # <<>> => DOMAIN rows'[p] = {1}
        /\ pc'[p] \in {"rawSelect", "rawInsert", "enqueue"} => kind'[p] = "put"
        /\ pc'[p] # "dropped"
        /\ kind'[p] \in {"fast", "deferred"} => \A k \in DOMAIN rows'[p] : rows'[p][k].vec = NoVec
    BY <1>3, <1>4, <2>1
  <2> QED BY <2>2, <2>3 DEF PutShape
<1>11. SideInv'
  <2> SUFFICES ASSUME ~ghostLoad PROVE FileIsAPrefix' /\ DeficitIsExact' /\ AnnLacksOnlyFresh'
    BY <1>4 DEF SideInv
  <2>1. FileIsAPrefix'
    <3> SUFFICES ASSUME NEW i \in Present(vecs)', i \notin Present(annFile), NEW j \in Present(annFile)
                 PROVE  j < i
      BY <1>4 DEF FileIsAPrefix, Present
    <3>1. CASE i \in new
      <4>1. j <= seq /\ j \in Ids
        BY <1>0, <1>9 DEF UnusedAboveSeq, Present
      <4> QED BY <1>6, <1>9, <3>1, <4>1
    <3>2. CASE i \in Present(vecs)
      BY <3>2 DEF IdxInv, SideInv, FileIsAPrefix
    <3> QED BY <1>8, <3>1, <3>2
  <2>2. DeficitIsExact'
    BY <1>4 DEF DeficitIsExact
  <2>3. AnnLacksOnlyFresh'
    <3>1. Present(vecs) \subseteq Present(ann[p])
      BY <1>0, <1>5 DEF IdxInv, SideInv, AnnLacksOnlyFresh, Running
    <3>2. Present(ann[p])' = Present(ann[p])
      BY <1>4 DEF Present
    <3>3. Present(vecs)' \subseteq Present(ann[p])' \cup FreshIds(p)'
      BY <1>3, <1>8, <3>1, <3>2
    <3> QED BY <3>3 DEF AnnLacksOnlyFresh
  <2> QED BY <2>1, <2>2, <2>3
<1>12. FtsInv'
  <2>1. fts = LiveIds /\ MaxDocId \in 0..MaxId /\ MaxDocId \in LiveIds \cup {0}
    BY <1>0, MaxDocIdIsMax DEF IdxInv, FtsInv, FtsComplete, TypeOK
  <2>2. MaxDocId <= seq /\ MaxDocId \in Nat
    BY <1>0, <1>9, <2>1 DEF UnusedAboveSeq, LiveIds
  <2>3. \A i \in new : i > MaxDocId
    BY <1>6, <1>9, <2>2
  <2>4. b \/ trigger
    BY <1>0, <1>5 DEF IdxInv, FtsInv
  <2>5. fts' = LiveIds \cup new
    <3>1. CASE b
      <4>1. new \subseteq {i \in LiveIds \cup new : i > MaxDocId}
        BY <2>3
      <4> QED BY <1>2, <2>1, <3>1, <4>1
    <3>2. CASE ~b /\ trigger
      BY <1>2, <2>1, <3>2
    <3> QED BY <2>4, <3>1, <3>2
  <2>6. pc'[p] \notin {"down", "dropped", "retrigger"} => trigger'
    BY <1>4, <2>4
  <2> QED BY <1>7, <2>5, <2>6 DEF FtsInv, FtsComplete
<1>13. NdInv'
  <2> SUFFICES ASSUME ~NdEmpty(p)', NEW i \in Ids
               PROVE  /\ i > seq' => nd[p][i] = NoVec
                      /\ vecs'[i] # NoVec => nd[p][i] = vecs'[i] \/ (nd[p][i] = NoVec /\ i \in new)
    BY <1>3, <1>4 DEF NdInv
  <2>1. /\ i > seq => nd[p][i] = NoVec
        /\ vecs[i] # NoVec => nd[p][i] = vecs[i]
    BY <1>0, <1>4, <1>5 DEF IdxInv, NdInv, NdEmpty
  <2>2. i > seq' => i > seq
    BY <1>2, <1>9
  <2> QED BY <1>6, <2>1, <2>2
<1>14. LexInv'
  <2>1. /\ \A i \in LiveIds : i <= lexMark => i \in lexDisk
        /\ lexMark <= seq /\ lexMark \in Nat
        /\ lexAt[p] # "ram"
        /\ lexAt[p] = "none" => staged[p] = {}
        /\ lexAt[p] = "disk" => LiveIds \subseteq lexDisk \cup staged[p]
    BY <1>0, <1>5 DEF IdxInv, LexInv, MarkNeverAhead, TypeOK, LexType
  <2>2. \A i \in new : ~(i <= lexMark)
    BY <1>6, <1>9, <2>1
  <2>3. MarkNeverAhead'
    BY <1>4, <1>7, <2>1, <2>2 DEF MarkNeverAhead
  <2>4. lexMark' <= seq'
    BY <1>2, <1>4, <1>9, <2>1
  <2>5. Running(p)'
    BY <1>4 DEF Running
  <2>6. lexAt[p] = "disk" => LiveIds' \subseteq lexDisk \cup staged[p] \cup FreshIds(p)'
    BY <1>3, <1>7, <2>1
  <2> QED BY <1>4, <2>1, <2>3, <2>4, <2>5, <2>6 DEF LexInv
<1> QED BY <1>10, <1>11, <1>12, <1>13, <1>14

\* usearch adds that cannot fail leave every row of docs_vec in the index.
LEMMA AnnCatchesUp ==
  ASSUME IdxInv, NEW p \in Procs, "ann" \notin Faults, Mirror(p), ~ghostLoad, Running(p),
         NEW i \in Present(vecs)
  PROVE  ann'[p][i] # NoVec
<1> DEFINE rw == rows[p]
<1>0. TypeOK /\ RowsCommitted /\ i \in Ids /\ vecs[i] # NoVec
  BY DEF IdxInv, AnnInv, Present
<1>1. ann[p][i] # NoVec \/ \E k \in DOMAIN rw : rw[k].fresh /\ rw[k].id = i
  BY DEF IdxInv, SideInv, AnnLacksOnlyFresh, Present, FreshIds
<1>2. \A k \in DOMAIN rw : rw[k].fresh /\ rw[k].id = i => rw[k].vec = vecs[i]
  BY <1>0 DEF RowsCommitted
<1>3. CASE kind[p] \notin {"put", "batch"}
  <2>1. kind[p] \in {"fast", "deferred"}
    BY <1>0, <1>3 DEF TypeOK, ControlType, PutKinds
  <2>2. \A k \in DOMAIN rw : rw[k].vec = NoVec
    BY <2>1 DEF IdxInv, PutShape
  <2> QED BY <1>0, <1>1, <1>2, <1>3, <2>2 DEF Mirror
<1>4. CASE kind[p] \in {"put", "batch"}
  <2>1. AnnInsert(p, rw)
    BY <1>4 DEF Mirror
  <2>2. LET Mirrors(k, j) == k \in DOMAIN rw \ {} /\ rw[k].fresh /\ rw[k].id = j
            NewVec(j) == rw[CHOOSE k \in DOMAIN rw : Mirrors(k, j)].vec
        IN  ann' = [ann EXCEPT ![p] = [j \in Ids |->
                      IF ann[p][j] = NoVec /\ \E k \in DOMAIN rw : Mirrors(k, j)
                      THEN NewVec(j) ELSE ann[p][j]]]
    BY <2>1, Zenon DEF AnnInsert
  <2> DEFINE Mirrors(k, j) == k \in DOMAIN rw \ {} /\ rw[k].fresh /\ rw[k].id = j
             Sel(j) == CHOOSE k \in DOMAIN rw : Mirrors(k, j)
  <2>3. ann' = [ann EXCEPT ![p] = [j \in Ids |->
                  IF ann[p][j] = NoVec /\ \E k \in DOMAIN rw : Mirrors(k, j)
                  THEN rw[Sel(j)].vec ELSE ann[p][j]]]
    BY <2>2, Zenon
  <2>4. (\E k \in DOMAIN rw : Mirrors(k, i)) => Sel(i) \in DOMAIN rw /\ Mirrors(Sel(i), i)
    OBVIOUS
  <2> HIDE DEF Sel
  <2>5. (\E k \in DOMAIN rw : Mirrors(k, i)) => rw[Sel(i)].vec = vecs[i]
    BY <1>2, <2>4
  <2>6. ann'[p][i] = IF ann[p][i] = NoVec /\ \E k \in DOMAIN rw : Mirrors(k, i)
                     THEN rw[Sel(i)].vec ELSE ann[p][i]
    BY <1>0, <2>3 DEF TypeOK, AnnType
  <2> QED BY <1>0, <1>1, <2>5, <2>6
<1> QED BY <1>3, <1>4

\* add_row brings a warm ndarray cache up to docs_vec: the first row of the
\* batch with an embedding for an id is the one that was inserted.
LEMMA NdCatchesUp ==
  ASSUME IdxInv, NEW p \in Procs, Mirror(p), ~NdEmpty(p), NEW i \in Ids
  PROVE  /\ i > seq => nd'[p][i] = NoVec
         /\ vecs[i] # NoVec => nd'[p][i] = vecs[i]
<1> DEFINE rw == rows[p]
<1>0. TypeOK /\ RowsCommitted /\ seq \in Nat /\ i \in Nat /\ pc[p] \in PutSteps
  BY DEF IdxInv, AnnInv, TypeOK, TablesType, Ids, Mirror, PutSteps
<1>1. /\ i > seq => nd[p][i] = NoVec
      /\ vecs[i] # NoVec => \/ nd[p][i] = vecs[i]
                            \/ nd[p][i] = NoVec /\ \E k \in DOMAIN rw : rw[k].fresh /\ rw[k].id = i
  BY DEF IdxInv, NdInv, FreshIds
<1>2. \A k \in DOMAIN rw : rw[k].fresh /\ rw[k].id = i /\ vecs[i] # NoVec => rw[k].vec = vecs[i]
  BY <1>0 DEF RowsCommitted
<1>3. CASE kind[p] \notin {"put", "batch"}
  <2>1. kind[p] \in {"fast", "deferred"}
    BY <1>0, <1>3 DEF TypeOK, ControlType, PutKinds
  <2>2. \A k \in DOMAIN rw : rw[k].vec = NoVec
    BY <2>1 DEF IdxInv, PutShape
  <2> QED BY <1>1, <1>2, <1>3, <2>2 DEF Mirror
<1>4. CASE kind[p] \in {"put", "batch"}
  <2> DEFINE Adds(k, j) == k \in DOMAIN rw /\ rw[k].id = j /\ rw[k].vec # NoVec
             First(j) == CHOOSE k \in DOMAIN rw : Adds(k, j) /\ \A h \in 1..(k - 1) : ~Adds(h, j)
  <2>1. nd' = [nd EXCEPT ![p] = [j \in Ids |->
                 IF nd[p][j] = NoVec /\ \E k \in DOMAIN rw : Adds(k, j)
                 THEN rw[First(j)].vec ELSE nd[p][j]]]
    BY <1>4, Zenon DEF Mirror, NdAddRows
  <2>2. nd'[p][i] = IF nd[p][i] = NoVec /\ \E k \in DOMAIN rw : Adds(k, i)
                    THEN rw[First(i)].vec ELSE nd[p][i]
    <3> HIDE DEF Adds, First
    <3> QED BY <2>1 DEF IdxInv, AnnInv, TypeOK, NdType
  <2>3. i > seq => ~ \E k \in DOMAIN rw : Adds(k, i)
    BY <1>0 DEF RowsCommitted
  <2>4. ASSUME NEW k \in DOMAIN rw, rw[k].fresh, rw[k].id = i, vecs[i] # NoVec
        PROVE  (\E h \in DOMAIN rw : Adds(h, i)) /\ rw[First(i)].vec = vecs[i]
    <3>1. DOMAIN rw \subseteq 1..MaxBatch /\ rw \in RowSeqs /\ rw # <<>>
      BY <1>0, FirstRow DEF TypeOK
    <3>2. PICK m \in 1..MaxBatch : DOMAIN rw = 1..m
      BY <3>1 DEF RowSeqs
    <3>3. Adds(k, i)
      BY <1>2, <2>4
    <3>4. \A h \in DOMAIN rw : rw[h].id = i => k <= h
      BY <2>4 DEF IdxInv, PutShape
    <3>5. \A h \in 1..(k - 1) : ~Adds(h, i)
      BY <3>2, <3>4
    <3>6. ASSUME NEW f \in DOMAIN rw, Adds(f, i), \A h \in 1..(f - 1) : ~Adds(h, i)
          PROVE  f = k
      BY <3>2, <3>3, <3>4, <3>6
    <3>7. First(i) = k
      <4> HIDE DEF Adds
      <4> QED BY <3>3, <3>5, <3>6
    <3> QED BY <1>2, <2>4, <3>3, <3>7
  <2> HIDE DEF Adds, First
  <2>5. CASE vecs[i] # NoVec
    <3>1. CASE nd[p][i] = vecs[i]
      BY <2>5, <3>1, <2>2, <2>3, <1>1
    <3>2. CASE nd[p][i] = NoVec /\ \E k \in DOMAIN rw : rw[k].fresh /\ rw[k].id = i
      <4>1. PICK k \in DOMAIN rw : rw[k].fresh /\ rw[k].id = i
        BY <3>2
      <4>2. (\E h \in DOMAIN rw : Adds(h, i)) /\ rw[First(i)].vec = vecs[i]
        BY <2>4, <2>5, <4>1
      <4>3. i <= seq
        BY <1>0, <4>1 DEF RowsCommitted
      <4> QED BY <1>0, <2>2, <3>2, <4>2, <4>3
    <3> QED BY <1>1, <2>5, <3>1, <3>2
  <2> QED BY <1>1, <2>2, <2>3, <2>5
<1> QED BY <1>3, <1>4

\* The end of a put empties the rows of its process.
LEMMA FinishIdle ==
  ASSUME TypeOK, NEW p \in Procs, Finish(p)
  PROVE  /\ pc'[p] = "idle" /\ rows'[p] = <<>> /\ FreshIds(p)' = {}
         /\ kind' = kind /\ deficit' = deficit
<1>1. pc'[p] = "idle" /\ rows'[p] = <<>> /\ kind' = kind /\ deficit' = deficit
  BY DEF Finish, Goto, TypeOK, ControlType
<1>2. FreshIds(p)' = {}
  BY <1>1 DEF FreshIds
<1> QED BY <1>1, <1>2

\* tantivy after the mirror step of a put.
LEMMA LexCatchesUp ==
  ASSUME IdxInv, NEW p, Procs = {p}, "mirror" \notin Faults, Mirror(p)
  PROVE  LexInv'
<1>0. p \in Procs /\ TypeOK /\ pc[p] \in PutSteps
  BY DEF IdxInv, AnnInv, Mirror, PutSteps
<1>1. /\ pc'[p] = "idle" /\ FreshIds(p)' = {} /\ Running(p)'
      /\ LiveIds' = LiveIds /\ seq' = seq
  BY <1>0, FinishIdle DEF Mirror, Running, LiveIds, tables
<1>2. /\ \A i \in LiveIds : i <= lexMark => i \in lexDisk
      /\ lexMark <= seq
      /\ lexAt[p] # "ram"
      /\ lexAt[p] = "none" => staged[p] = {}
      /\ lexAt[p] = "disk" => LiveIds \subseteq lexDisk \cup staged[p] \cup FreshIds(p)
      /\ lexAt[p] \in {"none", "disk", "ram"}
  BY <1>0 DEF IdxInv, LexInv, MarkNeverAhead, TypeOK, LexType
<1>3. rows[p] \in RowSeqs /\ rows[p] # <<>>
  BY <1>0, FirstRow DEF TypeOK
<1>4. SUFFICES /\ lexDisk \subseteq lexDisk' /\ lexMark' = lexMark
               /\ lexAt'[p] # "ram"
               /\ lexAt'[p] = "none" => staged'[p] = {}
               /\ lexAt'[p] = "disk" => LiveIds \subseteq lexDisk' \cup staged'[p]
  BY <1>1, <1>2, <1>4 DEF LexInv, MarkNeverAhead
<1>5. CASE kind[p] = "put"
  <2>1. DOMAIN rows[p] = {1}
    BY <1>0, <1>3, <1>5 DEF IdxInv, PutShape
  <2>2. FreshIds(p) \subseteq {rows[p][1].id}
    BY <2>1 DEF FreshIds
  <2>3. LexPut(p, rows[p][1].id)
    BY <1>5 DEF Mirror
  <2>4. CASE lexAt[p] # "none" /\ LexCommit(p, {rows[p][1].id}) /\ UNCHANGED <<lexAt, lexMark>>
    <3>1. lexAt[p] = "disk" /\ lexDisk' = lexDisk \cup staged[p] \cup {rows[p][1].id} /\ lexAt' = lexAt
      BY <1>2, <2>4 DEF LexCommit
    <3> QED BY <1>2, <2>2, <2>4, <3>1
  <2>5. CASE LexClose(p)
    BY <1>0, <2>5 DEF LexClose, TypeOK, LexType
  <2>6. CASE lexAt[p] = "none" /\ UNCHANGED lex
    BY <1>2, <2>6 DEF lex
  <2> QED BY <2>3, <2>4, <2>5, <2>6 DEF LexPut
<1>6. CASE kind[p] # "put"
  <2>1. LexMirrorBatch(p, rows[p])
    BY <1>6 DEF Mirror
  <2>2. CASE lexAt[p] = "none"
    BY <1>2, <2>1, <2>2 DEF LexMirrorBatch, lex
  <2>3. CASE lexAt[p] # "none"
    <3>1. /\ staged' = [staged EXCEPT ![p] = @ \cup {rows[p][k].id : k \in 1..Len(rows[p])}]
          /\ UNCHANGED <<lexAt, lexRam, lexDisk, lexMark>>
      BY <2>1, <2>3 DEF LexMirrorBatch
    <3>2. staged'[p] = staged[p] \cup {rows[p][k].id : k \in 1..Len(rows[p])}
      BY <1>0, <3>1 DEF TypeOK, LexType
    <3>3. DOMAIN rows[p] = 1..Len(rows[p])
      BY <1>3 DEF RowSeqs
    <3>4. FreshIds(p) \subseteq {rows[p][k].id : k \in 1..Len(rows[p])}
      BY <3>3, Zenon DEF FreshIds
    <3> QED BY <1>2, <2>3, <3>1, <3>2, <3>4
  <2> QED BY <2>2, <2>3
<1> QED BY <1>5, <1>6

\* The step that ends a put.
LEMMA MirrorIdx ==
  ASSUME IdxInv, NEW p, Procs = {p}, "ann" \notin Faults, "mirror" \notin Faults, Mirror(p)
  PROVE  PutShape' /\ SideInv' /\ FtsInv' /\ NdInv' /\ LexInv'
<1>0. p \in Procs /\ TypeOK /\ pc[p] = "mirror" /\ Running(p)
  BY DEF IdxInv, AnnInv, Mirror, Running
<1>1. /\ pc'[p] = "idle" /\ rows'[p] = <<>> /\ FreshIds(p)' = {} /\ kind' = kind
      /\ docs' = docs /\ vecs' = vecs /\ fts' = fts /\ trigger' = trigger /\ seq' = seq
      /\ annFile' = annFile /\ ghostLoad' = ghostLoad
  BY <1>0, FinishIdle DEF Mirror, tables, history
<1>2. PutShape'
  BY <1>1 DEF PutShape
<1>3. SideInv'
  <2> SUFFICES ASSUME ~ghostLoad PROVE FileIsAPrefix' /\ DeficitIsExact' /\ AnnLacksOnlyFresh'
    BY <1>1 DEF SideInv
  <2>1. FileIsAPrefix'
    BY <1>1 DEF IdxInv, SideInv, FileIsAPrefix, Present
  <2>2. DeficitIsExact'
    BY <1>1 DEF DeficitIsExact
  <2>3. \A i \in Present(vecs) : ann'[p][i] # NoVec
    BY <1>0, AnnCatchesUp
  <2>4. AnnLacksOnlyFresh'
    BY <1>1, <2>3 DEF AnnLacksOnlyFresh, Present
  <2> QED BY <2>1, <2>2, <2>4
<1>4. FtsInv'
  BY <1>0, <1>1 DEF IdxInv, FtsInv, FtsComplete, LiveIds
<1>5. NdInv'
  <2> SUFFICES ASSUME ~NdEmpty(p)'
               PROVE  \A i \in Ids : /\ i > seq => nd'[p][i] = NoVec
                                     /\ vecs[i] # NoVec => nd'[p][i] = vecs[i]
    BY <1>1 DEF NdInv
  <2>1. ~NdEmpty(p)
    <3> SUFFICES ASSUME NdEmpty(p) PROVE nd' = nd
      BY DEF NdEmpty
    <3> QED BY DEF Mirror, NdAddRows
  <2> QED BY <1>0, <2>1, NdCatchesUp
<1>6. LexInv'
  BY LexCatchesUp
<1> QED BY <1>2, <1>3, <1>4, <1>5, <1>6

\* The tail Store::open rebuilds covers every row the sidecar lacks.
LEMMA TailCoversMissing ==
  ASSUME vecs \in VecTable, FileIsAPrefix, NEW i \in Present(vecs), i \notin Present(annFile),
         Present(annFile) \subseteq Present(vecs)
  PROVE  i \in AnnTail(Cardinality(Present(vecs) \ Present(annFile)))
<1> DEFINE M == Present(vecs) \ Present(annFile)
           N == {j \in Present(vecs) : j > i}
<1>1. M \subseteq Ids /\ N \subseteq Ids /\ i \in M /\ i \notin N /\ i \in Ids
  BY DEF Present, Ids
<1>2. N \subseteq M
  <2> SUFFICES ASSUME NEW j \in N, j \in Present(annFile) PROVE FALSE
    OBVIOUS
  <2>1. j < i
    BY DEF FileIsAPrefix
  <2> QED BY <2>1, <1>1 DEF Ids
<1> HIDE DEF M, N
<1>3. IsFiniteSet(M) /\ IsFiniteSet(N)
  BY <1>1, IdSetCardinality
<1>4. Cardinality(N) < Cardinality(M)
  <2>1. Cardinality(N \cup {i}) = Cardinality(N) + 1
    BY <1>1, <1>3, FS_AddElement
  <2>2. N \cup {i} \subseteq M
    BY <1>1, <1>2
  <2>3. Cardinality(N \cup {i}) <= Cardinality(M)
    BY <1>3, <2>2, FS_Subset
  <2>4. Cardinality(N) \in Nat /\ Cardinality(M) \in Nat
    BY <1>3, FS_CardinalityType
  <2> QED BY <2>1, <2>3, <2>4
<1> QED BY <1>4 DEF AnnTail, M, N

\* migrate(), the load of the sidecar and the row count.
LEMMA OpenLoadIdx ==
  ASSUME IdxInv, NEW p, Procs = {p}, OpenLoad(p)
  PROVE  PutShape' /\ SideInv' /\ FtsInv' /\ NdInv' /\ LexInv'
<1>0. p \in Procs /\ TypeOK /\ pc[p] = "down" /\ ~Running(p)
  BY DEF IdxInv, AnnInv, OpenLoad, Running
<1>1. /\ pc'[p] = "opening" /\ rows' = rows /\ kind' = kind /\ nd' = nd
      /\ docs' = docs /\ vecs' = vecs /\ fts' = fts /\ trigger' = TRUE /\ seq' = seq
      /\ annFile' = annFile /\ ann'[p] = annFile /\ deficit'[p] = LoadDeficit
      /\ ghostLoad' = (ghostLoad \/ Present(annFile) \ Present(vecs) # {})
      /\ UNCHANGED lex
  BY <1>0 DEF OpenLoad, Goto, SetTrigger, AnnLoad, TypeOK, ControlType, AnnType
<1>2. FreshIds(p)' = FreshIds(p)
  BY <1>1 DEF FreshIds
<1>3. PutShape'
  BY <1>0, <1>1 DEF IdxInv, PutShape
<1>4. SideInv'
  <2> SUFFICES ASSUME ~ghostLoad' PROVE FileIsAPrefix' /\ DeficitIsExact' /\ AnnLacksOnlyFresh'
    BY DEF SideInv
  <2>1. ~ghostLoad /\ Present(annFile) \subseteq Present(vecs)
    BY <1>1
  <2>2. FileIsAPrefix'
    BY <1>1, <2>1 DEF IdxInv, SideInv, FileIsAPrefix, Present
  <2>3. AnnLacksOnlyFresh'
    BY <1>1 DEF AnnLacksOnlyFresh, Running
  <2>4. LoadDeficit = Cardinality(Present(vecs) \ Present(annFile))
    <3> DEFINE V == Present(vecs)
               F == Present(annFile)
    <3>1. V \subseteq Ids /\ F \subseteq Ids /\ V \ F \subseteq Ids /\ (V \ F) \cup F = V
          /\ (V \ F) \cap F = {}
      BY <2>1 DEF Present
    <3>2. LoadDeficit = IF Cardinality(F) < Cardinality(V) THEN Cardinality(V) - Cardinality(F) ELSE 0
      BY DEF LoadDeficit
    <3> HIDE DEF V, F
    <3>3. Cardinality(V) = Cardinality(V \ F) + Cardinality(F)
          /\ Cardinality(V \ F) \in Nat /\ Cardinality(F) \in Nat
      BY <3>1, DisjointCount
    <3>4. LoadDeficit = Cardinality(V \ F)
      BY <3>2, <3>3
    <3> QED BY <3>4 DEF V, F
  <2>5. DeficitIsExact'
    BY <1>1, <2>1, <2>4 DEF DeficitIsExact, Present
  <2> QED BY <2>2, <2>3, <2>5
<1>5. FtsInv'
  BY <1>1 DEF IdxInv, FtsInv, FtsComplete, LiveIds
<1>6. NdInv'
  BY <1>0, <1>1, <1>2 DEF IdxInv, NdInv, NdEmpty
<1>7. LexInv'
  BY <1>0, <1>1, <1>2 DEF IdxInv, LexInv, MarkNeverAhead, LiveIds, lex, Running
<1> QED BY <1>3, <1>4, <1>5, <1>6, <1>7

\* A process that never met the writer lock opens the persistent index and
\* indexes everything above the mark.
LEMMA OpensWhole ==
  ASSUME IdxInv, NEW p, Procs = {p}, lexAt[p] = "none"
  PROVE  /\ ~LexLocked
         /\ LiveIds \subseteq lexDisk \cup Delta(lexMark)
         /\ MaxDocId <= seq /\ \A i \in LiveIds : i <= MaxDocId
<1>1. MarkNeverAhead /\ lexMark \in Nat /\ seq \in Nat /\ TypeOK /\ UnusedAboveSeq
  BY DEF IdxInv, LexInv, AnnInv, TypeOK, TablesType, LexType
<1>2. LiveIds \subseteq lexDisk \cup Delta(lexMark)
  BY <1>1 DEF MarkNeverAhead, Delta, LiveIds, Ids
<1>3. MaxDocId \in LiveIds \cup {0} /\ \A i \in LiveIds : i <= MaxDocId
  BY <1>1, MaxDocIdIsMax DEF TypeOK
<1>4. MaxDocId <= seq
  BY <1>1, <1>3 DEF UnusedAboveSeq, LiveIds, Ids
<1> QED BY <1>2, <1>3, <1>4 DEF LexLocked

\* rebuild_ann_tail and the warm start.
LEMMA OpenFinishIdx ==
  ASSUME IdxInv, NEW p, Procs = {p}, OpenFinish(p)
  PROVE  PutShape' /\ SideInv' /\ FtsInv' /\ NdInv' /\ LexInv'
<1>0. p \in Procs /\ TypeOK /\ pc[p] = "opening" /\ ~Running(p) /\ rows[p] = <<>>
  BY DEF IdxInv, AnnInv, OpenFinish, Running, TypeOK, ControlType, PutSteps
<1>1. /\ pc'[p] = "idle" /\ rows' = rows /\ kind' = kind /\ nd' = nd
      /\ docs' = docs /\ vecs' = vecs /\ fts' = fts /\ trigger' = trigger /\ seq' = seq
      /\ annFile' = annFile /\ ghostLoad' = ghostLoad
  BY <1>0 DEF OpenFinish, Goto, TypeOK, ControlType, tables, history
<1>2. FreshIds(p) = {} /\ FreshIds(p)' = {} /\ Running(p)' /\ LiveIds' = LiveIds
  BY <1>0, <1>1 DEF FreshIds, Running, LiveIds
<1>3. PutShape'
  BY <1>0, <1>1 DEF PutShape
<1>4. SideInv'
  <2> SUFFICES ASSUME ~ghostLoad PROVE FileIsAPrefix' /\ DeficitIsExact' /\ AnnLacksOnlyFresh'
    BY <1>1 DEF SideInv
  <2>1. FileIsAPrefix /\ FileIsAPrefix'
    BY <1>1 DEF IdxInv, SideInv, FileIsAPrefix, Present
  <2>2. DeficitIsExact'
    BY <1>1 DEF DeficitIsExact
  <2>3. /\ ann[p] = annFile /\ Present(annFile) \subseteq Present(vecs)
        /\ deficit[p] = Cardinality(Present(vecs) \ Present(annFile))
    BY <1>0 DEF IdxInv, SideInv, DeficitIsExact
  <2>4. ASSUME NEW i \in Present(vecs) PROVE ann'[p][i] # NoVec
    <3>1. i \in Ids /\ vecs[i] # NoVec /\ vecs \in VecTable
      BY <1>0 DEF Present, TypeOK, TablesType
    <3>2. ann'[p][i] = IF ann[p][i] = NoVec /\ i \in AnnTail(deficit[p]) THEN vecs[i] ELSE ann[p][i]
      BY <1>0, <3>1 DEF OpenFinish, AnnInjectTail, TypeOK, AnnType
    <3>3. i \notin Present(annFile) => i \in AnnTail(deficit[p])
      BY <2>1, <2>3, <3>1, TailCoversMissing
    <3>4. i \notin Present(annFile) <=> ann[p][i] = NoVec
      BY <2>3, <3>1 DEF Present
    <3> QED BY <3>1, <3>2, <3>3, <3>4
  <2>5. AnnLacksOnlyFresh'
    BY <1>1, <2>4 DEF AnnLacksOnlyFresh, Present
  <2> QED BY <2>1, <2>2, <2>5
<1>5. FtsInv'
  BY <1>0, <1>1, <1>2 DEF IdxInv, FtsInv, FtsComplete
<1>6. NdInv'
  BY <1>0, <1>1, <1>2 DEF IdxInv, NdInv, NdEmpty
<1>7. LexInv'
  <2>1. /\ lexAt[p] = "none" /\ staged[p] = {} /\ lexMark <= seq
        /\ \A i \in LiveIds : i <= lexMark => i \in lexDisk
    BY <1>0 DEF IdxInv, LexInv, MarkNeverAhead
  <2>2. /\ ~LexLocked
        /\ LiveIds \subseteq lexDisk \cup Delta(lexMark)
        /\ MaxDocId <= seq
    BY <2>1, OpensWhole
  <2>3. /\ lexAt'[p] = "disk" /\ staged' = staged
        /\ lexDisk' = lexDisk \cup Delta(lexMark)
        /\ lexMark' = IF Delta(lexMark) = {} THEN lexMark ELSE MaxDocId
    BY <1>0, <2>2 DEF OpenFinish, WarmStart, OpenDisk, TypeOK, LexType
  <2>4. LiveIds \subseteq lexDisk' /\ lexMark' <= seq
    BY <2>1, <2>2, <2>3
  <2> QED BY <1>1, <1>2, <2>1, <2>3, <2>4 DEF LexInv, MarkNeverAhead
<1> QED BY <1>3, <1>4, <1>5, <1>6, <1>7

\* Drop, which saves a complete index, and a crash, which keeps the file.
LEMMA LoseMemoryIdx ==
  ASSUME IdxInv, NEW p, Procs = {p}, LoseMemory(p), UNCHANGED ghostLoad,
         annFile' = annFile \/ (annFile' = ann[p] /\ pc[p] = "idle")
  PROVE  PutShape' /\ SideInv' /\ FtsInv' /\ NdInv' /\ LexInv'
<1>0. p \in Procs /\ TypeOK
  BY DEF IdxInv, AnnInv
<1>1. /\ pc'[p] = "down" /\ rows'[p] = <<>> /\ kind' = kind /\ nd'[p] = NoIndex
      /\ docs' = docs /\ vecs' = vecs /\ fts' = fts /\ trigger' = trigger /\ seq' = seq
      /\ lexAt'[p] = "none" /\ staged'[p] = {} /\ lexDisk' = lexDisk /\ lexMark' = lexMark
  BY <1>0 DEF LoseMemory, Goto, NdDrop, LexClose, TypeOK, ControlType, LexType, NdType, tables
<1>2. LiveIds' = LiveIds /\ ~Running(p)'
  BY <1>1 DEF LiveIds, Running
<1>3. PutShape'
  BY <1>1 DEF PutShape
<1>4. SideInv'
  <2> SUFFICES ASSUME ~ghostLoad PROVE FileIsAPrefix' /\ DeficitIsExact' /\ AnnLacksOnlyFresh'
    BY DEF SideInv
  <2>1. FileIsAPrefix'
    <3>1. CASE annFile' = annFile
      BY <1>1, <3>1 DEF IdxInv, SideInv, FileIsAPrefix, Present
    <3>2. CASE annFile' = ann[p] /\ pc[p] = "idle"
      <4>1. FreshIds(p) = {} /\ Running(p)
        BY <1>0, <3>2 DEF FreshIds, Running, TypeOK, ControlType, PutSteps
      <4>2. Present(vecs) \subseteq Present(ann[p])
        BY <4>1 DEF IdxInv, SideInv, AnnLacksOnlyFresh
      <4>3. Present(annFile)' = Present(ann[p]) /\ Present(vecs)' = Present(vecs)
        BY <1>1, <3>2 DEF Present
      <4> QED BY <4>2, <4>3 DEF FileIsAPrefix
    <3> QED BY <3>1, <3>2
  <2>2. DeficitIsExact' /\ AnnLacksOnlyFresh'
    BY <1>1, <1>2 DEF DeficitIsExact, AnnLacksOnlyFresh
  <2> QED BY <2>1, <2>2
<1>5. FtsInv'
  BY <1>1, <1>2 DEF IdxInv, FtsInv, FtsComplete
<1>6. NdInv'
  BY <1>1 DEF NdInv, NdEmpty
<1>7. LexInv'
  BY <1>1, <1>2 DEF IdxInv, LexInv, MarkNeverAhead
<1> QED BY <1>3, <1>4, <1>5, <1>6, <1>7

\* A step inside an operation that touches neither tables nor indexes.
LEMMA QuietIdx ==
  ASSUME IdxInv, NEW p, Procs = {p}, UNCHANGED <<tables, indexes, ghostLoad, kind>>,
         Running(p), Running(p)', FreshIds(p)' = FreshIds(p), rows'[p] \in {rows[p], <<>>},
         pc'[p] \in {"rawSelect", "rawInsert", "enqueue"} => kind[p] = "put",
         pc'[p] # "dropped", pc'[p] \notin {"dropped", "retrigger"} => trigger
  PROVE  PutShape' /\ SideInv' /\ FtsInv' /\ NdInv' /\ LexInv'
<1>0. p \in Procs
  OBVIOUS
<1>1. /\ docs' = docs /\ vecs' = vecs /\ fts' = fts /\ trigger' = trigger /\ seq' = seq
      /\ ann' = ann /\ annFile' = annFile /\ nd' = nd /\ ghostLoad' = ghostLoad /\ kind' = kind
      /\ lexAt' = lexAt /\ staged' = staged /\ lexDisk' = lexDisk /\ lexMark' = lexMark
  BY DEF tables, indexes
<1>2. LiveIds' = LiveIds /\ Present(vecs)' = Present(vecs) /\ Present(annFile)' = Present(annFile)
      /\ Present(ann[p])' = Present(ann[p])
  BY <1>1 DEF LiveIds, Present
<1>3. PutShape'
  BY <1>0, <1>1 DEF IdxInv, PutShape
<1>4. SideInv'
  BY <1>0, <1>1, <1>2 DEF IdxInv, SideInv, FileIsAPrefix, DeficitIsExact, AnnLacksOnlyFresh, Running
<1>5. FtsInv'
  BY <1>0, <1>1, <1>2 DEF IdxInv, FtsInv, FtsComplete
<1>6. NdInv'
  BY <1>0, <1>1 DEF IdxInv, NdInv, NdEmpty
<1>7. LexInv'
  BY <1>0, <1>1, <1>2 DEF IdxInv, LexInv, MarkNeverAhead
<1> QED BY <1>3, <1>4, <1>5, <1>6, <1>7

\* The steps of the raw-memory phase of a put.
LEMMA RawIdx ==
  ASSUME IdxInv, NEW p, Procs = {p},
         RawSelect(p) \/ RawInsert(p) \/ Enqueue(p) \/ RawBatch(p)
  PROVE  PutShape' /\ SideInv' /\ FtsInv' /\ NdInv' /\ LexInv'
<1>0. p \in Procs /\ TypeOK
  BY DEF IdxInv, AnnInv
<1>1. /\ UNCHANGED <<tables, indexes, ghostLoad, kind>>
      /\ pc[p] \in {"rawSelect", "rawInsert", "enqueue", "enqueueBatch"}
  BY DEF RawSelect, RawInsert, Enqueue, RawBatch, AfterRaw, Finish, history
<1>2. Running(p) /\ trigger /\ (pc[p] # "enqueueBatch" => kind[p] = "put")
  BY <1>0, <1>1 DEF IdxInv, FtsInv, PutShape, Running
<1>3. CASE UNCHANGED rows /\ pc'[p] \in {"rawInsert", "enqueue", "mirror"} /\
           (pc[p] = "enqueueBatch" => pc'[p] = "mirror")
  <2>1. FreshIds(p)' = FreshIds(p) /\ Running(p)'
    BY <1>3 DEF FreshIds, Running
  <2> QED BY <1>1, <1>2, <1>3, <2>1, QuietIdx
<1>4. CASE Finish(p) /\ ~rows[p][1].fresh /\ pc[p] # "enqueueBatch"
  <2>1. rows'[p] = <<>> /\ pc'[p] = "idle" /\ FreshIds(p)' = {}
    BY <1>0, <1>4, FinishIdle
  <2>2. DOMAIN rows[p] = {1}
    BY <1>0, <1>1, <1>2, <1>4 DEF IdxInv, PutShape, TypeOK, ControlType, PutSteps
  <2>3. FreshIds(p) = {}
    BY <1>4, <2>2 DEF FreshIds
  <2>4. Running(p)'
    BY <2>1 DEF Running
  <2> QED BY <1>1, <1>2, <2>1, <2>3, <2>4, QuietIdx
<1>5. \A l : Goto(p, l) => pc'[p] = l
  BY <1>0 DEF Goto, TypeOK, ControlType
<1>6. CASE RawSelect(p)
  <2>1. UNCHANGED rows /\ pc[p] = "rawSelect" /\ (Goto(p, "rawInsert") \/ Goto(p, "enqueue"))
    BY <1>6 DEF RawSelect
  <2> QED BY <2>1, <1>3, <1>5
<1>7. CASE RawInsert(p) \/ Enqueue(p)
  <2>1. \/ Goto(p, "enqueue") /\ UNCHANGED rows
        \/ Goto(p, "mirror") /\ UNCHANGED rows
        \/ Finish(p) /\ ~rows[p][1].fresh
    BY <1>7 DEF RawInsert, Enqueue, AfterRaw
  <2>2. pc[p] # "enqueueBatch"
    BY <1>7 DEF RawInsert, Enqueue
  <2> QED BY <2>1, <2>2, <1>3, <1>4, <1>5
<1>8. CASE RawBatch(p)
  <2>1. Goto(p, "mirror") /\ UNCHANGED rows
    BY <1>8 DEF RawBatch
  <2> QED BY <2>1, <1>3, <1>5
<1> QED BY <1>6, <1>7, <1>8

\* DROP TRIGGER and CREATE TRIGGER around a deferred batch.
LEMMA TriggerIdx ==
  ASSUME IdxInv, NEW p, Procs = {p}, DropTrigger(p) \/ CreateTrigger(p)
  PROVE  PutShape' /\ SideInv' /\ FtsInv' /\ NdInv' /\ LexInv'
<1>0. p \in Procs /\ TypeOK
  BY DEF IdxInv, AnnInv
<1>1. /\ docs' = docs /\ vecs' = vecs /\ fts' = fts /\ seq' = seq /\ rows' = rows
      /\ ann' = ann /\ annFile' = annFile /\ nd' = nd /\ ghostLoad' = ghostLoad
      /\ lexAt' = lexAt /\ staged' = staged /\ lexDisk' = lexDisk /\ lexMark' = lexMark
      /\ \/ pc[p] = "idle" /\ pc'[p] = "dropped" /\ kind'[p] = "deferred"
         \/ pc[p] = "dropped" /\ pc'[p] = "idle" /\ kind' = kind /\ trigger' = TRUE
         \/ pc[p] = "retrigger" /\ pc'[p] = "enqueueBatch" /\ kind' = kind /\ trigger' = TRUE
  BY <1>0 DEF DropTrigger, CreateTrigger, SetTrigger, Goto, indexes, history, TypeOK, ControlType
<1>2. LiveIds' = LiveIds /\ Present(vecs)' = Present(vecs) /\ Present(annFile)' = Present(annFile)
      /\ Present(ann[p])' = Present(ann[p]) /\ FreshIds(p)' = FreshIds(p)
      /\ Running(p) /\ Running(p)'
  BY <1>1 DEF LiveIds, Present, FreshIds, Running
<1>3. PutShape'
  <2>1. CASE pc'[p] = "dropped"
    <3>1. rows'[p] = <<>> /\ kind'[p] = "deferred"
      BY <1>0, <1>1, <2>1 DEF TypeOK, ControlType, PutSteps
    <3> QED BY <2>1, <3>1 DEF PutShape
  <2>2. CASE pc'[p] # "dropped" /\ kind' = kind
    BY <1>0, <1>1, <2>2 DEF IdxInv, PutShape
  <2> QED BY <1>1, <2>1, <2>2
<1>4. SideInv'
  BY <1>0, <1>1, <1>2 DEF IdxInv, SideInv, FileIsAPrefix, DeficitIsExact, AnnLacksOnlyFresh, Running
<1>5. FtsInv'
  BY <1>0, <1>1, <1>2 DEF IdxInv, FtsInv, FtsComplete
<1>6. NdInv'
  BY <1>0, <1>1, <1>2 DEF IdxInv, NdInv, NdEmpty
<1>7. LexInv'
  BY <1>0, <1>1, <1>2 DEF IdxInv, LexInv, MarkNeverAhead
<1> QED BY <1>3, <1>4, <1>5, <1>6, <1>7

\* flush_ann, merge_crdt and the searches, of an idle store.
LEMMA IdleIdx ==
  ASSUME IdxInv, NEW p, Procs = {p}, "lexCommit" \notin Faults,
         \/ FlushAnn(p) \/ SearchLex(p) \/ SearchVec(p) \/ WarmTurbo(p) \/ TakeNdarraySearch(p)
         \/ \E i \in Ids : MergeCrdt(p, i)
  PROVE  PutShape' /\ SideInv' /\ FtsInv' /\ NdInv' /\ LexInv'
<1>0. p \in Procs /\ TypeOK
  BY DEF IdxInv, AnnInv
<1>1. /\ docs' = docs /\ vecs' = vecs /\ seq' = seq /\ rows' = rows /\ pc' = pc /\ kind' = kind
      /\ trigger' = trigger /\ ann' = ann /\ ghostLoad' = ghostLoad /\ pc[p] = "idle"
      /\ annFile' = annFile \/ annFile' = ann[p]
      /\ fts' = fts \/ \E i \in LiveIds : fts' = fts \cup {i}
      /\ nd' = nd \/ nd'[p] = NoIndex \/ nd'[p] = vecs
      /\ UNCHANGED lex \/ LexSearch(p)
  BY <1>0 DEF FlushAnn, AnnSave, SearchLex, SearchVec, WarmTurbo, TakeNdarraySearch, MergeCrdt,
     TouchRow, NdBuild, NdDrop, tables, indexes, control, history, lex, LiveIds, TypeOK, NdType
<1>2. LiveIds' = LiveIds /\ Present(vecs)' = Present(vecs) /\ Present(ann[p])' = Present(ann[p])
      /\ FreshIds(p)' = FreshIds(p) /\ FreshIds(p) = {} /\ Running(p) /\ Running(p)' /\ rows[p] = <<>>
  BY <1>0, <1>1 DEF LiveIds, Present, FreshIds, Running, TypeOK, ControlType, PutSteps
<1>3. PutShape'
  BY <1>0, <1>1 DEF IdxInv, PutShape
<1>4. SideInv'
  <2> SUFFICES ASSUME ~ghostLoad PROVE FileIsAPrefix' /\ DeficitIsExact' /\ AnnLacksOnlyFresh'
    BY <1>1 DEF SideInv
  <2>1. FileIsAPrefix /\ Present(vecs) \subseteq Present(ann[p])
    BY <1>0, <1>2 DEF IdxInv, SideInv, AnnLacksOnlyFresh
  <2>2. Present(annFile)' = Present(annFile) \/ Present(annFile)' = Present(ann[p])
    BY <1>1 DEF Present
  <2>3. FileIsAPrefix'
    BY <1>2, <2>1, <2>2 DEF FileIsAPrefix
  <2>4. DeficitIsExact' /\ AnnLacksOnlyFresh'
    BY <1>0, <1>1, <1>2, <2>1 DEF DeficitIsExact, AnnLacksOnlyFresh
  <2> QED BY <2>3, <2>4
<1>5. FtsInv'
  BY <1>0, <1>1, <1>2 DEF IdxInv, FtsInv, FtsComplete
<1>6. NdInv'
  <2>1. CASE nd' = nd
    BY <1>0, <1>1, <1>2, <2>1 DEF IdxInv, NdInv, NdEmpty
  <2>2. CASE nd'[p] = NoIndex
    BY <2>2 DEF NdInv, NdEmpty
  <2>3. CASE nd'[p] = vecs
    BY <1>0, <1>1, <2>3 DEF IdxInv, AnnInv, UnusedAboveSeq, NdInv
  <2> QED BY <1>1, <2>1, <2>2, <2>3
<1>7. LexInv'
  <2>1. /\ lexMark <= seq /\ lexAt[p] # "ram" /\ lexAt[p] \in {"none", "disk", "ram"}
        /\ lexAt[p] = "none" => staged[p] = {}
        /\ lexAt[p] = "disk" => LiveIds \subseteq lexDisk \cup staged[p]
        /\ \A i \in LiveIds : i <= lexMark => i \in lexDisk
    BY <1>0, <1>2 DEF IdxInv, LexInv, MarkNeverAhead, TypeOK, LexType
  <2>2. CASE UNCHANGED lex
    BY <1>1, <1>2, <2>1, <2>2 DEF LexInv, MarkNeverAhead, lex
  <2>3. MaxDocId <= seq
    <3>1. MaxDocId \in LiveIds \cup {0} /\ seq \in Nat
      BY <1>0, MaxDocIdIsMax DEF TypeOK, TablesType
    <3> QED BY <3>1 DEF IdxInv, AnnInv, UnusedAboveSeq, LiveIds, Ids
  <2>4. CASE LexSearchOpen(p)
    <3>1. /\ lexAt[p] = "disk" /\ lexAt' = lexAt
          /\ lexDisk' = lexDisk \cup staged[p] /\ staged'[p] = {}
          /\ lexMark' \in {lexMark, MaxDocId}
      BY <1>0, <2>1, <2>4 DEF LexSearchOpen, LexCommit, TypeOK, LexType
    <3>2. LiveIds \subseteq lexDisk' /\ lexMark' <= seq
      BY <2>1, <2>3, <3>1
    <3> QED BY <1>1, <1>2, <3>1, <3>2 DEF LexInv, MarkNeverAhead
  <2>5. CASE LexSearchReopen(p)
    <3>1. /\ lexAt'[p] = "disk" /\ lexDisk' = lexDisk \cup Delta(lexMark) /\ staged' = staged
          /\ lexMark' \in {lexMark, MaxDocId} /\ lexAt[p] = "none"
      BY <1>0, <2>5 DEF LexSearchReopen, TypeOK, LexType
    <3>2. LiveIds \subseteq lexDisk' /\ lexMark' <= seq
      BY <2>1, <2>3, <3>1, OpensWhole
    <3> QED BY <1>1, <1>2, <2>1, <3>1, <3>2 DEF LexInv, MarkNeverAhead
  <2> QED BY <1>1, <2>2, <2>4, <2>5 DEF LexSearch
<1> QED BY <1>3, <1>4, <1>5, <1>6, <1>7

\* delete() of an idle store.
LEMMA DeleteIdx ==
  ASSUME IdxInv, NEW p, Procs = {p}, NEW i \in Ids, Delete(p, i)
  PROVE  PutShape' /\ SideInv' /\ FtsInv' /\ NdInv' /\ LexInv'
<1>0. p \in Procs /\ TypeOK
  BY DEF IdxInv, AnnInv
<1>1. /\ seq' = seq /\ rows' = rows /\ pc' = pc /\ kind' = kind /\ trigger' = trigger
      /\ ghostLoad' = ghostLoad /\ pc[p] = "idle" /\ annFile' = annFile /\ nd'[p] = NoIndex
      /\ fts' = fts \ {i} /\ UNCHANGED lex
  BY <1>0 DEF Delete, DeleteRow, NdDrop, control, history, TypeOK, NdType
<1>2. LiveIds' = LiveIds \ {i} /\ Present(vecs)' = Present(vecs) \ {i}
      /\ Present(ann[p])' = Present(ann[p]) \ {i} /\ Present(annFile)' = Present(annFile)
  <2>1. LiveIds' = LiveIds \ {i} /\ Present(vecs)' = Present(vecs) \ {i}
    BY <1>0 DEF Delete, DeleteRow, LiveIds, Present, TypeOK, TablesType, VecTable
  <2>2. Present(ann[p])' = Present(ann[p]) \ {i}
    BY <1>0 DEF Delete, AnnRemove, Present, TypeOK, AnnType, VecTable
  <2> QED BY <1>1, <2>1, <2>2 DEF Present
<1>3. FreshIds(p)' = FreshIds(p) /\ FreshIds(p) = {} /\ Running(p) /\ Running(p)'
  BY <1>0, <1>1 DEF FreshIds, Running, TypeOK, ControlType, PutSteps
<1>4. PutShape'
  BY <1>0, <1>1 DEF IdxInv, PutShape
<1>5. SideInv'
  BY <1>0, <1>1, <1>2, <1>3 DEF IdxInv, SideInv, FileIsAPrefix, DeficitIsExact, AnnLacksOnlyFresh
<1>6. FtsInv'
  BY <1>0, <1>1, <1>2 DEF IdxInv, FtsInv, FtsComplete
<1>7. NdInv'
  BY <1>1 DEF NdInv, NdEmpty
<1>8. LexInv'
  BY <1>0, <1>1, <1>2, <1>3 DEF IdxInv, LexInv, MarkNeverAhead, lex
<1> QED BY <1>4, <1>5, <1>6, <1>7, <1>8

\* IdxInv is inductive for one process whose adds and deferred commits succeed.
LEMMA IdxInvStep ==
  ASSUME NEW p, Procs = {p}, Faults \subseteq {"annSearch", "putLex"}
  PROVE  IdxInv /\ [Next]_vars => IdxInv'
<1> SUFFICES ASSUME IdxInv, [Next]_vars PROVE IdxInv'
  OBVIOUS
<1> DEFINE Goal == PutShape' /\ SideInv' /\ FtsInv' /\ NdInv' /\ LexInv'
<1>0. /\ p \in Procs /\ TypeOK
      /\ "ann" \notin Faults /\ "mirror" \notin Faults /\ "lexCommit" \notin Faults
  BY DEF IdxInv, AnnInv
<1>1. AnnInv'
  BY AnnInvStep DEF IdxInv
<1>2. CASE UNCHANGED vars
  BY <1>1, <1>2 DEF vars, indexes, control, history, IdxInv, PutShape, SideInv, FileIsAPrefix,
     DeficitIsExact, AnnLacksOnlyFresh, FtsInv, FtsComplete, NdInv, NdEmpty, LexInv, MarkNeverAhead,
     LiveIds, Present, FreshIds, Running
<1>3. ASSUME Call(p) PROVE Goal
  <2>1. CASE OpenLoad(p)
    BY <2>1, OpenLoadIdx
  <2>2. CASE Close(p)
    BY <2>2, LoseMemoryIdx DEF Close, AnnSave, history
  <2>3. ASSUME NEW r \in PutRequest, Put(p, r) PROVE Goal
    <3>1. /\ <<r>> \in Batches /\ FALSE \in BOOLEAN /\ CommitRows(p, <<r>>, FALSE, "rawSelect")
          /\ pc[p] = "idle" /\ kind'[p] = "put"
      BY <1>0, <2>3, OneIsABatch DEF Put, TypeOK, ControlType
    <3>2. DOMAIN <<r>> = {1}
      OBVIOUS
    <3> QED BY <3>1, <3>2, CommitIdx
  <2>4. ASSUME NEW rs \in Batches, PutBatch(p, rs) PROVE Goal
    <3>1. /\ FALSE \in BOOLEAN /\ CommitRows(p, rs, FALSE, "enqueueBatch")
          /\ pc[p] = "idle" /\ kind'[p] = "batch"
      BY <1>0, <2>4 DEF PutBatch, TypeOK, ControlType
    <3> QED BY <3>1, CommitIdx
  <2>5. ASSUME NEW rs \in PlainBatches, PutBatchFast(p, rs) PROVE Goal
    <3>1. /\ rs \in Batches /\ FALSE \in BOOLEAN /\ CommitRows(p, rs, FALSE, "enqueueBatch")
          /\ pc[p] = "idle" /\ kind'[p] = "fast"
      BY <1>0, <2>5 DEF PutBatchFast, PlainBatches, TypeOK, ControlType
    <3> QED BY <3>1, CommitIdx
  <2>6. CASE DropTrigger(p)
    BY <2>6, TriggerIdx
  <2>7. ASSUME NEW i \in Ids, Delete(p, i) PROVE Goal
    BY <2>7, DeleteIdx
  <2>8. CASE \/ FlushAnn(p) \/ SearchLex(p) \/ SearchVec(p) \/ WarmTurbo(p) \/ TakeNdarraySearch(p)
             \/ \E i \in Ids : MergeCrdt(p, i)
    BY <1>0, <2>8, IdleIdx
  <2> HIDE DEF Goal
  <2> QED BY <1>3, <2>1, <2>2, <2>3, <2>4, <2>5, <2>6, <2>7, <2>8 DEF Call
<1>4. ASSUME Continue(p) PROVE Goal
  <2>1. CASE OpenFinish(p)
    BY <2>1, OpenFinishIdx
  <2>2. CASE Crash(p)
    BY <2>2, LoseMemoryIdx DEF Crash
  <2>3. CASE RawSelect(p) \/ RawInsert(p) \/ Enqueue(p) \/ RawBatch(p)
    BY <2>3, RawIdx
  <2>4. CASE Mirror(p)
    BY <1>0, <2>4, MirrorIdx
  <2>5. ASSUME NEW rs \in PlainBatches, DeferredTx(p, rs) PROVE Goal
    <3>1. /\ rs \in Batches /\ TRUE \in BOOLEAN /\ CommitRows(p, rs, TRUE, "retrigger")
          /\ pc[p] = "dropped" /\ kind' = kind
      BY <2>5 DEF DeferredTx, PlainBatches
    <3>2. kind'[p] = "deferred"
      BY <1>0, <3>1 DEF IdxInv, PutShape
    <3> QED BY <3>1, <3>2, CommitIdx
  <2>6. CASE CreateTrigger(p)
    BY <2>6, TriggerIdx
  <2> HIDE DEF Goal
  <2> QED BY <1>4, <2>1, <2>2, <2>3, <2>4, <2>5, <2>6 DEF Continue
<1>5. CASE Next
  BY <1>1, <1>3, <1>4, <1>5 DEF Next, IdxInv
<1> QED BY <1>2, <1>5

\* With one process and no failed add or deferred commit, every index finds
\* every document in every reachable state: after any sequence of puts,
\* batches, deletes, flushes, crashes at any step and reopens.
THEOREM IndexesAreComplete ==
  ASSUME NEW p, Procs = {p}, Faults \subseteq {"annSearch", "putLex"}
  PROVE  Spec => []IndexesComplete
<1>1. IdxInv => IndexesComplete
  <2> SUFFICES ASSUME IdxInv PROVE IndexesComplete
    OBVIOUS
  <2>1. ASSUME pc[p] = "idle" PROVE FreshIds(p) = {} /\ Running(p) /\ p \in Procs
    BY <2>1 DEF FreshIds, Running, IdxInv, AnnInv, TypeOK, ControlType, PutSteps
  <2>2. SidecarComplete
    BY <2>1 DEF IdxInv, SideInv, AnnLacksOnlyFresh, SidecarComplete
  <2>3. LexComplete
    BY <2>1 DEF IdxInv, LexInv, LexComplete, Committed, AnnInv, TypeOK, LexType
  <2>4. NdComplete
    BY <2>1 DEF IdxInv, NdInv, NdComplete, Present
  <2> QED BY <2>2, <2>3, <2>4 DEF IdxInv, LexInv, FtsInv, IndexesComplete
<1> QED BY <1>1, IdxInvInit, IdxInvStep, PTL DEF Spec
=============================================================================
