--------------------------- MODULE ExtractionProofs --------------------------
(***************************************************************************)
(* Proofs about Extraction, for any number of workers, documents and       *)
(* memories, any extracted items and any crashes.                          *)
(***************************************************************************)
EXTENDS Extraction, NumberFacts

-----------------------------------------------------------------------------
(* Operators                                                               *)

\* The next row id is above every one in use.
LEMMA NextMemIsNew ==
  ASSUME DOMAIN mems \subseteq 1..MaxMem
  PROVE  /\ NextMem \in Nat \ {0} /\ NextMem \notin DOMAIN mems
         /\ NextMem <= MaxMem => NextMem \in 1..MaxMem
<1> DEFINE D == DOMAIN mems
<1>1. CASE D = {}
  BY <1>1, MemAssumption DEF NextMem
<1>2. CASE D # {}
  <2>1. D \subseteq 0..MaxMem /\ MaxMem \in Nat
    BY MemAssumption
  <2>2. PICK g \in D : \A y \in D : y <= g
    <3> HIDE DEF D
    <3> QED BY <1>2, <2>1, GreatestNat
  <2>3. \A y \in D : g >= y
    BY <2>1, <2>2
  <2>4. Max(D) \in D /\ \A y \in D : Max(D) >= y
    BY <2>3 DEF Max
  <2>5. NextMem = Max(D) + 1
    BY <1>2 DEF NextMem
  <2> QED BY <2>1, <2>4, <2>5
<1> QED BY <1>1, <1>2

\* What every writer but a delete does to the memories: new rows N, active;
\* row o, if it is there, now superseded by s; nothing else but types changes.
Grow(N, o, s) ==
    /\ N \in SUBSET (1..MaxMem) /\ N \cap DOMAIN mems = {}
    /\ DOMAIN mems' = DOMAIN mems \cup N
    /\ \A x \in N : mems'[x] \in MemRow /\ mems'[x].superseded_by = NoMem
    /\ \A x \in DOMAIN mems :
          /\ mems'[x] \in MemRow
          /\ mems'[x].doc = mems[x].doc
          /\ mems'[x].item = mems[x].item
          /\ mems'[x].superseded_by = IF x = o THEN s ELSE mems[x].superseded_by
    /\ s \in DOMAIN mems' \cup {NoMem}

LEMMA GrowsNot ==
  ASSUME TypeOK, mems' = mems
  PROVE  Grow({}, 0, NoMem)
<1>1. 0 \notin DOMAIN mems
  BY MemAssumption DEF TypeOK
<1> QED BY <1>1 DEF Grow, TypeOK

LEMMA GrowsByOne ==
  ASSUME TypeOK, NEW d \in Docs, NEW t \in Types, NEW e \in Names \cup {NoName}, NEW k \in Nat,
         NextMem <= MaxMem, mems' = WithMemory(mems, NextMem, NewRow(d, t, e, k))
  PROVE  /\ Grow({NextMem}, 0, NoMem)
         /\ mems'[NextMem].doc = d /\ mems'[NextMem].item = k
<1> DEFINE n == NextMem
           row == NewRow(d, t, e, k)
<1>1. n \in 1..MaxMem /\ n \notin DOMAIN mems /\ DOMAIN mems \subseteq 1..MaxMem
  BY NextMemIsNew DEF TypeOK
<1>2. /\ row \in MemRow /\ row.superseded_by = NoMem
      /\ row.doc = d /\ row.item = k
  BY MemAssumption DEF NewRow, MemRow, NoMem
<1>3. 0 \notin DOMAIN mems
  BY <1>1, MemAssumption
<1> HIDE DEF n, row
<1>4. mems' = [x \in DOMAIN mems \cup {n} |-> IF x = n THEN row ELSE mems[x]]
  BY DEF WithMemory, n, row
<1>5. /\ DOMAIN mems' = DOMAIN mems \cup {n} /\ mems'[n] = row
      /\ \A x \in DOMAIN mems : mems'[x] = mems[x]
  BY <1>1, <1>4
<1>6. \A x \in DOMAIN mems : mems[x] \in MemRow
  BY DEF TypeOK
<1>7. Grow({n}, 0, NoMem)
  BY <1>1, <1>2, <1>3, <1>5, <1>6 DEF Grow
<1> QED BY <1>2, <1>5, <1>7 DEF n

\* supersede's UPDATE.
LEMMA GrowsNotBySuperseding ==
  ASSUME TypeOK, NEW o, NEW s, o \in DOMAIN mems => s \in DOMAIN mems,
         mems' = Superseded(mems, o, s)
  PROVE  \E t : Grow({}, o, t) /\ (o \in DOMAIN mems => t = s)
<1>1. DOMAIN mems \subseteq 1..MaxMem /\ \A x \in DOMAIN mems : mems[x] \in MemRow
  BY DEF TypeOK
<1>2. CASE o \notin DOMAIN mems
  <2>1. mems' = mems
    BY <1>2 DEF Superseded
  <2>2. Grow({}, o, NoMem)
    BY <1>1, <1>2, <2>1 DEF Grow
  <2> QED BY <1>2, <2>2
<1>3. CASE o \in DOMAIN mems
  <2>1. mems' = [mems EXCEPT ![o].superseded_by = s]
    BY <1>3 DEF Superseded
  <2>2. s \in 0..MaxMem /\ s \in DOMAIN mems
    BY <1>1, <1>3, MemAssumption
  <2>3. /\ DOMAIN mems' = DOMAIN mems
        /\ mems'[o] = [mems[o] EXCEPT !.superseded_by = s]
        /\ \A x \in DOMAIN mems : x # o => mems'[x] = mems[x]
    BY <1>3, <2>1
  <2>4. /\ mems'[o] \in MemRow /\ mems'[o].superseded_by = s
        /\ mems'[o].doc = mems[o].doc /\ mems'[o].item = mems[o].item
    BY <1>1, <1>3, <2>2, <2>3 DEF MemRow
  <2>5. Grow({}, o, s)
    BY <1>1, <2>2, <2>3, <2>4 DEF Grow
  <2> QED BY <2>5
<1> QED BY <1>2, <1>3

\* Rows m and o are two roots, and o goes under m.
JoinsRoots(o, m) ==
    /\ m # o
    /\ Active(o)
    /\ m \in DOMAIN mems => Active(m)

LEMMA PromoteGrows ==
  ASSUME TypeOK, NEW d \in Docs, NEW old, PromoteDoc(d, old)
  PROVE  \/ edges' = edges /\ \E N : Grow(N, 0, NoMem)
         \/ \E m \in 1..MaxMem, o \in DOMAIN mems :
               /\ \E N : Grow(N, o, m)
               /\ JoinsRoots(o, m) /\ edges' = edges \cup {<<m, o>>}
<1> DEFINE n == NextMem
           Row(m) == IF m \in DOMAIN mems THEN [mems[m] EXCEPT !.type = "fact"]
                     ELSE NewRow(d, "fact", NoName, 0)
           promoted(m) == WithMemory(mems, m, Row(m))
<1>1. PICK m \in Promotable(d) :
         /\ m <= MaxMem
         /\ IF old = 0 THEN mems' = promoted(m) /\ UNCHANGED edges
            ELSE \E o \in ActiveOf(old) : /\ mems' = Superseded(promoted(m), o, m)
                                          /\ edges' = edges \cup {<<m, o>>}
  BY Zenon DEF PromoteDoc
<1>2. /\ DOMAIN mems \subseteq 1..MaxMem /\ \A x \in DOMAIN mems : mems[x] \in MemRow
      /\ n \in Nat \ {0} /\ n \notin DOMAIN mems
  BY NextMemIsNew DEF TypeOK
<1>3. \/ m = n
      \/ m \in DOMAIN mems /\ Active(m) /\ mems[m].doc = d
  BY <1>1 DEF Promotable, ActiveOf
<1>4. m \in 1..MaxMem
  BY <1>1, <1>2, <1>3, MemAssumption
<1>5. /\ Row(m) \in MemRow /\ Row(m).superseded_by = NoMem
      /\ m \in DOMAIN mems => Row(m).doc = mems[m].doc /\ Row(m).item = mems[m].item
  <2>1. CASE m \in DOMAIN mems
    <3>1. mems[m] \in MemRow /\ mems[m].superseded_by = NoMem
      BY <1>2, <1>3, <2>1 DEF Active
    <3>2. Row(m) = [mems[m] EXCEPT !.type = "fact"]
      BY <2>1
    <3> QED BY <3>1, <3>2 DEF MemRow, Types
  <2>2. CASE m \notin DOMAIN mems
    <3>1. Row(m) = NewRow(d, "fact", NoName, 0)
      BY <2>2
    <3> QED BY <2>2, <3>1, MemAssumption DEF MemRow, NewRow, Types, NoMem
  <2> QED BY <2>1, <2>2
<1> DEFINE pm == promoted(m)
           N == {m} \ DOMAIN mems
<1>6. /\ DOMAIN pm = DOMAIN mems \cup N /\ pm[m] = Row(m) /\ m \in DOMAIN pm
      /\ \A x \in DOMAIN mems : x # m => pm[x] = mems[x]
  <2> HIDE DEF Row
  <2> QED BY DEF WithMemory
<1>7. \A x \in DOMAIN mems : /\ pm[x] \in MemRow
                             /\ pm[x].doc = mems[x].doc /\ pm[x].item = mems[x].item
                             /\ pm[x].superseded_by = mems[x].superseded_by
  <2> HIDE DEF Row, promoted
  <2>1. m \in DOMAIN mems => mems[m].superseded_by = NoMem
    BY <1>2, <1>3 DEF Active
  <2> QED BY <1>2, <1>5, <1>6, <2>1
<1>8. /\ N \in SUBSET (1..MaxMem) /\ N \cap DOMAIN mems = {}
      /\ \A x \in N : pm[x] \in MemRow /\ pm[x].superseded_by = NoMem
  <2> HIDE DEF Row, promoted
  <2> QED BY <1>4, <1>5, <1>6
<1>9. 0 \notin DOMAIN mems
  BY <1>2, MemAssumption
<1>10. CASE old = 0
  <2>1. mems' = pm /\ edges' = edges
    BY <1>1, <1>10
  <2> HIDE DEF pm, N
  <2>2. Grow(N, 0, NoMem)
    BY <1>6, <1>7, <1>8, <1>9, <2>1 DEF Grow
  <2> QED BY <2>1, <2>2
<1>11. CASE old # 0
  <2>1. PICK o \in ActiveOf(old) : /\ mems' = Superseded(pm, o, m)
                                   /\ edges' = edges \cup {<<m, o>>}
    BY <1>1, <1>11
  <2>2. o \in DOMAIN mems /\ Active(o) /\ mems[o].doc = old
    BY DEF ActiveOf
  <2>3. old # d
    BY DEF PromoteDoc
  <2>4. m # o
    BY <1>2, <1>3, <2>2, <2>3
  <2>5. JoinsRoots(o, m)
    BY <1>2, <1>3, <2>2, <2>4 DEF JoinsRoots
  <2> HIDE DEF pm, N
  <2>6. mems' = [pm EXCEPT ![o].superseded_by = m]
    BY <1>6, <2>1, <2>2 DEF Superseded
  <2>7. /\ DOMAIN mems' = DOMAIN pm
        /\ mems'[o] = [pm[o] EXCEPT !.superseded_by = m]
        /\ \A x \in DOMAIN pm : x # o => mems'[x] = pm[x]
    BY <1>6, <2>2, <2>6
  <2>8. /\ mems'[o] \in MemRow /\ mems'[o].superseded_by = m
        /\ mems'[o].doc = mems[o].doc /\ mems'[o].item = mems[o].item
    <3>1. pm[o] \in MemRow /\ pm[o].doc = mems[o].doc /\ pm[o].item = mems[o].item
      BY <1>7, <2>2
    <3>2. m \in 0..MaxMem
      BY <1>4, MemAssumption
    <3> QED BY <2>7, <3>1, <3>2 DEF MemRow
  <2>9. o \notin N
    BY <1>8, <2>2
  <2>10. ASSUME NEW x \in N PROVE mems'[x] \in MemRow /\ mems'[x].superseded_by = NoMem
    BY <1>6, <1>8, <2>7, <2>9, <2>10
  <2>11. ASSUME NEW x \in DOMAIN mems
         PROVE  /\ mems'[x] \in MemRow
                /\ mems'[x].doc = mems[x].doc
                /\ mems'[x].item = mems[x].item
                /\ mems'[x].superseded_by = IF x = o THEN m ELSE mems[x].superseded_by
    BY <1>6, <1>7, <2>7, <2>8
  <2>12. Grow(N, o, m)
    BY <1>6, <1>8, <2>7, <2>10, <2>11 DEF Grow
  <2> QED BY <1>4, <2>1, <2>2, <2>5, <2>12
<1> QED BY <1>10, <1>11

-----------------------------------------------------------------------------
(* Types and references                                                    *)

Labels == {"idle", "next", "item", "entity", "put", "done", "error", "skipped"}
AtDocument == {"item", "entity", "put", "done", "error", "skipped"}

RowsTyped ==
    /\ DOMAIN mems \subseteq 1..MaxMem /\ \A m \in DOMAIN mems : mems[m] \in MemRow
    /\ \A m \in DOMAIN mems : mems[m].superseded_by \in DOMAIN mems \cup {NoMem}

\* A worker's batch holds documents that were put, and it stands at an item
\* the document has.
WorkersTyped ==
    /\ pc \in [Workers -> Labels]
    /\ item \in [Workers -> Nat]
    /\ batch \in [Workers -> Seq(Docs)]
    /\ \A w \in Workers :
          /\ \A i \in DOMAIN batch[w] : batch[w][i] <= lastDoc
          /\ pc[w] \in AtDocument => batch[w] # <<>>
          /\ pc[w] \in {"entity", "put"} => item[w] \in DOMAIN Items[Head(batch[w])]
          /\ pc[w] \in {"item", "entity", "put"} => item[w] > 0

MergersTyped == DOMAIN mpc = Mergers /\ DOMAIN pairs = Mergers /\ DOMAIN cur = Mergers

MemInv ==
    /\ TypeOK /\ RowsTyped /\ WorkersTyped /\ MergersTyped
    /\ \A d \in Docs : d > lastDoc => queue[d] = "none"

LEMMA MemInvInit ==
  ASSUME Init
  PROVE  MemInv
<1> USE DEF Init, MemInit
<1>1. DOMAIN mems = {}
  OBVIOUS
<1>2. TypeOK /\ RowsTyped
  BY <1>1, MemAssumption DEF TypeOK, RowsTyped, Docs, Statuses
<1>3. WorkersTyped
  BY DEF WorkersTyped, Labels, AtDocument
<1>4. MergersTyped /\ \A d \in Docs : queue[d] = "none"
  BY DEF MergersTyped
<1> QED BY <1>2, <1>3, <1>4 DEF MemInv

LEMMA GrowTyped ==
  ASSUME RowsTyped, NEW N, NEW o, NEW s, Grow(N, o, s)
  PROVE  RowsTyped'
<1>1. /\ DOMAIN mems' = DOMAIN mems \cup N /\ N \in SUBSET (1..MaxMem)
      /\ DOMAIN mems \subseteq 1..MaxMem
  BY DEF Grow, RowsTyped
<1>2. ASSUME NEW x \in DOMAIN mems'
      PROVE  mems'[x] \in MemRow /\ mems'[x].superseded_by \in DOMAIN mems' \cup {NoMem}
  <2>1. CASE x \in N
    BY <2>1 DEF Grow
  <2>2. CASE x \in DOMAIN mems
    <3>1. mems[x].superseded_by \in DOMAIN mems' \cup {NoMem}
      BY <1>1, <2>2 DEF RowsTyped
    <3>2. mems'[x] \in MemRow
      BY <2>2 DEF Grow
    <3>3. mems'[x].superseded_by \in {s, mems[x].superseded_by}
      BY <2>2 DEF Grow
    <3>4. s \in DOMAIN mems' \cup {NoMem}
      BY DEF Grow
    <3> QED BY <3>1, <3>2, <3>3, <3>4
  <2> QED BY <1>1, <2>1, <2>2
<1>3. DOMAIN mems' \subseteq 1..MaxMem
  BY <1>1
<1> QED BY <1>2, <1>3 DEF RowsTyped

\* A delete takes the rows of the document and clears the references to them.
LEMMA DeleteShrinks ==
  ASSUME RowsTyped, NEW d, DeleteDoc(d)
  PROVE  /\ DOMAIN mems' = {m \in DOMAIN mems : mems[m].doc # d}
         /\ \A m \in DOMAIN mems' :
               /\ mems'[m] \in MemRow
               /\ mems'[m].doc = mems[m].doc /\ mems'[m].item = mems[m].item
               /\ mems'[m].superseded_by \in {NoMem, mems[m].superseded_by}
               /\ mems'[m].superseded_by \in DOMAIN mems' \cup {NoMem}
         /\ RowsTyped'
<1> DEFINE gone == {m \in DOMAIN mems : mems[m].doc = d}
           cleared(m) == IF mems[m].superseded_by \in gone
                         THEN [mems[m] EXCEPT !.superseded_by = NoMem] ELSE mems[m]
<1>1. mems' = [m \in DOMAIN mems \ gone |-> cleared(m)]
  BY DEF DeleteDoc
<1>2. DOMAIN mems' = DOMAIN mems \ gone /\ \A m \in DOMAIN mems \ gone : mems'[m] = cleared(m)
  <2> HIDE DEF gone, cleared
  <2> QED BY <1>1
<1>3. ASSUME NEW m \in DOMAIN mems'
      PROVE  /\ mems'[m] \in MemRow
             /\ mems'[m].doc = mems[m].doc /\ mems'[m].item = mems[m].item
             /\ mems'[m].superseded_by \in {NoMem, mems[m].superseded_by}
             /\ mems'[m].superseded_by \in DOMAIN mems' \cup {NoMem}
  <2>1. m \in DOMAIN mems /\ m \notin gone /\ mems'[m] = cleared(m)
    BY <1>2, <1>3
  <2>2. mems[m] \in MemRow /\ mems[m].superseded_by \in DOMAIN mems \cup {NoMem}
    BY <2>1 DEF RowsTyped
  <2>3. CASE mems[m].superseded_by \in gone
    <3>1. mems'[m] = [mems[m] EXCEPT !.superseded_by = NoMem]
      BY <2>1, <2>3
    <3>2. NoMem \in 0..MaxMem
      BY MemAssumption DEF NoMem
    <3> HIDE DEF gone, cleared
    <3>3. mems'[m].superseded_by = NoMem
      BY <2>2, <3>1 DEF MemRow
    <3> QED BY <2>2, <3>1, <3>2, <3>3 DEF MemRow
  <2>4. CASE mems[m].superseded_by \notin gone
    <3>1. mems'[m] = mems[m]
      BY <2>1, <2>4
    <3> HIDE DEF gone, cleared
    <3> QED BY <1>2, <2>2, <2>4, <3>1
  <2> QED BY <2>3, <2>4
<1>4. RowsTyped'
  <2>1. DOMAIN mems' \subseteq 1..MaxMem
    BY <1>2 DEF RowsTyped
  <2> QED BY <1>3, <2>1 DEF RowsTyped
<1>5. DOMAIN mems' = {m \in DOMAIN mems : mems[m].doc # d}
  BY <1>2
<1> QED BY <1>3, <1>4, <1>5

LEMMA OldestArePending ==
  ASSUME MemInv
  PROVE  /\ Oldest(BatchSize) \in Seq(Docs)
         /\ \A i \in DOMAIN Oldest(BatchSize) : Oldest(BatchSize)[i] <= lastDoc
<1> DEFINE P == Pending
           c == Cardinality(P)
           n == Min({BatchSize, c})
           f == Oldest(BatchSize)
<1>1. P \subseteq 1..MaxDoc /\ \A d \in P : d <= lastDoc
  <2>1. lastDoc \in Nat
    BY MemAssumption DEF MemInv, TypeOK
  <2>2. \A d \in P : d \in Docs /\ queue[d] = "pending"
    BY DEF Pending
  <2>3. \A d \in Docs : d > lastDoc => queue[d] = "none"
    BY DEF MemInv
  <2>4. Docs = 1..MaxDoc /\ MaxDoc \in Nat
    BY MemAssumption DEF Docs
  <2> HIDE DEF P
  <2> QED BY <2>1, <2>2, <2>3, <2>4
<1>2. c \in Nat /\ \A r \in 1..c : \E k \in P : Rank(P, k) = r
  <2> HIDE DEF P
  <2>1. /\ Cardinality(P) \in 0..MaxDoc
        /\ \A r \in 1..Cardinality(P) : \E k \in P : Rank(P, k) = r
    BY <1>1, RankFacts, MemAssumption
  <2> QED BY <2>1, MemAssumption
<1>3. n \in 0..c
  <2>1. \E x \in {BatchSize, c} : \A y \in {BatchSize, c} : x <= y
    BY <1>2, ExtractionAssumption
  <2>2. n \in {BatchSize, c} /\ \A y \in {BatchSize, c} : n <= y
    <3> HIDE DEF c
    <3> QED BY <2>1 DEF Min
  <2> HIDE DEF n, c
  <2> QED BY <1>2, <2>2, ExtractionAssumption
<1>4. f = [k \in 1..n |-> CHOOSE d \in P : Rank(P, d) = k]
  BY DEF Oldest, Rank, Upto
<1>5. \A k \in 1..n : (CHOOSE d \in P : Rank(P, d) = k) \in P
  <2> TAKE k \in 1..n
  <2>1. k \in 1..c
    <3> HIDE DEF n, c
    <3> QED BY <1>2, <1>3
  <2>2. \E d \in P : Rank(P, d) = k
    BY <1>2, <2>1
  <2> HIDE DEF P
  <2> QED BY <2>2
<1>6. n \in Nat /\ DOMAIN f = 1..n /\ \A k \in 1..n : f[k] \in P
  <2>1. n \in Nat
    <3> HIDE DEF n, c
    <3> QED BY <1>2, <1>3
  <2> HIDE DEF n, P, f
  <2> QED BY <1>4, <1>5, <2>1
<1>7. f \in [1..n -> Docs]
  <2> HIDE DEF n, P
  <2> QED BY <1>1, <1>4, <1>5 DEF Docs
<1> HIDE DEF n, P, f
<1>8. f \in Seq(Docs)
  BY <1>6, <1>7
<1>9. \A i \in DOMAIN f : f[i] <= lastDoc
  BY <1>1, <1>6
<1> QED BY <1>8, <1>9 DEF f

\* A merger has put row pr[1] under pr[2]; its edge comes next.
Merges(p) ==
    /\ mpc[p] = "update" /\ mpc' = [mpc EXCEPT ![p] = "edge"]
    /\ edges' = edges /\ unlinked' = unlinked
    /\ \E pr \in pairs[p] :
          /\ cur' = [cur EXCEPT ![p] = pr]
          /\ raced' = (raced \/ ~Unchanged(pr))
          /\ \E t : Grow({}, pr[1], t) /\ (pr[1] \in DOMAIN mems => t = pr[2])

\* The rows after any step of the system.
LEMMA RowsStep ==
  ASSUME MemInv, Next
  PROVE  \/ \E d \in Docs : Delete(d)
         \/ \E N : Grow(N, 0, NoMem)
         \/ \E m \in 1..MaxMem, o \in DOMAIN mems :
               /\ \E N : Grow(N, o, m)
               /\ JoinsRoots(o, m) /\ edges' = edges \cup {<<m, o>>} /\ Client
         \/ \E p \in Mergers : Merges(p)
<1>0. TypeOK /\ Docs = 1..MaxDoc
  BY DEF MemInv, Docs
<1>1. ASSUME mems' = mems PROVE \E N : Grow(N, 0, NoMem)
  BY <1>0, <1>1, GrowsNot
<1>2. ASSUME Put PROVE \E N : Grow(N, 0, NoMem)
  <2>1. PICK cut \in {FALSE, "cut" \in Ops} : PutDoc(cut)
    BY <1>2 DEF Put
  <2>2. CASE cut
    BY <1>1, <2>1, <2>2 DEF PutDoc
  <2>3. CASE ~cut
    <3>1. /\ lastDoc + 1 \in Docs /\ NextMem <= MaxMem
          /\ mems' = WithMemory(mems, NextMem, NewRow(lastDoc + 1, "raw", NoName, 0))
      BY <1>0, <2>1, <2>3, MemAssumption DEF PutDoc, TypeOK
    <3> QED BY <1>0, <3>1, GrowsByOne DEF Types
  <2> QED BY <2>2, <2>3
<1>3. ASSUME NEW d \in Docs, NEW old \in Targets, Promote(d, old)
      PROVE  \/ \E N : Grow(N, 0, NoMem)
             \/ \E m \in 1..MaxMem, o \in DOMAIN mems :
                   /\ \E N : Grow(N, o, m)
                   /\ JoinsRoots(o, m) /\ edges' = edges \cup {<<m, o>>} /\ Client
  <2>1. PromoteDoc(d, old) /\ Client
    BY <1>3 DEF Promote
  <2> QED BY <1>0, <2>1, PromoteGrows
<1>4. ASSUME NEW d \in Docs, NEW old \in Targets, EvolveInsert(d, old) PROVE \E N : Grow(N, 0, NoMem)
  BY <1>0, <1>4, GrowsByOne DEF EvolveInsert, Types
<1>5. ASSUME NEW w \in Workers, WorkerStep(w) PROVE \E N : Grow(N, 0, NoMem)
  <2>1. CASE WriteItem(w)
    <3>1. CASE mems' = mems
      BY <1>1, <3>1
    <3>2. CASE mems' # mems
      <4> DEFINE d == Head(batch[w])
      <4>1. /\ NextMem <= MaxMem
            /\ mems' = WithMemory(mems, NextMem, NewRow(d, "fact", Items[d][item[w]], item[w]))
        BY <2>1, <3>2 DEF WriteItem
      <4>2. /\ batch[w] \in Seq(Docs) /\ batch[w] # <<>> /\ item[w] \in Nat
            /\ item[w] \in DOMAIN Items[d]
        BY <2>1 DEF MemInv, WorkersTyped, WriteItem, AtDocument
      <4>3. d \in Docs
        BY <4>2
      <4>4. Items[d] \in Seq(Names \cup {NoName})
        BY <4>3, ExtractionAssumption
      <4>5. Items[d][item[w]] \in Names \cup {NoName}
        BY <4>2, <4>4
      <4> HIDE DEF d
      <4> QED BY <1>0, <4>1, <4>2, <4>3, <4>5, GrowsByOne DEF Types
    <3> QED BY <3>1, <3>2
  <2>2. CASE mems' = mems
    BY <1>1, <2>2
  <2> QED BY <1>5, <2>1, <2>2
          DEF WorkerStep, StartPass, EndPass, ReadText, LookUpEntity, InsertEntity, MarkStatus, memVars
<1>6. ASSUME NEW p \in Mergers, SupersedeUpdate(p)
      PROVE  (\E N : Grow(N, 0, NoMem)) \/ Merges(p)
  <2>1. PICK pr \in pairs[p] :
           IF pr[1] \in DOMAIN mems /\ pr[2] \notin DOMAIN mems
           THEN EndMerge(p) /\ UNCHANGED <<mems, raced>>
           ELSE /\ mems' = Superseded(mems, pr[1], pr[2])
                /\ raced' = (raced \/ ~Unchanged(pr))
                /\ cur' = [cur EXCEPT ![p] = pr]
                /\ pairs' = [pairs EXCEPT ![p] = @ \ {pr}]
                /\ mpc' = [mpc EXCEPT ![p] = "edge"]
    BY <1>6 DEF SupersedeUpdate
  <2>2. CASE pr[1] \in DOMAIN mems /\ pr[2] \notin DOMAIN mems
    BY <1>1, <2>1, <2>2
  <2>3. CASE ~(pr[1] \in DOMAIN mems /\ pr[2] \notin DOMAIN mems)
    <3>1. \E t : Grow({}, pr[1], t) /\ (pr[1] \in DOMAIN mems => t = pr[2])
      BY <1>0, <2>1, <2>3, GrowsNotBySuperseding
    <3> QED BY <1>6, <2>1, <2>3, <3>1 DEF Merges, SupersedeUpdate
  <2> QED BY <2>2, <2>3
<1>7. ASSUME NEW w \in Workers, WorkerCrash(w) PROVE mems' = mems
  BY <1>7 DEF WorkerCrash, memVars
<1>8. ASSUME CompactStart \/ EvolveSelect PROVE mems' = mems
  BY <1>8 DEF CompactStart, EvolveSelect, memVars
<1>9. ASSUME NEW p \in Mergers, SupersedeEdge(p) \/ MergerCrash(p) PROVE mems' = mems
  BY <1>9 DEF SupersedeEdge, MergerCrash, memVars
<1> QED BY <1>1, <1>2, <1>3, <1>4, <1>5, <1>6, <1>7, <1>8, <1>9 DEF Next

\* Which steps write the documents and the queue.
LEMMA QueueStep ==
  ASSUME MemInv, Next
  PROVE  /\ live' \subseteq 1..lastDoc' /\ lastDoc' \in 0..MaxDoc /\ lastDoc <= lastDoc'
         /\ queue' \in [Docs -> Statuses]
         /\ \A d \in Docs : d > lastDoc' => queue'[d] = "none"
<1>0. /\ live \subseteq 1..lastDoc /\ lastDoc \in 0..MaxDoc /\ queue \in [Docs -> Statuses]
      /\ \A d \in Docs : d > lastDoc => queue[d] = "none"
      /\ Docs = 1..MaxDoc /\ MaxDoc \in Nat
  BY MemAssumption DEF MemInv, TypeOK, Docs
<1>1. CASE Put
  <2>1. PICK cut \in {FALSE, "cut" \in Ops} : PutDoc(cut)
    BY <1>1 DEF Put
  <2>2. /\ lastDoc < MaxDoc /\ lastDoc' = lastDoc + 1 /\ live' = live \cup {lastDoc + 1}
        /\ queue' = queue \/ queue' = [queue EXCEPT ![lastDoc + 1] = "pending"]
    BY <2>1 DEF PutDoc
  <2>3. queue' \in [Docs -> Statuses]
    BY <1>0, <2>2 DEF Statuses
  <2>4. ASSUME NEW d \in Docs, d > lastDoc' PROVE queue'[d] = "none"
    BY <1>0, <2>2, <2>4
  <2> QED BY <1>0, <2>2, <2>3, <2>4
<1>2. ASSUME NEW d \in Docs, Delete(d)
      PROVE  /\ live' \subseteq 1..lastDoc' /\ lastDoc' = lastDoc
             /\ queue' \in [Docs -> Statuses]
             /\ \A e \in Docs : e > lastDoc' => queue'[e] = "none"
  BY <1>0, <1>2 DEF Delete, DeleteDoc, Statuses
<1>3. ASSUME NEW d \in Docs, NEW old \in Targets, Promote(d, old)
      PROVE  /\ live' \subseteq 1..lastDoc' /\ lastDoc' = lastDoc
             /\ queue' \in [Docs -> Statuses]
             /\ \A e \in Docs : e > lastDoc' => queue'[e] = "none"
  <2>1. d \in live /\ queue' = [queue EXCEPT ![d] = "promoted"] /\ live' = live /\ lastDoc' = lastDoc
    BY <1>3 DEF Promote, PromoteDoc
  <2>2. d <= lastDoc
    BY <1>0, <2>1
  <2> QED BY <1>0, <2>1, <2>2 DEF Statuses
<1>4. ASSUME NEW w \in Workers, MarkStatus(w)
      PROVE  /\ live' \subseteq 1..lastDoc' /\ lastDoc' = lastDoc
             /\ queue' \in [Docs -> Statuses]
             /\ \A e \in Docs : e > lastDoc' => queue'[e] = "none"
  <2> DEFINE d == Head(batch[w])
  <2>1. /\ pc[w] \in {"done", "error", "skipped"} /\ queue' = SetStatus(queue, d, pc[w])
        /\ live' = live /\ lastDoc' = lastDoc
    BY <1>4 DEF MarkStatus
  <2>2. queue' = queue \/ (queue[d] # "none" /\ queue' = [queue EXCEPT ![d] = pc[w]])
    BY <2>1 DEF SetStatus
  <2> HIDE DEF d
  <2> QED BY <1>0, <2>1, <2>2 DEF Statuses
<1>5. CASE UNCHANGED <<live, lastDoc, queue>>
  BY <1>0, <1>5
<1>6. ASSUME NEW d \in Docs, NEW old \in Targets, EvolveInsert(d, old)
      PROVE  UNCHANGED <<live, lastDoc, queue>>
  BY <1>6 DEF EvolveInsert
<1>7. ASSUME NEW w \in Workers, WorkerStep(w) \/ WorkerCrash(w), ~MarkStatus(w)
      PROVE  UNCHANGED <<live, lastDoc, queue>>
  BY <1>7 DEF WorkerStep, StartPass, EndPass, ReadText, LookUpEntity, InsertEntity, WriteItem,
              WorkerCrash, memVars
<1>8. ASSUME CompactStart \/ EvolveSelect PROVE UNCHANGED <<live, lastDoc, queue>>
  BY <1>8 DEF CompactStart, EvolveSelect, memVars
<1>9. ASSUME NEW p \in Mergers, SupersedeUpdate(p) \/ SupersedeEdge(p) \/ MergerCrash(p)
      PROVE  UNCHANGED <<live, lastDoc, queue>>
  BY <1>9 DEF SupersedeUpdate, SupersedeEdge, MergerCrash, memVars
<1>10. lastDoc <= lastDoc
  BY <1>0
<1> QED BY <1>0, <1>1, <1>2, <1>3, <1>4, <1>5, <1>6, <1>7, <1>8, <1>9, <1>10 DEF Next

LEMMA EdgesStep ==
  ASSUME MemInv, Next
  PROVE  edges' \subseteq (1..MaxMem) \X (1..MaxMem)
<1>0. edges \subseteq (1..MaxMem) \X (1..MaxMem) /\ DOMAIN mems \subseteq 1..MaxMem /\ TypeOK
  BY DEF MemInv, TypeOK
<1>1. ASSUME NEW d \in Docs, Delete(d) PROVE edges' \subseteq edges
  BY <1>1 DEF Delete, DeleteDoc
<1>2. ASSUME NEW d \in Docs, NEW old \in Targets, Promote(d, old)
      PROVE  edges' \subseteq (1..MaxMem) \X (1..MaxMem)
  <2>1. \/ edges' = edges
        \/ \E m \in 1..MaxMem, o \in DOMAIN mems : edges' = edges \cup {<<m, o>>}
    <3>1. PromoteDoc(d, old)
      BY <1>2 DEF Promote
    <3> QED BY <1>0, <3>1, PromoteGrows
  <2> QED BY <1>0, <2>1
<1>3. ASSUME NEW p \in Mergers, SupersedeEdge(p)
      PROVE  edges' \subseteq (1..MaxMem) \X (1..MaxMem)
  BY <1>0, <1>3 DEF SupersedeEdge
<1>4. ASSUME Put PROVE edges' = edges
  BY <1>4 DEF Put, PutDoc
<1>5. ASSUME NEW d \in Docs, NEW old \in Targets, EvolveInsert(d, old) PROVE edges' = edges
  BY <1>5 DEF EvolveInsert
<1>6. ASSUME NEW w \in Workers, WorkerStep(w) \/ WorkerCrash(w) PROVE edges' = edges
  BY <1>6 DEF WorkerStep, StartPass, EndPass, ReadText, LookUpEntity, InsertEntity, WriteItem,
              MarkStatus, WorkerCrash, memVars
<1>7. ASSUME CompactStart \/ EvolveSelect PROVE edges' = edges
  BY <1>7 DEF CompactStart, EvolveSelect, memVars
<1>8. ASSUME NEW p \in Mergers, SupersedeUpdate(p) \/ MergerCrash(p) PROVE edges' = edges
  BY <1>8 DEF SupersedeUpdate, MergerCrash, memVars
<1> QED BY <1>0, <1>1, <1>2, <1>3, <1>4, <1>5, <1>6, <1>7, <1>8 DEF Next

LEMMA WorkersStep ==
  ASSUME MemInv, Next
  PROVE  WorkersTyped'
<1>0. /\ lastDoc \in Nat /\ lastDoc' \in Nat /\ lastDoc <= lastDoc' /\ Docs \subseteq Nat
      /\ WorkersTyped
  BY QueueStep, MemAssumption DEF MemInv, TypeOK, Docs
<1>1. ASSUME UNCHANGED workVars PROVE WorkersTyped'
  <2>1. \A w \in Workers : \A i \in DOMAIN batch[w] : batch[w][i] <= lastDoc'
    <3> SUFFICES ASSUME NEW w \in Workers, NEW i \in DOMAIN batch[w] PROVE batch[w][i] <= lastDoc'
      OBVIOUS
    <3>1. batch[w] \in Seq(Docs) /\ batch[w][i] <= lastDoc
      BY <1>0 DEF WorkersTyped
    <3>2. batch[w][i] \in Docs
      BY <3>1
    <3> DEFINE x == batch[w][i]
    <3>3. x \in Nat /\ x <= lastDoc
      BY <1>0, <3>1, <3>2
    <3> HIDE DEF x
    <3>4. x <= lastDoc'
      BY <1>0, <3>3
    <3> QED BY <3>4 DEF x
  <2> QED BY <1>0, <1>1, <2>1 DEF WorkersTyped, workVars
<1>2. ASSUME NEW w \in Workers, WorkerStep(w) \/ WorkerCrash(w) PROVE WorkersTyped'
  <2>0. /\ batch[w] \in Seq(Docs) /\ pc[w] \in Labels /\ item[w] \in Nat
        /\ \A i \in DOMAIN batch[w] : batch[w][i] <= lastDoc
        /\ pc[w] \in AtDocument => batch[w] # <<>>
        /\ pc[w] \in {"entity", "put"} => item[w] \in DOMAIN Items[Head(batch[w])]
        /\ pc[w] \in {"item", "entity", "put"} => item[w] > 0
    BY <1>0 DEF WorkersTyped
  <2>1. lastDoc' = lastDoc
    BY <1>2 DEF WorkerStep, StartPass, EndPass, ReadText, LookUpEntity, InsertEntity, WriteItem,
                MarkStatus, WorkerCrash, memVars
  <2>2. ASSUME NEW l \in Labels, NEW b \in Seq(Docs), NEW k \in Nat,
               pc' = [pc EXCEPT ![w] = l], batch' = [batch EXCEPT ![w] = b],
               item' = [item EXCEPT ![w] = k],
               \A i \in DOMAIN b : b[i] <= lastDoc,
               l \in AtDocument => b # <<>>,
               l \in {"entity", "put"} => k \in DOMAIN Items[Head(b)],
               l \in {"item", "entity", "put"} => k > 0
        PROVE  WorkersTyped'
    <3>1. /\ pc' \in [Workers -> Labels] /\ item' \in [Workers -> Nat]
          /\ batch' \in [Workers -> Seq(Docs)]
      BY <1>0, <2>2 DEF WorkersTyped
    <3>2. ASSUME NEW v \in Workers
          PROVE  /\ \A i \in DOMAIN batch'[v] : batch'[v][i] <= lastDoc'
                 /\ pc'[v] \in AtDocument => batch'[v] # <<>>
                 /\ pc'[v] \in {"entity", "put"} => item'[v] \in DOMAIN Items[Head(batch'[v])]
                 /\ pc'[v] \in {"item", "entity", "put"} => item'[v] > 0
      <4>1. CASE v = w
        <5>1. pc'[v] = l /\ batch'[v] = b /\ item'[v] = k
          BY <1>0, <2>2, <4>1 DEF WorkersTyped
        <5> QED BY <2>1, <2>2, <5>1
      <4>2. CASE v # w
        <5>1. pc'[v] = pc[v] /\ batch'[v] = batch[v] /\ item'[v] = item[v]
          BY <1>0, <2>2, <4>2 DEF WorkersTyped
        <5> QED BY <1>0, <2>1, <5>1 DEF WorkersTyped
      <4> QED BY <4>1, <4>2
    <3> QED BY <3>1, <3>2 DEF WorkersTyped
  <2>3. ASSUME AbortPass(w) PROVE WorkersTyped'
    <3>1. <<>> \in Seq(Docs) /\ "idle" \in Labels /\ "idle" \notin AtDocument
      BY DEF Labels, AtDocument
    <3>2. \A i \in DOMAIN <<>> : <<>>[i] <= lastDoc
      OBVIOUS
    <3> QED BY <2>2, <2>3, <3>1, <3>2 DEF AbortPass
  <2>4. /\ item' = item => item' = [item EXCEPT ![w] = item[w]]
        /\ batch' = batch => batch' = [batch EXCEPT ![w] = batch[w]]
    BY <1>0 DEF WorkersTyped
  <2>5. CASE StartPass(w)
    <3>1. /\ pc' = [pc EXCEPT ![w] = "next"] /\ batch' = [batch EXCEPT ![w] = Oldest(BatchSize)]
          /\ item' = [item EXCEPT ![w] = item[w]]
      BY <2>4, <2>5 DEF StartPass
    <3>2. "next" \in Labels /\ "next" \notin AtDocument /\ "next" \notin {"item", "entity", "put"}
      BY DEF Labels, AtDocument
    <3> QED BY <2>0, <2>2, <3>1, <3>2, OldestArePending
  <2>6. CASE EndPass(w)
    BY <2>3, <2>6 DEF EndPass
  <2>7. CASE ReadText(w)
    <3>1. PICK l \in {"skipped", "item", "error"} : pc' = [pc EXCEPT ![w] = l]
      BY <2>7 DEF ReadText
    <3>2. /\ batch[w] # <<>> /\ item' = [item EXCEPT ![w] = 1]
          /\ batch' = [batch EXCEPT ![w] = batch[w]]
      BY <2>4, <2>7 DEF ReadText
    <3>3. l \in Labels /\ l \notin {"entity", "put"} /\ 1 \in Nat /\ 1 > 0
      BY DEF Labels
    <3> QED BY <2>0, <2>2, <3>1, <3>2, <3>3
  <2>8. CASE LookUpEntity(w)
    <3> DEFINE list == Items[Head(batch[w])]
               l == IF item[w] > Len(list) THEN "done"
                    ELSE IF list[item[w]] \in entities \cup {NoName} THEN "put" ELSE "entity"
    <3>1. /\ pc[w] = "item" /\ pc' = [pc EXCEPT ![w] = l]
          /\ batch' = [batch EXCEPT ![w] = batch[w]] /\ item' = [item EXCEPT ![w] = item[w]]
      BY <2>4, <2>8 DEF LookUpEntity
    <3>2. batch[w] # <<>> /\ item[w] > 0
      BY <2>0, <3>1 DEF AtDocument
    <3>3. Head(batch[w]) \in Docs
      BY <2>0, <3>2
    <3>4. list \in Seq(Names \cup {NoName})
      BY <3>3, ExtractionAssumption
    <3>5. l \in {"done", "put", "entity"} /\ (l \in {"entity", "put"} => item[w] \in DOMAIN list)
      BY <2>0, <3>2, <3>4
    <3> HIDE DEF l
    <3> QED BY <2>0, <2>2, <3>1, <3>2, <3>5 DEF Labels, AtDocument
  <2>9. CASE InsertEntity(w)
    <3>1. CASE AbortPass(w)
      BY <2>3, <3>1
    <3>2. CASE ~AbortPass(w)
      <4>1. /\ pc[w] = "entity" /\ pc' = [pc EXCEPT ![w] = "put"]
            /\ batch' = [batch EXCEPT ![w] = batch[w]] /\ item' = [item EXCEPT ![w] = item[w]]
        BY <2>4, <2>9, <3>2 DEF InsertEntity
      <4> QED BY <2>0, <2>2, <4>1 DEF Labels, AtDocument
    <3> QED BY <3>1, <3>2
  <2>10. CASE WriteItem(w)
    <3>1. CASE AbortPass(w)
      BY <2>3, <3>1
    <3>2. CASE ~AbortPass(w)
      <4>1. /\ pc[w] = "put" /\ pc' = [pc EXCEPT ![w] = "item"]
            /\ batch' = [batch EXCEPT ![w] = batch[w]]
            /\ item' = [item EXCEPT ![w] = item[w] + 1]
        BY <2>4, <2>10, <3>2 DEF WriteItem
      <4>2. "item" \in Labels /\ "item" \notin {"entity", "put"} /\ "put" \in AtDocument
        BY DEF Labels, AtDocument
      <4>3. item[w] + 1 \in Nat /\ item[w] + 1 > 0
        BY <2>0
      <4> QED BY <2>0, <2>2, <4>1, <4>2, <4>3
    <3> QED BY <3>1, <3>2
  <2>11. CASE MarkStatus(w)
    <3>1. /\ pc[w] \in {"done", "error", "skipped"} /\ pc' = [pc EXCEPT ![w] = "next"]
          /\ batch' = [batch EXCEPT ![w] = Tail(batch[w])] /\ item' = [item EXCEPT ![w] = 0]
      BY <2>11 DEF MarkStatus
    <3>2. batch[w] # <<>>
      BY <2>0, <3>1 DEF AtDocument
    <3>3. /\ Tail(batch[w]) \in Seq(Docs)
          /\ \A i \in DOMAIN Tail(batch[w]) : Tail(batch[w])[i] <= lastDoc
      BY <2>0, <3>2
    <3> QED BY <2>2, <3>1, <3>3 DEF Labels, AtDocument
  <2>12. CASE WorkerCrash(w)
    BY <2>3, <2>12 DEF WorkerCrash
  <2> QED BY <1>2, <2>5, <2>6, <2>7, <2>8, <2>9, <2>10, <2>11, <2>12 DEF WorkerStep
<1>3. ASSUME Put PROVE UNCHANGED workVars
  BY <1>3 DEF Put, Client
<1>4. ASSUME NEW d \in Docs, Delete(d) PROVE UNCHANGED workVars
  BY <1>4 DEF Delete, Client
<1>5. ASSUME NEW d \in Docs, NEW old \in Targets, Promote(d, old) \/ EvolveInsert(d, old)
      PROVE  UNCHANGED workVars
  BY <1>5 DEF Promote, Client, EvolveInsert
<1>6. ASSUME CompactStart \/ EvolveSelect PROVE UNCHANGED workVars
  BY <1>6 DEF CompactStart, EvolveSelect
<1>7. ASSUME NEW p \in Mergers, SupersedeUpdate(p) \/ SupersedeEdge(p) \/ MergerCrash(p)
      PROVE  UNCHANGED workVars
  BY <1>7 DEF SupersedeUpdate, SupersedeEdge, MergerCrash
<1> QED BY <1>1, <1>2, <1>3, <1>4, <1>5, <1>6, <1>7 DEF Next

LEMMA MergersStep ==
  ASSUME MemInv, Next
  PROVE  MergersTyped'
<1>0. MergersTyped
  BY DEF MemInv
<1>1. ASSUME UNCHANGED mergeVars PROVE MergersTyped'
  BY <1>0, <1>1 DEF MergersTyped, mergeVars
<1>2. ASSUME Put PROVE UNCHANGED mergeVars
  BY <1>2 DEF Put, Client
<1>3. ASSUME NEW d \in Docs, Delete(d) PROVE UNCHANGED mergeVars
  BY <1>3 DEF Delete, Client
<1>4. ASSUME NEW d \in Docs, NEW old \in Targets, Promote(d, old) PROVE UNCHANGED mergeVars
  BY <1>4 DEF Promote, Client
<1>5. ASSUME NEW d \in Docs, NEW old \in Targets, EvolveInsert(d, old) PROVE MergersTyped'
  BY <1>0, <1>5 DEF EvolveInsert, MergersTyped
<1>6. ASSUME NEW w \in Workers, WorkerStep(w) \/ WorkerCrash(w) PROVE UNCHANGED mergeVars
  BY <1>6 DEF WorkerStep, StartPass, EndPass, ReadText, LookUpEntity, InsertEntity, WriteItem,
              MarkStatus, WorkerCrash, Rest
<1>7. ASSUME CompactStart \/ EvolveSelect PROVE MergersTyped'
  BY <1>0, <1>7 DEF CompactStart, EvolveSelect, MergersTyped
<1>8. ASSUME NEW p \in Mergers, SupersedeUpdate(p) \/ SupersedeEdge(p) \/ MergerCrash(p)
      PROVE  MergersTyped'
  BY <1>0, <1>8 DEF SupersedeUpdate, SupersedeEdge, MergerCrash, EndMerge, MergersTyped
<1> QED BY <1>1, <1>2, <1>3, <1>4, <1>5, <1>6, <1>7, <1>8 DEF Next

LEMMA MemInvStep ==
  ASSUME MemInv, [Next]_vars
  PROVE  MemInv'
<1>1. CASE Next
  <2>1. RowsTyped
    BY DEF MemInv
  <2>2. RowsTyped'
    BY <1>1, <2>1, RowsStep, GrowTyped, DeleteShrinks DEF Delete, Merges
  <2>3. TypeOK'
    BY <1>1, <2>2, QueueStep, EdgesStep DEF TypeOK, RowsTyped
  <2> QED BY <1>1, <2>2, <2>3, QueueStep, WorkersStep, MergersStep DEF MemInv
<1>2. CASE UNCHANGED vars
  BY <1>2 DEF MemInv, TypeOK, RowsTyped, WorkersTyped, MergersTyped, MemRow, vars, memVars,
              workVars, mergeVars
<1> QED BY <1>1, <1>2

LEMMA MemInvAlways == Spec => []MemInv
BY MemInvInit, MemInvStep, PTL DEF Spec

\* Rows, edges, queue and documents keep their types, and superseded_by never
\* points to a row that is not there, whatever is deleted, promoted and merged.
THEOREM MemoryTypeCorrect == Spec => [](TypeOK /\ RowsTyped)
<1>1. MemInv => TypeOK /\ RowsTyped
  BY DEF MemInv
<1> QED BY <1>1, MemInvAlways, PTL

-----------------------------------------------------------------------------
(* Edges                                                                   *)

\* The merger between the two statements of supersede stands at the very
\* supersession whose edge is missing.
Explained(m) ==
    \/ mems[m].superseded_by = NoMem
    \/ <<mems[m].superseded_by, m>> \in edges
    \/ m \in unlinked
    \/ \E p \in Mergers : mpc[p] = "edge" /\ cur[p][1] = m /\ cur[p][2] = mems[m].superseded_by

EdgesInv == \A m \in DOMAIN mems : Explained(m)

\* A supersession that waits for its edge goes on waiting, gets it, or is
\* recorded as cut; edges are taken away by deletes only.
LEMMA EdgesKept ==
  ASSUME MemInv, Next, \A d \in Docs : ~Delete(d)
  PROVE  /\ edges \subseteq edges' /\ unlinked \subseteq unlinked'
         /\ \A p \in Mergers : mpc[p] = "edge" =>
               \/ mpc'[p] = "edge" /\ cur'[p] = cur[p]
               \/ <<cur[p][2], cur[p][1]>> \in edges'
               \/ cur[p][1] \in unlinked'
               \/ ~({cur[p][1], cur[p][2]} \subseteq DOMAIN mems)
<1>0. DOMAIN mpc = Mergers /\ DOMAIN cur = Mergers
  BY DEF MemInv, MergersTyped
<1> DEFINE Waits(p) == mpc[p] = "edge" => mpc'[p] = "edge" /\ cur'[p] = cur[p]
<1>1. ASSUME Put PROVE edges' = edges /\ unlinked' = unlinked /\ \A p \in Mergers : Waits(p)
  BY <1>1 DEF Put, PutDoc, Client, mergeVars, histVars
<1>2. ASSUME NEW d \in Docs, NEW old \in Targets, Promote(d, old)
      PROVE  edges \subseteq edges' /\ unlinked' = unlinked /\ \A p \in Mergers : Waits(p)
  BY <1>2 DEF Promote, PromoteDoc, Client, mergeVars, histVars
<1>3. ASSUME NEW d \in Docs, NEW old \in Targets, EvolveInsert(d, old)
      PROVE  edges' = edges /\ unlinked' = unlinked /\ \A p \in Mergers : Waits(p)
  BY <1>0, <1>3 DEF EvolveInsert, histVars
<1>4. ASSUME NEW w \in Workers, WorkerStep(w) \/ WorkerCrash(w)
      PROVE  edges' = edges /\ unlinked' = unlinked /\ \A p \in Mergers : Waits(p)
  BY <1>4 DEF WorkerStep, StartPass, EndPass, ReadText, LookUpEntity, InsertEntity, WriteItem,
              MarkStatus, WorkerCrash, Rest, mergeVars, histVars, memVars
<1>5. ASSUME CompactStart \/ EvolveSelect
      PROVE  edges' = edges /\ unlinked' = unlinked /\ \A p \in Mergers : Waits(p)
  BY <1>0, <1>5 DEF CompactStart, EvolveSelect, histVars, memVars
<1>6. ASSUME NEW p \in Mergers, SupersedeUpdate(p)
      PROVE  edges' = edges /\ unlinked' = unlinked /\ \A q \in Mergers : Waits(q)
  BY <1>0, <1>6 DEF SupersedeUpdate, EndMerge
<1>7. ASSUME NEW p \in Mergers, SupersedeEdge(p)
      PROVE  /\ edges \subseteq edges' /\ unlinked' = unlinked
             /\ \A q \in Mergers \ {p} : Waits(q)
             /\ \/ <<cur[p][2], cur[p][1]>> \in edges'
                \/ ~({cur[p][1], cur[p][2]} \subseteq DOMAIN mems)
  BY <1>0, <1>7 DEF SupersedeEdge, EndMerge, histVars
<1>8. ASSUME NEW p \in Mergers, MergerCrash(p)
      PROVE  /\ edges' = edges /\ unlinked \subseteq unlinked'
             /\ \A q \in Mergers \ {p} : Waits(q)
             /\ mpc[p] = "edge" => cur[p][1] \in unlinked'
  BY <1>0, <1>8 DEF MergerCrash, EndMerge, memVars
<1> QED BY <1>1, <1>2, <1>3, <1>4, <1>5, <1>6, <1>7, <1>8 DEF Next

LEMMA EdgesInvStep ==
  ASSUME MemInv, MemInv', EdgesInv, Next
  PROVE  EdgesInv'
<1>0. RowsTyped
  BY DEF MemInv
<1>1. ASSUME NEW d \in Docs, Delete(d) PROVE EdgesInv'
  <2>1. DeleteDoc(d) /\ unlinked' = unlinked /\ mpc' = mpc /\ cur' = cur
    BY <1>1 DEF Delete, Client, mergeVars, histVars
  <2>2. /\ DOMAIN mems' = {m \in DOMAIN mems : mems[m].doc # d}
        /\ \A m \in DOMAIN mems' :
              /\ mems'[m].superseded_by \in {NoMem, mems[m].superseded_by}
              /\ mems'[m].superseded_by \in DOMAIN mems' \cup {NoMem}
    BY <1>0, <2>1, DeleteShrinks
  <2>3. edges' = {e \in edges : /\ e[1] \notin {m \in DOMAIN mems : mems[m].doc = d}
                                /\ e[2] \notin {m \in DOMAIN mems : mems[m].doc = d}}
    BY <2>1 DEF DeleteDoc
  <2>4. ASSUME NEW m \in DOMAIN mems', mems'[m].superseded_by # NoMem
        PROVE  Explained(m)'
    <3>1. /\ m \in DOMAIN mems /\ mems[m].doc # d
          /\ mems'[m].superseded_by = mems[m].superseded_by
          /\ mems[m].superseded_by \in DOMAIN mems /\ mems[mems[m].superseded_by].doc # d
      BY <2>2, <2>4
    <3>2. Explained(m)
      BY <3>1 DEF EdgesInv
    <3>3. CASE <<mems[m].superseded_by, m>> \in edges
      <4>1. <<mems[m].superseded_by, m>> \in edges'
        BY <2>3, <3>1, <3>3
      <4> QED BY <3>1, <4>1 DEF Explained
    <3>4. CASE <<mems[m].superseded_by, m>> \notin edges
      BY <2>1, <2>4, <3>1, <3>2, <3>4 DEF Explained
    <3> QED BY <3>3, <3>4
  <2> QED BY <2>4 DEF EdgesInv, Explained
<1>2. ASSUME \A d \in Docs : ~Delete(d),
             NEW N, NEW o, NEW s, Grow(N, o, s),
             NEW m \in DOMAIN mems', m # o
      PROVE  Explained(m)'
  <2>1. CASE m \in N
    BY <1>2, <2>1 DEF Grow, Explained
  <2>2. CASE m \in DOMAIN mems /\ mems[m].superseded_by # NoMem
    <3>1. Explained(m) /\ mems[m].superseded_by \in DOMAIN mems
      BY <1>0, <2>2 DEF EdgesInv, RowsTyped
    <3>2. mems'[m].superseded_by = mems[m].superseded_by
      BY <1>2, <2>2 DEF Grow
    <3>3. edges \subseteq edges' /\ unlinked \subseteq unlinked'
      BY <1>2, EdgesKept
    <3>4. ASSUME NEW p \in Mergers, mpc[p] = "edge", cur[p][1] = m,
                 cur[p][2] = mems[m].superseded_by
          PROVE  Explained(m)'
      <4>1. \/ mpc'[p] = "edge" /\ cur'[p] = cur[p]
            \/ <<cur[p][2], cur[p][1]>> \in edges'
            \/ cur[p][1] \in unlinked'
        BY <1>2, <2>2, <3>1, <3>4, EdgesKept
      <4> QED BY <3>2, <3>4, <4>1 DEF Explained
    <3> QED BY <2>2, <3>1, <3>2, <3>3, <3>4 DEF Explained
  <2>3. CASE m \in DOMAIN mems /\ mems[m].superseded_by = NoMem
    BY <1>2, <2>3 DEF Grow, Explained
  <2> QED BY <1>2, <2>1, <2>2, <2>3 DEF Grow
<1>3. ASSUME \A d \in Docs : ~Delete(d), NEW N, Grow(N, 0, NoMem) PROVE EdgesInv'
  <2>1. 0 \notin DOMAIN mems'
    BY MemAssumption DEF MemInv, TypeOK
  <2> QED BY <1>2, <1>3, <2>1 DEF EdgesInv
<1>4. ASSUME \A d \in Docs : ~Delete(d), NEW m \in 1..MaxMem, NEW o \in DOMAIN mems,
             NEW N, Grow(N, o, m), edges' = edges \cup {<<m, o>>}
      PROVE  EdgesInv'
  <2>1. Explained(o)'
    <3>1. mems'[o].superseded_by = m
      BY <1>4 DEF Grow
    <3> QED BY <1>4, <3>1 DEF Explained
  <2> QED BY <1>2, <1>4, <2>1 DEF EdgesInv
<1>5. ASSUME \A d \in Docs : ~Delete(d), NEW p \in Mergers, Merges(p) PROVE EdgesInv'
  <2>1. PICK pr \in pairs[p] :
           /\ cur' = [cur EXCEPT ![p] = pr]
           /\ \E t : Grow({}, pr[1], t) /\ (pr[1] \in DOMAIN mems => t = pr[2])
    BY <1>5 DEF Merges
  <2>2. PICK t : Grow({}, pr[1], t) /\ (pr[1] \in DOMAIN mems => t = pr[2])
    BY <2>1
  <2>3. mpc'[p] = "edge" /\ cur'[p] = pr
    BY <1>5, <2>1 DEF Merges, MemInv, MergersTyped
  <2>4. ASSUME pr[1] \in DOMAIN mems' PROVE Explained(pr[1])'
    <3>1. pr[1] \in DOMAIN mems /\ mems'[pr[1]].superseded_by = pr[2]
      BY <2>2, <2>4 DEF Grow
    <3> QED BY <2>3, <3>1 DEF Explained
  <2> QED BY <1>2, <1>5, <2>2, <2>4 DEF EdgesInv
<1> QED BY <1>1, <1>3, <1>4, <1>5, RowsStep

\* Every supersession has its edge in memory_edges, except between the two
\* statements of supersede and after a crash there, although compaction,
\* evolution, promotions and deletes interleave and row ids are used again.
THEOREM EdgesAreExplained == Spec => []EdgesExplain
<1>1. Init => EdgesInv
  BY DEF Init, MemInit, EdgesInv
<1>2. MemInv /\ MemInv' /\ EdgesInv /\ [Next]_vars => EdgesInv'
  <2> SUFFICES ASSUME MemInv, MemInv', EdgesInv, [Next]_vars PROVE EdgesInv'
    OBVIOUS
  <2>1. CASE UNCHANGED vars
    BY <2>1 DEF EdgesInv, Explained, vars, memVars, mergeVars, histVars
  <2> QED BY <2>1, EdgesInvStep
<1>3. EdgesInv => EdgesExplain
  BY DEF EdgesInv, Explained, EdgesExplain
<1> QED BY <1>1, <1>2, <1>3, MemInvAlways, PTL DEF Spec

-----------------------------------------------------------------------------
(* Truth                                                                   *)

\* No set of rows is closed under superseded_by: no chain runs in a circle.
NoCircle == \A S \in SUBSET DOMAIN mems : S # {} => \E m \in S : mems[m].superseded_by \notin S

\* A pair of the compaction names two rows, a pair of the evolution two
\* documents.
TwoRows ==
    /\ \A pr \in pairs["compact"] : pr[1] # pr[2]
    /\ \A pr \in pairs["evolve"] : pr[3] # pr[4]

TruthInv == TwoRows /\ (~raced => NoCircle)

LEMMA TwoRowsStep ==
  ASSUME MemInv, TwoRows, Next
  PROVE  TwoRows'
<1>0. DOMAIN pairs = Mergers /\ "compact" \in Mergers /\ "evolve" \in Mergers
  BY DEF MemInv, MergersTyped, Mergers
<1>1. ASSUME \A p \in Mergers : pairs'[p] \subseteq pairs[p] PROVE TwoRows'
  BY <1>0, <1>1 DEF TwoRows
<1>2. ASSUME Put PROVE pairs' = pairs
  BY <1>2 DEF Put, Client, mergeVars
<1>3. ASSUME NEW d \in Docs, Delete(d) PROVE pairs' = pairs
  BY <1>3 DEF Delete, Client, mergeVars
<1>4. ASSUME NEW d \in Docs, NEW old \in Targets, Promote(d, old) PROVE pairs' = pairs
  BY <1>4 DEF Promote, Client, mergeVars
<1>5. ASSUME NEW d \in Docs, NEW old \in Targets, EvolveInsert(d, old) PROVE TwoRows'
  <2>1. old # 0 => old # d
    BY <1>5 DEF EvolveInsert, find_evolve_target
  <2>2. pairs' = [pairs EXCEPT !["evolve"] = IF old = 0 THEN {} ELSE {<<0, NextMem, old, d>>}]
    BY <1>5 DEF EvolveInsert
  <2>3. pairs'["compact"] = pairs["compact"] /\ \A pr \in pairs'["evolve"] : pr[3] # pr[4]
    BY <1>0, <2>1, <2>2
  <2> QED BY <2>3 DEF TwoRows
<1>6. ASSUME NEW w \in Workers, WorkerStep(w) \/ WorkerCrash(w) PROVE pairs' = pairs
  BY <1>6 DEF WorkerStep, StartPass, EndPass, ReadText, LookUpEntity, InsertEntity, WriteItem,
              MarkStatus, WorkerCrash, Rest, mergeVars
<1>7. ASSUME CompactStart PROVE TwoRows'
  <2> DEFINE M == {x \in DOMAIN mems : Active(x) /\ x # Max(ClusterOf(x))}
             P == {Pair(m, Max(ClusterOf(m))) : m \in M}
  <2>1. pairs' = [pairs EXCEPT !["compact"] = P]
    BY <1>7 DEF CompactStart
  <2>2. ASSUME NEW pr \in P PROVE pr[1] # pr[2]
    <3>1. PICK m \in M : pr = Pair(m, Max(ClusterOf(m)))
      BY <2>2
    <3>2. pr[1] = m /\ pr[2] = Max(ClusterOf(m))
      BY <3>1 DEF Pair
    <3> QED BY <3>2
  <2> HIDE DEF P
  <2>3. pairs'["compact"] = P /\ pairs'["evolve"] = pairs["evolve"]
    BY <1>0, <2>1
  <2> QED BY <2>2, <2>3 DEF TwoRows
<1>8. ASSUME EvolveSelect PROVE TwoRows'
  <2>1. PICK old \in pairs["evolve"] :
           \/ pairs' = [pairs EXCEPT !["evolve"] = {}]
           \/ \E o \in ActiveOf(old[3]) :
                 pairs' = [pairs EXCEPT !["evolve"] = {<<o, old[2], old[3], old[4]>>}]
    BY <1>8 DEF EvolveSelect
  <2>2. old[3] # old[4]
    BY DEF TwoRows
  <2>3. pairs'["compact"] = pairs["compact"] /\ \A pr \in pairs'["evolve"] : pr[3] # pr[4]
    BY <1>0, <2>1, <2>2
  <2> QED BY <2>3 DEF TwoRows
<1>9. ASSUME NEW p \in Mergers, SupersedeUpdate(p) \/ SupersedeEdge(p) \/ MergerCrash(p)
      PROVE  \A q \in Mergers : pairs'[q] \subseteq pairs[q]
  BY <1>0, <1>9 DEF SupersedeUpdate, SupersedeEdge, MergerCrash, EndMerge
<1> QED BY <1>1, <1>2, <1>3, <1>4, <1>5, <1>6, <1>7, <1>8, <1>9 DEF Next

\* Joining two roots, adding active rows and deleting documents close no circle.
LEMMA NoCircleStep ==
  ASSUME MemInv, TruthInv, Next, ~raced'
  PROVE  NoCircle'
<1>0. RowsTyped /\ 0 \notin DOMAIN mems
  BY MemAssumption DEF MemInv, TypeOK
<1>1. ASSUME NEW d \in Docs, Delete(d), NoCircle PROVE NoCircle'
  <2>1. DeleteDoc(d)
    BY <1>1 DEF Delete
  <2>2. /\ DOMAIN mems' \subseteq DOMAIN mems
        /\ \A m \in DOMAIN mems' : mems'[m].superseded_by \in {NoMem, mems[m].superseded_by}
    BY <1>0, <2>1, DeleteShrinks
  <2>3. ASSUME NEW S \in SUBSET DOMAIN mems', S # {}
        PROVE  \E m \in S : mems'[m].superseded_by \notin S
    <3>1. S \in SUBSET DOMAIN mems
      BY <2>2
    <3>2. PICK m \in S : mems[m].superseded_by \notin S
      BY <1>1, <2>3, <3>1 DEF NoCircle
    <3>3. NoMem \notin S
      BY <1>0, <3>1 DEF NoMem
    <3> QED BY <2>2, <3>2, <3>3
  <2> QED BY <2>3 DEF NoCircle
<1>2. ASSUME NoCircle, NEW N, NEW o, NEW s, Grow(N, o, s),
             o \in DOMAIN mems => JoinsRoots(o, s)
      PROVE  NoCircle'
  <2>1. ASSUME NEW S \in SUBSET DOMAIN mems', S # {}
        PROVE  \E m \in S : mems'[m].superseded_by \notin S
    <3>0. NoMem \notin S
      <4>1. 0 \notin N
        BY <1>2, MemAssumption DEF Grow
      <4> QED BY <1>0, <1>2, <4>1 DEF Grow, NoMem
    <3>1. CASE S \cap N # {}
      <4>1. PICK m \in S : m \in N
        BY <3>1
      <4>2. mems'[m].superseded_by = NoMem
        BY <1>2, <4>1 DEF Grow
      <4> QED BY <3>0, <4>2
    <3>2. CASE S \cap N = {}
      <4>1. S \in SUBSET DOMAIN mems
        BY <1>2, <3>2 DEF Grow
      <4>2. CASE o \in S /\ s \in S
        <5>1. s # o /\ Active(s) /\ s \in DOMAIN mems
          BY <1>2, <4>1, <4>2 DEF JoinsRoots
        <5>2. mems'[s].superseded_by = NoMem
          BY <1>2, <5>1 DEF Grow, Active
        <5> QED BY <3>0, <4>2, <5>2
      <4>3. CASE o \in S /\ s \notin S
        <5>1. mems'[o].superseded_by = s
          BY <1>2, <4>1, <4>3 DEF Grow
        <5> QED BY <4>3, <5>1
      <4>4. CASE o \notin S
        <5>1. PICK m \in S : mems[m].superseded_by \notin S
          BY <1>2, <2>1, <4>1 DEF NoCircle
        <5>2. mems'[m].superseded_by = mems[m].superseded_by
          BY <1>2, <4>1, <4>4, <5>1 DEF Grow
        <5> QED BY <5>1, <5>2
      <4> QED BY <4>2, <4>3, <4>4
    <3> QED BY <3>1, <3>2
  <2> QED BY <2>1 DEF NoCircle
<1>3. ASSUME NEW p \in Mergers, Merges(p), NoCircle PROVE NoCircle'
  <2>1. PICK pr \in pairs[p] :
           /\ raced' = (raced \/ ~Unchanged(pr))
           /\ \E t : Grow({}, pr[1], t) /\ (pr[1] \in DOMAIN mems => t = pr[2])
    BY <1>3 DEF Merges
  <2>2. PICK t : Grow({}, pr[1], t) /\ (pr[1] \in DOMAIN mems => t = pr[2])
    BY <2>1
  <2>3. /\ Active(pr[1]) /\ mems[pr[1]].doc = pr[3]
        /\ Active(pr[2]) /\ mems[pr[2]].doc = pr[4]
    BY <2>1 DEF Unchanged
  <2>4. pr[1] # pr[2] \/ pr[3] # pr[4]
    BY DEF TruthInv, TwoRows, Mergers
  <2>5. pr[1] # pr[2]
    BY <2>3, <2>4
  <2>6. pr[1] \in DOMAIN mems => JoinsRoots(pr[1], t)
    BY <2>2, <2>3, <2>5 DEF JoinsRoots
  <2> QED BY <1>2, <1>3, <2>2, <2>6
<1>4. ~raced
  <2>1. ASSUME Put PROVE raced' = raced
    BY <2>1 DEF Put, Client, histVars
  <2>2. ASSUME NEW d \in Docs, Delete(d) PROVE raced' = raced
    BY <2>2 DEF Delete, Client, histVars
  <2>3. ASSUME NEW d \in Docs, NEW old \in Targets, Promote(d, old) \/ EvolveInsert(d, old)
        PROVE  raced' = raced
    BY <2>3 DEF Promote, EvolveInsert, Client, histVars
  <2>4. ASSUME NEW w \in Workers, WorkerStep(w) \/ WorkerCrash(w) PROVE raced' = raced
    BY <2>4 DEF WorkerStep, StartPass, EndPass, ReadText, LookUpEntity, InsertEntity, WriteItem,
                MarkStatus, WorkerCrash, Rest, histVars
  <2>5. ASSUME CompactStart \/ EvolveSelect PROVE raced' = raced
    BY <2>5 DEF CompactStart, EvolveSelect, histVars
  <2>6. ASSUME NEW p \in Mergers, SupersedeEdge(p) \/ MergerCrash(p) PROVE raced' = raced
    BY <2>6 DEF SupersedeEdge, MergerCrash, histVars
  <2>7. ASSUME NEW p \in Mergers, SupersedeUpdate(p) PROVE ~raced
    BY <2>7 DEF SupersedeUpdate
  <2> QED BY <2>1, <2>2, <2>3, <2>4, <2>5, <2>6, <2>7 DEF Next
<1>5. NoCircle
  BY <1>4 DEF TruthInv
<1> QED BY <1>0, <1>1, <1>2, <1>3, <1>5, RowsStep

\* Following superseded_by from a row, for ever longer.
Step(T) == T \cup {mems[x].superseded_by : x \in T \cap DOMAIN mems}

LEMMA ChainSteps ==
  ASSUME NEW m
  PROVE  Chain(m) = [n \in 0..MaxMem |-> IF n = 0 THEN {m} ELSE Step(Chain(m)[n - 1])]
<1> DEFINE IsChain(f, k) == f = [n \in 0..k |-> IF n = 0 THEN {m} ELSE Step(f[n - 1])]
           Bad == {k \in 0..MaxMem : ~ \E f : IsChain(f, k)}
<1>1. Bad = {}
  <2> SUFFICES ASSUME Bad # {} PROVE FALSE
    OBVIOUS
  <2>1. Bad \subseteq Nat
    BY MemAssumption
  <2>2. PICK k \in Bad : \A j \in Bad : k <= j
    <3> HIDE DEF Bad
    <3> QED BY <2>1, LeastNat
  <2>3. k \in 0..MaxMem /\ MaxMem \in Nat
    BY MemAssumption
  <2>4. CASE k = 0
    <3> DEFINE f == [n \in 0..0 |-> {m}]
    <3>1. IsChain(f, 0)
      OBVIOUS
    <3> QED BY <2>2, <2>4, <3>1
  <2>5. CASE k # 0
    <3>1. k - 1 \in 0..MaxMem /\ k - 1 \notin Bad
      <4> HIDE DEF Bad
      <4> QED BY <2>1, <2>2, <2>3, <2>5
    <3>2. PICK f : IsChain(f, k - 1)
      BY <3>1
    <3> DEFINE g == [n \in 0..k |-> IF n = k THEN Step(f[k - 1]) ELSE f[n]]
    <3>3. DOMAIN f = 0..(k - 1)
      BY <3>2
    <3>4. ASSUME NEW n \in 0..k PROVE g[n] = IF n = 0 THEN {m} ELSE Step(g[n - 1])
      <4>1. CASE n = 0
        <5>1. 0 \in 0..(k - 1) /\ n # k
          BY <2>3, <2>5, <4>1
        <5>2. f[0] = {m}
          BY <3>2, <5>1
        <5> QED BY <4>1, <5>1, <5>2
      <4>2. CASE n = k
        <5>1. k - 1 \in 0..k /\ k - 1 # k
          BY <2>3, <2>5
        <5>2. g[k - 1] = f[k - 1]
          BY <5>1
        <5> QED BY <2>5, <4>2, <5>2
      <4>3. CASE n # 0 /\ n # k
        <5>1. n \in 0..(k - 1) /\ n - 1 \in 0..(k - 1) /\ n - 1 \in 0..k /\ n - 1 # k
          BY <2>3, <4>3
        <5>2. f[n] = Step(f[n - 1])
          BY <3>2, <4>3, <5>1
        <5>3. g[n] = f[n] /\ g[n - 1] = f[n - 1]
          BY <4>3, <5>1
        <5> QED BY <4>3, <5>2, <5>3
      <4> QED BY <4>1, <4>2, <4>3
    <3>5. IsChain(g, k)
      <4>1. DOMAIN g = 0..k /\ g = [n \in 0..k |-> g[n]]
        OBVIOUS
      <4> HIDE DEF g
      <4> QED BY <3>4, <4>1
    <3> HIDE DEF g
    <3> QED BY <2>2, <3>5
  <2> QED BY <2>4, <2>5
<1>2. \E f : IsChain(f, MaxMem)
  <2>1. MaxMem \in 0..MaxMem
    BY MemAssumption
  <2> HIDE DEF IsChain
  <2> QED BY <1>1, <2>1
<1>3. Chain(m) = CHOOSE f : IsChain(f, MaxMem)
  BY DEF Chain, Step
<1> QED BY <1>2, <1>3

\* Without a circle, each step of a chain without an active row meets a new
\* row, and there are no more than MaxMem.
LEMMA ChainsEnd ==
  ASSUME MemInv, NoCircle, NEW m \in DOMAIN mems
  PROVE  \E s \in Successors(m) : Active(s)
<1> DEFINE c == Chain(m)
           Ends(n) == \E s \in c[n] : Active(s)
           Grows(n) == /\ c[n] \subseteq DOMAIN mems /\ m \in c[n]
                       /\ IsFiniteSet(c[n]) /\ Cardinality(c[n]) >= n + 1
           Bad == {n \in 0..MaxMem : ~Ends(n) /\ ~Grows(n)}
<1>0. RowsTyped /\ DOMAIN mems \subseteq 1..MaxMem /\ MaxMem \in Nat
  BY MemAssumption DEF MemInv, TypeOK
<1>1. \A n \in 0..MaxMem : c[n] = IF n = 0 THEN {m} ELSE Step(c[n - 1])
  <2>1. c = [n \in 0..MaxMem |-> IF n = 0 THEN {m} ELSE Step(c[n - 1])]
    BY ChainSteps
  <2> HIDE DEF c
  <2> QED BY <2>1
<1> HIDE DEF c
<1>2. Grows(0)
  <2>1. c[0] = {m}
    BY <1>0, <1>1
  <2>2. IsFiniteSet({m}) /\ Cardinality({m}) = 1
    BY FS_Singleton
  <2> QED BY <2>1, <2>2
<1>3. ASSUME NEW n \in 0..MaxMem, n + 1 \in 0..MaxMem, Ends(n) \/ Grows(n)
      PROVE  Ends(n + 1) \/ Grows(n + 1)
  <2>1. c[n + 1] = Step(c[n])
    BY <1>0, <1>1, <1>3
  <2>2. c[n] \subseteq c[n + 1]
    BY <2>1 DEF Step
  <2>3. CASE Ends(n)
    BY <2>2, <2>3
  <2>4. CASE ~Ends(n) /\ Grows(n)
    <3>1. \A x \in c[n] : x \in DOMAIN mems /\ mems[x].superseded_by \in DOMAIN mems
      BY <1>0, <2>4 DEF Active, RowsTyped
    <3>2. c[n + 1] \subseteq DOMAIN mems /\ m \in c[n + 1]
      BY <2>1, <2>2, <2>4, <3>1 DEF Step
    <3>3. PICK x \in c[n] : mems[x].superseded_by \notin c[n]
      <4>1. c[n] \in SUBSET DOMAIN mems /\ c[n] # {}
        BY <2>4
      <4> QED BY <4>1 DEF NoCircle
    <3> DEFINE y == mems[x].superseded_by
    <3>4. c[n] \cup {y} \subseteq c[n + 1]
      BY <2>1, <3>1, <3>3 DEF Step
    <3>5. IsFiniteSet(c[n + 1])
      <4>1. IsFiniteSet(1..MaxMem)
        BY <1>0, FS_Interval
      <4>2. c[n + 1] \subseteq 1..MaxMem
        BY <1>0, <3>2
      <4> QED BY <4>1, <4>2, FS_Subset
    <3>6. Cardinality(c[n] \cup {y}) = Cardinality(c[n]) + 1
      BY <2>4, <3>3, FS_AddElement
    <3>7. Cardinality(c[n] \cup {y}) <= Cardinality(c[n + 1])
      BY <3>4, <3>5, FS_Subset
    <3>8. Cardinality(c[n]) \in Nat /\ Cardinality(c[n + 1]) \in Nat
      BY <2>4, <3>5, FS_CardinalityType
    <3>9. Cardinality(c[n + 1]) >= n + 1 + 1
      <4>1. n \in Nat /\ Cardinality(c[n]) >= n + 1
        BY <1>3, <2>4
      <4> QED BY <3>6, <3>7, <3>8, <4>1
    <3> QED BY <3>2, <3>5, <3>9
  <2> QED BY <1>3, <2>3, <2>4
<1> HIDE DEF Ends, Grows
<1>4. Bad = {}
  <2> SUFFICES ASSUME Bad # {} PROVE FALSE
    OBVIOUS
  <2>1. Bad \subseteq Nat
    OBVIOUS
  <2>2. PICK k \in Bad : \A j \in Bad : k <= j
    <3> HIDE DEF Bad
    <3> QED BY <2>1, LeastNat
  <2>3. k # 0
    BY <1>2
  <2>4. k - 1 \in 0..MaxMem /\ (k - 1) + 1 = k
    BY <2>2, <2>3, <1>0
  <2>5. k - 1 \notin Bad
    <3> HIDE DEF Bad
    <3> QED BY <2>1, <2>2
  <2>6. Ends(k - 1) \/ Grows(k - 1)
    BY <2>4, <2>5
  <2>7. Ends(k) \/ Grows(k)
    <3>1. (k - 1) + 1 \in 0..MaxMem
      BY <2>2, <2>4
    <3>2. Ends((k - 1) + 1) \/ Grows((k - 1) + 1)
      BY <1>3, <2>4, <2>6, <3>1
    <3> QED BY <2>4, <3>2
  <2> QED BY <2>2, <2>7
<1>5. MaxMem \in 0..MaxMem
  BY <1>0
<1>6. ~Grows(MaxMem)
  <2> SUFFICES ASSUME Grows(MaxMem) PROVE FALSE
    OBVIOUS
  <2>1. c[MaxMem] \subseteq 1..MaxMem /\ Cardinality(c[MaxMem]) >= MaxMem + 1
    BY <1>0 DEF Grows
  <2>2. IsFiniteSet(1..MaxMem) /\ Cardinality(1..MaxMem) = MaxMem
    BY <1>0, FS_Interval
  <2>3. Cardinality(c[MaxMem]) <= MaxMem /\ IsFiniteSet(c[MaxMem])
    BY <2>1, <2>2, FS_Subset
  <2>4. Cardinality(c[MaxMem]) \in Nat
    BY <2>3, FS_CardinalityType
  <2> QED BY <1>0, <2>1, <2>3, <2>4
<1>7. PICK s \in c[MaxMem] : Active(s)
  BY <1>4, <1>5, <1>6 DEF Ends
<1>8. s # NoMem
  BY <1>0, <1>7 DEF Active, NoMem
<1> QED BY <1>7, <1>8 DEF Successors, c

\* Supersession never loses the truth: from every memory the superseded_by
\* chain ends in an active one, for any number of documents and memories,
\* unless a merger acted on rows that had changed since it read them.
THEOREM TruthIsKept == Spec => []TruthSurvives
<1>1. Init => TruthInv
  BY DEF Init, MemInit, TruthInv, TwoRows, NoCircle, Mergers
<1>2. MemInv /\ TruthInv /\ [Next]_vars => TruthInv'
  <2> SUFFICES ASSUME MemInv, TruthInv, [Next]_vars PROVE TruthInv'
    OBVIOUS
  <2>1. CASE UNCHANGED vars
    BY <2>1 DEF TruthInv, TwoRows, NoCircle, vars, memVars, mergeVars, histVars
  <2>2. CASE Next
    BY <2>2, TwoRowsStep, NoCircleStep DEF TruthInv
  <2> QED BY <2>1, <2>2
<1>3. MemInv /\ TruthInv => TruthSurvives
  BY ChainsEnd DEF TruthInv, TruthSurvives
<1> QED BY <1>1, <1>2, <1>3, MemInvAlways, PTL DEF Spec

-----------------------------------------------------------------------------
(* Extraction                                                              *)

Has(d, k) == \E m \in DOMAIN mems : mems[m].doc = d /\ mems[m].item = k
Whole(d) == \A k \in DOMAIN Items[d] : Has(d, k)

\* A worker has written the items before the one it stands at.
Written(w) ==
    Head(batch[w]) \in live =>
        /\ pc[w] \in {"item", "entity", "put"} =>
              \A k \in DOMAIN Items[Head(batch[w])] : k < item[w] => Has(Head(batch[w]), k)
        /\ pc[w] = "done" => Whole(Head(batch[w]))

DoneInv ==
    /\ \A d \in live : queue[d] = "done" => Whole(d)
    /\ \A w \in Workers : Written(w)

\* The rows of a document stay while it does.
LEMMA RowsStay ==
  ASSUME MemInv, Next, NEW d \in live \cap live', NEW k, Has(d, k)
  PROVE  Has(d, k)'
<1>0. PICK m \in DOMAIN mems : mems[m].doc = d /\ mems[m].item = k
  BY DEF Has
<1>1. ASSUME NEW N, NEW o, NEW s, Grow(N, o, s) PROVE Has(d, k)'
  BY <1>0, <1>1 DEF Grow, Has
<1>2. ASSUME NEW e \in Docs, Delete(e) PROVE Has(d, k)'
  <2>1. DeleteDoc(e) /\ RowsTyped
    BY <1>2 DEF Delete, MemInv
  <2>2. d # e
    BY <2>1 DEF DeleteDoc
  <2>3. /\ DOMAIN mems' = {x \in DOMAIN mems : mems[x].doc # e}
        /\ \A x \in DOMAIN mems' : mems'[x].doc = mems[x].doc /\ mems'[x].item = mems[x].item
    BY <2>1, DeleteShrinks
  <2>4. m \in DOMAIN mems'
    BY <1>0, <2>2, <2>3
  <2> QED BY <1>0, <2>3, <2>4 DEF Has
<1> QED BY <1>1, <1>2, RowsStep DEF Merges

\* A put is the only step that brings a document, and it waits in the queue
\* or has no row there.
LEMMA NewDocuments ==
  ASSUME MemInv, Next, NEW d \in live', d \notin live
  PROVE  d = lastDoc + 1 /\ queue'[d] # "done" /\ UNCHANGED workVars
<1>0. queue \in [Docs -> Statuses] /\ lastDoc \in 0..MaxDoc /\ Docs = 1..MaxDoc /\ MaxDoc \in Nat
  BY MemAssumption DEF MemInv, TypeOK, Docs
<1>1. CASE Put
  <2>1. PICK cut \in {FALSE, "cut" \in Ops} : PutDoc(cut)
    BY <1>1 DEF Put
  <2>2. /\ lastDoc < MaxDoc /\ live' = live \cup {lastDoc + 1}
        /\ queue' = queue \/ queue' = [queue EXCEPT ![lastDoc + 1] = "pending"]
    BY <2>1 DEF PutDoc
  <2>3. d = lastDoc + 1 /\ d \in Docs /\ d > lastDoc
    BY <1>0, <2>2
  <2>4. queue[d] = "none"
    BY <2>3 DEF MemInv
  <2>5. queue'[d] # "done"
    BY <1>0, <2>2, <2>3, <2>4
  <2> QED BY <1>1, <2>3, <2>5 DEF Put, Client
<1>2. CASE live' \subseteq live
  BY <1>2
<1>3. ASSUME NEW e \in Docs, Delete(e) PROVE live' \subseteq live
  BY <1>3 DEF Delete, DeleteDoc
<1>4. ASSUME NEW e \in Docs, NEW old \in Targets, Promote(e, old) \/ EvolveInsert(e, old)
      PROVE  live' \subseteq live
  BY <1>4 DEF Promote, PromoteDoc, EvolveInsert
<1>5. ASSUME NEW w \in Workers, WorkerStep(w) \/ WorkerCrash(w) PROVE live' \subseteq live
  BY <1>5 DEF WorkerStep, StartPass, EndPass, ReadText, LookUpEntity, InsertEntity, WriteItem,
              MarkStatus, WorkerCrash, memVars
<1>6. ASSUME CompactStart \/ EvolveSelect PROVE live' \subseteq live
  BY <1>6 DEF CompactStart, EvolveSelect, memVars
<1>7. ASSUME NEW p \in Mergers, SupersedeUpdate(p) \/ SupersedeEdge(p) \/ MergerCrash(p)
      PROVE  live' \subseteq live
  BY <1>7 DEF SupersedeUpdate, SupersedeEdge, MergerCrash, memVars
<1> QED BY <1>1, <1>2, <1>3, <1>4, <1>5, <1>6, <1>7 DEF Next

LEMMA WholeStays ==
  ASSUME MemInv, Next, NEW d \in live \cap live', Whole(d)
  PROVE  Whole(d)'
<1> SUFFICES ASSUME NEW k \in DOMAIN Items[d] PROVE Has(d, k)'
  BY DEF Whole
<1>1. Has(d, k)
  BY DEF Whole
<1> QED BY <1>1, RowsStay

\* Only mark_status of a worker that is done with a document marks it done.
LEMMA MarkedDone ==
  ASSUME MemInv, Next, NEW d \in live, queue'[d] = "done", queue[d] # "done"
  PROVE  \E w \in Workers : pc[w] = "done" /\ d = Head(batch[w])
<1>0. queue \in [Docs -> Statuses] /\ d \in Docs
  BY MemAssumption DEF MemInv, TypeOK, Docs
<1>1. CASE UNCHANGED queue
  BY <1>1
<1>2. ASSUME Put PROVE FALSE
  BY <1>0, <1>2 DEF Put, PutDoc
<1>3. ASSUME NEW e \in Docs, Delete(e) PROVE FALSE
  BY <1>0, <1>3 DEF Delete, DeleteDoc
<1>4. ASSUME NEW e \in Docs, NEW old \in Targets, Promote(e, old) PROVE FALSE
  BY <1>0, <1>4 DEF Promote, PromoteDoc
<1>5. ASSUME NEW w \in Workers, MarkStatus(w) PROVE pc[w] = "done" /\ d = Head(batch[w])
  BY <1>0, <1>5 DEF MarkStatus, SetStatus
<1>6. ASSUME NEW w \in Workers, WorkerStep(w) \/ WorkerCrash(w), ~MarkStatus(w) PROVE UNCHANGED queue
  BY <1>6 DEF WorkerStep, StartPass, EndPass, ReadText, LookUpEntity, InsertEntity, WriteItem,
              WorkerCrash, memVars
<1>7. ASSUME NEW e \in Docs, NEW old \in Targets, EvolveInsert(e, old) PROVE UNCHANGED queue
  BY <1>7 DEF EvolveInsert
<1>8. ASSUME CompactStart \/ EvolveSelect PROVE UNCHANGED queue
  BY <1>8 DEF CompactStart, EvolveSelect, memVars
<1>9. ASSUME NEW p \in Mergers, SupersedeUpdate(p) \/ SupersedeEdge(p) \/ MergerCrash(p)
      PROVE  UNCHANGED queue
  BY <1>9 DEF SupersedeUpdate, SupersedeEdge, MergerCrash, memVars
<1> QED BY <1>1, <1>2, <1>3, <1>4, <1>5, <1>6, <1>7, <1>8, <1>9 DEF Next

\* What a worker has written stays written while it stands where it is.
LEMMA WrittenStays ==
  ASSUME MemInv, Next, NEW w \in Workers, Written(w),
         pc'[w] = pc[w], batch'[w] = batch[w], item'[w] = item[w]
  PROVE  Written(w)'
<1>1. PICK d : d = Head(batch[w])
  OBVIOUS
<1>2. CASE pc[w] \notin AtDocument
  BY <1>2 DEF Written, AtDocument
<1>3. CASE pc[w] \in AtDocument /\ d \in live'
  <2>1. d \in Docs /\ d <= lastDoc
    <3>1. /\ batch[w] # <<>> /\ batch[w] \in Seq(Docs)
          /\ \A i \in DOMAIN batch[w] : batch[w][i] <= lastDoc
      BY <1>3 DEF MemInv, WorkersTyped
    <3>2. 1 \in DOMAIN batch[w] /\ d = batch[w][1] /\ d \in Docs
      BY <1>1, <3>1
    <3> QED BY <3>1, <3>2
  <2>2. d # lastDoc + 1
    BY <2>1, MemAssumption DEF Docs, MemInv, TypeOK
  <2>3. d \in live \cap live'
    BY <1>3, <2>2, NewDocuments
  <2>4. Whole(d) => Whole(d)'
    BY <2>3, WholeStays
  <2>5. \A k : Has(d, k) => Has(d, k)'
    BY <2>3, RowsStay
  <2> QED BY <1>1, <2>3, <2>4, <2>5 DEF Written
<1>4. CASE d \notin live'
  BY <1>1, <1>4 DEF Written
<1> QED BY <1>2, <1>3, <1>4

LEMMA WorkerWrites ==
  ASSUME MemInv, DoneInv, NEW w \in Workers, WorkerStep(w) \/ WorkerCrash(w)
  PROVE  Written(w)'
<1>0. /\ pc \in [Workers -> Labels] /\ batch \in [Workers -> Seq(Docs)] /\ item \in [Workers -> Nat]
      /\ Written(w) /\ TypeOK
  BY DEF MemInv, WorkersTyped, DoneInv
<1>1. PICK d, n : d = Head(batch[w]) /\ n = item[w]
  OBVIOUS
<1>2. Next /\ live' = live
  BY DEF Next, WorkerStep, StartPass, EndPass, ReadText, LookUpEntity, InsertEntity, WriteItem,
         MarkStatus, WorkerCrash, memVars
<1>3. ASSUME pc'[w] \in {"idle", "next", "error", "skipped"} PROVE Written(w)'
  BY <1>3 DEF Written
<1>4. ASSUME AbortPass(w) PROVE pc'[w] = "idle"
  BY <1>0, <1>4 DEF AbortPass
<1>5. CASE StartPass(w) \/ EndPass(w) \/ MarkStatus(w) \/ WorkerCrash(w)
  <2>1. pc'[w] \in {"idle", "next"}
    BY <1>0, <1>4, <1>5 DEF StartPass, EndPass, MarkStatus, WorkerCrash
  <2> QED BY <1>3, <2>1
<1>6. ASSUME batch[w] # <<>>
      PROVE  d \in Docs /\ n \in Nat /\ Items[d] \in Seq(Names \cup {NoName})
  <2>1. d \in Docs /\ n \in Nat
    BY <1>0, <1>1, <1>6
  <2> QED BY <2>1, ExtractionAssumption
<1>7. CASE ReadText(w)
  <2>1. /\ pc'[w] \in {"skipped", "item", "error"} /\ item'[w] = 1 /\ batch'[w] = batch[w]
        /\ batch[w] # <<>>
    BY <1>0, <1>7 DEF ReadText
  <2>2. \A k \in DOMAIN Items[d] : ~(k < 1)
    BY <1>6, <2>1
  <2> QED BY <1>1, <2>1, <2>2 DEF Written
<1>8. ASSUME pc[w] \in {"item", "entity", "put"} PROVE batch[w] # <<>>
  BY <1>8 DEF MemInv, WorkersTyped, AtDocument
<1>9. CASE LookUpEntity(w)
  <2>1. /\ pc[w] = "item" /\ item'[w] = n /\ batch'[w] = batch[w] /\ mems' = mems
        /\ (pc'[w] = "done" /\ n > Len(Items[d])) \/ pc'[w] \in {"put", "entity"}
    BY <1>0, <1>1, <1>9 DEF LookUpEntity, memVars
  <2>2. n > Len(Items[d]) => \A k \in DOMAIN Items[d] : k < n
    BY <1>6, <1>8, <2>1
  <2>3. \A k : Has(d, k) => Has(d, k)'
    BY <2>1 DEF Has
  <2>4. d \in live => \A k \in DOMAIN Items[d] : k < n => Has(d, k)'
    BY <1>0, <1>1, <2>1, <2>3 DEF Written
  <2>5. d \in live /\ pc'[w] = "done" => Whole(d)'
    BY <2>1, <2>2, <2>4 DEF Whole
  <2> QED BY <1>1, <1>2, <2>1, <2>4, <2>5 DEF Written
<1>10. CASE InsertEntity(w) /\ ~AbortPass(w)
  <2>1. /\ pc[w] = "entity" /\ pc'[w] = "put" /\ item'[w] = n /\ batch'[w] = batch[w]
        /\ mems' = mems
    BY <1>0, <1>1, <1>10 DEF InsertEntity
  <2>2. \A k : Has(d, k) => Has(d, k)'
    BY <2>1 DEF Has
  <2> QED BY <1>0, <1>1, <1>2, <2>1, <2>2 DEF Written
<1>11. CASE WriteItem(w) /\ ~AbortPass(w)
  <2>1. /\ pc[w] = "put" /\ pc'[w] = "item" /\ item'[w] = n + 1 /\ batch'[w] = batch[w]
        /\ mems' = WithMemory(mems, NextMem, NewRow(d, "fact", Items[d][n], n))
        /\ d \in live
    BY <1>0, <1>1, <1>11 DEF WriteItem
  <2>2. DOMAIN mems' = DOMAIN mems \cup {NextMem}
    BY <2>1 DEF WithMemory
  <2>3. mems'[NextMem].doc = d /\ mems'[NextMem].item = n
    BY <2>1 DEF WithMemory, NewRow
  <2>4. Has(d, n)'
    BY <2>2, <2>3 DEF Has
  <2>5. \A k : Has(d, k) => Has(d, k)'
    BY <1>2, <2>1, RowsStay
  <2>6. \A k \in DOMAIN Items[d] : k < n + 1 => k < n \/ k = n
    BY <1>6, <1>8, <2>1
  <2>7. \A k \in DOMAIN Items[d] : k < n => Has(d, k)
    BY <1>0, <1>1, <2>1 DEF Written
  <2>8. \A k \in DOMAIN Items[d] : k < n + 1 => Has(d, k)'
    BY <2>4, <2>5, <2>6, <2>7
  <2> QED BY <1>1, <2>1, <2>8 DEF Written
<1>12. CASE AbortPass(w)
  BY <1>3, <1>4, <1>12
<1> QED BY <1>5, <1>7, <1>9, <1>10, <1>11, <1>12 DEF WorkerStep

LEMMA DoneInvStep ==
  ASSUME MemInv, DoneInv, Next
  PROVE  DoneInv'
<1>1. ASSUME NEW d \in live', queue'[d] = "done" PROVE Whole(d)'
  <2>1. d \in live
    BY <1>1, NewDocuments
  <2>2. Whole(d)
    <3>1. CASE queue[d] = "done"
      BY <2>1, <3>1 DEF DoneInv
    <3>2. CASE queue[d] # "done"
      <4>1. PICK w \in Workers : pc[w] = "done" /\ d = Head(batch[w])
        BY <1>1, <2>1, <3>2, MarkedDone
      <4> QED BY <2>1, <4>1 DEF DoneInv, Written
    <3> QED BY <3>1, <3>2
  <2> QED BY <2>1, <2>2, WholeStays
<1>2. ASSUME NEW w \in Workers PROVE Written(w)'
  <2>0. Written(w) /\ w \in DOMAIN pc /\ w \in DOMAIN batch /\ w \in DOMAIN item
    BY DEF DoneInv, MemInv, WorkersTyped
  <2>1. ASSUME pc'[w] = pc[w] /\ batch'[w] = batch[w] /\ item'[w] = item[w] PROVE Written(w)'
    BY <2>0, <2>1, WrittenStays
  <2>2. CASE UNCHANGED workVars
    BY <2>1, <2>2 DEF workVars
  <2>3. ASSUME NEW v \in Workers, WorkerStep(v) \/ WorkerCrash(v) PROVE Written(w)'
    <3>1. CASE v = w
      BY <2>3, <3>1, WorkerWrites
    <3>2. CASE v # w
      <4>1. pc'[w] = pc[w] /\ batch'[w] = batch[w] /\ item'[w] = item[w]
        BY <2>0, <2>3, <3>2
           DEF WorkerStep, StartPass, EndPass, ReadText, LookUpEntity, InsertEntity, WriteItem,
               MarkStatus, WorkerCrash, AbortPass
      <4> QED BY <2>1, <4>1
    <3> QED BY <3>1, <3>2
  <2>4. ASSUME Put PROVE UNCHANGED workVars
    BY <2>4 DEF Put, Client
  <2>5. ASSUME NEW d \in Docs, Delete(d) PROVE UNCHANGED workVars
    BY <2>5 DEF Delete, Client
  <2>6. ASSUME NEW d \in Docs, NEW old \in Targets, Promote(d, old) \/ EvolveInsert(d, old)
        PROVE  UNCHANGED workVars
    BY <2>6 DEF Promote, Client, EvolveInsert
  <2>7. ASSUME CompactStart \/ EvolveSelect PROVE UNCHANGED workVars
    BY <2>7 DEF CompactStart, EvolveSelect
  <2>8. ASSUME NEW p \in Mergers, SupersedeUpdate(p) \/ SupersedeEdge(p) \/ MergerCrash(p)
        PROVE  UNCHANGED workVars
    BY <2>8 DEF SupersedeUpdate, SupersedeEdge, MergerCrash
  <2> QED BY <2>2, <2>3, <2>4, <2>5, <2>6, <2>7, <2>8 DEF Next
<1> QED BY <1>1, <1>2 DEF DoneInv

\* A document run_once has marked done has a memory for every item extracted
\* from it, for any number of workers that pop the same documents, abort,
\* crash and race with promotions, deletes and mergers.
THEOREM ExtractionIsWhole == Spec => []DoneMeansExtracted
<1>1. Init => DoneInv
  BY DEF Init, MemInit, DoneInv, Written
<1>2. MemInv /\ DoneInv /\ [Next]_vars => DoneInv'
  <2> SUFFICES ASSUME MemInv, DoneInv, [Next]_vars PROVE DoneInv'
    OBVIOUS
  <2>1. CASE UNCHANGED vars
    BY <2>1 DEF DoneInv, Written, Whole, Has, vars, memVars, workVars
  <2> QED BY <2>1, DoneInvStep
<1>3. DoneInv => DoneMeansExtracted
  BY DEF DoneInv, Whole, Has, DoneMeansExtracted
<1> QED BY <1>1, <1>2, <1>3, MemInvAlways, PTL DEF Spec

-----------------------------------------------------------------------------
(* The queue                                                               *)

\* Any change of one queue row that does not make a finished document wait
\* again is a step of the work queue.
LEMMA QueueMoves ==
  ASSUME queue \in [Docs -> Statuses], NEW d \in Docs, NEW s \in Statuses,
         queue' = [queue EXCEPT ![d] = s],
         s = "pending" => queue[d] \in {"none", "pending"}
  PROVE  WQ!Next \/ UNCHANGED WQ!queueVars
<1> DEFINE W == {e \in Docs : queue[e] = "pending"}
           F == {e \in Docs : queue[e] \notin {"none", "pending"}}
           V == {e \in Docs : queue'[e] = "pending"}
           G == {e \in Docs : queue'[e] \notin {"none", "pending"}}
<1>1. queue'[d] = s /\ \A e \in Docs : e # d => queue'[e] = queue[e]
  OBVIOUS
<1>2. CASE s = "none"
  <2>1. V = W \ {d} /\ G = F \ {d}
    BY <1>1, <1>2
  <2>2. CASE d \in W \cup F
    <3>1. WQ!Withdraw(d)
      BY <2>1, <2>2 DEF WQ!Withdraw
    <3> QED BY <3>1 DEF WQ!Next
  <2>3. CASE d \notin W \cup F
    <3>1. V = W /\ G = F
      BY <2>1, <2>3
    <3> QED BY <3>1 DEF WQ!queueVars
  <2> QED BY <2>2, <2>3
<1>3. CASE s = "pending" /\ queue[d] = "none"
  <2>1. V = W \cup {d} /\ G = F /\ d \notin W \cup F
    BY <1>1, <1>3
  <2>2. WQ!Submit(d)
    BY <2>1 DEF WQ!Submit
  <2> QED BY <2>2 DEF WQ!Next
<1>4. CASE s = queue[d] \/ (s \notin {"none", "pending"} /\ d \in F)
  <2>1. V = W /\ G = F
    BY <1>1, <1>4
  <2> QED BY <2>1 DEF WQ!queueVars
<1>5. CASE s \notin {"none", "pending"} /\ d \notin F
  <2>1. V = W \ {d} /\ G = F \cup {d}
    BY <1>1, <1>5
  <2>2. WQ!Finish(d)
    BY <1>5, <2>1 DEF WQ!Finish
  <2> QED BY <2>2 DEF WQ!Next
<1> QED BY <1>2, <1>3, <1>4, <1>5

\* The safety half of QueueDrains: no document is finished twice, and none
\* waits again after it was finished, whatever the workers, clients and
\* crashes do.
THEOREM QueueIsOnce == Spec => WQ!Init /\ [][WQ!Next]_(WQ!queueVars)
<1>1. Init => WQ!Init
  BY DEF Init, MemInit, WQ!Init
<1>2. MemInv /\ [Next]_vars => [WQ!Next]_(WQ!queueVars)
  <2> SUFFICES ASSUME MemInv, [Next]_vars PROVE WQ!Next \/ UNCHANGED WQ!queueVars
    OBVIOUS
  <2>0. queue \in [Docs -> Statuses] /\ Docs = 1..MaxDoc /\ lastDoc \in 0..MaxDoc /\ MaxDoc \in Nat
    BY MemAssumption DEF MemInv, TypeOK, Docs
  <2>1. ASSUME UNCHANGED queue PROVE UNCHANGED WQ!queueVars
    BY <2>1 DEF WQ!queueVars
  <2>2. ASSUME Put PROVE WQ!Next \/ UNCHANGED WQ!queueVars
    <3>1. PICK cut \in {FALSE, "cut" \in Ops} : PutDoc(cut)
      BY <2>2 DEF Put
    <3>2. /\ lastDoc < MaxDoc
          /\ queue' = queue \/ queue' = [queue EXCEPT ![lastDoc + 1] = "pending"]
      BY <3>1 DEF PutDoc
    <3>3. lastDoc + 1 \in Docs /\ queue[lastDoc + 1] = "none"
      BY <2>0, <3>2 DEF MemInv
    <3> QED BY <2>0, <2>1, <3>2, <3>3, QueueMoves DEF Statuses
  <2>3. ASSUME NEW d \in Docs, Delete(d) PROVE WQ!Next \/ UNCHANGED WQ!queueVars
    BY <2>0, <2>3, QueueMoves DEF Delete, DeleteDoc, Statuses
  <2>4. ASSUME NEW d \in Docs, NEW old \in Targets, Promote(d, old)
        PROVE  WQ!Next \/ UNCHANGED WQ!queueVars
    BY <2>0, <2>4, QueueMoves DEF Promote, PromoteDoc, Statuses
  <2>5. ASSUME NEW w \in Workers, MarkStatus(w) PROVE WQ!Next \/ UNCHANGED WQ!queueVars
    <3>1. PICK d, s : d = Head(batch[w]) /\ s = pc[w]
      OBVIOUS
    <3>2. batch[w] \in Seq(Docs) /\ batch[w] # <<>> /\ s \in {"done", "error", "skipped"}
      BY <2>5, <3>1 DEF MemInv, WorkersTyped, AtDocument, MarkStatus
    <3>3. d \in Docs
      BY <3>1, <3>2
    <3>4. queue' = queue \/ queue' = [queue EXCEPT ![d] = s]
      BY <2>5, <3>1 DEF MarkStatus, SetStatus
    <3>5. s \in Statuses /\ s # "pending"
      BY <3>2 DEF Statuses
    <3> QED BY <2>0, <2>1, <3>3, <3>4, <3>5, QueueMoves
  <2>6. ASSUME NEW w \in Workers, WorkerStep(w) \/ WorkerCrash(w), ~MarkStatus(w)
        PROVE  UNCHANGED queue
    BY <2>6 DEF WorkerStep, StartPass, EndPass, ReadText, LookUpEntity, InsertEntity, WriteItem,
                WorkerCrash, memVars
  <2>7. ASSUME NEW d \in Docs, NEW old \in Targets, EvolveInsert(d, old) PROVE UNCHANGED queue
    BY <2>7 DEF EvolveInsert
  <2>8. ASSUME CompactStart \/ EvolveSelect PROVE UNCHANGED queue
    BY <2>8 DEF CompactStart, EvolveSelect, memVars
  <2>9. ASSUME NEW p \in Mergers, SupersedeUpdate(p) \/ SupersedeEdge(p) \/ MergerCrash(p)
        PROVE  UNCHANGED queue
    BY <2>9 DEF SupersedeUpdate, SupersedeEdge, MergerCrash, memVars
  <2>10. ASSUME UNCHANGED vars PROVE UNCHANGED queue
    BY <2>10 DEF vars, memVars
  <2> QED BY <2>1, <2>2, <2>3, <2>4, <2>5, <2>6, <2>7, <2>8, <2>9, <2>10 DEF Next
<1> QED BY <1>1, <1>2, MemInvAlways, PTL DEF Spec
=============================================================================
