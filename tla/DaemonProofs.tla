---------------------------- MODULE DaemonProofs ----------------------------
(***************************************************************************)
(* Proofs about Daemon, for any number of connections, queries, documents, *)
(* batches and other processes.                                            *)
(***************************************************************************)
EXTENDS Daemon, NumberFacts

\* Every set of ids is finite.
LEMMA IdSetCardinality ==
  ASSUME NEW S, S \subseteq Ids
  PROVE  IsFiniteSet(S) /\ Cardinality(S) \in 0..MaxId
  BY PartOfInterval, BrainAssumption DEF Ids

\* Two sets of ids without a common one.
LEMMA DisjointCount ==
  ASSUME NEW S, NEW T, S \subseteq Ids, T \subseteq Ids, S \cap T = {}
  PROVE  /\ Cardinality(S \cup T) = Cardinality(S) + Cardinality(T)
         /\ Cardinality(S) \in Nat /\ Cardinality(T) \in Nat
  BY DisjointParts, BrainAssumption DEF Ids

\* A single put is the batch of one request.
LEMMA OneIsABatch ==
  ASSUME NEW r \in PutRequest
  PROVE  <<r>> \in Batches
<1>1. <<r>> \in [1..1 -> PutRequest]
  OBVIOUS
<1>2. 1 \in 1..MaxBatch
  BY BrainAssumption
<1> QED BY <1>1, <1>2 DEF Batches

-----------------------------------------------------------------------------
(* What a put does to the tables                                           *)

\* The transaction of a put or a batch, position by position: the fresh rows
\* get the ids after seq in batch order, the others the id of the row or of
\* the earlier position that holds their text, and no other row changes.
InsertEffect(rs, ids) ==
    /\ ids \in [DOMAIN rs -> Ids]
    /\ seq <= seq' /\ seq' \in 0..MaxId
    /\ \A k \in Fresh(rs) : /\ k \in DOMAIN rs
                            /\ ids[k] > seq /\ ids[k] <= seq'
                            /\ docs'[ids[k]] = rs[k].text
                            /\ vecs'[ids[k]] = rs[k].vec
    /\ \A j, k \in Fresh(rs) : j < k => ids[j] < ids[k]
    /\ \A i \in Ids : i > seq /\ i <= seq' => \E k \in Fresh(rs) : ids[k] = i
    /\ \A i \in Ids : ~(i > seq /\ i <= seq') => docs'[i] = docs[i] /\ vecs'[i] = vecs[i]
    /\ \A k \in DOMAIN rs \ Fresh(rs) :
          \/ docs[ids[k]] = rs[k].text
          \/ \E j \in Fresh(rs) : j < k /\ ids[j] = ids[k]

\* The first position that holds a text nobody has stored is fresh.
LEMMA FirstIsFresh ==
  ASSUME NEW rs \in Batches, NEW k \in DOMAIN rs, ~Stored(rs[k].text)
  PROVE  \E j \in Fresh(rs) : j <= k /\ rs[j].text = rs[k].text
<1> DEFINE T == {j \in DOMAIN rs : rs[j].text = rs[k].text}
<1>1. PICK m \in 1..MaxBatch : rs \in [1..m -> PutRequest]
  BY DEF Batches
<1>2. DOMAIN rs = 1..m /\ m \in Nat
  BY <1>1, BrainAssumption
<1>3. T \subseteq Nat /\ k \in T
  BY <1>2
<1>4. PICK j \in T : \A i \in T : j <= i
  BY <1>3, LeastNat
<1>5. j \in 1..m /\ j <= k /\ rs[j].text = rs[k].text
  BY <1>2, <1>3, <1>4
<1>6. \A i \in 1..(j - 1) : rs[i].text # rs[j].text
  <2> SUFFICES ASSUME NEW i \in 1..(j - 1), rs[i].text = rs[j].text PROVE FALSE
    OBVIOUS
  <2>1. i \in 1..m /\ i < j
    BY <1>2, <1>5
  <2>2. i \in T
    BY <1>2, <1>5, <2>1
  <2> QED BY <1>2, <1>4, <1>5, <2>1, <2>2
<1>7. j \in Fresh(rs)
  BY <1>2, <1>5, <1>6 DEF Fresh
<1> QED BY <1>5, <1>7

\* Two fresh positions hold two texts.
LEMMA FreshDiffer ==
  ASSUME NEW rs \in Batches, NEW j \in Fresh(rs), NEW k \in Fresh(rs),
         rs[j].text = rs[k].text
  PROVE  j = k
<1>1. PICK m \in 1..MaxBatch : rs \in [1..m -> PutRequest]
  BY DEF Batches
<1>2. j \in 1..m /\ k \in 1..m /\ m \in Nat
  BY <1>1, BrainAssumption DEF Fresh
<1>3. ~(j < k) /\ ~(k < j)
  BY <1>2 DEF Fresh
<1> QED BY <1>2, <1>3

\* What Store::put and put_batch return and do.
LEMMA InsertRowsEffect ==
  ASSUME B!BrainType, NEW rs \in Batches, InsertRows(rs)
  PROVE  InsertEffect(rs, IdsOf(rs)) /\ B!BrainType'
<1> DEFINE F == Fresh(rs)
           ids == IdsOf(rs)
           last == seq + Cardinality(F)
           RowOf(i) == CHOOSE k \in F : NewId(rs, k) = i
<1>1. PICK m \in 1..MaxBatch : rs \in [1..m -> PutRequest]
  BY DEF Batches
<1>2. DOMAIN rs = 1..m /\ m \in Nat /\ F \subseteq 1..m
  BY <1>1, BrainAssumption DEF Fresh
<1>3. /\ docs \in [Ids -> Texts \cup {NoText}] /\ vecs \in [Ids -> Vecs \cup {NoVec}]
      /\ seq \in 0..MaxId /\ MaxId \in Nat
  BY BrainAssumption DEF B!BrainType, B!Ids, Ids
<1>4. /\ last <= MaxId
      /\ docs' = [i \in Ids |-> IF i > seq /\ i <= last THEN rs[RowOf(i)].text ELSE docs[i]]
      /\ vecs' = [i \in Ids |-> IF i > seq /\ i <= last THEN rs[RowOf(i)].vec ELSE vecs[i]]
      /\ seq' = last
  BY Zenon DEF InsertRows
<1>5. \A k : NewId(rs, k) = seq + Rank(F, k)
  BY DEF NewId, Rank, Upto
<1> HIDE DEF F
<1>6. /\ Cardinality(F) \in 0..m
      /\ \A k \in F : Rank(F, k) \in 1..Cardinality(F)
      /\ \A j, k \in F : j < k => Rank(F, j) < Rank(F, k)
      /\ \A r \in 1..Cardinality(F) : \E k \in F : Rank(F, k) = r
  BY <1>2, RankFacts
<1>7. last \in 0..MaxId /\ seq <= last
  BY <1>2, <1>3, <1>4, <1>6
<1>8. \A k \in F : NewId(rs, k) \in Nat /\ NewId(rs, k) > seq /\ NewId(rs, k) <= last
  BY <1>2, <1>3, <1>5, <1>6
<1>9. \A j, k \in F : j < k => NewId(rs, j) < NewId(rs, k)
  <2> SUFFICES ASSUME NEW j \in F, NEW k \in F, j < k PROVE NewId(rs, j) < NewId(rs, k)
    OBVIOUS
  <2>1. Rank(F, j) \in Nat /\ Rank(F, k) \in Nat /\ Rank(F, j) < Rank(F, k)
    BY <1>2, <1>6
  <2> QED BY <1>3, <1>5, <2>1
<1>10. \A j, k \in F : NewId(rs, j) = NewId(rs, k) => j = k
  <2> SUFFICES ASSUME NEW j \in F, NEW k \in F, NewId(rs, j) = NewId(rs, k), j # k PROVE FALSE
    OBVIOUS
  <2>1. j < k \/ k < j
    BY <1>2
  <2> QED BY <1>8, <1>9, <2>1
<1>11. \A k \in F : NewId(rs, k) \in Ids /\ RowOf(NewId(rs, k)) = k
  BY <1>3, <1>7, <1>8, <1>10 DEF Ids
<1>12. ASSUME NEW i \in Ids, i > seq, i <= last PROVE \E k \in F : NewId(rs, k) = i
  <2>1. i - seq \in 1..Cardinality(F)
    BY <1>2, <1>3, <1>6, <1>12 DEF Ids
  <2>2. PICK k \in F : Rank(F, k) = i - seq
    BY <1>6, <2>1
  <2>3. seq + (i - seq) = i
    BY <1>3 DEF Ids
  <2> QED BY <1>5, <2>2, <2>3
<1>13. ASSUME NEW k \in F PROVE k \in DOMAIN rs /\ ids[k] = NewId(rs, k)
  <2>1. k \in DOMAIN rs /\ ~Stored(rs[k].text)
    BY DEF F, Fresh
  <2>2. (CHOOSE j \in F : rs[j].text = rs[k].text) = k
    <3>1. \A j \in F : rs[j].text = rs[k].text => j = k
      BY FreshDiffer DEF F
    <3> QED BY <3>1
  <2> QED BY <2>1, <2>2, Zenon DEF IdsOf, F
<1>14. ASSUME NEW k \in DOMAIN rs, k \notin F
       PROVE  /\ ids[k] \in Ids
              /\ \/ docs[ids[k]] = rs[k].text
                 \/ \E j \in F : j < k /\ ids[j] = ids[k]
  <2>1. CASE Stored(rs[k].text)
    <3>1. ids[k] = CHOOSE i \in Ids : docs[i] = rs[k].text
      BY <2>1, Zenon DEF IdsOf
    <3>2. \E i \in Ids : docs[i] = rs[k].text
      BY <2>1 DEF Stored
    <3> QED BY <3>1, <3>2
  <2>2. CASE ~Stored(rs[k].text)
    <3>1. PICK j \in F : j <= k /\ rs[j].text = rs[k].text
      BY <2>2, FirstIsFresh DEF F
    <3>2. j < k
      BY <1>2, <1>14, <3>1
    <3>3. (CHOOSE h \in F : rs[h].text = rs[k].text) = j
      <4>1. \A h \in F : rs[h].text = rs[k].text => h = j
        BY <3>1, FreshDiffer DEF F
      <4> QED BY <3>1, <4>1
    <3>4. ids[k] = NewId(rs, j)
      BY <2>2, <3>3, Zenon DEF IdsOf, F
    <3> QED BY <1>11, <1>13, <3>2, <3>4
  <2> QED BY <2>1, <2>2
<1>15. ids \in [DOMAIN rs -> Ids]
  <2>1. \A k \in DOMAIN rs : ids[k] \in Ids
    BY <1>11, <1>13, <1>14
  <2>2. ids = [k \in DOMAIN rs |-> ids[k]]
    BY DEF IdsOf
  <2> HIDE DEF ids
  <2> QED BY <2>1, <2>2
<1> HIDE DEF ids, RowOf
<1>16. ASSUME NEW k \in F
       PROVE  /\ ids[k] > seq /\ ids[k] <= seq'
              /\ docs'[ids[k]] = rs[k].text /\ vecs'[ids[k]] = rs[k].vec
  BY <1>4, <1>8, <1>11, <1>13
<1>17. \A j, k \in F : j < k => ids[j] < ids[k]
  BY <1>9, <1>13
<1>18. \A i \in Ids : i > seq /\ i <= seq' => \E k \in F : ids[k] = i
  BY <1>4, <1>12, <1>13
<1>19. \A i \in Ids : ~(i > seq /\ i <= seq') => docs'[i] = docs[i] /\ vecs'[i] = vecs[i]
  BY <1>4
<1>20. InsertEffect(rs, ids)
  BY <1>4, <1>7, <1>13, <1>14, <1>15, <1>16, <1>17, <1>18, <1>19 DEF InsertEffect, F
<1>21. \A i \in Ids : docs'[i] \in Texts \cup {NoText} /\ vecs'[i] \in Vecs \cup {NoVec}
  <2> SUFFICES ASSUME NEW i \in Ids
               PROVE  docs'[i] \in Texts \cup {NoText} /\ vecs'[i] \in Vecs \cup {NoVec}
    OBVIOUS
  <2>1. CASE i > seq /\ i <= seq'
    <3>1. PICK k \in F : ids[k] = i
      BY <1>18, <2>1
    <3>2. rs[k].text \in Texts /\ rs[k].vec \in Vecs \cup {NoVec}
      BY <1>1, <1>2 DEF PutRequest
    <3> QED BY <1>16, <3>1, <3>2
  <2>2. CASE ~(i > seq /\ i <= seq')
    BY <1>3, <1>19, <2>2
  <2> QED BY <2>1, <2>2
<1>22. B!BrainType'
  <2>1. docs' = [i \in Ids |-> docs'[i]] /\ vecs' = [i \in Ids |-> vecs'[i]]
    BY <1>4
  <2>2. docs' \in [Ids -> Texts \cup {NoText}] /\ vecs' \in [Ids -> Vecs \cup {NoVec}]
    BY <1>21, <2>1
  <2> QED BY <1>4, <1>7, <2>2 DEF B!BrainType, B!Ids, Ids
<1> QED BY <1>20, <1>22 DEF ids
-----------------------------------------------------------------------------
(* Type correctness                                                        *)

Holds(c) == \/ conn[c].pc \in {"max", "store"}
            \/ conn[c].pc \in {"audit", "clear"} /\ conn[c].kind \in {"delete", "merge"}

CacheType ==
    /\ qcache \in [Queries -> (SUBSET Ids) \cup {Unset}]
    /\ seen \in 0..MaxStamp \cup {Unset}
    /\ stats \in [docs : Nat, vecs : Nat, max : 0..MaxId, fresh : BOOLEAN] \cup {Unset}
    /\ hot \in VecTable \cup {NoIndex}
    /\ warm \in [at : {"start", "read", "done"}, table : VecTable]
    /\ qlog \in 0..(QlogFlushAt - 1)
    /\ live \in SUBSET Ids

\* Where the handler of a connection can be with which request: an idle one
\* keeps nothing, only puts carry rows, and the loop over them stays inside.
ControlOf(c) ==
    LET r == conn[c] IN
    /\ r.pc = "idle" => r = Idle
    /\ r.pc \in {"adjust", "hot"} => /\ r.kind \in {"put", "batch", "tx"}
                                     /\ r.rows # <<>>
                                     /\ r.turn \in DOMAIN r.rows
    /\ r.pc = "adjust" => r.turn = 1
    /\ r.pc = "emit" => r.kind \in {"put", "batch"}
    /\ r.pc \notin {"adjust", "hot", "clear", "audit", "emit"} => r.rows = <<>>
    /\ r.kind \in {"delete", "merge"} => r.rows = <<>>
Control == \A c \in Conns : ControlOf(c)

\* The file changes that requests under way will still make fit under the
\* bound: a connection counts while a write of its handler is ahead.
Ahead(c) ==
    \/ conn[c].pc \in {"adjust", "hot", "audit", "lookup", "forget", "get", "query", "log"}
    \/ conn[c].pc = "clear" /\ conn[c].kind \notin {"delete", "merge"}
    \/ conn[c].pc = "emit" /\ conn[c].kind = "batch"
AheadSet == {c \in Conns : Ahead(c)}
StampRoom == stamp \in Nat /\ stamp + Cardinality(AheadSet) <= MaxStamp

\* TypeOK is not inductive: a handler could be at a step its request does not
\* have, or write once more than the bound on stamps allows.
TypeInv == TypeOK /\ Control /\ StampRoom

RowSeqs == {<<>>} \cup UNION {[1..n -> Row] : n \in 1..MaxBatch}

\* The rows of a put are a sequence of 1 to MaxBatch rows.
LEMMA RowsAreASequence ==
  ASSUME NEW rw \in RowSeqs
  PROVE  /\ rw \in Seq(Row)
         /\ DOMAIN rw = 1..Len(rw)
         /\ Len(rw) \in 0..MaxBatch
         /\ rw # <<>> => Len(rw) >= 1
<1>1. CASE rw = <<>>
  BY <1>1, BrainAssumption
<1>2. CASE rw # <<>>
  <2>1. PICK n \in 1..MaxBatch : rw \in [1..n -> Row]
    BY <1>2 DEF RowSeqs
  <2>2. n \in Nat /\ n >= 1
    BY BrainAssumption
  <2>3. Len(rw) = n /\ rw \in Seq(Row)
    BY <2>1, <2>2
  <2> QED BY <2>1, <2>2, <2>3, BrainAssumption
<1> QED BY <1>1, <1>2

\* The fields of a request.
LEMMA RequestFields ==
  ASSUME NEW r \in Request
  PROVE  /\ r.pc \in PcValues /\ r.kind \in Kinds /\ r.rows \in RowSeqs
         /\ r.turn \in 1..MaxBatch /\ r.query \in Queries /\ r.look \in 0..MaxStamp
         /\ r.found \in SUBSET Ids /\ r.count \in Counts
BY DEF Request, RowSeqs

LEMMA IdleIsARequest == Idle \in Request
<1>1. (CHOOSE q \in Queries : TRUE) \in Queries
  BY DaemonAssumption
<1>2. 1 \in 1..MaxBatch /\ 0 \in 0..MaxStamp /\ NoCount \in Counts
  BY BrainAssumption, DaemonAssumption DEF NoCount, Counts
<1> QED BY <1>1, <1>2 DEF Idle, Request, PcValues, Kinds

\* Goto changes the step of one connection, or ends its request.
LEMMA GotoFacts ==
  ASSUME conn \in [Conns -> Request], NEW c \in Conns, NEW l \in PcValues, Goto(c, l)
  PROVE  /\ conn' \in [Conns -> Request]
         /\ conn'[c].pc = l
         /\ l = "idle" => conn'[c] = Idle
         /\ l # "idle" => conn'[c] = [conn[c] EXCEPT !.pc = l]
         /\ \A d \in Conns \ {c} : conn'[d] = conn[d]
<1>1. conn[c] \in Request
  OBVIOUS
<1>2. [conn[c] EXCEPT !.pc = l] \in Request /\ [conn[c] EXCEPT !.pc = l].pc = l
  BY <1>1 DEF Request
<1>3. Idle \in Request /\ Idle.pc = "idle"
  BY IdleIsARequest DEF Idle
<1> HIDE DEF Idle
<1> QED BY <1>2, <1>3 DEF Goto

\* The order of the steps of a request that writes.
LEMMA FollowTable ==
  /\ Follow["put"]["adjust"] = "hot" /\ Follow["batch"]["adjust"] = "hot"
  /\ Follow["tx"]["adjust"] = "hot"
  /\ Follow["put"]["hot"] = "clear" /\ Follow["batch"]["hot"] = "clear"
  /\ Follow["tx"]["hot"] = "clear"
  /\ Follow["put"]["clear"] = "audit" /\ Follow["batch"]["clear"] = "emit"
  /\ Follow["tx"]["clear"] = "audit" /\ Follow["delete"]["clear"] = "idle"
  /\ Follow["merge"]["clear"] = "idle"
  /\ Follow["put"]["audit"] = "emit" /\ Follow["batch"]["audit"] = "idle"
  /\ Follow["tx"]["audit"] = "idle" /\ Follow["delete"]["audit"] = "clear"
  /\ Follow["merge"]["audit"] = "clear"
  /\ Follow["put"]["emit"] = "idle" /\ Follow["batch"]["emit"] = "audit"
BY DEF Follow

\* A step of connection c leaves the others where they are.
Others(c) == \A d \in Conns \ {c} : conn'[d] = conn[d]

\* How a step of one connection moves the stamp, and the room it leaves: it
\* writes nothing, or makes the write that was ahead, or starts a request
\* with a write ahead under the guard Room.
StampStep(c) ==
    \/ stamp' = stamp /\ (Ahead(c)' => Ahead(c))
    \/ stamp' = stamp + 1 /\ Ahead(c) /\ ~Ahead(c)'
    \/ stamp' = stamp /\ Room(1)
    \/ stamp' = stamp + 1 /\ Room(2)

\* The connections that are busy, and those with a write ahead, are finite.
LEMMA AheadFinite ==
  ASSUME Control
  PROVE  /\ IsFiniteSet(AheadSet) /\ Cardinality(AheadSet) \in Nat
         /\ \A n \in Nat : Room(n) /\ stamp \in Nat => stamp + Cardinality(AheadSet) + n <= MaxStamp
<1> DEFINE busy == {c \in Conns : ~At(c, "idle")}
<1>1. busy \subseteq Conns /\ AheadSet \subseteq busy
  BY DEF AheadSet, Ahead, At
<1>2. IsFiniteSet(busy)
  BY <1>1, DaemonAssumption, FS_Subset
<1>3. IsFiniteSet(AheadSet) /\ Cardinality(AheadSet) <= Cardinality(busy)
  BY <1>1, <1>2, FS_Subset
<1>4. Cardinality(AheadSet) \in Nat /\ Cardinality(busy) \in Nat
  BY <1>2, <1>3, FS_CardinalityType
<1>5. ASSUME NEW n \in Nat, Room(n), stamp \in Nat
      PROVE  stamp + Cardinality(AheadSet) + n <= MaxStamp
  <2>1. stamp + Cardinality(busy) + n <= MaxStamp
    BY <1>5 DEF Room
  <2> HIDE DEF busy
  <2> QED BY <1>3, <1>4, <1>5, <2>1, DaemonAssumption
<1> QED BY <1>3, <1>4, <1>5

\* A step of one connection keeps the room for the writes ahead.
LEMMA StampRoomStep ==
  ASSUME Control, StampRoom, NEW c \in Conns, Others(c), StampStep(c)
  PROVE  StampRoom'
<1>1. IsFiniteSet(AheadSet) /\ Cardinality(AheadSet) \in Nat
  BY AheadFinite
<1>2. \A d \in Conns \ {c} : Ahead(d)' <=> Ahead(d)
  BY DEF Others, Ahead
<1>3. AheadSet' \subseteq AheadSet \cup {c}
  BY <1>2 DEF AheadSet
<1>4. IsFiniteSet(AheadSet \cup {c}) /\ Cardinality(AheadSet \cup {c}) <= Cardinality(AheadSet) + 1
  <2>1. /\ IsFiniteSet(AheadSet \cup {c})
        /\ Cardinality(AheadSet \cup {c}) = IF c \in AheadSet THEN Cardinality(AheadSet)
                                            ELSE Cardinality(AheadSet) + 1
    BY <1>1, FS_AddElement, Zenon
  <2> QED BY <1>1, <2>1
<1>5. /\ IsFiniteSet(AheadSet') /\ Cardinality(AheadSet') \in Nat
      /\ Cardinality(AheadSet') <= Cardinality(AheadSet) + 1
  <2>1. IsFiniteSet(AheadSet') /\ Cardinality(AheadSet') <= Cardinality(AheadSet \cup {c})
    BY <1>3, <1>4, FS_Subset
  <2>2. Cardinality(AheadSet') \in Nat /\ Cardinality(AheadSet \cup {c}) \in Nat
    BY <1>4, <2>1, FS_CardinalityType
  <2> QED BY <1>1, <1>4, <2>1, <2>2
<1>6. CASE stamp' = stamp /\ (Ahead(c)' => Ahead(c))
  <2>1. AheadSet' \subseteq AheadSet
    BY <1>2, <1>6 DEF AheadSet
  <2>2. Cardinality(AheadSet') <= Cardinality(AheadSet)
    BY <1>1, <2>1, FS_Subset
  <2> QED BY <1>1, <1>5, <1>6, <2>2, DaemonAssumption DEF StampRoom
<1>7. CASE stamp' = stamp + 1 /\ Ahead(c) /\ ~Ahead(c)'
  <2>1. AheadSet' = AheadSet \ {c} /\ c \in AheadSet
    BY <1>2, <1>7 DEF AheadSet
  <2>2. Cardinality(AheadSet') = Cardinality(AheadSet) - 1
    BY <1>1, <2>1, FS_RemoveElement
  <2> QED BY <1>1, <1>5, <1>7, <2>2, DaemonAssumption DEF StampRoom
<1>8. CASE stamp' = stamp /\ Room(1)
  <2>1. stamp + Cardinality(AheadSet) + 1 <= MaxStamp
    BY <1>8, AheadFinite DEF StampRoom
  <2> QED BY <1>1, <1>5, <1>8, <2>1, DaemonAssumption DEF StampRoom
<1>9. CASE stamp' = stamp + 1 /\ Room(2)
  <2>1. stamp + Cardinality(AheadSet) + 2 <= MaxStamp
    BY <1>9, AheadFinite DEF StampRoom
  <2> QED BY <1>1, <1>5, <1>9, <2>1, DaemonAssumption DEF StampRoom
<1> QED BY <1>6, <1>7, <1>8, <1>9 DEF StampStep

\* What an action of connection c must show to keep TypeInv.
ConnStep(c) ==
    /\ conn' \in [Conns -> Request]
    /\ Others(c)
    /\ ControlOf(c)'
    /\ StampStep(c)
    /\ \/ owner' = owner /\ (Holds(c)' <=> Holds(c))
       \/ owner = Nobody /\ owner' = c /\ Holds(c)'
       \/ owner = c /\ owner' = Nobody /\ ~Holds(c)'

LEMMA ConnStepInv ==
  ASSUME TypeInv, NEW c \in Conns, ConnStep(c),
         B!BrainType', audited' \in SUBSET Ids, up' \in BOOLEAN, hist' \in History, CacheType'
  PROVE  TypeInv'
<1>1. StampRoom'
  BY StampRoomStep DEF TypeInv, ConnStep
<1>2. Control'
  BY DEF TypeInv, ConnStep, Control, ControlOf, Others
<1>3. stamp' \in 0..MaxStamp
  <2>1. Cardinality(AheadSet') \in Nat
    <3>1. AheadSet' \subseteq Conns
      BY DEF AheadSet
    <3>2. IsFiniteSet(AheadSet')
      BY <3>1, DaemonAssumption, FS_Subset
    <3> QED BY <3>2, FS_CardinalityType
  <2> QED BY <1>1, <2>1, DaemonAssumption DEF StampRoom
<1>4. owner \in Conns \cup {Nobody} /\ \A d \in Conns : owner = d <=> Holds(d)
  BY DEF TypeInv, TypeOK, Holds
<1>5. \A d \in Conns \ {c} : Holds(d)' <=> Holds(d)
  BY DEF ConnStep, Others, Holds
<1>6. owner' \in Conns \cup {Nobody} /\ \A d \in Conns : owner' = d <=> Holds(d)'
  <2>1. Nobody \notin Conns
    BY DaemonAssumption
  <2>2. CASE owner' = owner /\ (Holds(c)' <=> Holds(c))
    BY <1>4, <1>5, <2>2
  <2>3. CASE owner = Nobody /\ owner' = c /\ Holds(c)'
    BY <1>4, <1>5, <2>1, <2>3
  <2>4. CASE owner = c /\ owner' = Nobody /\ ~Holds(c)'
    BY <1>4, <1>5, <2>1, <2>4
  <2> QED BY <2>2, <2>3, <2>4 DEF ConnStep
<1>7. TypeOK'
  BY <1>3, <1>6 DEF ConnStep, TypeOK, CacheType, Holds
<1> QED BY <1>1, <1>2, <1>7 DEF TypeInv

\* A step that only moves the handler on.
LEMMA GotoStep ==
  ASSUME TypeInv, NEW c \in Conns, NEW l \in PcValues, Goto(c, l),
         l = "adjust" => conn[c].turn = 1,
         l \in {"adjust", "hot"} => /\ conn[c].kind \in {"put", "batch", "tx"}
                                    /\ conn[c].rows # <<>>
                                    /\ conn[c].turn \in DOMAIN conn[c].rows,
         l = "emit" => conn[c].kind \in {"put", "batch"},
         l \notin {"idle", "adjust", "hot", "clear", "audit", "emit"} => conn[c].rows = <<>>
  PROVE  /\ conn' \in [Conns -> Request] /\ Others(c) /\ ControlOf(c)'
         /\ conn'[c].pc = l
         /\ conn'[c].kind = IF l = "idle" THEN "put" ELSE conn[c].kind
<1>1. conn \in [Conns -> Request] /\ conn[c] \in Request /\ ControlOf(c)
  BY DEF TypeInv, TypeOK, Control
<1>2. /\ conn' \in [Conns -> Request]
      /\ conn'[c].pc = l
      /\ l = "idle" => conn'[c] = Idle
      /\ l # "idle" => conn'[c] = [conn[c] EXCEPT !.pc = l]
      /\ Others(c)
  BY <1>1, GotoFacts DEF Others
<1>3. CASE l = "idle"
  <2>1. Idle.pc = "idle" /\ Idle.kind = "put" /\ Idle.rows = <<>>
    BY DEF Idle
  <2> QED BY <1>2, <1>3, <2>1 DEF ControlOf
<1>4. CASE l # "idle"
  <2>1. /\ conn'[c].pc = l /\ conn'[c].kind = conn[c].kind /\ conn'[c].rows = conn[c].rows
        /\ conn'[c].turn = conn[c].turn
    BY <1>1, <1>2, <1>4 DEF Request
  <2> QED BY <1>1, <1>2, <1>4, <2>1 DEF ControlOf
<1> QED BY <1>3, <1>4

\* The rows of a put that adjust_stats_cache counts.
Passing(s, rw) == {k \in DOMAIN rw : /\ rw[k].id > s.max
                                     /\ \A j \in 1..(k - 1) : rw[j].id < rw[k].id}
Snapshot == [docs : Nat, vecs : Nat, max : 0..MaxId, fresh : BOOLEAN]

\* adjust_stats_cache counts the passing rows and takes the largest id.
LEMMA AdjustedFields ==
  ASSUME NEW s \in Snapshot, NEW rw \in RowSeqs
  PROVE  LET P == Passing(s, rw)
             V == {k \in P : rw[k].vec # NoVec}
             a == Adjusted(s, rw)
         IN  /\ a \in Snapshot
             /\ a.docs = s.docs + Cardinality(P) /\ a.vecs = s.vecs + Cardinality(V)
             /\ a.max >= s.max
             /\ \A k \in DOMAIN rw : rw[k].id <= a.max
             /\ a.max = s.max \/ \E k \in DOMAIN rw : rw[k].id = a.max
             /\ IsFiniteSet(P) /\ Cardinality(P) \in Nat /\ Cardinality(V) \in Nat
<1> DEFINE P == Passing(s, rw)
           tops == {s.max} \cup {rw[k].id : k \in DOMAIN rw}
           V == {k \in P : rw[k].vec # NoVec}
           top == CHOOSE m \in tops : \A i \in tops : i <= m
<1>1. rw \in Seq(Row) /\ DOMAIN rw = 1..Len(rw) /\ Len(rw) \in Nat
  BY RowsAreASequence, BrainAssumption
<1>2. IsFiniteSet(DOMAIN rw)
  BY <1>1, FS_Interval
<1>3. IsFiniteSet(P) /\ Cardinality(P) \in Nat /\ Cardinality(V) \in Nat
  <2>1. P \subseteq DOMAIN rw /\ V \subseteq DOMAIN rw
    BY DEF Passing
  <2>2. IsFiniteSet(P) /\ IsFiniteSet(V)
    BY <1>2, <2>1, FS_Subset
  <2> QED BY <2>2, FS_CardinalityType
<1>4. tops \subseteq 0..MaxId /\ tops # {}
  <2>1. \A k \in DOMAIN rw : rw[k] \in Row
    BY <1>1
  <2>2. \A k \in DOMAIN rw : rw[k].id \in 0..MaxId
    BY <2>1, BrainAssumption DEF Row, Ids
  <2> QED BY <2>2 DEF Snapshot
<1>5. top \in tops /\ \A i \in tops : i <= top
  <2>1. \E m \in tops : \A i \in tops : i <= m
    BY <1>4, GreatestNat, BrainAssumption
  <2> HIDE DEF tops
  <2> QED BY <2>1
<1>6. Adjusted(s, rw) = [docs |-> s.docs + Cardinality(P), vecs |-> s.vecs + Cardinality(V),
                         max |-> top, fresh |-> TRUE]
  BY DEF Adjusted, Passing
<1> HIDE DEF P, V, top
<1>7. Adjusted(s, rw) \in Snapshot
  BY <1>3, <1>4, <1>5, <1>6 DEF Snapshot
<1>8. top >= s.max
  BY <1>4, <1>5
<1> QED BY <1>3, <1>5, <1>6, <1>7, <1>8 DEF P, V

\* update_lifted_ndarray keeps the index an index.
LEMMA HotWithType ==
  ASSUME hot \in VecTable \cup {NoIndex}, NEW r \in Row
  PROVE  HotWith(r) \in VecTable \cup {NoIndex}
BY DEF HotWith, VecTable, Row

\* The rows of a connection are ids.
LEMMA RowIdsAreIds ==
  ASSUME conn \in [Conns -> Request], NEW c \in Conns
  PROVE  RowIds(c) \subseteq Ids
<1>1. conn[c].rows \in RowSeqs
  BY RequestFields
<1>2. conn[c].rows \in Seq(Row) /\ DOMAIN conn[c].rows = 1..Len(conn[c].rows)
  BY <1>1, RowsAreASequence
<1>3. \A k \in DOMAIN conn[c].rows : conn[c].rows[k] \in Row
  BY <1>2
<1> QED BY <1>3 DEF RowIds, Row

\* What the audit of a request leaves, whichever appends fail.
LEMMA AuditFacts ==
  ASSUME NEW c \in Conns, hist \in History, RowIds(c) \subseteq Ids, Audit(c)
  PROVE  /\ hist' \in History
         /\ hist'.foreign = hist.foreign /\ hist'.shrunk = hist.shrunk
         /\ hist'.missed = hist.missed /\ hist'.excused = hist.excused
         /\ hist.warned \subseteq hist'.warned /\ hist.dropped \subseteq hist'.dropped
         /\ audited \subseteq audited' /\ audited' \subseteq audited \cup RowIds(c)
         /\ RowIds(c) \subseteq audited' \cup hist'.warned \cup hist'.dropped
         /\ stamp' \in {stamp, stamp + 1}
<1>1. PICK failed \in SUBSET RowIds(c) :
         /\ audited' = audited \cup (RowIds(c) \ failed)
         /\ stamp' = IF RowIds(c) \subseteq failed THEN stamp ELSE stamp + 1
         /\ hist' = Unwritten(c, failed)
  BY DEF Audit
<1>2. \/ hist' = [hist EXCEPT !.warned = hist.warned \cup failed]
      \/ hist' = [hist EXCEPT !.dropped = hist.dropped \cup failed]
  BY <1>1 DEF Unwritten
<1>3. failed \subseteq Ids
  BY <1>1
<1>4. /\ hist' \in History
      /\ hist'.foreign = hist.foreign /\ hist'.shrunk = hist.shrunk
      /\ hist'.missed = hist.missed /\ hist'.excused = hist.excused
      /\ \/ hist'.warned = hist.warned \cup failed /\ hist'.dropped = hist.dropped
         \/ hist'.warned = hist.warned /\ hist'.dropped = hist.dropped \cup failed
  BY <1>2, <1>3 DEF History
<1> QED BY <1>1, <1>4

\* Every step of a handler keeps the types, its place in the request and the
\* room for the writes ahead.
LEMMA TypeServe ==
  ASSUME TypeInv, NEW c \in Conns, Serve(c)
  PROVE  TypeInv'
<1> DEFINE r == conn[c]
<1>0. /\ conn \in [Conns -> Request] /\ r \in Request /\ ControlOf(c)
      /\ B!BrainType /\ audited \in SUBSET Ids /\ stamp \in Nat /\ up \in BOOLEAN
      /\ hist \in History /\ CacheType /\ (owner = c <=> Holds(c))
  BY DaemonAssumption DEF TypeInv, TypeOK, Control, CacheType, Holds
<1>1. /\ r.pc \in PcValues /\ r.kind \in Kinds /\ r.rows \in RowSeqs /\ r.turn \in 1..MaxBatch
      /\ r.query \in Queries /\ r.look \in 0..MaxStamp /\ r.found \in SUBSET Ids
      /\ r.count \in Counts
  BY <1>0, RequestFields
<1> USE DEF At
<1>2. CASE AdjustStats(c)
  <2>1. r.pc = "adjust" /\ r.kind \in {"put", "batch", "tx"} /\ Goto(c, "hot")
    <3>1. r.pc = "adjust" /\ r.kind \in {"put", "batch", "tx"} /\ Proceed(c)
      BY <1>0, <1>2 DEF AdjustStats, ControlOf
    <3> QED BY <3>1, FollowTable DEF Proceed
  <2>2. /\ conn' \in [Conns -> Request] /\ Others(c) /\ ControlOf(c)'
        /\ conn'[c].pc = "hot" /\ conn'[c].kind = r.kind
    <3>1. "hot" \in PcValues
      BY DEF PcValues
    <3> QED BY <1>0, <2>1, <3>1, GotoStep DEF ControlOf
  <2>3. CacheType'
    <3>1. stats # Unset => Adjusted(stats, conn[c].rows) \in Snapshot
      <4>1. stats # Unset => stats \in Snapshot
        BY <1>0 DEF CacheType, Snapshot
      <4> QED BY <1>1, <4>1, AdjustedFields
    <3> QED BY <1>0, <1>2, <3>1 DEF AdjustStats, CacheType, Snapshot
  <2>4. ConnStep(c)
    BY <1>2, <2>1, <2>2 DEF AdjustStats, ConnStep, StampStep, Ahead, Holds, disk
  <2> QED BY <1>0, <1>2, <2>3, <2>4, ConnStepInv DEF AdjustStats, disk, brain, B!BrainType
<1>3. CASE HotAdd(c)
  <2>1. /\ r.pc = "hot" /\ r.kind \in {"put", "batch", "tx"} /\ r.turn \in DOMAIN r.rows
        /\ r.rows # <<>>
    BY <1>0, <1>3 DEF HotAdd, ControlOf
  <2>2. r.rows[r.turn] \in Row /\ DOMAIN r.rows = 1..Len(r.rows) /\ Len(r.rows) \in 0..MaxBatch
    BY <1>1, <2>1, RowsAreASequence
  <2>3. hist' \in History /\ CacheType'
    <3>1. hist' \in History
      BY <1>0, <1>3, <2>2 DEF HotAdd, History, Row
    <3>2. hot' \in VecTable \cup {NoIndex}
      BY <1>0, <1>3, <2>2, HotWithType DEF HotAdd, CacheType
    <3> QED BY <1>0, <1>3, <3>1, <3>2 DEF HotAdd, CacheType
  <2>4. /\ conn' \in [Conns -> Request] /\ Others(c) /\ ControlOf(c)'
        /\ conn'[c].pc \in {"hot", "clear"} /\ conn'[c].kind = r.kind
    <3>1. CASE r.turn < Len(r.rows)
      <4>1. conn' = [conn EXCEPT ![c].turn = r.turn + 1]
        BY <1>3, <3>1 DEF HotAdd
      <4>2. r.turn + 1 \in 1..MaxBatch /\ r.turn + 1 \in DOMAIN r.rows
        BY <1>1, <2>2, <3>1, BrainAssumption
      <4>3. [r EXCEPT !.turn = r.turn + 1] \in Request
        BY <1>0, <4>2 DEF Request
      <4>4. conn' \in [Conns -> Request] /\ Others(c) /\ conn'[c] = [r EXCEPT !.turn = r.turn + 1]
        BY <1>0, <4>1, <4>3 DEF Others
      <4>5. /\ conn'[c].pc = "hot" /\ conn'[c].kind = r.kind /\ conn'[c].rows = r.rows
            /\ conn'[c].turn = r.turn + 1
        BY <1>0, <2>1, <4>4 DEF Request
      <4> QED BY <2>1, <4>2, <4>4, <4>5 DEF ControlOf
    <3>2. CASE ~(r.turn < Len(r.rows))
      <4>1. Goto(c, "clear") /\ "clear" \in PcValues
        BY <1>3, <2>1, <3>2, FollowTable DEF HotAdd, Proceed, PcValues
      <4> QED BY <1>0, <2>1, <4>1, GotoStep
    <3> QED BY <3>1, <3>2
  <2>5. ConnStep(c)
    BY <1>3, <2>1, <2>4 DEF HotAdd, ConnStep, StampStep, Ahead, Holds, disk
  <2> QED BY <1>0, <1>3, <2>3, <2>5, ConnStepInv DEF HotAdd, disk, brain, B!BrainType
<1>4. CASE ClearCache(c)
  <2>1. r.pc = "clear" /\ Proceed(c)
    BY <1>4 DEF ClearCache
  <2>2. PICK l \in {"audit", "emit", "idle"} :
           /\ Goto(c, l) /\ (l = "emit" => r.kind = "batch")
           /\ (l = "idle" <=> r.kind \in {"delete", "merge"})
    BY <1>1, <2>1, FollowTable DEF Proceed, Kinds
  <2>3. /\ conn' \in [Conns -> Request] /\ Others(c) /\ ControlOf(c)'
        /\ conn'[c].pc = l /\ conn'[c].kind = IF l = "idle" THEN "put" ELSE r.kind
    <3>1. l \in PcValues
      BY DEF PcValues
    <3> QED BY <1>0, <2>2, <3>1, GotoStep
  <2>4. CacheType'
    BY <1>0, <1>4 DEF ClearCache, CacheType, EmptyCache
  <2>5. ConnStep(c)
    BY <1>0, <1>4, <2>1, <2>2, <2>3 DEF ClearCache, ConnStep, StampStep, Ahead, Holds, disk
  <2> QED BY <1>0, <1>4, <2>4, <2>5, ConnStepInv DEF ClearCache, disk, brain, B!BrainType
<1>5. CASE Audit(c)
  <2>0. hist \in History /\ RowIds(c) \subseteq Ids
    BY <1>0, RowIdsAreIds DEF TypeInv, TypeOK
  <2>1. r.pc = "audit" /\ Proceed(c) /\ owner = Nobody /\ stamp' \in {stamp, stamp + 1}
        /\ UNCHANGED <<brain, up, owner, caches>> /\ hist' \in History
        /\ audited' \subseteq audited \cup RowIds(c)
    BY <1>5, <2>0, AuditFacts DEF Audit
  <2>2. r.kind \notin {"delete", "merge"}
    BY <1>0, <2>1, DaemonAssumption DEF Holds
  <2>3. PICK l \in {"emit", "idle"} : Goto(c, l) /\ (l = "emit" => r.kind = "put")
    BY <1>1, <2>1, <2>2, FollowTable DEF Proceed, Kinds
  <2>4. /\ conn' \in [Conns -> Request] /\ Others(c) /\ ControlOf(c)'
        /\ conn'[c].pc = l /\ conn'[c].kind = IF l = "idle" THEN "put" ELSE r.kind
    <3>1. l \in PcValues
      BY DEF PcValues
    <3> QED BY <1>0, <2>3, <3>1, GotoStep
  <2>5. ConnStep(c)
    BY <1>0, <2>1, <2>2, <2>3, <2>4 DEF ConnStep, StampStep, Ahead, Holds
  <2>6. audited' \in SUBSET Ids /\ CacheType'
    BY <1>0, <2>0, <2>1 DEF caches, CacheType
  <2> QED BY <1>0, <2>1, <2>5, <2>6, ConnStepInv DEF brain, B!BrainType
<1>6. CASE Emit(c)
  <2>1. r.pc = "emit" /\ Proceed(c) /\ r.kind \in {"put", "batch"}
    BY <1>0, <1>6 DEF Emit, ControlOf
  <2>2. PICK l \in {"audit", "idle"} : Goto(c, l) /\ (l = "audit" <=> r.kind = "batch")
    BY <2>1, FollowTable DEF Proceed
  <2>3. /\ conn' \in [Conns -> Request] /\ Others(c) /\ ControlOf(c)'
        /\ conn'[c].pc = l /\ conn'[c].kind = IF l = "idle" THEN "put" ELSE r.kind
    <3>1. l \in PcValues
      BY DEF PcValues
    <3> QED BY <1>0, <2>2, <3>1, GotoStep
  <2>4. ConnStep(c)
    BY <1>0, <1>6, <2>1, <2>2, <2>3 DEF Emit, ConnStep, StampStep, Ahead, Holds, disk
  <2>5. CacheType'
    BY <1>0, <1>6, RowIdsAreIds DEF Emit, CacheType
  <2> QED BY <1>0, <1>6, <2>4, <2>5, ConnStepInv DEF Emit, disk, brain, B!BrainType
<1>7. CASE Lookup(c)
  <2>1. r.pc = "lookup" /\ r.rows = <<>>
    BY <1>0, <1>7 DEF Lookup, ControlOf
  <2>2. PICK l \in {"get", "forget"} : conn' = [conn EXCEPT ![c].look = 0, ![c].pc = l]
    BY <1>7 DEF Lookup
  <2>3. l \in PcValues /\ 0 \in 0..MaxStamp
    BY DaemonAssumption DEF PcValues
  <2>4. [r EXCEPT !.look = 0, !.pc = l] \in Request
    BY <1>0, <2>3 DEF Request
  <2>5. /\ conn' \in [Conns -> Request] /\ Others(c)
        /\ conn'[c] = [r EXCEPT !.look = 0, !.pc = l]
    BY <1>0, <2>2, <2>4 DEF Others
  <2>6. /\ conn'[c].pc = l /\ conn'[c].kind = r.kind /\ conn'[c].rows = <<>>
    BY <1>0, <2>1, <2>5 DEF Request
  <2>7. ConnStep(c)
    BY <1>0, <1>7, <2>1, <2>5, <2>6 DEF Lookup, ConnStep, StampStep, Ahead, Holds, disk, ControlOf
  <2>8. CacheType'
    BY <1>0, <1>1, <1>7 DEF Lookup, CacheType
  <2> QED BY <1>0, <1>7, <2>7, <2>8, ConnStepInv DEF Lookup, disk, brain, B!BrainType
<1>8. CASE Forget(c) \/ Get(c)
  <2>1. r.pc \in {"forget", "get"} /\ r.rows = <<>> /\ ~Holds(c)
    BY <1>0, <1>8 DEF Forget, Get, ControlOf, Holds
  <2>2. PICK l \in {"query", "idle"} : Goto(c, l)
    BY <1>8 DEF Forget, Get
  <2>3. /\ conn' \in [Conns -> Request] /\ Others(c) /\ ControlOf(c)' /\ conn'[c].pc = l
    <3>1. l \in PcValues
      BY DEF PcValues
    <3> QED BY <1>0, <2>1, <2>2, <3>1, GotoStep
  <2>4. stamp' = stamp /\ owner' = owner /\ CacheType' /\ UNCHANGED <<brain, audited, up, hist>>
    BY <1>0, <1>8 DEF Forget, Get, disk, caches, CacheType, EmptyCache
  <2>5. ConnStep(c)
    BY <2>1, <2>2, <2>3, <2>4 DEF ConnStep, StampStep, Ahead, Holds
  <2> QED BY <1>0, <2>4, <2>5, ConnStepInv DEF brain, B!BrainType
<1>9. CASE Query(c)
  <2>1. r.pc = "query" /\ r.rows = <<>>
    BY <1>0, <1>9 DEF Query, ControlOf
  <2>2. "log" \in PcValues /\ LiveIds \in SUBSET Ids
    BY DEF PcValues, LiveIds
  <2>3. [r EXCEPT !.pc = "log", !.found = LiveIds] \in Request
    BY <1>0, <2>2 DEF Request
  <2>4. /\ conn' \in [Conns -> Request] /\ Others(c)
        /\ conn'[c] = [r EXCEPT !.pc = "log", !.found = LiveIds]
    BY <1>0, <1>9, <2>3 DEF Query, Others
  <2>5. /\ conn'[c].pc = "log" /\ conn'[c].kind = r.kind /\ conn'[c].rows = <<>>
    BY <1>0, <2>1, <2>4 DEF Request
  <2>6. ConnStep(c)
    BY <1>0, <1>9, <2>1, <2>4, <2>5 DEF Query, ConnStep, StampStep, Ahead, Holds, disk, ControlOf
  <2> QED BY <1>0, <1>9, <2>6, ConnStepInv DEF Query, disk, brain, caches, CacheType, B!BrainType
<1>10. CASE LogQuery(c)
  <2>1. r.pc = "log" /\ r.rows = <<>> /\ Goto(c, "install") /\ "install" \in PcValues
    BY <1>0, <1>10 DEF LogQuery, ControlOf, PcValues
  <2>2. /\ conn' \in [Conns -> Request] /\ Others(c) /\ ControlOf(c)' /\ conn'[c].pc = "install"
    BY <1>0, <2>1, GotoStep
  <2>3. stamp' \in {stamp, stamp + 1} /\ owner' = owner
    BY <1>10 DEF LogQuery, Write
  <2>4. ConnStep(c)
    BY <2>1, <2>2, <2>3 DEF ConnStep, StampStep, Ahead, Holds
  <2>5. qlog' \in 0..(QlogFlushAt - 1)
    BY <1>0, <1>10, DaemonAssumption DEF LogQuery, CacheType
  <2> QED BY <1>0, <1>10, <2>4, <2>5, ConnStepInv DEF LogQuery, brain, CacheType, B!BrainType
<1>11. CASE Install(c)
  <2>1. r.pc = "install" /\ r.rows = <<>> /\ Goto(c, "idle") /\ "idle" \in PcValues
    BY <1>0, <1>11 DEF Install, ControlOf, PcValues
  <2>2. /\ conn' \in [Conns -> Request] /\ Others(c) /\ ControlOf(c)' /\ conn'[c].pc = "idle"
    BY <1>0, <2>1, GotoStep
  <2>3. ConnStep(c)
    BY <1>11, <2>1, <2>2 DEF Install, ConnStep, StampStep, Ahead, Holds, disk
  <2>4. CacheType'
    BY <1>0, <1>1, <1>11 DEF Install, CacheType
  <2> QED BY <1>0, <1>11, <2>3, <2>4, ConnStepInv DEF Install, disk, brain, B!BrainType
<1>12. CASE CountDocs(c)
  <2> DEFINE n == [docs |-> Cardinality(LiveIds), vecs |-> Cardinality(Present(vecs)), max |-> 0]
  <2>1. r.pc = "count" /\ r.rows = <<>> /\ "max" \in PcValues
    BY <1>0, <1>12 DEF CountDocs, ControlOf, PcValues
  <2>2. n \in Counts
    <3>1. Cardinality(LiveIds) \in 0..MaxId /\ Cardinality(Present(vecs)) \in 0..MaxId
      BY IdSetCardinality DEF LiveIds, Present
    <3>2. 0 \in 0..MaxId
      BY BrainAssumption
    <3> QED BY <3>1, <3>2 DEF Counts
  <2>3. conn' = [conn EXCEPT ![c].pc = "max", ![c].count = n]
    BY <1>12 DEF CountDocs
  <2> HIDE DEF n
  <2>4. [r EXCEPT !.pc = "max", !.count = n] \in Request
    BY <1>0, <2>1, <2>2 DEF Request
  <2>5. /\ conn' \in [Conns -> Request] /\ Others(c)
        /\ conn'[c] = [r EXCEPT !.pc = "max", !.count = n]
    BY <1>0, <2>3, <2>4 DEF Others
  <2>6. /\ conn'[c].pc = "max" /\ conn'[c].kind = r.kind /\ conn'[c].rows = <<>>
    BY <1>0, <2>1, <2>5 DEF Request
  <2>7. ControlOf(c)'
    BY <1>0, <2>1, <2>6 DEF ControlOf
  <2>8. ConnStep(c)
    BY <1>12, <2>1, <2>5, <2>6, <2>7 DEF CountDocs, ConnStep, StampStep, Ahead, Holds, disk
  <2> QED BY <1>0, <1>12, <2>8, ConnStepInv
          DEF CountDocs, disk, brain, caches, CacheType, B!BrainType
<1>13. CASE ReadMaxId(c)
  <2>1. r.pc = "max" /\ r.rows = <<>> /\ "store" \in PcValues
    BY <1>0, <1>13 DEF ReadMaxId, ControlOf, PcValues
  <2>2. PICK m \in 0..MaxId : conn' = [conn EXCEPT ![c].pc = "store", ![c].count.max = m]
    <3>1. LiveIds \cup {0} \subseteq 0..MaxId
      BY BrainAssumption DEF LiveIds, Ids
    <3> QED BY <1>13, <3>1 DEF ReadMaxId
  <2>3. [r EXCEPT !.pc = "store", !.count.max = m] \in Request
    BY <1>0, <2>1 DEF Request, Counts
  <2>4. /\ conn' \in [Conns -> Request] /\ Others(c)
        /\ conn'[c] = [r EXCEPT !.pc = "store", !.count.max = m]
    BY <1>0, <2>2, <2>3 DEF Others
  <2>5. /\ conn'[c].pc = "store" /\ conn'[c].kind = r.kind /\ conn'[c].rows = <<>>
    BY <1>0, <2>1, <2>4 DEF Request
  <2>6. ControlOf(c)'
    BY <1>0, <2>1, <2>5 DEF ControlOf
  <2>7. ConnStep(c)
    BY <1>13, <2>1, <2>4, <2>5, <2>6 DEF ReadMaxId, ConnStep, StampStep, Ahead, Holds, disk
  <2> QED BY <1>0, <1>13, <2>7, ConnStepInv
          DEF ReadMaxId, disk, brain, caches, CacheType, B!BrainType
<1>14. CASE StoreStats(c)
  <2>1. r.pc = "store" /\ r.rows = <<>> /\ Goto(c, "idle") /\ "idle" \in PcValues
    BY <1>0, <1>14 DEF StoreStats, ControlOf, PcValues
  <2>2. /\ conn' \in [Conns -> Request] /\ Others(c) /\ ControlOf(c)' /\ conn'[c].pc = "idle"
    BY <1>0, <2>1, GotoStep
  <2>3. owner = c /\ owner' = Nobody
    BY <1>0, <1>14, <2>1 DEF StoreStats, Holds
  <2>4. ConnStep(c)
    BY <1>14, <2>1, <2>2, <2>3 DEF StoreStats, ConnStep, StampStep, Ahead, Holds, disk
  <2>5. stats' \in [docs : Nat, vecs : Nat, max : 0..MaxId, fresh : BOOLEAN]
    BY <1>1, <1>14, BrainAssumption DEF StoreStats, Counts
  <2> QED BY <1>0, <1>14, <2>4, <2>5, ConnStepInv
          DEF StoreStats, disk, brain, CacheType, B!BrainType
<1> QED BY <1>2, <1>3, <1>4, <1>5, <1>6, <1>7, <1>8, <1>9, <1>10, <1>11, <1>12, <1>13, <1>14
        DEF Serve

\* The rows a put carries after its commit.
LEMMA CommittedRows ==
  ASSUME NEW rs \in Batches, NEW ids \in [DOMAIN rs -> Ids]
  PROVE  LET rw == [j \in DOMAIN rs |-> [id |-> ids[j], vec |-> rs[j].vec]]
         IN  rw \in RowSeqs /\ rw # <<>> /\ 1 \in DOMAIN rw
<1> DEFINE rw == [j \in DOMAIN rs |-> [id |-> ids[j], vec |-> rs[j].vec]]
<1>1. PICK m \in 1..MaxBatch : rs \in [1..m -> PutRequest]
  BY DEF Batches
<1>2. \A k \in DOMAIN rs : rw[k] \in Row
  BY <1>1 DEF Row, PutRequest
<1>3. rw \in [1..m -> Row]
  BY <1>1, <1>2
<1>4. DOMAIN rw = 1..m /\ 1 \in 1..m
  BY <1>1, BrainAssumption
<1> HIDE DEF rw
<1>5. rw # <<>>
  BY <1>4
<1> QED BY <1>3, <1>4, <1>5 DEF RowSeqs, rw

\* What the commit of a put leaves on the stack of its handler.
LEMMA PutCommitConn ==
  ASSUME TypeInv, NEW c \in Conns, NEW k \in {"put", "batch", "tx"}, NEW rs \in Batches,
         PutCommit(c, k, rs)
  PROVE  /\ InsertEffect(rs, IdsOf(rs)) /\ B!BrainType'
         /\ conn' \in [Conns -> Request] /\ Others(c)
         /\ conn'[c].pc = "adjust" /\ conn'[c].kind = k /\ conn'[c].turn = 1
         /\ conn'[c].rows = [j \in DOMAIN rs |-> [id |-> IdsOf(rs)[j], vec |-> rs[j].vec]]
         /\ conn'[c].rows \in RowSeqs /\ conn'[c].rows # <<>> /\ 1 \in DOMAIN conn'[c].rows
<1> DEFINE rw == [j \in DOMAIN rs |-> [id |-> IdsOf(rs)[j], vec |-> rs[j].vec]]
           r == [Idle EXCEPT !.pc = "adjust", !.kind = k, !.rows = rw]
<1>1. InsertEffect(rs, IdsOf(rs)) /\ B!BrainType'
  BY InsertRowsEffect DEF PutCommit, TypeInv, TypeOK
<1>2. rw \in RowSeqs /\ rw # <<>> /\ 1 \in DOMAIN rw
  BY <1>1, CommittedRows DEF InsertEffect
<1>3. conn' = [conn EXCEPT ![c] = r]
  BY DEF PutCommit
<1> HIDE DEF rw
<1>4. /\ r \in Request /\ r.pc = "adjust" /\ r.kind = k /\ r.turn = 1 /\ r.rows = rw
  <2>1. "adjust" \in PcValues /\ k \in Kinds
    BY DEF PcValues, Kinds
  <2>2. Idle \in Request /\ Idle.turn = 1
    BY IdleIsARequest DEF Idle
  <2> HIDE DEF Idle
  <2> QED BY <1>2, <2>1, <2>2 DEF Request, RowSeqs
<1> HIDE DEF r
<1>5. conn' \in [Conns -> Request] /\ Others(c) /\ conn'[c] = r
  BY <1>3, <1>4 DEF Others, TypeInv, TypeOK
<1> QED BY <1>1, <1>2, <1>4, <1>5 DEF rw

\* A request that arrives keeps the invariant.
LEMMA TypeReceive ==
  ASSUME TypeInv, NEW c \in Conns, Receive(c)
  PROVE  TypeInv'
<1> DEFINE r == conn[c]
<1>0. /\ conn \in [Conns -> Request] /\ r \in Request /\ ControlOf(c)
      /\ B!BrainType /\ audited \in SUBSET Ids /\ stamp \in 0..MaxStamp /\ up \in BOOLEAN
      /\ hist \in History /\ CacheType /\ (owner = c <=> Holds(c))
  BY DEF TypeInv, TypeOK, Control, CacheType, Holds
<1> USE DEF At
<1>1. ASSUME NEW k \in {"put", "batch", "tx"}, NEW rs \in Batches, PutCommit(c, k, rs)
      PROVE  TypeInv'
  <2>1. /\ B!BrainType'
        /\ conn' \in [Conns -> Request] /\ Others(c)
        /\ conn'[c].pc = "adjust" /\ conn'[c].kind = k /\ conn'[c].turn = 1
        /\ conn'[c].rows # <<>> /\ 1 \in DOMAIN conn'[c].rows
    BY <1>1, PutCommitConn
  <2>2. ControlOf(c)'
    BY <2>1 DEF ControlOf
  <2>3. /\ r.pc = "idle" /\ Room(2) /\ stamp' \in {stamp, stamp + 1} /\ owner' = owner
    BY <1>1 DEF PutCommit
  <2>4. StampStep(c)
    <3>1. Room(2) => Room(1)
      <4>1. {d \in Conns : ~At(d, "idle")} \subseteq Conns
        OBVIOUS
      <4>2. IsFiniteSet({d \in Conns : ~At(d, "idle")})
        BY <4>1, DaemonAssumption, FS_Subset
      <4>3. Cardinality({d \in Conns : ~At(d, "idle")}) \in Nat
        BY <4>2, FS_CardinalityType
      <4> QED BY <1>0, <4>3, DaemonAssumption DEF Room
    <3> QED BY <2>3, <3>1 DEF StampStep
  <2>5. ConnStep(c)
    BY <2>1, <2>2, <2>3, <2>4 DEF ConnStep, Holds
  <2> QED BY <1>0, <1>1, <2>1, <2>5, ConnStepInv DEF PutCommit, caches, CacheType
<1>2. ASSUME NEW i \in Ids, DeleteCommit(c, i) \/ MergeCommit(c, i)
      PROVE  TypeInv'
  <2>1. PICK k \in {"delete", "merge"} : conn' = [conn EXCEPT ![c].pc = "audit", ![c].kind = k]
    BY <1>2 DEF DeleteCommit, MergeCommit
  <2>2. /\ r.pc = "idle" /\ Room(2) /\ stamp' = stamp + 1 /\ owner = Nobody /\ owner' = c
        /\ audited' = audited /\ up' = up /\ UNCHANGED caches
    BY <1>2 DEF DeleteCommit, MergeCommit, Write
  <2>3. [r EXCEPT !.pc = "audit", !.kind = k] \in Request
    BY <1>0 DEF Request, PcValues, Kinds
  <2>4. /\ conn' \in [Conns -> Request] /\ Others(c)
        /\ conn'[c] = [r EXCEPT !.pc = "audit", !.kind = k]
    BY <1>0, <2>1, <2>3 DEF Others
  <2>5. /\ conn'[c].pc = "audit" /\ conn'[c].kind = k /\ conn'[c].rows = <<>>
    <3>1. r.rows = <<>>
      BY <1>0, <2>2 DEF ControlOf
    <3> QED BY <1>0, <2>4, <3>1 DEF Request
  <2>6. ConnStep(c)
    BY <2>2, <2>4, <2>5 DEF ConnStep, ControlOf, StampStep, Holds
  <2>7. hist' \in History
    BY <1>0, <1>2 DEF DeleteCommit, MergeCommit, History
  <2>8. B!BrainType'
    BY <1>0, <1>2 DEF DeleteCommit, MergeCommit, RemoveRow, brain, B!BrainType, B!Ids, Ids
  <2> QED BY <1>0, <2>2, <2>6, <2>7, <2>8, ConnStepInv DEF caches, CacheType
<1>3. ASSUME NEW q \in Queries, SearchStat(c, q) PROVE TypeInv'
  <2>1. /\ r.pc = "idle" /\ Room(1) /\ stamp' = stamp /\ owner' = owner
        /\ UNCHANGED <<disk, up, caches, hist>>
        /\ conn' = [conn EXCEPT ![c].pc = "lookup", ![c].query = q, ![c].look = stamp]
    BY <1>3 DEF SearchStat, disk
  <2>2. [r EXCEPT !.pc = "lookup", !.query = q, !.look = stamp] \in Request
    BY <1>0 DEF Request, PcValues
  <2>3. /\ conn' \in [Conns -> Request] /\ Others(c)
        /\ conn'[c] = [r EXCEPT !.pc = "lookup", !.query = q, !.look = stamp]
    BY <1>0, <2>1, <2>2 DEF Others
  <2>4. /\ conn'[c].pc = "lookup" /\ conn'[c].kind = r.kind /\ conn'[c].rows = <<>>
    <3>1. r.rows = <<>>
      BY <1>0, <2>1 DEF ControlOf
    <3> QED BY <1>0, <2>3, <3>1 DEF Request
  <2>5. ConnStep(c)
    BY <2>1, <2>3, <2>4 DEF ConnStep, ControlOf, StampStep, Holds
  <2> QED BY <1>0, <2>1, <2>5, ConnStepInv DEF disk, brain, caches, CacheType, B!BrainType
<1>4. ASSUME StatsRequest(c) PROVE TypeInv'
  <2>1. /\ r.pc = "idle" /\ r.rows = <<>> /\ stamp' = stamp /\ owner' = owner
        /\ UNCHANGED <<disk, up, caches, hist>>
    BY <1>0, <1>4 DEF StatsRequest, disk, ControlOf
  <2>2. CASE UNCHANGED conn
    <3>1. ConnStep(c)
      BY <1>0, <2>1, <2>2 DEF ConnStep, Others, ControlOf, StampStep, Ahead, Holds
    <3> QED BY <1>0, <2>1, <3>1, ConnStepInv DEF disk, brain, caches, CacheType, B!BrainType
  <2>3. CASE Goto(c, "count")
    <3>1. "count" \in PcValues
      BY DEF PcValues
    <3>2. /\ conn' \in [Conns -> Request] /\ Others(c) /\ ControlOf(c)' /\ conn'[c].pc = "count"
      BY <2>1, <2>3, <3>1, GotoStep
    <3>3. ConnStep(c)
      BY <2>1, <3>2 DEF ConnStep, StampStep, Ahead, Holds
    <3> QED BY <1>0, <2>1, <3>3, ConnStepInv DEF disk, brain, caches, CacheType, B!BrainType
  <2> QED BY <1>4, <2>2, <2>3 DEF StatsRequest
<1> QED BY <1>1, <1>2, <1>3, <1>4, OneIsABatch DEF Receive

LEMMA TypeInit == Init => TypeInv
<1> SUFFICES ASSUME Init PROVE TypeInv
  OBVIOUS
<1>0. Idle \in Request /\ Idle.pc = "idle" /\ Idle.kind = "put" /\ Idle.rows = <<>>
  BY IdleIsARequest DEF Idle
<1> HIDE DEF Idle
<1>1. \A c \in Conns : conn[c] = Idle
  BY DEF Init
<1>2. AheadSet = {}
  BY <1>0, <1>1 DEF AheadSet, Ahead
<1>3. StampRoom
  BY <1>2, FS_EmptySet, DaemonAssumption DEF StampRoom, Init
<1>4. Control
  BY <1>0, <1>1 DEF Control, ControlOf
<1>5. B!BrainType /\ EmptyVecTable \in VecTable
  BY BrainAssumption DEF Init, B!BrainType, B!Ids, Ids, EmptyVecTable, VecTable
<1>6. CacheType
  BY <1>5, DaemonAssumption DEF Init, CacheType, EmptyCache, NoWarm
<1>7. conn \in [Conns -> Request] /\ \A c \in Conns : ~Holds(c)
  BY <1>0, <1>1 DEF Init, Holds
<1>8. /\ audited \in SUBSET Ids /\ stamp \in 0..MaxStamp /\ owner = Nobody
      /\ hist \in History /\ up \in BOOLEAN
  <2>1. audited \in SUBSET Ids /\ stamp \in 0..MaxStamp /\ owner = Nobody
    BY DaemonAssumption DEF Init
  <2>2. up \in BOOLEAN
    BY DEF Init
  <2>3. hist \in History
    BY DEF Init, History
  <2> QED BY <2>1, <2>2, <2>3
<1>9. TypeOK
  BY <1>5, <1>6, <1>7, <1>8, DaemonAssumption DEF TypeOK, CacheType, Holds
<1> QED BY <1>3, <1>4, <1>9 DEF TypeInv

\* A step that leaves the connections alone needs room for what it writes.
LEMMA TypeAround ==
  ASSUME TypeInv, UNCHANGED <<conn, owner>>,
         stamp' = stamp \/ (stamp' = stamp + 1 /\ Room(1)),
         B!BrainType', audited' \in SUBSET Ids, up' \in BOOLEAN, hist' \in History, CacheType'
  PROVE  TypeInv'
<1>1. Control' /\ AheadSet' = AheadSet
  BY DEF TypeInv, Control, ControlOf, AheadSet, Ahead
<1>2. Cardinality(AheadSet) \in Nat /\ stamp \in Nat
  BY AheadFinite DEF TypeInv, StampRoom
<1>3. StampRoom' /\ stamp' \in 0..MaxStamp
  <2>1. CASE stamp' = stamp
    BY <1>1, <1>2, <2>1, DaemonAssumption DEF TypeInv, StampRoom
  <2>2. CASE stamp' = stamp + 1 /\ Room(1)
    <3>1. stamp + Cardinality(AheadSet) + 1 <= MaxStamp
      BY <1>2, <2>2, AheadFinite DEF TypeInv
    <3> QED BY <1>1, <1>2, <2>2, <3>1, DaemonAssumption DEF StampRoom
  <2> QED BY <2>1, <2>2
<1>4. TypeOK'
  BY <1>3 DEF TypeInv, TypeOK, CacheType
<1> QED BY <1>1, <1>3, <1>4 DEF TypeInv

\* The end of the process takes everything but the disk with it.
LEMMA TypeExit ==
  ASSUME TypeInv, Exit, hist' \in History
  PROVE  TypeInv'
<1>0. Idle \in Request /\ Idle.pc = "idle" /\ Idle.kind = "put" /\ Idle.rows = <<>>
  BY IdleIsARequest DEF Idle
<1> HIDE DEF Idle
<1>1. \A c \in Conns : conn'[c] = Idle
  BY DEF Exit
<1>2. AheadSet' = {} /\ stamp' = stamp
  BY <1>0, <1>1 DEF AheadSet, Ahead, Exit, disk
<1>3. StampRoom'
  BY <1>2, FS_EmptySet, DaemonAssumption DEF StampRoom, TypeInv, TypeOK
<1>4. Control'
  BY <1>0, <1>1 DEF Control, ControlOf
<1>5. EmptyVecTable \in VecTable
  BY DEF EmptyVecTable, VecTable
<1>6. CacheType'
  BY <1>5, DaemonAssumption DEF Exit, CacheType, EmptyCache, NoWarm
<1>7. conn' \in [Conns -> Request] /\ \A c \in Conns : ~Holds(c)'
  BY <1>0, <1>1 DEF Exit, Holds
<1>8. B!BrainType' /\ audited' \in SUBSET Ids /\ stamp' \in 0..MaxStamp
  BY DEF Exit, disk, brain, TypeInv, TypeOK, B!BrainType
<1>9. TypeOK'
  BY <1>6, <1>7, <1>8, DaemonAssumption DEF Exit, TypeOK, CacheType, Holds
<1> QED BY <1>3, <1>4, <1>9 DEF TypeInv

\* Start, warm-up, other processes and the end of the process.
LEMMA TypeWorld ==
  ASSUME TypeInv, Start \/ WarmRead \/ WarmInstall \/ Outside
  PROVE  TypeInv'
<1>0. /\ B!BrainType /\ audited \in SUBSET Ids /\ stamp \in Nat /\ up \in BOOLEAN
      /\ hist \in History /\ CacheType /\ conn \in [Conns -> Request]
  BY DaemonAssumption DEF TypeInv, TypeOK, CacheType
<1>1. EmptyVecTable \in VecTable /\ vecs \in VecTable
  BY <1>0 DEF EmptyVecTable, VecTable, B!BrainType, B!Ids, Ids
<1>2. ASSUME Start \/ WarmRead \/ WarmInstall PROVE TypeInv'
  <2>1. UNCHANGED <<docs, vecs, seq, audited, stamp, owner, conn, qcache, seen, stats, qlog, live>>
    BY <1>2 DEF Start, WarmRead, WarmInstall, disk, brain
  <2>2. /\ warm' \in [at : {"start", "read", "done"}, table : VecTable]
        /\ hot' \in VecTable \cup {NoIndex}
    BY <1>0, <1>1, <1>2 DEF Start, WarmRead, WarmInstall, NoWarm, CacheType
  <2>3. up' \in BOOLEAN /\ hist' \in History
    BY <1>0, <1>2 DEF Start, WarmRead, WarmInstall, History
  <2>4. CacheType'
    BY <1>0, <2>1, <2>2 DEF CacheType
  <2> QED BY <1>0, <2>1, <2>3, <2>4, TypeAround DEF B!BrainType
<1>3. ASSUME NEW q \in PutRequest, ExtPut(q) PROVE TypeInv'
  <2>1. InsertEffect(<<q>>, IdsOf(<<q>>)) /\ B!BrainType'
    BY <1>0, <1>3, OneIsABatch, InsertRowsEffect DEF ExtPut
  <2>2. seq' \in Ids
    <3>1. 1 \in Fresh(<<q>>)
      BY <1>3 DEF ExtPut, Fresh
    <3>2. IdsOf(<<q>>)[1] > seq /\ IdsOf(<<q>>)[1] <= seq' /\ IdsOf(<<q>>)[1] \in Ids
      BY <2>1, <3>1 DEF InsertEffect
    <3>3. seq' \in 0..MaxId /\ seq \in 0..MaxId
      BY <1>0, <2>1 DEF InsertEffect, B!BrainType
    <3> QED BY <3>2, <3>3, BrainAssumption DEF Ids
  <2>3. hist' \in History
    BY <1>0, <1>3, <2>2 DEF ExtPut, History
  <2> QED BY <1>0, <1>3, <2>1, <2>3, TypeAround DEF ExtPut, Write, caches, CacheType
<1>4. ASSUME NEW i \in Ids, ExtDelete(i) PROVE TypeInv'
  <2>1. B!BrainType' /\ hist' \in History
    BY <1>0, <1>4 DEF ExtDelete, RemoveRow, B!BrainType, B!Ids, Ids, History
  <2> QED BY <1>0, <1>4, <2>1, TypeAround DEF ExtDelete, Write, caches, CacheType
<1>5. ASSUME Checkpoint PROVE TypeInv'
  BY <1>0, <1>5, TypeAround DEF Checkpoint, Write, brain, caches, CacheType, B!BrainType
<1>6. ASSUME Expire PROVE TypeInv'
  <2>1. stats' \in [docs : Nat, vecs : Nat, max : 0..MaxId, fresh : BOOLEAN]
    BY <1>0, <1>6 DEF Expire, CacheType
  <2> QED BY <1>0, <1>6, <2>1, TypeAround DEF Expire, disk, brain, CacheType, B!BrainType
<1>7. ASSUME Kill \/ Shutdown PROVE TypeInv'
  <2>1. InFlight \subseteq Ids
    BY <1>0, RowIdsAreIds DEF InFlight
  <2>2. hist' \in History
    BY <1>0, <1>7, <2>1 DEF Kill, Shutdown, History
  <2> QED BY <1>7, <2>2, TypeExit DEF Kill, Shutdown
<1> QED BY <1>2, <1>3, <1>4, <1>5, <1>6, <1>7 DEF Outside

LEMMA TypeInvStep == TypeInv /\ [Next]_vars => TypeInv'
<1> SUFFICES ASSUME TypeInv, [Next]_vars PROVE TypeInv'
  OBVIOUS
<1>1. CASE UNCHANGED vars
  <2>1. UNCHANGED <<conn, owner, stamp, up, audited, hist>> /\ CacheType' /\ B!BrainType'
    BY <1>1 DEF vars, disk, brain, caches, TypeInv, TypeOK, CacheType, B!BrainType
  <2> QED BY <2>1, TypeAround DEF TypeInv, TypeOK
<1>2. CASE Next
  BY <1>2, TypeServe, TypeReceive, TypeWorld DEF Next
<1> QED BY <1>1, <1>2

LEMMA TypeInvAlways == Spec => []TypeInv
BY TypeInit, TypeInvStep, PTL DEF Spec

\* Every variable of the daemon keeps its type whatever the connections, other
\* processes and crashes do, and the store mutex is held by exactly the
\* request that is counting or has deleted or merged.
THEOREM DaemonTypeCorrect == Spec => []TypeOK
BY TypeInvAlways, PTL DEF TypeInv

-----------------------------------------------------------------------------
(* The daemon leaves the tables a Brain                                    *)

\* A committed put or batch adds documents nobody has stored under the next
\* unused ids, or changes no document at all.
LEMMA InsertIsABrainStep ==
  ASSUME B!BrainType, B!BrainType', NEW rs \in Batches, NEW ids, InsertEffect(rs, ids)
  PROVE  B!Next \/ UNCHANGED <<docs, vecs, seq>>
<1>1. /\ seq <= seq' /\ seq' \in 0..MaxId /\ seq \in 0..MaxId /\ MaxId \in Nat
      /\ docs \in [Ids -> Texts \cup {NoText}] /\ docs' \in [Ids -> Texts \cup {NoText}]
      /\ vecs \in [Ids -> Vecs \cup {NoVec}] /\ vecs' \in [Ids -> Vecs \cup {NoVec}]
  BY BrainAssumption DEF InsertEffect, B!BrainType, B!Ids, Ids
<1>2. /\ \A i \in Ids : ~(i > seq /\ i <= seq') => docs'[i] = docs[i] /\ vecs'[i] = vecs[i]
      /\ \A i \in Ids : i > seq /\ i <= seq' => \E k \in Fresh(rs) : ids[k] = i
      /\ \A k \in Fresh(rs) : docs'[ids[k]] = rs[k].text
  BY DEF InsertEffect
<1>3. \A i \in Ids : i <= seq \/ i > seq' => docs'[i] = docs[i] /\ vecs'[i] = vecs[i]
  BY <1>1, <1>2 DEF Ids
<1>4. CASE seq' = seq
  <2>1. \A i \in Ids : docs'[i] = docs[i] /\ vecs'[i] = vecs[i]
    BY <1>1, <1>3, <1>4 DEF Ids
  <2> QED BY <1>1, <1>4, <2>1
<1>5. CASE seq' # seq
  <2>1. ASSUME NEW i \in Ids, i > seq, i <= seq'
        PROVE  docs'[i] \in Texts /\ \A j \in Ids : docs'[j] = docs'[i] => j = i
    <3>1. PICK k \in Fresh(rs) : ids[k] = i
      BY <1>2, <2>1
    <3>2. docs'[i] = rs[k].text /\ k \in DOMAIN rs /\ ~Stored(rs[k].text)
      BY <1>2, <3>1 DEF Fresh
    <3>3. rs[k].text \in Texts
      BY <3>2 DEF Batches, PutRequest
    <3>4. ASSUME NEW j \in Ids, docs'[j] = docs'[i] PROVE j = i
      <4>1. docs[j] # rs[k].text
        BY <3>2 DEF Stored
      <4>2. PICK h \in Fresh(rs) : ids[h] = j
        BY <1>2, <3>2, <3>4, <4>1
      <4>3. rs[h].text = rs[k].text
        BY <1>2, <3>2, <3>4, <4>2
      <4> QED BY <3>1, <4>2, <4>3, FreshDiffer
    <3> QED BY <3>2, <3>3, <3>4
  <2>2. B!Add(seq')
    BY <1>1, <1>3, <2>1 DEF B!Add, B!Ids, Ids
  <2>3. seq' \in (seq + 1)..MaxId
    BY <1>1, <1>5
  <2> QED BY <2>2, <2>3 DEF B!Next
<1> QED BY <1>4, <1>5

\* The steps that change the tables; every other step leaves them alone.
LEMMA TablesStep ==
  ASSUME TypeInv, [Next]_vars
  PROVE  \/ UNCHANGED brain
         \/ \E c \in Conns, k \in {"put", "batch", "tx"}, rs \in Batches : PutCommit(c, k, rs)
         \/ \E c \in Conns, i \in Ids : DeleteCommit(c, i)
         \/ \E q \in PutRequest : ExtPut(q)
         \/ \E i \in Ids : ExtDelete(i)
<1>1. CASE UNCHANGED vars
  BY <1>1 DEF vars, disk
<1>2. ASSUME NEW c \in Conns, Serve(c) PROVE UNCHANGED brain
  BY <1>2 DEF Serve, AdjustStats, HotAdd, ClearCache, Audit, Emit, Lookup, Forget, Get, Query,
     LogQuery, Install, CountDocs, ReadMaxId, StoreStats, disk
<1>3. ASSUME NEW c \in Conns, Receive(c)
      PROVE  \/ UNCHANGED brain
             \/ \E k \in {"put", "batch", "tx"}, rs \in Batches : PutCommit(c, k, rs)
             \/ \E i \in Ids : DeleteCommit(c, i)
  <2>1. ASSUME NEW i \in Ids, MergeCommit(c, i) PROVE UNCHANGED brain
    BY <2>1 DEF MergeCommit
  <2>2. ASSUME NEW q \in Queries, SearchStat(c, q) PROVE UNCHANGED brain
    BY <2>2 DEF SearchStat, disk
  <2>3. ASSUME StatsRequest(c) PROVE UNCHANGED brain
    BY <2>3 DEF StatsRequest, disk
  <2> QED BY <1>3, <2>1, <2>2, <2>3, OneIsABatch DEF Receive
<1>4. ASSUME Start \/ WarmRead \/ WarmInstall PROVE UNCHANGED brain
  BY <1>4 DEF Start, WarmRead, WarmInstall, disk
<1>5. ASSUME Checkpoint \/ Expire \/ Kill \/ Shutdown PROVE UNCHANGED brain
  BY <1>5 DEF Checkpoint, Expire, Kill, Shutdown, Exit, disk
<1> QED BY <1>1, <1>2, <1>3, <1>4, <1>5 DEF Next, Outside

\* However the handlers of any number of connections interleave with each
\* other, with crashes and with other processes, the tables behave as the
\* content-addressed map of Brain.
THEOREM DaemonIsABrain == Spec => DaemonImplementsBrain
<1>1. Init => B!Init
  BY DEF Init, EmptyVecTable, B!Init, B!Ids, Ids
<1>2. TypeInv /\ TypeInv' /\ [Next]_vars => [B!Next]_<<docs, vecs, seq>>
  <2> SUFFICES ASSUME TypeInv, TypeInv', [Next]_vars
               PROVE  B!Next \/ UNCHANGED <<docs, vecs, seq>>
    OBVIOUS
  <2>0. B!BrainType /\ B!BrainType'
    BY DEF TypeInv, TypeOK
  <2>1. ASSUME NEW rs \in Batches, InsertRows(rs) PROVE B!Next \/ UNCHANGED <<docs, vecs, seq>>
    BY <2>0, <2>1, InsertRowsEffect, InsertIsABrainStep
  <2>2. ASSUME NEW i \in Ids, RemoveRow(i) PROVE B!Next
    BY <2>2 DEF RemoveRow, B!Next, B!Remove, B!Ids, Ids
  <2> QED BY <2>1, <2>2, TablesStep, OneIsABatch DEF PutCommit, DeleteCommit, ExtPut, ExtDelete, brain
<1>3. [B!Next]_<<docs, vecs, seq>> <=> [B!Next]_B!brain
  BY DEF B!brain
<1> QED BY <1>1, <1>2, <1>3, TypeInvAlways, PTL DEF Spec, DaemonImplementsBrain, B!Spec

-----------------------------------------------------------------------------
(* The audit trail                                                         *)

\* A put adds the ids of its fresh rows to the documents.
LEMMA LiveAfterInsert ==
  ASSUME NEW rs \in Batches, NEW ids, InsertEffect(rs, ids)
  PROVE  LiveIds' = LiveIds \cup {ids[k] : k \in Fresh(rs)}
<1>1. /\ ids \in [DOMAIN rs -> Ids]
      /\ \A k \in Fresh(rs) : k \in DOMAIN rs /\ docs'[ids[k]] = rs[k].text
      /\ \A i \in Ids : \/ \E k \in Fresh(rs) : ids[k] = i
                        \/ docs'[i] = docs[i]
  BY DEF InsertEffect
<1>2. \A k \in Fresh(rs) : ids[k] \in Ids /\ docs'[ids[k]] # NoText
  BY <1>1, BrainAssumption DEF Batches, PutRequest
<1> QED BY <1>1, <1>2 DEF LiveIds

\* The rows of a put whose commit has just returned hold every document it
\* added.
LEMMA CommitRows ==
  ASSUME TypeInv, NEW c \in Conns, NEW k \in {"put", "batch", "tx"}, NEW rs \in Batches,
         PutCommit(c, k, rs)
  PROVE  /\ RowIds(c) = {} /\ Others(c)
         /\ \A j \in DOMAIN rs : IdsOf(rs)[j] \in RowIds(c)'
         /\ LiveIds' = LiveIds \cup {IdsOf(rs)[j] : j \in Fresh(rs)}
         /\ LiveIds' \subseteq LiveIds \cup RowIds(c)'
<1>1. InsertEffect(rs, IdsOf(rs)) /\ Others(c)
      /\ conn'[c].rows = [j \in DOMAIN rs |-> [id |-> IdsOf(rs)[j], vec |-> rs[j].vec]]
  BY PutCommitConn
<1>2. conn[c].rows = <<>>
  BY DEF PutCommit, At, TypeInv, Control, ControlOf
<1>3. \A j \in DOMAIN rs : IdsOf(rs)[j] \in RowIds(c)'
  BY <1>1 DEF RowIds
<1>4. LiveIds' = LiveIds \cup {IdsOf(rs)[j] : j \in Fresh(rs)}
  BY <1>1, LiveAfterInsert
<1>5. RowIds(c) = {}
  BY <1>2 DEF RowIds
<1> QED BY <1>1, <1>3, <1>4, <1>5 DEF Fresh

\* The one row another process puts.
LEMMA ExtPutRow ==
  ASSUME TypeInv, NEW q \in PutRequest, ExtPut(q)
  PROVE  /\ InsertEffect(<<q>>, IdsOf(<<q>>))
         /\ seq' \in Ids /\ seq' > seq
         /\ LiveIds' = LiveIds \cup {seq'}
         /\ \A i \in Ids \ {seq'} : docs'[i] = docs[i] /\ vecs'[i] = vecs[i]
<1> DEFINE ids == IdsOf(<<q>>)
<1>0. B!BrainType /\ seq \in 0..MaxId /\ MaxId \in Nat
  BY BrainAssumption DEF TypeInv, TypeOK, B!BrainType
<1>1. InsertEffect(<<q>>, ids) /\ <<q>> \in Batches
  BY <1>0, OneIsABatch, InsertRowsEffect DEF ExtPut
<1>2. Fresh(<<q>>) = {1}
  BY DEF ExtPut, Fresh
<1> HIDE DEF ids
<1>3. ids[1] \in Ids /\ ids[1] > seq /\ ids[1] <= seq' /\ seq' \in 0..MaxId
  BY <1>1, <1>2 DEF InsertEffect
<1>4. seq' \in Ids /\ seq' > seq
  BY <1>0, <1>3 DEF Ids
<1>5. \A i \in Ids : i > seq /\ i <= seq' => ids[1] = i
  BY <1>1, <1>2 DEF InsertEffect
<1>6. ids[1] = seq'
  BY <1>0, <1>4, <1>5 DEF Ids
<1>7. LiveIds' = LiveIds \cup {seq'}
  BY <1>1, <1>2, <1>6, LiveAfterInsert
<1>8. \A i \in Ids \ {seq'} : docs'[i] = docs[i] /\ vecs'[i] = vecs[i]
  BY <1>1, <1>5, <1>6 DEF InsertEffect
<1> QED BY <1>1, <1>4, <1>7, <1>8 DEF ids

\* A handler keeps the rows of its put until the request ends, which for a
\* put with rows is after its audit.
LEMMA ServeRows ==
  ASSUME TypeInv, NEW c \in Conns, Serve(c)
  PROVE  /\ Others(c)
         /\ \/ conn'[c].rows = conn[c].rows /\ conn'[c].kind = conn[c].kind
            \/ conn'[c] = Idle /\ \/ Audit(c)
                                  \/ Emit(c) /\ conn[c].kind = "put"
                                  \/ conn[c].rows = <<>>
         /\ conn'[c].pc = "emit" => Audit(c) \/ conn[c].kind = "batch"
         /\ conn'[c].pc # "adjust"
<1> DEFINE r == conn[c]
           Kept == conn'[c].rows = r.rows /\ conn'[c].kind = r.kind
<1>0. /\ conn \in [Conns -> Request] /\ r \in Request /\ ControlOf(c)
      /\ r.kind \in Kinds /\ r.rows \in RowSeqs
  BY RequestFields DEF TypeInv, TypeOK, Control
<1> USE DEF At
<1>1. ASSUME NEW l \in PcValues, Goto(c, l)
      PROVE  Others(c) /\ conn'[c].pc = l /\ (IF l = "idle" THEN conn'[c] = Idle ELSE Kept)
  <2>1. /\ conn'[c].pc = l
        /\ l = "idle" => conn'[c] = Idle
        /\ l # "idle" => conn'[c] = [r EXCEPT !.pc = l]
        /\ Others(c)
    BY <1>0, <1>1, GotoFacts DEF Others
  <2> QED BY <1>0, <2>1 DEF Request
<1> HIDE DEF Idle
<1>2. CASE AdjustStats(c) \/ Emit(c) \/ Audit(c) \/ ClearCache(c)
  <2>1. PICK l \in PcValues : /\ Goto(c, l)
                              /\ l = "idle" => \/ Audit(c)
                                               \/ Emit(c) /\ r.kind = "put"
                                               \/ r.rows = <<>>
                              /\ l = "emit" => Audit(c) \/ r.kind = "batch"
                              /\ l # "adjust"
    <3>1. CASE AdjustStats(c)
      BY <1>0, <3>1, FollowTable DEF AdjustStats, ControlOf, Proceed, PcValues
    <3>2. CASE Emit(c)
      BY <1>0, <3>2, FollowTable DEF Emit, ControlOf, Proceed, PcValues
    <3>3. CASE Audit(c)
      BY <1>0, <3>3, FollowTable DEF Audit, ControlOf, Proceed, PcValues, Kinds
    <3>4. CASE ClearCache(c)
      BY <1>0, <3>4, FollowTable DEF ClearCache, ControlOf, Proceed, PcValues, Kinds
    <3> QED BY <1>2, <3>1, <3>2, <3>3, <3>4
  <2> QED BY <1>1, <2>1
<1>3. CASE HotAdd(c)
  <2>1. CASE conn' = [conn EXCEPT ![c].turn = @ + 1]
    <3>1. conn'[c] = [r EXCEPT !.turn = r.turn + 1] /\ Others(c) /\ r.pc = "hot"
      BY <1>0, <1>3, <2>1 DEF Others, HotAdd
    <3> QED BY <1>0, <3>1 DEF Request
  <2>2. CASE Proceed(c)
    <3>1. Goto(c, "clear") /\ "clear" \in PcValues
      BY <1>0, <1>3, <2>2, FollowTable DEF HotAdd, ControlOf, Proceed, PcValues
    <3> QED BY <1>1, <3>1
  <2> QED BY <1>3, <2>1, <2>2 DEF HotAdd
<1>4. CASE Lookup(c) \/ Query(c) \/ CountDocs(c) \/ ReadMaxId(c)
  <2>1. CASE Lookup(c)
    <3>1. PICK l \in {"get", "forget"} : conn' = [conn EXCEPT ![c].look = 0, ![c].pc = l]
      BY <2>1 DEF Lookup
    <3>2. conn'[c] = [r EXCEPT !.look = 0, !.pc = l] /\ Others(c)
      BY <1>0, <3>1 DEF Others
    <3> QED BY <1>0, <3>2 DEF Request
  <2>2. CASE Query(c)
    <3>1. conn'[c] = [r EXCEPT !.pc = "log", !.found = LiveIds] /\ Others(c)
      BY <1>0, <2>2 DEF Query, Others
    <3> QED BY <1>0, <3>1 DEF Request
  <2>3. CASE CountDocs(c)
    <3>1. PICK n : conn' = [conn EXCEPT ![c].pc = "max", ![c].count = n]
      BY <2>3 DEF CountDocs
    <3>2. conn'[c] = [r EXCEPT !.pc = "max", !.count = n] /\ Others(c)
      BY <1>0, <3>1 DEF Others
    <3> QED BY <1>0, <3>2 DEF Request
  <2>4. CASE ReadMaxId(c)
    <3>1. PICK m : conn' = [conn EXCEPT ![c].pc = "store", ![c].count.max = m]
      BY <2>4 DEF ReadMaxId
    <3>2. conn'[c] = [r EXCEPT !.pc = "store", !.count.max = m] /\ Others(c)
      BY <1>0, <3>1 DEF Others
    <3> QED BY <1>0, <3>2 DEF Request
  <2> QED BY <1>4, <2>1, <2>2, <2>3, <2>4
<1>5. CASE Forget(c) \/ Get(c) \/ LogQuery(c) \/ Install(c) \/ StoreStats(c)
  <2>1. r.rows = <<>>
    BY <1>0, <1>5 DEF Forget, Get, LogQuery, Install, StoreStats, ControlOf
  <2>2. PICK l \in PcValues \ {"emit", "adjust"} : Goto(c, l)
    BY <1>5 DEF Forget, Get, LogQuery, Install, StoreStats, PcValues
  <2> QED BY <1>1, <2>1, <2>2
<1> QED BY <1>2, <1>3, <1>4, <1>5 DEF Serve

\* A request that brings no rows changes nobody's rows.
LEMMA ReceiveRows ==
  ASSUME TypeInv, NEW c \in Conns, Receive(c),
         ~\E k \in {"put", "batch", "tx"}, rs \in Batches : PutCommit(c, k, rs)
  PROVE  Others(c) /\ conn'[c].rows = conn[c].rows /\ conn'[c].rows = <<>>
<1> DEFINE r == conn[c]
<1>0. conn \in [Conns -> Request] /\ r \in Request /\ ControlOf(c)
  BY DEF TypeInv, TypeOK, Control
<1> USE DEF At
<1>1. ASSUME NEW i \in Ids, DeleteCommit(c, i) \/ MergeCommit(c, i)
      PROVE  Others(c) /\ conn'[c].rows = r.rows /\ conn'[c].rows = <<>>
  <2>1. PICK k : conn' = [conn EXCEPT ![c].pc = "audit", ![c].kind = k]
    BY <1>1 DEF DeleteCommit, MergeCommit
  <2>2. r.rows = <<>>
    BY <1>0, <1>1 DEF DeleteCommit, MergeCommit, ControlOf
  <2>3. Others(c) /\ conn'[c] = [r EXCEPT !.pc = "audit", !.kind = k]
    BY <1>0, <2>1 DEF Others
  <2> QED BY <1>0, <2>2, <2>3 DEF Request
<1>2. ASSUME NEW q \in Queries, SearchStat(c, q)
      PROVE  Others(c) /\ conn'[c].rows = r.rows /\ conn'[c].rows = <<>>
  <2>1. Others(c) /\ conn'[c] = [r EXCEPT !.pc = "lookup", !.query = q, !.look = stamp]
    BY <1>0, <1>2 DEF SearchStat, Others
  <2>2. r.rows = <<>>
    BY <1>0, <1>2 DEF SearchStat, ControlOf
  <2> QED BY <1>0, <2>1, <2>2 DEF Request
<1>3. ASSUME StatsRequest(c)
      PROVE  Others(c) /\ conn'[c].rows = r.rows /\ conn'[c].rows = <<>>
  <2>1. r.rows = <<>>
    BY <1>0, <1>3 DEF StatsRequest, ControlOf
  <2>2. CASE UNCHANGED conn
    BY <2>1, <2>2 DEF Others
  <2>3. CASE Goto(c, "count")
    <3>1. Others(c) /\ conn'[c] = [r EXCEPT !.pc = "count"]
      BY <1>0, <2>3, GotoFacts DEF Others, PcValues
    <3> QED BY <1>0, <2>1, <3>1 DEF Request
  <2> QED BY <1>3, <2>2, <2>3 DEF StatsRequest
<1> QED BY <1>1, <1>2, <1>3, OneIsABatch DEF Receive

\* The ids an append to the trail was tried for, and a step that tries none.
Tried == audited \cup hist.warned \cup hist.dropped
TriesNone == UNCHANGED audited /\ hist'.warned = hist.warned /\ hist'.dropped = hist.dropped

\* NoSilentWrites is not inductive: a single put emits after its audit, so
\* that its rows were offered to the trail by then has to be known when it ends.
AuditInv ==
    /\ NoSilentWrites
    /\ \A c \in Conns : At(c, "emit") /\ conn[c].kind = "put" =>
                            RowIds(c) \subseteq Tried

LEMMA AuditInvStep == TypeInv /\ TypeInv' /\ AuditInv /\ [Next]_vars => AuditInv'
<1> SUFFICES ASSUME TypeInv, TypeInv', AuditInv, [Next]_vars PROVE AuditInv'
  OBVIOUS
<1> DEFINE Known == Tried \cup hist.excused \cup InFlight
<1>0. LiveIds \subseteq Known /\ hist \in History /\ hist' \in History
  BY DEF AuditInv, NoSilentWrites, Tried, TypeInv, TypeOK
<1>1. ASSUME LiveIds' \subseteq LiveIds \cup Known', Known \subseteq Known'
      PROVE  NoSilentWrites'
  <2> HIDE DEF Known
  <2>1. LiveIds' \subseteq Known'
    BY <1>0, <1>1
  <2> QED BY <2>1 DEF NoSilentWrites, Known, Tried
<1>2. ASSUME UNCHANGED <<conn, hist, audited>>, LiveIds' \subseteq LiveIds
      PROVE  AuditInv'
  <2>1. \A c \in Conns : RowIds(c)' = RowIds(c)
    BY <1>2 DEF RowIds
  <2>2. Known' = Known
    BY <1>2, <2>1 DEF InFlight, Tried
  <2>3. NoSilentWrites'
    BY <1>1, <1>2, <2>2
  <2> QED BY <1>2, <2>1, <2>3 DEF AuditInv, At, Tried
<1>3. CASE UNCHANGED vars
  BY <1>2, <1>3 DEF vars, disk, brain, LiveIds
<1>4. ASSUME NEW c \in Conns, NEW k \in {"put", "batch", "tx"}, NEW rs \in Batches,
             PutCommit(c, k, rs)
      PROVE  AuditInv'
  <2>1. RowIds(c) = {} /\ Others(c) /\ LiveIds' \subseteq LiveIds \cup RowIds(c)'
    BY <1>4, CommitRows
  <2>2. \A d \in Conns \ {c} : RowIds(d)' = RowIds(d)
    BY <2>1 DEF Others, RowIds
  <2>3. audited' = audited /\ hist' = hist
    BY <1>4 DEF PutCommit
  <2>4. InFlight \subseteq InFlight' /\ RowIds(c)' \subseteq InFlight'
    BY <2>1, <2>2 DEF InFlight
  <2>5. NoSilentWrites'
    BY <1>1, <2>1, <2>3, <2>4 DEF Tried
  <2>6. conn'[c].pc = "adjust"
    BY <1>4, PutCommitConn
  <2> QED BY <2>1, <2>2, <2>3, <2>5, <2>6 DEF AuditInv, At, Others, Tried
<1>5. ASSUME NEW c \in Conns, Receive(c),
             ~\E k \in {"put", "batch", "tx"}, rs \in Batches : PutCommit(c, k, rs)
      PROVE  AuditInv'
  <2>1. Others(c) /\ conn'[c].rows = conn[c].rows /\ conn'[c].rows = <<>>
    BY <1>5, ReceiveRows
  <2>2. \A d \in Conns : RowIds(d)' = RowIds(d)
    BY <2>1 DEF Others, RowIds
  <2>3. RowIds(c)' = {}
    BY <2>1 DEF RowIds
  <2>4. TriesNone /\ hist'.excused = hist.excused /\ LiveIds' \subseteq LiveIds
    <3>1. ASSUME NEW i \in Ids, DeleteCommit(c, i)
          PROVE  TriesNone /\ hist'.excused = hist.excused /\ LiveIds' \subseteq LiveIds
      <4>1. docs \in [Ids -> Texts \cup {NoText}]
        BY DEF TypeInv, TypeOK, B!BrainType, B!Ids, Ids
      <4>2. LiveIds' \subseteq LiveIds
        BY <3>1, <4>1 DEF DeleteCommit, RemoveRow, LiveIds
      <4> QED BY <1>0, <3>1, <4>2 DEF DeleteCommit, History, TriesNone
    <3>2. ASSUME NEW i \in Ids, MergeCommit(c, i)
          PROVE  TriesNone /\ hist' = hist /\ LiveIds' = LiveIds
      BY <3>2 DEF MergeCommit, brain, LiveIds, TriesNone
    <3>3. ASSUME NEW q \in Queries, SearchStat(c, q)
          PROVE  TriesNone /\ hist' = hist /\ LiveIds' = LiveIds
      BY <3>3 DEF SearchStat, disk, brain, LiveIds, TriesNone
    <3>4. ASSUME StatsRequest(c)
          PROVE  TriesNone /\ hist' = hist /\ LiveIds' = LiveIds
      BY <3>4 DEF StatsRequest, disk, brain, LiveIds, TriesNone
    <3> QED BY <1>5, <3>1, <3>2, <3>3, <3>4, OneIsABatch DEF Receive
  <2>5. Known' = Known
    BY <2>2, <2>4 DEF InFlight, TriesNone, Tried
  <2>6. NoSilentWrites'
    BY <1>1, <2>4, <2>5
  <2> QED BY <2>1, <2>2, <2>3, <2>4, <2>6 DEF AuditInv, At, Others, TriesNone, Tried
<1>6. ASSUME NEW c \in Conns, Serve(c) PROVE AuditInv'
  <2>1. /\ Others(c)
        /\ \/ conn'[c].rows = conn[c].rows /\ conn'[c].kind = conn[c].kind
           \/ conn'[c] = Idle /\ \/ Audit(c)
                                 \/ Emit(c) /\ conn[c].kind = "put"
                                 \/ conn[c].rows = <<>>
        /\ conn'[c].pc = "emit" => Audit(c) \/ conn[c].kind = "batch"
    BY <1>6, ServeRows
  <2>2. \A d \in Conns \ {c} : RowIds(d)' = RowIds(d)
    BY <2>1 DEF Others, RowIds
  <2>3. /\ Tried \subseteq Tried' /\ (Audit(c) => RowIds(c) \subseteq Tried')
        /\ hist'.excused = hist.excused
        /\ LiveIds' = LiveIds
    <3>1. CASE Audit(c)
      <4>1. RowIds(c) \subseteq Ids
        BY RowIdsAreIds DEF TypeInv, TypeOK
      <4>2. LiveIds' = LiveIds
        BY <3>1 DEF Audit, brain, LiveIds
      <4> QED BY <1>0, <3>1, <4>1, <4>2, AuditFacts DEF Tried
    <3>2. CASE HotAdd(c)
      <4>1. hist'.excused = hist.excused /\ TriesNone
        BY <1>0, <3>2 DEF HotAdd, History, TriesNone, disk
      <4>2. conn[c].pc # "audit"
        BY <3>2 DEF HotAdd, At
      <4> QED BY <3>2, <4>1, <4>2 DEF HotAdd, Audit, At, disk, brain, LiveIds, TriesNone, Tried
    <3>3. CASE ~Audit(c) /\ ~HotAdd(c)
      BY <1>6, <3>3 DEF Serve, AdjustStats, ClearCache, Emit, Lookup, Forget, Get, Query,
         LogQuery, Install, CountDocs, ReadMaxId, StoreStats, disk, brain, LiveIds, Tried
    <3> QED BY <3>1, <3>2, <3>3
  <2>4. RowIds(c) \subseteq Tried' \cup RowIds(c)'
    <3>1. CASE conn'[c].rows = conn[c].rows
      BY <3>1 DEF RowIds
    <3>2. CASE Audit(c)
      BY <2>3, <3>2
    <3>3. CASE Emit(c) /\ conn[c].kind = "put"
      BY <2>3, <3>3 DEF Emit, AuditInv
    <3>4. CASE conn[c].rows = <<>>
      BY <3>4 DEF RowIds
    <3> QED BY <2>1, <3>1, <3>2, <3>3, <3>4
  <2>5. InFlight \subseteq Tried' \cup InFlight'
    BY <2>2, <2>4 DEF InFlight
  <2>6. NoSilentWrites'
    BY <1>1, <2>3, <2>5
  <2>7. ASSUME conn'[c].pc = "emit", conn'[c].kind = "put" PROVE RowIds(c)' \subseteq Tried'
    <3>1. conn'[c] # Idle /\ conn'[c].rows = conn[c].rows /\ conn[c].kind = "put"
      BY <2>1, <2>7 DEF Idle
    <3>2. RowIds(c)' = RowIds(c)
      BY <3>1 DEF RowIds
    <3>3. Audit(c)
      BY <2>1, <2>7, <3>1
    <3> QED BY <2>3, <3>2, <3>3
  <2> QED BY <2>1, <2>2, <2>3, <2>6, <2>7 DEF AuditInv, At, Others
<1>7. ASSUME Start \/ WarmRead \/ WarmInstall \/ Checkpoint \/ Expire PROVE AuditInv'
  <2>1. UNCHANGED <<conn, docs>> /\ TriesNone /\ hist'.excused = hist.excused
    BY <1>0, <1>7 DEF Start, WarmRead, WarmInstall, Checkpoint, Expire, disk, brain, History, TriesNone
  <2>2. \A c \in Conns : RowIds(c)' = RowIds(c)
    BY <2>1 DEF RowIds
  <2>3. LiveIds' = LiveIds /\ Known' = Known
    BY <2>1, <2>2 DEF LiveIds, InFlight, TriesNone, Tried
  <2>4. NoSilentWrites'
    BY <1>1, <2>3
  <2> QED BY <2>1, <2>2, <2>4 DEF AuditInv, At, TriesNone, Tried
<1>8. ASSUME NEW q \in PutRequest, ExtPut(q) PROVE AuditInv'
  <2>1. LiveIds' = LiveIds \cup {seq'}
    BY <1>8, ExtPutRow
  <2>2. UNCHANGED conn /\ TriesNone /\ hist'.excused = hist.excused \cup {seq'}
    BY <1>0, <1>8 DEF ExtPut, History, TriesNone
  <2>3. \A c \in Conns : RowIds(c)' = RowIds(c)
    BY <2>2 DEF RowIds
  <2>4. InFlight' = InFlight
    BY <2>3 DEF InFlight
  <2>5. NoSilentWrites'
    BY <1>1, <2>1, <2>2, <2>4 DEF TriesNone, Tried
  <2> QED BY <2>2, <2>3, <2>5 DEF AuditInv, At, TriesNone, Tried
<1>9. ASSUME NEW i \in Ids, ExtDelete(i) PROVE AuditInv'
  <2>1. docs \in [Ids -> Texts \cup {NoText}]
    BY DEF TypeInv, TypeOK, B!BrainType, B!Ids, Ids
  <2>2. LiveIds' \subseteq LiveIds
    BY <1>9, <2>1 DEF ExtDelete, RemoveRow, LiveIds
  <2>3. UNCHANGED conn /\ TriesNone /\ hist'.excused = hist.excused
    BY <1>0, <1>9 DEF ExtDelete, History, TriesNone
  <2>4. \A c \in Conns : RowIds(c)' = RowIds(c)
    BY <2>3 DEF RowIds
  <2>5. InFlight' = InFlight
    BY <2>4 DEF InFlight
  <2>6. NoSilentWrites'
    BY <1>1, <2>2, <2>3, <2>5 DEF TriesNone, Tried
  <2> QED BY <2>3, <2>4, <2>6 DEF AuditInv, At, TriesNone, Tried
<1>10. ASSUME Kill \/ Shutdown PROVE AuditInv'
  <2>1. /\ TriesNone /\ docs' = docs /\ conn' = [c \in Conns |-> Idle]
        /\ hist'.excused = hist.excused \cup (InFlight \ audited)
    BY <1>0, <1>10 DEF Kill, Shutdown, Exit, disk, brain, History, TriesNone
  <2>2. LiveIds' = LiveIds
    BY <2>1 DEF LiveIds
  <2>3. NoSilentWrites'
    BY <1>1, <2>1, <2>2 DEF TriesNone, Tried
  <2>4. \A c \in Conns : conn'[c].pc = "idle"
    BY <2>1 DEF Idle
  <2> QED BY <2>3, <2>4 DEF AuditInv, At
<1> QED BY <1>3, <1>4, <1>5, <1>6, <1>7, <1>8, <1>9, <1>10 DEF Next, Outside

\* Whatever the connections do at the same time and whenever the daemon is
\* killed, a document is missing from the audit trail only while its request
\* is under way, when another process wrote it, when the daemon died in
\* between, or when the append of its own event failed, which the daemon
\* survives.
THEOREM WritesAreAudited == Spec => []NoSilentWrites
<1>1. Init => AuditInv
  <2> SUFFICES ASSUME Init PROVE AuditInv
    OBVIOUS
  <2>1. LiveIds = {}
    BY DEF Init, LiveIds
  <2>2. \A c \in Conns : conn[c].pc = "idle"
    BY DEF Init, Idle
  <2> QED BY <2>1, <2>2 DEF AuditInv, NoSilentWrites, At
<1>2. AuditInv => NoSilentWrites
  BY DEF AuditInv
<1> QED BY <1>1, <1>2, AuditInvStep, TypeInvAlways, PTL DEF Spec

-----------------------------------------------------------------------------
(* The lifted index                                                        *)

\* Handler c still has to offer row i to the lifted index.
OwedBy(c, i) ==
    /\ conn[c].pc \in {"adjust", "hot"}
    /\ \E j \in DOMAIN conn[c].rows : /\ j >= conn[c].turn
                                      /\ conn[c].rows[j].id = i
                                      /\ conn[c].rows[j].vec # NoVec
Owed(i) == \E c \in Conns : OwedBy(c, i)

Expected == Present(vecs) \ (hist.foreign \cup hist.missed)

\* HotComplete is not inductive: a row a put carries may be one that another
\* put of the same text has stored, offered without an embedding or already
\* behind the loop, so the row that is still owed has to be named; and while
\* the warm-up holds its snapshot the same must be true of the snapshot.
HotInv ==
    /\ warm.at # "done" => hot = NoIndex
    /\ ~up => warm.at = "done" /\ hot = NoIndex
    /\ hot # NoIndex => \A i \in Expected : hot[i] # NoVec \/ Owed(i)
    /\ warm.at = "read" => \A i \in Expected : warm.table[i] # NoVec \/ Owed(i)

\* A step that leaves the index and the warm-up alone keeps HotInv when each
\* row it makes expected is owed, and when it pays no row.
LEMMA HotFrame ==
  ASSUME HotInv, UNCHANGED <<hot, warm, up>>,
         \A i \in Expected' : i \in Expected \/ Owed(i)',
         \A i : Owed(i) => Owed(i)'
  PROVE  HotInv'
BY DEF HotInv

\* What a handler owes is kept by every step of another one.
LEMMA OwedKept ==
  ASSUME NEW c \in Conns, Others(c), \A i : OwedBy(c, i) => OwedBy(c, i)'
  PROVE  \A i : Owed(i) => Owed(i)'
<1>1. \A d \in Conns \ {c} : \A i : OwedBy(d, i) => OwedBy(d, i)'
  BY DEF Others, OwedBy
<1> QED BY <1>1 DEF Owed

\* One row of the loop over update_lifted_ndarray.
LEMMA HotAddInv ==
  ASSUME TypeInv, HotInv, NEW c \in Conns, HotAdd(c)
  PROVE  HotInv'
<1> DEFINE q == conn[c]
           r == q.rows[q.turn]
<1>0. /\ conn \in [Conns -> Request] /\ q \in Request /\ ControlOf(c) /\ q.pc = "hot"
      /\ q.rows \in RowSeqs /\ hist \in History /\ hot \in VecTable \cup {NoIndex}
  BY RequestFields DEF TypeInv, TypeOK, Control, HotAdd, At
<1>1. /\ q.kind \in {"put", "batch", "tx"} /\ q.turn \in DOMAIN q.rows
      /\ DOMAIN q.rows = 1..Len(q.rows) /\ Len(q.rows) \in Nat
      /\ r \in Row /\ q.turn \in Nat
  <2>1. q.kind \in {"put", "batch", "tx"} /\ q.turn \in DOMAIN q.rows
    BY <1>0 DEF ControlOf
  <2>2. DOMAIN q.rows = 1..Len(q.rows) /\ Len(q.rows) \in Nat /\ q.rows \in Seq(Row)
    BY <1>0, RowsAreASequence, BrainAssumption
  <2> QED BY <2>1, <2>2
<1>2. \A i : OwedBy(c, i) => OwedBy(c, i)' \/ (i = r.id /\ r.vec # NoVec)
  <2> SUFFICES ASSUME NEW i, OwedBy(c, i), ~(i = r.id /\ r.vec # NoVec) PROVE OwedBy(c, i)'
    OBVIOUS
  <2>1. PICK j \in DOMAIN q.rows : j >= q.turn /\ q.rows[j].id = i /\ q.rows[j].vec # NoVec
    BY DEF OwedBy
  <2>2. j # q.turn
    BY <2>1
  <2>3. j >= q.turn + 1 /\ q.turn < Len(q.rows)
    BY <1>1, <2>1, <2>2
  <2>4. conn' = [conn EXCEPT ![c].turn = @ + 1]
    BY <2>3 DEF HotAdd
  <2>5. conn'[c] = [q EXCEPT !.turn = q.turn + 1]
    BY <1>0, <2>4
  <2>6. conn'[c].turn = q.turn + 1 /\ conn'[c].rows = q.rows /\ conn'[c].pc = "hot"
    BY <1>0, <2>5 DEF Request
  <2> QED BY <2>1, <2>3, <2>6 DEF OwedBy
<1>3. \A i : Owed(i) => Owed(i)' \/ (i = r.id /\ r.vec # NoVec)
  <2>1. Others(c)
    BY ServeRows DEF Serve
  <2>2. \A d \in Conns \ {c} : \A i : OwedBy(d, i) => OwedBy(d, i)'
    BY <2>1 DEF Others, OwedBy
  <2> QED BY <1>2, <2>2 DEF Owed
<1>4. /\ hot' = HotWith(r) /\ warm' = warm /\ up' = up /\ vecs' = vecs
      /\ hist' = IF r.vec # NoVec /\ hot = NoIndex /\ warm.at = "read"
                 THEN [hist EXCEPT !.missed = @ \cup {r.id}] ELSE hist
  BY DEF HotAdd, disk, brain
<1>5. Expected' \subseteq Expected
  BY <1>0, <1>4 DEF Expected, History, Present
<1>6. CASE hot = NoIndex
  <2>1. hot' = NoIndex
    BY <1>4, <1>6 DEF HotWith
  <2>2. ASSUME warm.at = "read", r.vec # NoVec PROVE r.id \notin Expected'
    BY <1>0, <1>4, <1>6, <2>2 DEF Expected, History
  <2> QED BY <1>3, <1>4, <1>5, <1>6, <2>1, <2>2 DEF HotInv
<1>7. CASE hot # NoIndex
  <2>1. warm.at = "done" /\ up
    BY <1>7 DEF HotInv
  <2>2. \A i \in Ids : hot[i] # NoVec \/ (i = r.id /\ r.vec # NoVec) => hot'[i] # NoVec
    BY <1>0, <1>1, <1>4, <1>7 DEF HotWith, VecTable, Row
  <2>3. Expected \subseteq Ids
    BY DEF Expected, Present
  <2> QED BY <1>3, <1>4, <1>5, <1>7, <2>1, <2>2, <2>3 DEF HotInv
<1> QED BY <1>6, <1>7

LEMMA HotInvStep == TypeInv /\ TypeInv' /\ HotInv /\ [Next]_vars => HotInv'
<1> SUFFICES ASSUME TypeInv, TypeInv', HotInv, [Next]_vars PROVE HotInv'
  OBVIOUS
<1>0. /\ conn \in [Conns -> Request] /\ hist \in History /\ Control
      /\ vecs \in [Ids -> Vecs \cup {NoVec}]
  BY DEF TypeInv, TypeOK, B!BrainType, B!Ids, Ids
<1>1. ASSUME UNCHANGED conn PROVE \A i : Owed(i) => Owed(i)'
  BY <1>1 DEF Owed, OwedBy
<1>2. CASE UNCHANGED vars
  BY <1>1, <1>2, HotFrame DEF vars, disk, brain, caches, Expected, Present
<1>3. ASSUME NEW c \in Conns, NEW k \in {"put", "batch", "tx"}, NEW rs \in Batches,
             PutCommit(c, k, rs)
      PROVE  HotInv'
  <2> DEFINE ids == IdsOf(rs)
  <2>1. /\ InsertEffect(rs, ids) /\ Others(c)
        /\ conn'[c].pc = "adjust" /\ conn'[c].turn = 1
        /\ conn'[c].rows = [j \in DOMAIN rs |-> [id |-> ids[j], vec |-> rs[j].vec]]
    BY <1>3, PutCommitConn
  <2> HIDE DEF ids
  <2>2. \A i : OwedBy(c, i) => OwedBy(c, i)'
    BY <1>3 DEF PutCommit, At, OwedBy
  <2>3. ASSUME NEW i \in Present(vecs'), i \notin Present(vecs) PROVE Owed(i)'
    <3>1. i \in Ids /\ vecs'[i] # NoVec /\ vecs[i] = NoVec
      BY <2>3 DEF Present
    <3>2. PICK j \in Fresh(rs) : ids[j] = i
      BY <2>1, <3>1 DEF InsertEffect
    <3>3. j \in DOMAIN rs /\ rs[j].vec # NoVec
      BY <2>1, <3>1, <3>2 DEF InsertEffect
    <3>4. j >= 1
      BY <3>3 DEF Batches
    <3> QED BY <2>1, <3>2, <3>3, <3>4 DEF Owed, OwedBy
  <2>4. UNCHANGED <<hot, warm, up, hist>>
    BY <1>3 DEF PutCommit, caches
  <2> QED BY <2>1, <2>2, <2>3, <2>4, OwedKept, HotFrame DEF Expected
<1>4. ASSUME NEW c \in Conns, Receive(c),
             ~\E k \in {"put", "batch", "tx"}, rs \in Batches : PutCommit(c, k, rs)
      PROVE  HotInv'
  <2>1. Others(c) /\ conn[c].rows = <<>>
    BY <1>4, ReceiveRows
  <2>2. \A i : OwedBy(c, i) => OwedBy(c, i)'
    BY <2>1 DEF OwedBy
  <2>3. /\ UNCHANGED <<hot, warm, up>> /\ Present(vecs') \subseteq Present(vecs)
        /\ hist'.foreign = hist.foreign /\ hist'.missed = hist.missed
    <3>1. ASSUME NEW i \in Ids, DeleteCommit(c, i)
          PROVE  /\ UNCHANGED <<hot, warm, up>> /\ Present(vecs') \subseteq Present(vecs)
                 /\ hist'.foreign = hist.foreign /\ hist'.missed = hist.missed
      BY <1>0, <3>1 DEF DeleteCommit, RemoveRow, Present, History, caches
    <3>2. ASSUME NEW i \in Ids, MergeCommit(c, i)
          PROVE  UNCHANGED <<hot, warm, up, vecs, hist>>
      BY <3>2 DEF MergeCommit, brain, caches
    <3>3. ASSUME NEW q \in Queries, SearchStat(c, q)
          PROVE  UNCHANGED <<hot, warm, up, vecs, hist>>
      BY <3>3 DEF SearchStat, disk, brain, caches
    <3>4. ASSUME StatsRequest(c)
          PROVE  UNCHANGED <<hot, warm, up, vecs, hist>>
      BY <3>4 DEF StatsRequest, disk, brain, caches
    <3> QED BY <1>4, <3>1, <3>2, <3>3, <3>4, OneIsABatch DEF Receive
  <2> QED BY <2>1, <2>2, <2>3, OwedKept, HotFrame DEF Expected
<1>5. ASSUME NEW c \in Conns, Serve(c), ~HotAdd(c) PROVE HotInv'
  <2>1. /\ UNCHANGED <<hot, warm, up, vecs>>
        /\ hist'.foreign = hist.foreign /\ hist'.missed = hist.missed
    <3>1. CASE Audit(c)
      <4>1. hist \in History /\ RowIds(c) \subseteq Ids
        BY RowIdsAreIds DEF TypeInv, TypeOK
      <4>2. UNCHANGED <<hot, warm, up, vecs>>
        BY <3>1 DEF Audit, brain, caches
      <4> QED BY <3>1, <4>1, <4>2, AuditFacts
    <3>2. CASE ~Audit(c)
      BY <1>5, <3>2 DEF Serve, AdjustStats, ClearCache, Emit, Lookup, Forget, Get, Query,
         LogQuery, Install, CountDocs, ReadMaxId, StoreStats, disk, brain, caches
    <3> QED BY <3>1, <3>2
  <2>2. Others(c)
    BY <1>5, ServeRows
  <2>3. CASE AdjustStats(c)
    <3>1. conn[c].kind \in {"put", "batch", "tx"} /\ conn[c].pc = "adjust" /\ conn[c] \in Request
      BY <1>0, <2>3 DEF AdjustStats, At, Control, ControlOf
    <3>2. Goto(c, "hot")
      BY <2>3, <3>1, FollowTable DEF AdjustStats, Proceed
    <3>3. conn'[c] = [conn[c] EXCEPT !.pc = "hot"]
      BY <1>0, <3>2, GotoFacts DEF PcValues
    <3>4. /\ conn'[c].pc = "hot" /\ conn'[c].rows = conn[c].rows
          /\ conn'[c].turn = conn[c].turn
      BY <3>1, <3>3 DEF Request
    <3>5. \A i : OwedBy(c, i) => OwedBy(c, i)'
      BY <3>4 DEF OwedBy
    <3> QED BY <2>1, <2>2, <3>5, OwedKept, HotFrame DEF Expected
  <2>4. CASE ~AdjustStats(c)
    <3>1. conn[c].pc \notin {"adjust", "hot"}
      BY <1>5, <2>4 DEF Serve, ClearCache, Audit, Emit, Lookup, Forget, Get, Query,
         LogQuery, Install, CountDocs, ReadMaxId, StoreStats, At
    <3>2. \A i : OwedBy(c, i) => OwedBy(c, i)'
      BY <3>1 DEF OwedBy
    <3> QED BY <2>1, <2>2, <3>2, OwedKept, HotFrame DEF Expected
  <2> QED BY <2>3, <2>4
<1>6. CASE Start
  BY <1>6 DEF Start, HotInv, NoWarm
<1>7. CASE WarmRead
  <2>1. hot' = NoIndex /\ up' = up /\ up /\ vecs' = vecs
    BY <1>7 DEF WarmRead, HotInv, disk, brain
  <2>2. CASE Present(vecs) = {}
    BY <1>7, <2>1, <2>2 DEF WarmRead, HotInv, NoWarm
  <2>3. CASE Present(vecs) # {}
    <3>1. warm' = [at |-> "read", table |-> vecs]
      BY <1>7, <2>3 DEF WarmRead
    <3>2. \A i \in Expected' : warm'.table[i] # NoVec
      BY <2>1, <3>1 DEF Expected, Present
    <3> QED BY <2>1, <3>1, <3>2 DEF HotInv
  <2> QED BY <2>2, <2>3
<1>8. CASE WarmInstall
  <2>1. /\ up' = up /\ up /\ hot' = warm.table /\ warm'.at = "done"
        /\ UNCHANGED <<conn, vecs, hist>>
    BY <1>8 DEF WarmInstall, HotInv, disk, brain, NoWarm
  <2>2. Expected' = Expected
    BY <2>1 DEF Expected
  <2> QED BY <1>1, <1>8, <2>1, <2>2 DEF WarmInstall, HotInv
<1>9. ASSUME NEW q \in PutRequest, ExtPut(q) PROVE HotInv'
  <2>1. UNCHANGED <<conn, hot, warm, up>>
    BY <1>9 DEF ExtPut, caches
  <2>2. CASE ~up
    BY <2>1, <2>2 DEF HotInv
  <2>3. CASE up
    <3>1. \A i \in Ids \ {seq'} : vecs'[i] = vecs[i]
      BY <1>9, ExtPutRow
    <3>2. hist'.foreign = hist.foreign \cup {seq'} /\ hist'.missed = hist.missed
      BY <1>0, <1>9, <2>3 DEF ExtPut, History
    <3>3. Expected' \subseteq Expected
      BY <3>1, <3>2 DEF Expected, Present
    <3> QED BY <1>1, <2>1, <3>3, HotFrame
  <2> QED BY <2>2, <2>3
<1>10. ASSUME NEW i \in Ids, ExtDelete(i) PROVE HotInv'
  <2>1. UNCHANGED <<conn, hot, warm, up>>
    BY <1>10 DEF ExtDelete, caches
  <2>2. hist'.foreign = hist.foreign /\ hist'.missed = hist.missed
    BY <1>0, <1>10 DEF ExtDelete, History
  <2>3. Present(vecs') \subseteq Present(vecs)
    BY <1>0, <1>10 DEF ExtDelete, RemoveRow, Present
  <2> QED BY <1>1, <2>1, <2>2, <2>3, HotFrame DEF Expected
<1>11. CASE Checkpoint \/ Expire
  BY <1>1, <1>11, HotFrame DEF Checkpoint, Expire, disk, brain, caches, Expected
<1>12. CASE Kill \/ Shutdown
  BY <1>12 DEF Kill, Shutdown, Exit, NoWarm, HotInv
<1> QED BY <1>2, <1>3, <1>4, <1>5, <1>6, <1>7, <1>8, <1>9, <1>10, <1>11, <1>12, HotAddInv
        DEF Next, Outside

\* However puts of several connections, other processes, the warm-up and
\* crashes interleave, an installed lifted index lacks only rows of other
\* processes, rows a put under way will still offer, and rows that were
\* offered between the read and the install of the warm-up.
THEOREM LiftedIndexIsComplete == Spec => []HotComplete
<1>1. Init => HotInv
  BY DEF Init, NoWarm, HotInv
<1>2. TypeInv /\ HotInv => HotComplete
  <2> SUFFICES ASSUME TypeInv, HotInv, hot # NoIndex,
                      NEW i \in Present(vecs) \ (hist.foreign \cup hist.missed)
               PROVE  \/ hot[i] # NoVec
                      \/ \E c \in Conns : conn[c].pc \in {"adjust", "hot"} /\ i \in RowIds(c)
    BY DEF HotComplete
  <2>1. hot[i] # NoVec \/ Owed(i)
    BY DEF HotInv, Expected
  <2> QED BY <2>1 DEF Owed, OwedBy, RowIds
<1> QED BY <1>1, <1>2, HotInvStep, TypeInvAlways, PTL DEF Spec

-----------------------------------------------------------------------------
(* The stats cache                                                         *)

\* What a connection has counted or inserted is there.
Bounded(c) ==
    /\ RowIds(c) \subseteq LiveIds
    /\ At(c, "max") => conn[c].count.docs <= Cardinality(LiveIds)
    /\ At(c, "store") => conn[c].count.docs <= Cardinality(Upto(LiveIds, conn[c].count.max))
SnapBounded == stats # Unset => stats.docs <= Cardinality(Upto(LiveIds, stats.max))

\* StatsNeverOvercount is not inductive: a recount reads the number and the
\* maximum at different times, and an adjustment adds the rows that pass the
\* maximum, so each count is bounded by the documents up to its own maximum.
StatsInv ==
    /\ ~up => stats = Unset /\ Quiet
    /\ ~hist.shrunk => (\A c \in Conns : Bounded(c)) /\ SnapBounded

\* Counts of ids grow with the set.
LEMMA UptoGrows ==
  ASSUME NEW S, NEW T, S \subseteq T, T \subseteq Ids
  PROVE  /\ Cardinality(S) \in Nat /\ Cardinality(T) \in Nat
         /\ Cardinality(S) <= Cardinality(T)
         /\ \A m : /\ Cardinality(Upto(S, m)) \in Nat /\ Cardinality(Upto(T, m)) \in Nat
                   /\ Cardinality(Upto(S, m)) <= Cardinality(Upto(T, m))
                   /\ Cardinality(Upto(T, m)) <= Cardinality(T)
<1>1. ASSUME NEW U, NEW W, U \subseteq W, W \subseteq Ids
      PROVE  /\ Cardinality(U) \in Nat /\ Cardinality(W) \in Nat
             /\ Cardinality(U) <= Cardinality(W)
  <2>1. IsFiniteSet(W) /\ Cardinality(W) \in Nat /\ Cardinality(U) \in Nat
    BY <1>1, IdSetCardinality, BrainAssumption
  <2> QED BY <1>1, <2>1, FS_Subset
<1>2. \A m : Upto(S, m) \subseteq Upto(T, m) /\ Upto(T, m) \subseteq T /\ Upto(T, m) \subseteq Ids
  BY DEF Upto
<1>3. ASSUME NEW m
      PROVE  /\ Cardinality(Upto(S, m)) \in Nat /\ Cardinality(Upto(T, m)) \in Nat
             /\ Cardinality(Upto(S, m)) <= Cardinality(Upto(T, m))
             /\ Cardinality(Upto(T, m)) <= Cardinality(T)
  BY <1>1, <1>2
<1> QED BY <1>1, <1>3

\* adjust_stats_cache: the rows it counts are documents above the old maximum
\* and up to the new one, each counted once.
LEMMA AdjustedBound ==
  ASSUME NEW s \in Snapshot, NEW rw \in RowSeqs, NEW L, L \subseteq Ids,
         \A k \in DOMAIN rw : rw[k].id \in L,
         s.docs <= Cardinality(Upto(L, s.max))
  PROVE  Adjusted(s, rw).docs <= Cardinality(Upto(L, Adjusted(s, rw).max))
<1> DEFINE P == Passing(s, rw)
           a == Adjusted(s, rw)
           f == [k \in P |-> rw[k].id]
           N == {f[k] : k \in P}
<1>1. /\ a \in Snapshot /\ a.docs = s.docs + Cardinality(P) /\ a.max >= s.max
      /\ \A k \in DOMAIN rw : rw[k].id <= a.max
      /\ IsFiniteSet(P) /\ Cardinality(P) \in Nat
  BY AdjustedFields
<1>2. DOMAIN rw = 1..Len(rw) /\ Len(rw) \in Nat
  BY RowsAreASequence, BrainAssumption
<1>3. P \subseteq DOMAIN rw /\ \A k \in P : f[k] = rw[k].id /\ f[k] \in L /\ f[k] > s.max
  BY DEF Passing
<1>4. \A j, k \in P : j < k => f[j] < f[k]
  BY <1>2, <1>3 DEF Passing
<1>5. \A j, k \in P : f[j] = f[k] => j = k
  <2> SUFFICES ASSUME NEW j \in P, NEW k \in P, f[j] = f[k], j # k PROVE FALSE
    OBVIOUS
  <2>1. j < k \/ k < j
    BY <1>2, <1>3
  <2>2. f[j] \in Ids
    BY <1>3, Zenon
  <2> HIDE DEF f
  <2>3. f[j] \in Nat
    BY <2>2, BrainAssumption DEF Ids
  <2> QED BY <1>4, <2>1, <2>3
<1> HIDE DEF P, f, a
<1>6. Cardinality(N) = Cardinality(P)
  BY <1>1, <1>5, CountByValues
<1>7. s.max \in Nat /\ a.max \in Nat /\ s.docs \in Nat /\ L \subseteq Nat
  BY <1>1, BrainAssumption DEF Snapshot, Ids
<1>8. /\ Upto(L, s.max) \cap N = {}
      /\ Upto(L, s.max) \cup N \subseteq Upto(L, a.max)
      /\ Upto(L, s.max) \subseteq Ids /\ N \subseteq Ids /\ Upto(L, a.max) \subseteq Ids
  <2>1. \A i \in N : i \in L /\ i \in Nat /\ i > s.max /\ i <= a.max
    BY <1>1, <1>3, <1>7
  <2>2. \A i \in N : i \notin Upto(L, s.max)
    BY <1>7, <2>1 DEF Upto
  <2>3. ASSUME NEW i \in Upto(L, s.max) PROVE i \in L /\ i <= a.max
    <3>1. i \in L /\ i \in Nat /\ i <= s.max
      BY <1>7 DEF Upto
    <3>2. a.max >= s.max
      BY <1>1
    <3> QED BY <1>7, <3>1, <3>2
  <2> HIDE DEF N
  <2> QED BY <2>1, <2>2, <2>3 DEF Upto
<1> HIDE DEF N
<1>9. /\ Cardinality(Upto(L, s.max) \cup N) = Cardinality(Upto(L, s.max)) + Cardinality(N)
      /\ Cardinality(Upto(L, s.max)) \in Nat
  BY <1>8, DisjointCount
<1>10. /\ Cardinality(Upto(L, s.max) \cup N) <= Cardinality(Upto(L, a.max))
       /\ Cardinality(Upto(L, a.max)) \in Nat
  BY <1>8, UptoGrows
<1> QED BY <1>1, <1>6, <1>7, <1>9, <1>10 DEF a

\* Documents added elsewhere leave a bounded count bounded.
LEMMA BoundedKept ==
  ASSUME TypeInv, LiveIds \subseteq LiveIds', NEW c \in Conns, Bounded(c), conn'[c] = conn[c]
  PROVE  Bounded(c)'
<1>1. conn[c].count.docs \in Nat
  BY BrainAssumption DEF TypeInv, TypeOK, Request, Counts
<1>2. LiveIds' \subseteq Ids
  BY DEF LiveIds
<1>3. RowIds(c)' = RowIds(c)
  BY DEF RowIds
<1> QED BY <1>1, <1>2, <1>3, UptoGrows DEF Bounded, At

LEMMA SnapKept ==
  ASSUME TypeInv, LiveIds \subseteq LiveIds', SnapBounded,
         stats' # Unset => stats # Unset /\ stats'.docs = stats.docs /\ stats'.max = stats.max
  PROVE  SnapBounded'
<1>1. stats # Unset => stats.docs \in Nat
  BY DEF TypeInv, TypeOK
<1>2. LiveIds' \subseteq Ids
  BY DEF LiveIds
<1> QED BY <1>1, <1>2, UptoGrows DEF SnapBounded

\* An idle daemon without a snapshot has counted nothing.
LEMMA QuietIsBounded ==
  ASSUME TypeInv', stats' = Unset, \A c \in Conns : conn'[c].pc = "idle"
  PROVE  StatsInv'
<1>1. \A c \in Conns : conn'[c].rows = <<>>
  BY DEF TypeInv, Control, ControlOf
<1>2. \A c \in Conns : RowIds(c)' = {}
  BY <1>1 DEF RowIds
<1> QED BY <1>2 DEF StatsInv, Bounded, SnapBounded, Quiet, At

\* While the daemon runs and no delete is noted, documents only come.
LEMMA GrowStep ==
  ASSUME TypeInv, [Next]_vars, up, ~hist'.shrunk
  PROVE  ~hist.shrunk /\ LiveIds \subseteq LiveIds'
<1>0. hist \in History /\ docs \in [Ids -> Texts \cup {NoText}]
  BY DEF TypeInv, TypeOK, B!BrainType, B!Ids, Ids
<1>1. ~hist.shrunk
  <2>1. CASE UNCHANGED vars
    BY <2>1 DEF vars
  <2>2. ASSUME NEW c \in Conns, Serve(c) PROVE hist'.shrunk = hist.shrunk
    <3>1. CASE Audit(c)
      <4>1. RowIds(c) \subseteq Ids
        BY RowIdsAreIds DEF TypeInv, TypeOK
      <4> QED BY <1>0, <3>1, <4>1, AuditFacts
    <3>2. CASE ~Audit(c)
      BY <1>0, <2>2, <3>2 DEF Serve, AdjustStats, HotAdd, ClearCache, Emit, Lookup, Forget, Get,
         Query, LogQuery, Install, CountDocs, ReadMaxId, StoreStats, History
    <3> QED BY <3>1, <3>2
  <2>3. ASSUME NEW c \in Conns, Receive(c) PROVE hist'.shrunk = hist.shrunk \/ hist'.shrunk
    BY <1>0, <2>3 DEF Receive, PutCommit, MergeCommit, SearchStat, StatsRequest, DeleteCommit,
       History
  <2>4. ASSUME Start \/ WarmRead \/ WarmInstall \/ Outside
        PROVE  hist'.shrunk = hist.shrunk \/ hist'.shrunk
    BY <1>0, <2>4 DEF Start, WarmRead, WarmInstall, Outside, ExtPut, ExtDelete, Checkpoint,
       Expire, Kill, Shutdown, History
  <2> QED BY <2>1, <2>2, <2>3, <2>4 DEF Next
<1>2. ASSUME UNCHANGED brain PROVE LiveIds \subseteq LiveIds'
  BY <1>2 DEF brain, LiveIds
<1>3. ASSUME NEW c \in Conns, NEW k \in {"put", "batch", "tx"}, NEW rs \in Batches,
             PutCommit(c, k, rs)
      PROVE  LiveIds \subseteq LiveIds'
  BY <1>3, CommitRows
<1>4. ASSUME NEW c \in Conns, NEW i \in Ids, DeleteCommit(c, i) PROVE LiveIds \subseteq LiveIds'
  <2>1. i \notin LiveIds
    BY <1>0, <1>4 DEF DeleteCommit, History
  <2> QED BY <1>0, <1>4, <2>1 DEF DeleteCommit, RemoveRow, LiveIds
<1>5. ASSUME NEW q \in PutRequest, ExtPut(q) PROVE LiveIds \subseteq LiveIds'
  BY <1>5, ExtPutRow
<1>6. ASSUME NEW i \in Ids PROVE ~ExtDelete(i)
  BY <1>0 DEF ExtDelete, History
<1> QED BY <1>1, <1>2, <1>3, <1>4, <1>5, <1>6, TablesStep

\* What the steps of a handler leave alone: only CountDocs and ReadMaxId bring
\* it to the steps of a recount and change its counts, only Query finds hits.
Keeps(c) ==
    /\ conn'[c].pc \notin {"max", "store"}
    /\ conn'[c].pc \in {"log", "install"} => Query(c) \/ LogQuery(c)
    /\ conn'[c].pc = "forget" => Lookup(c)
    /\ conn'[c].count \in {conn[c].count, NoCount}
    /\ conn'[c].look \in {conn[c].look, 0}
    /\ Query(c) \/ conn'[c].found \in {conn[c].found, {}}

LEMMA PlainServe ==
  ASSUME TypeInv, NEW c \in Conns, Serve(c), ~CountDocs(c), ~ReadMaxId(c)
  PROVE  Keeps(c)
<1> DEFINE r == conn[c]
<1>0. /\ conn \in [Conns -> Request] /\ r \in Request /\ ControlOf(c) /\ r.kind \in Kinds
  BY RequestFields DEF TypeInv, TypeOK, Control
<1> USE DEF At
<1>1. ASSUME NEW l \in PcValues \ {"max", "store", "forget", "log"}, Goto(c, l),
             l = "install" => LogQuery(c)
      PROVE  Keeps(c)
  <2>1. /\ conn'[c].pc = l
        /\ l = "idle" => conn'[c] = Idle
        /\ l # "idle" => conn'[c] = [r EXCEPT !.pc = l]
    BY <1>0, <1>1, GotoFacts
  <2>2. CASE l = "idle"
    <3>1. conn'[c].count = NoCount /\ conn'[c].look = 0 /\ conn'[c].found = {}
      BY <2>1, <2>2 DEF Idle
    <3> QED BY <2>1, <2>2, <3>1 DEF Keeps
  <2>3. CASE l # "idle"
    <3>1. conn'[c].count = r.count /\ conn'[c].look = r.look /\ conn'[c].found = r.found
      BY <1>0, <2>1, <2>3 DEF Request
    <3> QED BY <1>1, <2>1, <2>3, <3>1 DEF Keeps
  <2> QED BY <2>2, <2>3
<1>2. CASE AdjustStats(c) \/ HotAdd(c) \/ ClearCache(c) \/ Audit(c) \/ Emit(c)
  <2>1. CASE Proceed(c)
    <3>1. r.pc \in {"adjust", "hot", "clear", "audit", "emit"}
      BY <1>2 DEF AdjustStats, HotAdd, ClearCache, Audit, Emit
    <3>2. r.pc \in {"adjust", "hot"} => r.kind \in {"put", "batch", "tx"}
      BY <1>0 DEF ControlOf
    <3>3. r.pc = "emit" => r.kind \in {"put", "batch"}
      BY <1>0 DEF ControlOf
    <3>4. Follow[r.kind][r.pc] \in {"hot", "clear", "audit", "emit", "idle"}
      BY <1>0, <3>1, <3>2, <3>3, FollowTable DEF Kinds
    <3>5. PICK l \in {"hot", "clear", "audit", "emit", "idle"} : Goto(c, l)
      BY <2>1, <3>4 DEF Proceed
    <3> QED BY <1>1, <3>5 DEF PcValues
  <2>2. CASE conn' = [conn EXCEPT ![c].turn = @ + 1] /\ HotAdd(c)
    <3>1. conn'[c] = [r EXCEPT !.turn = r.turn + 1] /\ r.pc = "hot"
      BY <1>0, <2>2 DEF HotAdd
    <3>2. /\ conn'[c].pc = "hot" /\ conn'[c].count = r.count
          /\ conn'[c].look = r.look /\ conn'[c].found = r.found
      BY <1>0, <3>1 DEF Request
    <3> QED BY <3>2 DEF Keeps
  <2> QED BY <1>2, <2>1, <2>2 DEF AdjustStats, HotAdd, ClearCache, Audit, Emit
<1>3. CASE Lookup(c)
  <2>1. PICK l \in {"get", "forget"} : conn' = [conn EXCEPT ![c].look = 0, ![c].pc = l]
    BY <1>3 DEF Lookup
  <2>2. conn'[c] = [r EXCEPT !.look = 0, !.pc = l]
    BY <1>0, <2>1
  <2>3. /\ conn'[c].pc = l /\ conn'[c].count = r.count
        /\ conn'[c].look = 0 /\ conn'[c].found = r.found
    BY <1>0, <2>2 DEF Request
  <2> QED BY <1>3, <2>3 DEF Keeps
<1>4. CASE Query(c)
  <2>1. conn'[c] = [r EXCEPT !.pc = "log", !.found = LiveIds]
    BY <1>0, <1>4 DEF Query
  <2>2. conn'[c].pc = "log" /\ conn'[c].count = r.count /\ conn'[c].look = r.look
    BY <1>0, <2>1 DEF Request
  <2> QED BY <1>4, <2>2 DEF Keeps
<1>5. CASE LogQuery(c)
  BY <1>1, <1>5 DEF LogQuery, PcValues
<1>6. CASE Forget(c) \/ Get(c) \/ Install(c) \/ StoreStats(c)
  <2>1. PICK l \in {"query", "idle"} : Goto(c, l)
    BY <1>6 DEF Forget, Get, Install, StoreStats
  <2> QED BY <1>1, <2>1 DEF PcValues
<1> QED BY <1>2, <1>3, <1>4, <1>5, <1>6 DEF Serve

\* What a request that brings no rows leaves alone.
LEMMA PlainReceive ==
  ASSUME TypeInv, NEW c \in Conns, Receive(c),
         ~\E k \in {"put", "batch", "tx"}, rs \in Batches : PutCommit(c, k, rs)
  PROVE  /\ conn'[c].pc \in {"idle", "audit", "lookup", "count"}
         /\ conn'[c].count = NoCount
         /\ conn'[c].look \in {0, stamp}
         /\ UNCHANGED <<caches, up, audited>>
         /\ UNCHANGED <<brain, stamp>> \/ stamp' = stamp + 1
<1> DEFINE r == conn[c]
<1>0. conn \in [Conns -> Request] /\ r \in Request
  BY DEF TypeInv, TypeOK
<1>1. r = Idle
  BY DEF Receive, PutCommit, DeleteCommit, MergeCommit, SearchStat, StatsRequest, At,
     TypeInv, Control, ControlOf
<1>2. r.pc = "idle" /\ r.count = NoCount /\ r.look = 0
  BY <1>1 DEF Idle
<1> HIDE DEF r
<1>3. ASSUME NEW i \in Ids, DeleteCommit(c, i) \/ MergeCommit(c, i)
      PROVE  /\ conn'[c].pc = "audit" /\ conn'[c].count = NoCount /\ conn'[c].look = 0
             /\ UNCHANGED <<caches, up, audited>> /\ stamp' = stamp + 1
  <2>1. PICK k : conn' = [conn EXCEPT ![c].pc = "audit", ![c].kind = k]
    BY <1>3 DEF DeleteCommit, MergeCommit
  <2>2. conn'[c] = [r EXCEPT !.pc = "audit", !.kind = k]
    BY <1>0, <2>1 DEF r
  <2>3. conn'[c].pc = "audit" /\ conn'[c].count = r.count /\ conn'[c].look = r.look
    BY <1>0, <2>2 DEF Request
  <2> QED BY <1>2, <1>3, <2>3 DEF DeleteCommit, MergeCommit, Write
<1>4. ASSUME NEW q \in Queries, SearchStat(c, q)
      PROVE  /\ conn'[c].pc = "lookup" /\ conn'[c].count = NoCount /\ conn'[c].look = stamp
             /\ UNCHANGED <<caches, up, audited, brain, stamp>>
  <2>1. conn'[c] = [r EXCEPT !.pc = "lookup", !.query = q, !.look = stamp]
    BY <1>0, <1>4 DEF SearchStat, r
  <2>2. conn'[c].pc = "lookup" /\ conn'[c].count = r.count /\ conn'[c].look = stamp
    BY <1>0, <2>1 DEF Request
  <2> QED BY <1>2, <1>4, <2>2 DEF SearchStat, disk
<1>5. ASSUME StatsRequest(c)
      PROVE  /\ conn'[c].pc \in {"idle", "count"} /\ conn'[c].count = NoCount
             /\ conn'[c].look = 0 /\ UNCHANGED <<caches, up, audited, brain, stamp>>
  <2>1. CASE UNCHANGED conn
    BY <1>2, <1>5, <2>1 DEF StatsRequest, disk, r
  <2>2. CASE Goto(c, "count")
    <3>1. conn'[c] = [r EXCEPT !.pc = "count"]
      BY <1>0, <2>2, GotoFacts DEF PcValues, r
    <3>2. conn'[c].pc = "count" /\ conn'[c].count = r.count /\ conn'[c].look = r.look
      BY <1>0, <3>1 DEF Request
    <3> QED BY <1>2, <1>5, <3>2 DEF StatsRequest, disk
  <2> QED BY <1>5, <2>1, <2>2 DEF StatsRequest
<1> QED BY <1>3, <1>4, <1>5, OneIsABatch, Zenon DEF Receive

LEMMA StatsInvStep == TypeInv /\ TypeInv' /\ StatsInv /\ [Next]_vars => StatsInv'
<1> SUFFICES ASSUME TypeInv, TypeInv', StatsInv, [Next]_vars PROVE StatsInv'
  OBVIOUS
<1>0. /\ conn \in [Conns -> Request] /\ hist \in History /\ up \in BOOLEAN
      /\ stats \in Snapshot \cup {Unset} /\ LiveIds \subseteq Ids /\ LiveIds' \subseteq Ids
  BY DEF TypeInv, TypeOK, Snapshot, LiveIds
<1>1. CASE Kill \/ Shutdown
  <2>1. stats' = Unset /\ \A c \in Conns : conn'[c].pc = "idle"
    BY <1>1 DEF Kill, Shutdown, Exit, Idle
  <2> QED BY <2>1, QuietIsBounded
<1>2. CASE ~up
  <2>1. stats = Unset /\ \A c \in Conns : conn[c].pc = "idle"
    BY <1>2 DEF StatsInv, Quiet, At
  <2>2. ~\E c \in Conns : Receive(c) \/ Serve(c)
    BY <1>2, <2>1, ZenonT(40) DEF Receive, PutCommit, DeleteCommit, MergeCommit, SearchStat, StatsRequest,
       Serve, AdjustStats, HotAdd, ClearCache, Audit, Emit, Lookup, Forget, Get, Query, LogQuery,
       Install, CountDocs, ReadMaxId, StoreStats, At
  <2>3. CASE UNCHANGED <<conn, stats>>
    BY <2>1, <2>3, QuietIsBounded
  <2>4. CASE Start \/ WarmRead \/ WarmInstall \/ UNCHANGED vars
    BY <2>3, <2>4 DEF Start, WarmRead, WarmInstall, vars, caches
  <2>5. CASE Outside
    BY <1>2, <2>1, <2>3, <2>5 DEF Outside, ExtPut, ExtDelete, Checkpoint, Expire, Kill, Shutdown,
       Exit, caches
  <2> QED BY <2>2, <2>4, <2>5 DEF Next
<1>3. CASE up /\ ~Kill /\ ~Shutdown
  <2>1. up'
    <3>1. ASSUME NEW c \in Conns, Receive(c) PROVE up' = up
      BY <3>1 DEF Receive, PutCommit, DeleteCommit, MergeCommit, SearchStat, StatsRequest
    <3>2. ASSUME NEW c \in Conns, Serve(c) PROVE up' = up
      BY <3>2 DEF Serve, AdjustStats, HotAdd, ClearCache, Audit, Emit, Lookup, Forget, Get,
         Query, LogQuery, Install, CountDocs, ReadMaxId, StoreStats
    <3>3. CASE Start \/ WarmRead \/ WarmInstall \/ Outside \/ UNCHANGED vars
      BY <1>3, <3>3 DEF Start, WarmRead, WarmInstall, vars, Outside, ExtPut, ExtDelete,
         Checkpoint, Expire
    <3> QED BY <1>3, <3>1, <3>2, <3>3 DEF Next
  <2> SUFFICES ASSUME ~hist'.shrunk PROVE (\A c \in Conns : Bounded(c)') /\ SnapBounded'
    BY <2>1 DEF StatsInv
  <2>2. LiveIds \subseteq LiveIds' /\ (\A c \in Conns : Bounded(c)) /\ SnapBounded
    BY <1>3, GrowStep DEF StatsInv
  <2>3. ASSUME NEW c \in Conns, Others(c), Bounded(c)' PROVE \A d \in Conns : Bounded(d)'
    BY <2>2, <2>3, BoundedKept DEF Others
  <2>4. ASSUME UNCHANGED conn PROVE \A c \in Conns : Bounded(c)'
    BY <2>2, <2>4, BoundedKept
  <2>5. ASSUME UNCHANGED stats PROVE SnapBounded'
    BY <2>2, <2>5, SnapKept
  <2>6. ASSUME NEW c \in Conns, NEW k \in {"put", "batch", "tx"}, NEW rs \in Batches,
               PutCommit(c, k, rs)
        PROVE  (\A d \in Conns : Bounded(d)') /\ SnapBounded'
    <3> DEFINE ids == IdsOf(rs)
    <3>1. /\ InsertEffect(rs, ids) /\ Others(c) /\ conn'[c].pc = "adjust"
          /\ conn'[c].rows = [j \in DOMAIN rs |-> [id |-> ids[j], vec |-> rs[j].vec]]
      BY <2>6, PutCommitConn
    <3>2. LiveIds' = LiveIds \cup {ids[j] : j \in Fresh(rs)}
      BY <2>6, CommitRows
    <3> HIDE DEF ids
    <3>3. ASSUME NEW j \in DOMAIN rs PROVE ids[j] \in LiveIds'
      <4>1. CASE j \in Fresh(rs)
        BY <3>2, <4>1
      <4>2. CASE docs[ids[j]] = rs[j].text
        <5>1. rs[j].text # NoText /\ ids[j] \in Ids
          BY <3>1, <3>3, BrainAssumption DEF Batches, PutRequest, InsertEffect
        <5> QED BY <3>2, <4>2, <5>1 DEF LiveIds
      <4>3. CASE \E h \in Fresh(rs) : ids[h] = ids[j]
        BY <3>2, <4>3
      <4> QED BY <3>1, <3>3, <4>1, <4>2, <4>3 DEF InsertEffect
    <3>4. RowIds(c)' \subseteq LiveIds'
      BY <3>1, <3>3 DEF RowIds
    <3>5. Bounded(c)'
      BY <3>1, <3>4 DEF Bounded, At
    <3> QED BY <2>3, <2>5, <2>6, <3>1, <3>5 DEF PutCommit, caches
  <2>7. ASSUME NEW c \in Conns, Receive(c),
               ~\E k \in {"put", "batch", "tx"}, rs \in Batches : PutCommit(c, k, rs)
        PROVE  (\A d \in Conns : Bounded(d)') /\ SnapBounded'
    <3>1. Others(c) /\ conn'[c].rows = <<>>
      BY <2>7, ReceiveRows
    <3>2. conn'[c].pc \notin {"max", "store"} /\ stats' = stats
      BY <2>7, PlainReceive DEF caches
    <3>3. RowIds(c)' = {}
      BY <3>1 DEF RowIds
    <3>4. Bounded(c)'
      BY <3>2, <3>3 DEF Bounded, At
    <3> QED BY <2>3, <2>5, <3>1, <3>2, <3>4
  <2>8. ASSUME NEW c \in Conns, Serve(c) PROVE (\A d \in Conns : Bounded(d)') /\ SnapBounded'
    <3> DEFINE r == conn[c]
    <3>0. r \in Request /\ r.rows \in RowSeqs /\ r.count \in Counts
      BY <1>0, RequestFields
    <3>1. Others(c) /\ (conn'[c].rows = r.rows \/ conn'[c] = Idle)
      BY <2>8, ServeRows
    <3>2. RowIds(c)' \subseteq LiveIds'
      <4>1. CASE conn'[c].rows = r.rows
        <5>1. RowIds(c)' = RowIds(c)
          BY <4>1 DEF RowIds
        <5> QED BY <2>2, <5>1 DEF Bounded
      <4>2. CASE conn'[c] = Idle
        BY <4>2 DEF RowIds, Idle
      <4> QED BY <3>1, <4>1, <4>2
    <3>3. CASE CountDocs(c)
      <4>1. /\ conn' = [conn EXCEPT ![c].pc = "max", ![c].count =
                 [docs |-> Cardinality(LiveIds), vecs |-> Cardinality(Present(vecs)), max |-> 0]]
            /\ stats' = stats /\ LiveIds' = LiveIds
        BY <3>3 DEF CountDocs, caches, disk, brain, LiveIds
      <4>2. conn'[c] = [r EXCEPT !.pc = "max", !.count =
              [docs |-> Cardinality(LiveIds), vecs |-> Cardinality(Present(vecs)), max |-> 0]]
        BY <1>0, <4>1
      <4>3. conn'[c].pc = "max" /\ conn'[c].count.docs = Cardinality(LiveIds)
        BY <3>0, <4>2 DEF Request
      <4>4. Cardinality(LiveIds) \in Nat
        BY <1>0, UptoGrows
      <4>5. Bounded(c)'
        BY <3>2, <4>1, <4>3, <4>4 DEF Bounded, At
      <4> QED BY <2>3, <2>5, <3>1, <4>1, <4>5
    <3>4. CASE ReadMaxId(c)
      <4>1. PICK m \in LiveIds \cup {0} :
                /\ \A i \in LiveIds : i <= m
                /\ conn' = [conn EXCEPT ![c].pc = "store", ![c].count.max = m]
        BY <3>4 DEF ReadMaxId
      <4>2. stats' = stats /\ LiveIds' = LiveIds /\ r.pc = "max"
        BY <3>4 DEF ReadMaxId, caches, disk, brain, LiveIds, At
      <4>3. conn'[c] = [r EXCEPT !.pc = "store", !.count.max = m]
        BY <1>0, <4>1
      <4>4. /\ conn'[c].pc = "store" /\ conn'[c].count.docs = r.count.docs
            /\ conn'[c].count.max = m
        BY <3>0, <4>3 DEF Request, Counts
      <4>5. Upto(LiveIds, m) = LiveIds
        BY <4>1 DEF Upto
      <4>6. r.count.docs <= Cardinality(LiveIds)
        BY <2>2, <4>2 DEF Bounded, At
      <4>7. Bounded(c)'
        BY <3>2, <4>2, <4>4, <4>5, <4>6 DEF Bounded, At
      <4> QED BY <2>3, <2>5, <3>1, <4>2, <4>7
    <3>5. CASE ~CountDocs(c) /\ ~ReadMaxId(c)
      <4>1. \A d \in Conns : Bounded(d)'
        <5>1. conn'[c].pc \notin {"max", "store"}
          BY <2>8, <3>5, PlainServe DEF Keeps
        <5>2. Bounded(c)'
          BY <3>2, <5>1 DEF Bounded, At
        <5> QED BY <2>3, <3>1, <5>2
      <4>2. CASE StoreStats(c)
        <5>1. /\ stats' = [docs |-> r.count.docs, vecs |-> r.count.vecs,
                           max |-> r.count.max, fresh |-> TRUE]
              /\ LiveIds' = LiveIds /\ r.pc = "store"
          BY <4>2 DEF StoreStats, At, disk, brain, LiveIds
        <5>2. r.count.docs <= Cardinality(Upto(LiveIds, r.count.max))
          BY <2>2, <5>1 DEF Bounded, At
        <5> QED BY <4>1, <5>1, <5>2 DEF SnapBounded
      <4>3. CASE AdjustStats(c)
        <5>1. /\ stats' = IF stats = Unset THEN Unset ELSE Adjusted(stats, r.rows)
              /\ LiveIds' = LiveIds
          BY <4>3 DEF AdjustStats, disk, brain, LiveIds
        <5>2. CASE stats = Unset
          BY <4>1, <5>1, <5>2 DEF SnapBounded
        <5>3. CASE stats # Unset
          <6>1. stats \in Snapshot /\ stats.docs <= Cardinality(Upto(LiveIds, stats.max))
            BY <1>0, <2>2, <5>3 DEF SnapBounded
          <6>2. \A k \in DOMAIN r.rows : r.rows[k].id \in LiveIds
            BY <2>2 DEF Bounded, RowIds
          <6>3. Adjusted(stats, r.rows).docs
                   <= Cardinality(Upto(LiveIds, Adjusted(stats, r.rows).max))
            BY <1>0, <3>0, <6>1, <6>2, AdjustedBound
          <6> QED BY <4>1, <5>1, <5>3, <6>3 DEF SnapBounded
        <5> QED BY <5>2, <5>3
      <4>4. CASE ~StoreStats(c) /\ ~AdjustStats(c)
        <5>1. stats' = stats
          BY <2>8, <3>5, <4>4 DEF Serve, HotAdd, ClearCache, Audit, Emit, Lookup, Forget, Get,
             Query, LogQuery, Install, caches
        <5> QED BY <2>5, <4>1, <5>1
      <4> QED BY <4>2, <4>3, <4>4
    <3> QED BY <3>3, <3>4, <3>5
  <2>9. CASE Expire
    <3>1. /\ stats # Unset /\ stats' = [stats EXCEPT !.fresh = FALSE] /\ UNCHANGED conn
      BY <2>9 DEF Expire
    <3>2. stats'.docs = stats.docs /\ stats'.max = stats.max
      BY <1>0, <3>1 DEF Snapshot
    <3> QED BY <2>2, <2>4, <3>1, <3>2, SnapKept
  <2>10. CASE \/ Start \/ WarmRead \/ WarmInstall \/ UNCHANGED vars \/ Checkpoint
              \/ \E q \in PutRequest : ExtPut(q)
              \/ \E i \in Ids : ExtDelete(i)
    BY <1>3, <2>4, <2>5, <2>10 DEF Start, WarmRead, WarmInstall, vars, caches, ExtPut, ExtDelete,
       Checkpoint
  <2> QED BY <1>3, <2>6, <2>7, <2>8, <2>9, <2>10 DEF Next, Outside
<1> QED BY <1>1, <1>2, <1>3

\* However puts of any number of connections and of other processes interleave
\* with each other and with a recount, the stats snapshot counts no document
\* twice, as long as none was deleted.
THEOREM StatsAreBounded == Spec => []StatsNeverOvercount
<1>1. Init => StatsInv
  <2> SUFFICES ASSUME Init PROVE StatsInv
    OBVIOUS
  <2>1. \A c \in Conns : conn[c].pc = "idle" /\ conn[c].rows = <<>>
    BY DEF Init, Idle
  <2>2. stats = Unset
    BY DEF Init
  <2> QED BY <2>1, <2>2 DEF StatsInv, Bounded, SnapBounded, RowIds, Quiet, At
<1>2. TypeInv /\ StatsInv => StatsNeverOvercount
  <2> SUFFICES ASSUME TypeInv, StatsInv, stats # Unset, ~hist.shrunk
               PROVE  stats.docs <= Cardinality(LiveIds)
    BY DEF StatsNeverOvercount
  <2>1. LiveIds \subseteq Ids /\ stats.docs \in Nat
    BY DEF TypeInv, TypeOK, LiveIds
  <2>2. stats.docs <= Cardinality(Upto(LiveIds, stats.max))
    BY DEF StatsInv, SnapBounded
  <2>3. /\ Cardinality(Upto(LiveIds, stats.max)) <= Cardinality(LiveIds)
        /\ Cardinality(Upto(LiveIds, stats.max)) \in Nat /\ Cardinality(LiveIds) \in Nat
    BY <2>1, UptoGrows
  <2> QED BY <2>1, <2>2, <2>3
<1> QED BY <1>1, <1>2, StatsInvStep, TypeInvAlways, PTL DEF Spec

-----------------------------------------------------------------------------
(* Row ids                                                                 *)

\* No id above sqlite_sequence is in use, in the tables, in the snapshot, on
\* the stack of a handler; and an embedding has its document.
TablesInv ==
    /\ \A i \in LiveIds : i <= seq
    /\ Present(vecs) \subseteq LiveIds
    /\ stats # Unset => stats.max <= seq
    /\ \A c \in Conns : /\ conn[c].count.max <= seq
                        /\ \A i \in RowIds(c) : i <= seq

\* The tables after a put: its new ids are above every id in use.
LEMMA InsertTables ==
  ASSUME TypeInv, TypeInv', TablesInv, NEW rs \in Batches, NEW ids, InsertEffect(rs, ids)
  PROVE  /\ \A i \in LiveIds' : i <= seq'
         /\ Present(vecs') \subseteq LiveIds'
         /\ \A k \in DOMAIN rs : ids[k] <= seq'
         /\ Present(vecs') = Present(vecs) \cup {ids[k] : k \in {j \in Fresh(rs) : rs[j].vec # NoVec}}
<1>0. /\ seq \in Nat /\ seq' \in Nat /\ seq <= seq' /\ ids \in [DOMAIN rs -> Ids] /\ Ids \subseteq Nat
  BY BrainAssumption DEF TypeInv, TypeOK, B!BrainType, InsertEffect, Ids
<1>1. LiveIds' = LiveIds \cup {ids[k] : k \in Fresh(rs)}
  BY LiveAfterInsert
<1>2. \A k \in Fresh(rs) : /\ k \in DOMAIN rs /\ ids[k] \in Ids /\ ids[k] <= seq' /\ ids[k] > seq
                           /\ vecs'[ids[k]] = rs[k].vec
  BY <1>0 DEF InsertEffect
<1>3. \A i \in LiveIds : i \in Nat /\ i <= seq
  BY <1>0 DEF TablesInv, LiveIds
<1>4. \A i \in LiveIds' : i <= seq'
  <2>1. \A i \in LiveIds : i <= seq'
    BY <1>0, <1>3
  <2> QED BY <1>1, <1>2, <2>1
<1>5. Present(vecs') = Present(vecs) \cup {ids[k] : k \in {j \in Fresh(rs) : rs[j].vec # NoVec}}
  <2>1. ASSUME NEW i \in Ids
        PROVE  \/ /\ vecs'[i] = vecs[i]
                  /\ \A k \in Fresh(rs) : ids[k] # i
               \/ /\ vecs[i] = NoVec
                  /\ \E k \in Fresh(rs) : ids[k] = i /\ vecs'[i] = rs[k].vec
    <3>1. CASE i > seq /\ i <= seq'
      <4>1. PICK k \in Fresh(rs) : ids[k] = i
        BY <3>1 DEF InsertEffect
      <4>2. i \notin LiveIds
        BY <1>0, <1>3, <3>1
      <4>3. vecs[i] = NoVec
        BY <4>2 DEF TablesInv, Present
      <4> QED BY <1>2, <4>1, <4>3
    <3>2. CASE ~(i > seq /\ i <= seq')
      BY <1>2, <3>2 DEF InsertEffect
    <3> QED BY <3>1, <3>2
  <2>2. \A j, k \in Fresh(rs) : ids[j] = ids[k] => rs[j].vec = rs[k].vec
    BY <1>2
  <2> QED BY <1>2, <2>1, <2>2 DEF Present
<1>6. Present(vecs') \subseteq LiveIds'
  BY <1>1, <1>5 DEF TablesInv
<1>7. ASSUME NEW k \in DOMAIN rs PROVE ids[k] <= seq'
  <2>1. CASE k \in Fresh(rs)
    BY <1>2, <2>1
  <2>2. CASE docs[ids[k]] = rs[k].text
    <3>1. rs[k].text # NoText /\ ids[k] \in Ids
      BY <1>0, <1>7, BrainAssumption DEF Batches, PutRequest
    <3>2. ids[k] \in LiveIds
      BY <2>2, <3>1 DEF LiveIds
    <3> QED BY <1>0, <1>3, <3>2
  <2>3. CASE \E h \in Fresh(rs) : ids[h] = ids[k]
    BY <1>2, <2>3
  <2> QED BY <1>7, <2>1, <2>2, <2>3 DEF InsertEffect
<1> QED BY <1>4, <1>5, <1>6, <1>7

LEMMA TablesInvStep == TypeInv /\ TypeInv' /\ TablesInv /\ [Next]_vars => TablesInv'
<1> SUFFICES ASSUME TypeInv, TypeInv', TablesInv, [Next]_vars PROVE TablesInv'
  OBVIOUS
<1>0. /\ conn \in [Conns -> Request] /\ conn' \in [Conns -> Request]
      /\ stats \in Snapshot \cup {Unset} /\ seq \in Nat /\ seq' \in Nat
      /\ docs \in [Ids -> Texts \cup {NoText}] /\ vecs \in [Ids -> Vecs \cup {NoVec}]
      /\ Ids \subseteq Nat /\ \A c \in Conns : RowIds(c) \subseteq Ids
  BY RowIdsAreIds, BrainAssumption DEF TypeInv, TypeOK, Snapshot, B!BrainType, B!Ids, Ids
<1>1. \A c \in Conns : conn[c].count.max \in Nat
  BY <1>0, BrainAssumption DEF Request, Counts
<1>2. /\ seq <= seq'
      /\ \A i \in LiveIds' : i <= seq'
      /\ Present(vecs') \subseteq LiveIds'
  <2>1. ASSUME UNCHANGED brain
        PROVE  /\ seq <= seq'
               /\ \A i \in LiveIds' : i <= seq'
               /\ Present(vecs') \subseteq LiveIds'
    BY <1>0, <2>1 DEF brain, LiveIds, TablesInv
  <2>2. ASSUME NEW rs \in Batches, InsertRows(rs)
        PROVE  /\ seq <= seq'
               /\ \A i \in LiveIds' : i <= seq'
               /\ Present(vecs') \subseteq LiveIds'
    <3>1. InsertEffect(rs, IdsOf(rs))
      BY <2>2, InsertRowsEffect DEF TypeInv, TypeOK
    <3>2. seq <= seq'
      BY <3>1 DEF InsertEffect
    <3> QED BY <3>1, <3>2, InsertTables
  <2>3. ASSUME NEW i \in Ids, RemoveRow(i)
        PROVE  /\ seq <= seq'
               /\ \A h \in LiveIds' : h <= seq'
               /\ Present(vecs') \subseteq LiveIds'
    <3>1. LiveIds' = LiveIds \ {i} /\ Present(vecs') = Present(vecs) \ {i} /\ seq' = seq
      BY <1>0, <2>3 DEF RemoveRow, LiveIds, Present
    <3> QED BY <1>0, <3>1 DEF TablesInv
  <2> QED BY <2>1, <2>2, <2>3, TablesStep, OneIsABatch
          DEF PutCommit, DeleteCommit, ExtPut, ExtDelete
<1>3. ASSUME stats' # Unset PROVE stats'.max <= seq'
  <2>1. ASSUME stats # Unset PROVE stats \in Snapshot /\ stats.max \in Nat /\ stats.max <= seq'
    <3>1. stats \in Snapshot /\ stats.max \in Nat
      BY <1>0, <2>1, BrainAssumption DEF Snapshot
    <3> QED BY <1>0, <1>2, <2>1, <3>1 DEF TablesInv
  <2>2. CASE UNCHANGED stats
    BY <1>3, <2>1, <2>2
  <2>3. ASSUME NEW c \in Conns, AdjustStats(c) PROVE stats'.max <= seq'
    <3>1. stats # Unset /\ stats' = Adjusted(stats, conn[c].rows)
      BY <1>3, <2>3 DEF AdjustStats
    <3>2. conn[c].rows \in RowSeqs
      BY <1>0, RequestFields
    <3>3. \/ stats'.max = stats.max
          \/ \E k \in DOMAIN conn[c].rows : conn[c].rows[k].id = stats'.max
      BY <2>1, <3>1, <3>2, AdjustedFields
    <3>4. stats'.max = stats.max \/ stats'.max \in RowIds(c)
      BY <3>3 DEF RowIds
    <3>5. \A i \in RowIds(c) : i \in Nat /\ i <= seq
      BY <1>0 DEF TablesInv
    <3> QED BY <1>0, <1>2, <2>1, <3>1, <3>4, <3>5
  <2>4. ASSUME NEW c \in Conns, StoreStats(c) PROVE stats'.max <= seq'
    <3>1. stats'.max = conn[c].count.max
      BY <2>4 DEF StoreStats
    <3> QED BY <1>0, <1>1, <1>2, <3>1 DEF TablesInv
  <2>5. CASE Expire
    <3>1. stats # Unset /\ stats'.max = stats.max
      BY <1>0, <2>5 DEF Expire, Snapshot
    <3> QED BY <2>1, <3>1
  <2>6. ASSUME NEW c \in Conns, Receive(c) PROVE UNCHANGED stats
    BY <2>6 DEF Receive, PutCommit, DeleteCommit, MergeCommit, SearchStat, StatsRequest, caches
  <2>7. ASSUME NEW c \in Conns, Serve(c), ~AdjustStats(c), ~StoreStats(c) PROVE UNCHANGED stats
    BY <2>7 DEF Serve, HotAdd, ClearCache, Audit, Emit, Lookup, Forget, Get, Query, LogQuery,
       Install, CountDocs, ReadMaxId, caches
  <2>8. CASE Start \/ WarmRead \/ WarmInstall \/ UNCHANGED vars
    BY <2>2, <2>8 DEF Start, WarmRead, WarmInstall, vars, caches
  <2>9. CASE Outside /\ ~Expire
    BY <1>3, <2>2, <2>9 DEF Outside, ExtPut, ExtDelete, Checkpoint, Kill, Shutdown, Exit, caches
  <2> QED BY <2>2, <2>3, <2>4, <2>5, <2>6, <2>7, <2>8, <2>9 DEF Next
<1>4. ASSUME NEW c \in Conns
      PROVE  conn'[c].count.max <= seq' /\ \A i \in RowIds(c)' : i <= seq'
  <2> DEFINE Goal == conn'[c].count.max <= seq' /\ \A i \in RowIds(c)' : i <= seq'
  <2>1. ASSUME conn'[c].count.max \in {conn[c].count.max, 0},
               conn'[c].rows \in {conn[c].rows, <<>>}
        PROVE  Goal
    <3>1. RowIds(c)' \subseteq RowIds(c)
      BY <2>1 DEF RowIds
    <3>2. \A i \in RowIds(c) : i \in Nat /\ i <= seq
      BY <1>0, <1>4 DEF TablesInv
    <3>3. \A i \in RowIds(c)' : i <= seq'
      BY <1>0, <1>2, <3>1, <3>2
    <3>4. conn[c].count.max <= seq
      BY <1>4 DEF TablesInv
    <3> QED BY <1>0, <1>1, <1>2, <1>4, <2>1, <3>3, <3>4
  <2>2. CASE conn'[c] = conn[c]
    BY <2>1, <2>2
  <2>3. CASE conn'[c] = Idle
    BY <2>1, <2>3 DEF Idle, NoCount
  <2>4. ASSUME NEW k \in {"put", "batch", "tx"}, NEW rs \in Batches, PutCommit(c, k, rs)
        PROVE  Goal
    <3> DEFINE ids == IdsOf(rs)
    <3>1. /\ InsertEffect(rs, ids)
          /\ conn'[c].rows = [j \in DOMAIN rs |-> [id |-> ids[j], vec |-> rs[j].vec]]
      BY <2>4, PutCommitConn
    <3> HIDE DEF ids
    <3>2. \A j \in DOMAIN rs : ids[j] <= seq'
      BY <3>1, InsertTables
    <3>3. \A i \in RowIds(c)' : i <= seq'
      BY <3>1, <3>2 DEF RowIds
    <3>4. conn'[c].count.max = 0
      BY <1>0, <1>4, <2>4 DEF PutCommit, Idle, NoCount
    <3> QED BY <1>0, <3>3, <3>4
  <2>5. ASSUME Receive(c), ~\E k \in {"put", "batch", "tx"}, rs \in Batches : PutCommit(c, k, rs)
        PROVE  Goal
    <3>1. conn'[c].count = NoCount /\ conn'[c].rows = <<>>
      BY <2>5, PlainReceive, ReceiveRows
    <3> QED BY <2>1, <3>1 DEF NoCount
  <2>6. ASSUME Serve(c) PROVE Goal
    <3>0. conn[c] \in Request /\ conn[c].count \in Counts
      BY <1>0, <1>4, RequestFields
    <3>1. conn'[c].rows \in {conn[c].rows, <<>>}
      <4>1. conn'[c].rows = conn[c].rows \/ conn'[c] = Idle
        BY <1>4, <2>6, ServeRows
      <4> QED BY <4>1 DEF Idle
    <3>2. CASE CountDocs(c)
      <4>1. PICK n, m : conn' = [conn EXCEPT ![c].pc = "max", ![c].count =
                                   [docs |-> n, vecs |-> m, max |-> 0]]
        BY <3>2 DEF CountDocs
      <4>2. conn'[c] = [conn[c] EXCEPT !.pc = "max", !.count = [docs |-> n, vecs |-> m, max |-> 0]]
        BY <1>0, <1>4, <4>1
      <4>3. conn'[c].count.max = 0
        BY <3>0, <4>2 DEF Request
      <4> QED BY <2>1, <3>1, <4>3
    <3>3. CASE ReadMaxId(c)
      <4>1. PICK m \in LiveIds \cup {0} :
                conn' = [conn EXCEPT ![c].pc = "store", ![c].count.max = m]
        BY <3>3 DEF ReadMaxId
      <4>2. conn'[c] = [conn[c] EXCEPT !.pc = "store", !.count.max = m]
        BY <1>0, <1>4, <4>1
      <4>3. conn'[c].count.max = m
        BY <3>0, <4>2 DEF Request, Counts
      <4>4. m <= seq /\ m \in Nat
        <5>1. CASE m = 0
          BY <1>0, <5>1
        <5>2. CASE m \in LiveIds
          BY <1>0, <5>2 DEF TablesInv, LiveIds
        <5> QED BY <5>1, <5>2
      <4>5. RowIds(c)' \subseteq RowIds(c)
        BY <3>1 DEF RowIds
      <4>6. \A i \in RowIds(c) : i \in Nat /\ i <= seq
        BY <1>0, <1>4 DEF TablesInv
      <4> QED BY <1>0, <1>2, <4>3, <4>4, <4>5, <4>6
    <3>4. CASE ~CountDocs(c) /\ ~ReadMaxId(c)
      <4>1. conn'[c].count \in {conn[c].count, NoCount}
        BY <2>6, <3>4, PlainServe DEF Keeps
      <4> QED BY <2>1, <3>1, <4>1 DEF NoCount
    <3> QED BY <3>2, <3>3, <3>4
  <2>7. ASSUME NEW d \in Conns, Receive(d) \/ Serve(d), d # c PROVE Goal
    <3>1. ASSUME Serve(d) PROVE Others(d)
      BY <3>1, ServeRows
    <3>2. ASSUME NEW k \in {"put", "batch", "tx"}, NEW rs \in Batches, PutCommit(d, k, rs)
          PROVE  Others(d)
      BY <3>2, PutCommitConn
    <3>3. Others(d)
      BY <2>7, <3>1, <3>2, ReceiveRows
    <3> QED BY <1>4, <2>2, <2>7, <3>3 DEF Others
  <2>8. CASE Start \/ WarmRead \/ WarmInstall \/ UNCHANGED vars
    BY <2>2, <2>8 DEF Start, WarmRead, WarmInstall, vars
  <2>9. CASE Outside
    BY <1>4, <2>2, <2>3, <2>9 DEF Outside, ExtPut, ExtDelete, Checkpoint, Expire, Kill, Shutdown, Exit
  <2> QED BY <2>4, <2>5, <2>6, <2>7, <2>8, <2>9 DEF Next
<1> QED BY <1>2, <1>3, <1>4 DEF TablesInv

LEMMA TablesInvAlways == Spec => []TablesInv
<1>1. Init => TablesInv
  <2> SUFFICES ASSUME Init PROVE TablesInv
    OBVIOUS
  <2>1. LiveIds = {} /\ Present(vecs) = {}
    BY DEF Init, LiveIds, Present, EmptyVecTable
  <2>2. stats = Unset /\ \A c \in Conns : conn[c].count.max <= seq /\ RowIds(c) = {}
    BY DEF Init, Idle, NoCount, RowIds
  <2> QED BY <2>1, <2>2 DEF TablesInv
<1> QED BY <1>1, TablesInvStep, TypeInvAlways, PTL DEF Spec

-----------------------------------------------------------------------------
(* One connection: the stats cache is exact                                *)

\* StatsExact is not inductive: between the commit of a put and the adjustment
\* the snapshot is short of exactly the rows the adjustment will count.
ExactInv(c) ==
    hist.foreign = {} /\ ~hist.shrunk =>
        /\ conn[c].pc \in {"max", "store"} =>
              /\ conn[c].count.docs = Cardinality(LiveIds)
              /\ conn[c].count.vecs = Cardinality(Present(vecs))
        /\ At(c, "store") => \A i \in LiveIds : i <= conn[c].count.max
        /\ stats # Unset /\ ~At(c, "adjust") =>
              /\ stats.docs = Cardinality(LiveIds)
              /\ stats.vecs = Cardinality(Present(vecs))
              /\ \A i \in LiveIds : i <= stats.max
        /\ stats # Unset /\ At(c, "adjust") =>
              LET new == Passing(stats, conn[c].rows) IN
              /\ stats.docs + Cardinality(new) = Cardinality(LiveIds)
              /\ stats.vecs + Cardinality({k \in new : conn[c].rows[k].vec # NoVec})
                    = Cardinality(Present(vecs))
              /\ \A i \in LiveIds : i <= stats.max \/ i \in RowIds(c)

\* The rows of a put that pass an exact snapshot are the ones it inserted.
LEMMA CommitCounts ==
  ASSUME TypeInv, TypeInv', TablesInv, NEW rs \in Batches, NEW ids, InsertEffect(rs, ids),
         NEW s \in Snapshot, s.max <= seq, \A i \in LiveIds : i <= s.max,
         NEW rw, rw = [j \in DOMAIN rs |-> [id |-> ids[j], vec |-> rs[j].vec]]
  PROVE  /\ Passing(s, rw) = Fresh(rs)
         /\ Cardinality(LiveIds') = Cardinality(LiveIds) + Cardinality(Passing(s, rw))
         /\ Cardinality(Present(vecs')) =
               Cardinality(Present(vecs)) + Cardinality({k \in Passing(s, rw) : rw[k].vec # NoVec})
<1> DEFINE F == Fresh(rs)
           V == {k \in F : rs[k].vec # NoVec}
           N == {ids[k] : k \in F}
           W == {ids[k] : k \in V}
<1>0. /\ seq \in Nat /\ s.max \in Nat /\ Ids \subseteq Nat
      /\ LiveIds \subseteq Ids /\ Present(vecs) \subseteq LiveIds
      /\ \A i \in LiveIds : i <= seq
  BY BrainAssumption DEF TypeInv, TypeOK, B!BrainType, Snapshot, Ids, LiveIds, TablesInv
<1>1. PICK m \in Nat : DOMAIN rs = 1..m
  BY BrainAssumption DEF Batches
<1>2. /\ \A k \in DOMAIN rs : ids[k] \in Ids /\ rw[k].id = ids[k] /\ rw[k].vec = rs[k].vec
      /\ DOMAIN rw = DOMAIN rs /\ F \subseteq DOMAIN rs
  BY DEF InsertEffect, Fresh
<1>3. \A k \in F : ids[k] > seq /\ ids[k] \in Nat
  BY <1>0, <1>2 DEF InsertEffect
<1>4. \A j, k \in F : j < k => ids[j] < ids[k]
  BY DEF InsertEffect
<1>5. ASSUME NEW k \in DOMAIN rs, k \notin F
      PROVE  \/ ids[k] \in LiveIds
             \/ \E h \in F : h < k /\ ids[h] = ids[k]
  <2>1. \/ docs[ids[k]] = rs[k].text
        \/ \E h \in F : h < k /\ ids[h] = ids[k]
    BY <1>5 DEF InsertEffect
  <2>2. rs[k].text # NoText
    BY <1>5, BrainAssumption DEF Batches, PutRequest
  <2> QED BY <1>2, <1>5, <2>1, <2>2 DEF LiveIds
<1>6. Passing(s, rw) = F
  <2>1. ASSUME NEW k \in F PROVE k \in Passing(s, rw)
    <3>1. k \in 1..m /\ ids[k] > s.max
      <4>1. k \in 1..m
        BY <1>1, <1>2
      <4> QED BY <1>0, <1>3, <4>1
    <3>2. ASSUME NEW j \in 1..(k - 1) PROVE ids[j] < ids[k]
      <4>1. j \in DOMAIN rs /\ j < k /\ j \in Nat /\ k \in Nat
        BY <1>1, <3>1
      <4>2. CASE j \in F
        BY <1>4, <4>1, <4>2
      <4>3. CASE ids[j] \in LiveIds
        <5>1. ids[j] \in Nat /\ ids[j] <= seq /\ ids[k] > seq /\ ids[k] \in Nat
          BY <1>0, <1>3, <4>3
        <5> HIDE DEF F
        <5> QED BY <1>0, <5>1
      <4>4. CASE \E h \in F : h < j /\ ids[h] = ids[j]
        <5>1. PICK h \in F : h < j /\ ids[h] = ids[j]
          BY <4>4
        <5>2. h \in 1..m
          BY <1>1, <1>2
        <5>3. h < k
          BY <4>1, <5>1, <5>2
        <5> QED BY <1>4, <5>1, <5>3
      <4> QED BY <1>5, <4>1, <4>2, <4>3, <4>4
    <3>3. \A j \in 1..(k - 1) : rw[j].id < rw[k].id
      <4>1. \A j \in 1..(k - 1) : j \in DOMAIN rs
        BY <1>1, <3>1
      <4> QED BY <1>2, <3>2, <4>1
    <3> QED BY <1>2, <3>1, <3>3 DEF Passing
  <2>2. ASSUME NEW k \in Passing(s, rw) PROVE k \in F
    <3>1. /\ k \in DOMAIN rs /\ ids[k] > s.max /\ k \in 1..m
          /\ \A j \in 1..(k - 1) : ids[j] < ids[k]
      <4>1. /\ k \in DOMAIN rw /\ rw[k].id > s.max
            /\ \A j \in 1..(k - 1) : rw[j].id < rw[k].id
        BY DEF Passing
      <4>2. \A j \in 1..(k - 1) : j \in DOMAIN rs
        BY <1>1, <1>2, <4>1
      <4> QED BY <1>1, <1>2, <4>1, <4>2
    <3>2. SUFFICES ASSUME k \notin F PROVE FALSE
      OBVIOUS
    <3>3. CASE ids[k] \in LiveIds
      <4>1. ids[k] \in Nat /\ ids[k] <= s.max
        BY <1>0, <3>3
      <4> QED BY <1>0, <3>1, <4>1
    <3>4. CASE \E h \in F : h < k /\ ids[h] = ids[k]
      <4>1. PICK h \in F : h < k /\ ids[h] = ids[k]
        BY <3>4
      <4>2. h \in 1..(k - 1)
        BY <1>1, <1>2, <3>1, <4>1
      <4>3. ids[h] < ids[k] /\ ids[h] \in Nat
        BY <1>3, <3>1, <4>2
      <4> QED BY <4>1, <4>3
    <3> QED BY <1>5, <3>1, <3>2, <3>3, <3>4
  <2> QED BY <2>1, <2>2
<1>7. {k \in F : rw[k].vec # NoVec} = V
  BY <1>2
<1>8. \A j, k \in F : ids[j] = ids[k] => j = k
  <2> SUFFICES ASSUME NEW j \in F, NEW k \in F, ids[j] = ids[k], j # k PROVE FALSE
    OBVIOUS
  <2>1. j < k \/ k < j
    BY <1>1, <1>2
  <2> QED BY <1>3, <1>4, <2>1
<1>9. IsFiniteSet(F) /\ IsFiniteSet(V)
  <2>1. F \subseteq 1..m /\ V \subseteq F
    BY <1>1, <1>2
  <2> HIDE DEF F, V
  <2>2. IsFiniteSet(1..m)
    BY FS_Interval
  <2>3. IsFiniteSet(F)
    BY <2>1, <2>2, FS_Subset
  <2> QED BY <2>1, <2>3, FS_Subset
<1>10. Cardinality(N) = Cardinality(F) /\ Cardinality(W) = Cardinality(V)
  <2>1. \A j, k \in V : ids[j] = ids[k] => j = k
    BY <1>8
  <2> HIDE DEF F, V
  <2> QED BY <1>8, <1>9, <2>1, CountByValues
<1>11. /\ LiveIds' = LiveIds \cup N /\ Present(vecs') = Present(vecs) \cup W
  BY LiveAfterInsert, InsertTables
<1>12. /\ N \subseteq Ids /\ W \subseteq Ids /\ LiveIds \subseteq Ids /\ Present(vecs) \subseteq Ids
       /\ LiveIds \cap N = {} /\ Present(vecs) \cap W = {}
  <2>1. \A i \in N : i \in Ids /\ i \notin LiveIds
    BY <1>0, <1>2, <1>3, SMTT(40)
  <2>2. W \subseteq N
    OBVIOUS
  <2> HIDE DEF N, W
  <2> QED BY <1>0, <2>1, <2>2
<1> HIDE DEF F, V, N, W
<1>13. /\ Cardinality(LiveIds \cup N) = Cardinality(LiveIds) + Cardinality(N)
       /\ Cardinality(Present(vecs) \cup W) = Cardinality(Present(vecs)) + Cardinality(W)
  BY <1>12, DisjointCount
<1> QED BY <1>6, <1>7, <1>10, <1>11, <1>13 DEF F

LEMMA ExactInvStep ==
  ASSUME NEW c, Conns = {c}, TypeInv, TypeInv', TablesInv, StatsInv, StatsInv', ExactInv(c),
         [Next]_vars
  PROVE  ExactInv(c)'
<1> DEFINE r == conn[c]
<1>0. /\ c \in Conns /\ conn \in [Conns -> Request] /\ conn' \in [Conns -> Request]
      /\ r \in Request /\ r.rows \in RowSeqs /\ r.count \in Counts
      /\ stats \in Snapshot \cup {Unset} /\ hist \in History
      /\ docs \in [Ids -> Texts \cup {NoText}] /\ vecs \in [Ids -> Vecs \cup {NoVec}]
  BY RequestFields DEF TypeInv, TypeOK, Snapshot, B!BrainType, B!Ids, Ids
<1> USE DEF At
<1>1. ASSUME stats' = Unset, conn'[c].pc = "idle" PROVE ExactInv(c)'
  BY <1>1 DEF ExactInv
<1>2. CASE ~up'
  BY <1>0, <1>1, <1>2 DEF StatsInv, Quiet
<1>3. CASE ~up /\ up'
  <2>1. /\ ~\E d \in Conns : Receive(d) \/ Serve(d)
        /\ ~Outside
    BY <1>0, <1>3, ZenonT(40) DEF StatsInv, Quiet, Receive, PutCommit, DeleteCommit, MergeCommit, SearchStat,
       StatsRequest, Serve, AdjustStats, HotAdd, ClearCache, Audit, Emit, Lookup, Forget, Get,
       Query, LogQuery, Install, CountDocs, ReadMaxId, StoreStats,
       Outside, ExtPut, ExtDelete, Checkpoint, Expire, Kill, Shutdown, Exit
  <2>2. UNCHANGED <<stats, conn>>
    BY <1>3, <2>1 DEF Next, Start, WarmRead, WarmInstall, vars, caches
  <2> QED BY <1>0, <1>1, <1>3, <2>2 DEF StatsInv, Quiet
<1>4. CASE up /\ up'
  <2> SUFFICES ASSUME hist'.foreign = {}, ~hist'.shrunk PROVE ExactInv(c)'
    BY DEF ExactInv
  <2>1. ~hist.shrunk /\ LiveIds \subseteq LiveIds'
    BY <1>4, GrowStep
  <2>2. hist.foreign = {} /\ ~\E q \in PutRequest : ExtPut(q)
    <3>1. ASSUME NEW q \in PutRequest, ExtPut(q) PROVE FALSE
      <4>1. hist'.foreign = hist.foreign \cup {seq'}
        BY <1>0, <1>4, <3>1 DEF ExtPut, History
      <4> QED BY <4>1
    <3>2. ASSUME NEW d \in Conns, Serve(d) PROVE hist'.foreign = hist.foreign
      <4>1. CASE Audit(d)
        <5>1. hist \in History /\ RowIds(d) \subseteq Ids
          BY RowIdsAreIds DEF TypeInv, TypeOK
        <5> QED BY <4>1, <5>1, AuditFacts
      <4>2. CASE ~Audit(d)
        BY <1>0, <3>2, <4>2 DEF Serve, AdjustStats, HotAdd, ClearCache, Emit, Lookup, Forget, Get,
           Query, LogQuery, Install, CountDocs, ReadMaxId, StoreStats, History
      <4> QED BY <4>1, <4>2
    <3>3. ASSUME NEW d \in Conns, Receive(d) PROVE hist'.foreign = hist.foreign
      BY <1>0, <3>3 DEF Receive, PutCommit, MergeCommit, SearchStat, StatsRequest, DeleteCommit,
         History
    <3>4. CASE UNCHANGED vars
      BY <3>1, <3>4 DEF vars
    <3>5. CASE Start \/ WarmRead \/ WarmInstall \/ Outside
      <4>1. hist'.foreign = hist.foreign
        BY <1>0, <1>4, <3>1, <3>5 DEF Start, WarmRead, WarmInstall, Outside, ExtDelete, Checkpoint,
           Expire, Kill, Shutdown, History
      <4> QED BY <3>1, <4>1
    <3> QED BY <3>1, <3>2, <3>3, <3>4, <3>5 DEF Next
  <2>3. /\ r.pc \in {"max", "store"} => /\ r.count.docs = Cardinality(LiveIds)
                                        /\ r.count.vecs = Cardinality(Present(vecs))
        /\ r.pc = "store" => \A i \in LiveIds : i <= r.count.max
        /\ stats # Unset /\ r.pc # "adjust" =>
              /\ stats.docs = Cardinality(LiveIds)
              /\ stats.vecs = Cardinality(Present(vecs))
              /\ \A i \in LiveIds : i <= stats.max
        /\ stats # Unset /\ r.pc = "adjust" =>
              /\ stats.docs + Cardinality(Passing(stats, r.rows)) = Cardinality(LiveIds)
              /\ stats.vecs + Cardinality({k \in Passing(stats, r.rows) : r.rows[k].vec # NoVec})
                    = Cardinality(Present(vecs))
              /\ \A i \in LiveIds : i <= stats.max \/ i \in RowIds(c)
    BY <2>1, <2>2 DEF ExactInv
  <2>4. ASSUME LiveIds' = LiveIds, Present(vecs') = Present(vecs), UNCHANGED stats,
               conn'[c].pc \notin {"max", "store", "adjust"}, r.pc # "adjust"
        PROVE  ExactInv(c)'
    BY <2>3, <2>4 DEF ExactInv
  <2>5. ASSUME UNCHANGED <<brain, stats, conn>> PROVE ExactInv(c)'
    <3>1. LiveIds' = LiveIds /\ Present(vecs') = Present(vecs) /\ RowIds(c)' = RowIds(c)
      BY <2>5 DEF brain, LiveIds, RowIds
    <3> QED BY <2>3, <2>5, <3>1 DEF ExactInv
  <2>6. ASSUME NEW k \in {"put", "batch", "tx"}, NEW rs \in Batches, PutCommit(c, k, rs)
        PROVE  ExactInv(c)'
    <3> DEFINE ids == IdsOf(rs)
    <3>1. /\ InsertEffect(rs, ids) /\ conn'[c].pc = "adjust"
          /\ conn'[c].rows = [j \in DOMAIN rs |-> [id |-> ids[j], vec |-> rs[j].vec]]
          /\ r.pc = "idle" /\ stats' = stats
      BY <1>0, <2>6, PutCommitConn DEF PutCommit, caches
    <3>2. LiveIds' \subseteq LiveIds \cup RowIds(c)'
      BY <1>0, <2>6, CommitRows
    <3> HIDE DEF ids
    <3>3. ASSUME stats # Unset
          PROVE  LET new == Passing(stats, conn'[c].rows) IN
                 /\ stats.docs + Cardinality(new) = Cardinality(LiveIds')
                 /\ stats.vecs + Cardinality({h \in new : conn'[c].rows[h].vec # NoVec})
                       = Cardinality(Present(vecs'))
                 /\ \A i \in LiveIds' : i <= stats.max \/ i \in RowIds(c)'
      <4>1. /\ stats \in Snapshot /\ stats.max <= seq
            /\ stats.docs = Cardinality(LiveIds) /\ stats.vecs = Cardinality(Present(vecs))
            /\ \A i \in LiveIds : i <= stats.max
        BY <1>0, <2>3, <3>1, <3>3 DEF TablesInv
      <4>2. /\ Cardinality(LiveIds') =
                  Cardinality(LiveIds) + Cardinality(Passing(stats, conn'[c].rows))
            /\ Cardinality(Present(vecs')) = Cardinality(Present(vecs))
                  + Cardinality({h \in Passing(stats, conn'[c].rows) : conn'[c].rows[h].vec # NoVec})
        BY <3>1, <4>1, CommitCounts
      <4> QED BY <3>2, <4>1, <4>2
    <3> QED BY <3>1, <3>3 DEF ExactInv
  <2>7. ASSUME Receive(c), ~\E k \in {"put", "batch", "tx"}, rs \in Batches : PutCommit(c, k, rs)
        PROVE  ExactInv(c)'
    <3>1. conn'[c].pc \in {"idle", "audit", "lookup", "count"} /\ stats' = stats
      BY <1>0, <2>7, PlainReceive DEF caches
    <3>2. r.pc = "idle"
      BY <2>7 DEF Receive, PutCommit, DeleteCommit, MergeCommit, SearchStat, StatsRequest
    <3>3. LiveIds' = LiveIds /\ Present(vecs') = Present(vecs)
      <4>1. ASSUME NEW i \in Ids, DeleteCommit(c, i)
            PROVE  LiveIds' = LiveIds /\ Present(vecs') = Present(vecs)
        <5>1. i \notin LiveIds
          BY <1>0, <4>1 DEF DeleteCommit, History
        <5>2. i \notin Present(vecs)
          BY <5>1 DEF TablesInv
        <5> QED BY <1>0, <4>1, <5>1, <5>2 DEF DeleteCommit, RemoveRow, LiveIds, Present
      <4>2. ASSUME NEW i \in Ids, MergeCommit(c, i)
            PROVE  LiveIds' = LiveIds /\ Present(vecs') = Present(vecs)
        BY <4>2 DEF MergeCommit, brain, LiveIds
      <4>3. ASSUME NEW q \in Queries, SearchStat(c, q)
            PROVE  LiveIds' = LiveIds /\ Present(vecs') = Present(vecs)
        BY <4>3 DEF SearchStat, disk, brain, LiveIds
      <4>4. ASSUME StatsRequest(c)
            PROVE  LiveIds' = LiveIds /\ Present(vecs') = Present(vecs)
        BY <4>4 DEF StatsRequest, disk, brain, LiveIds
      <4> QED BY <2>7, <4>1, <4>2, <4>3, <4>4, OneIsABatch DEF Receive
    <3> QED BY <2>4, <3>1, <3>2, <3>3
  <2>8. ASSUME Serve(c) PROVE ExactInv(c)'
    <3>1. /\ conn'[c].pc # "adjust"
      BY <1>0, <2>8, ServeRows
    <3>2. LiveIds' = LiveIds /\ vecs' = vecs
      BY <2>8 DEF Serve, AdjustStats, HotAdd, ClearCache, Audit, Emit, Lookup, Forget, Get, Query,
         LogQuery, Install, CountDocs, ReadMaxId, StoreStats, disk, brain, LiveIds
    <3>3. CASE CountDocs(c)
      <4>1. /\ conn' = [conn EXCEPT ![c].pc = "max", ![c].count =
                 [docs |-> Cardinality(LiveIds), vecs |-> Cardinality(Present(vecs)), max |-> 0]]
            /\ stats' = stats /\ r.pc = "count"
        BY <3>3 DEF CountDocs, caches
      <4>2. conn'[c] = [r EXCEPT !.pc = "max", !.count =
              [docs |-> Cardinality(LiveIds), vecs |-> Cardinality(Present(vecs)), max |-> 0]]
        BY <1>0, <4>1
      <4>3. /\ conn'[c].pc = "max" /\ conn'[c].count.docs = Cardinality(LiveIds)
            /\ conn'[c].count.vecs = Cardinality(Present(vecs))
        BY <1>0, <4>2 DEF Request
      <4> QED BY <2>3, <3>2, <4>1, <4>3 DEF ExactInv
    <3>4. CASE ReadMaxId(c)
      <4>1. PICK m \in LiveIds \cup {0} :
                /\ \A i \in LiveIds : i <= m
                /\ conn' = [conn EXCEPT ![c].pc = "store", ![c].count.max = m]
        BY <3>4 DEF ReadMaxId
      <4>2. stats' = stats /\ r.pc = "max"
        BY <3>4 DEF ReadMaxId, caches
      <4>3. conn'[c] = [r EXCEPT !.pc = "store", !.count.max = m]
        BY <1>0, <4>1
      <4>4. /\ conn'[c].pc = "store" /\ conn'[c].count.docs = r.count.docs
            /\ conn'[c].count.vecs = r.count.vecs /\ conn'[c].count.max = m
        BY <1>0, <4>3 DEF Request, Counts
      <4> QED BY <2>3, <3>2, <4>1, <4>2, <4>4 DEF ExactInv
    <3>5. CASE StoreStats(c)
      <4>1. /\ stats' = [docs |-> r.count.docs, vecs |-> r.count.vecs,
                         max |-> r.count.max, fresh |-> TRUE]
            /\ r.pc = "store"
        BY <3>5 DEF StoreStats
      <4>2. conn'[c].pc \notin {"max", "store", "adjust"}
        BY <1>0, <2>8, <3>1, <4>1, PlainServe DEF CountDocs, ReadMaxId, Keeps
      <4> QED BY <2>3, <3>2, <4>1, <4>2 DEF ExactInv
    <3>6. CASE AdjustStats(c)
      <4>1. /\ stats' = IF stats = Unset THEN Unset ELSE Adjusted(stats, r.rows)
            /\ r.pc = "adjust"
        BY <3>6 DEF AdjustStats
      <4>2. conn'[c].pc \notin {"max", "store", "adjust"}
        BY <1>0, <2>8, <3>1, <4>1, PlainServe DEF CountDocs, ReadMaxId, Keeps
      <4>3. ASSUME stats # Unset
            PROVE  /\ stats'.docs = Cardinality(LiveIds)
                   /\ stats'.vecs = Cardinality(Present(vecs))
                   /\ \A i \in LiveIds : i <= stats'.max
        <5>1. stats \in Snapshot /\ stats' = Adjusted(stats, r.rows)
          BY <1>0, <4>1, <4>3
        <5>2. /\ stats'.docs = stats.docs + Cardinality(Passing(stats, r.rows))
              /\ stats'.vecs = stats.vecs
                    + Cardinality({k \in Passing(stats, r.rows) : r.rows[k].vec # NoVec})
              /\ stats'.max >= stats.max /\ stats' \in Snapshot
              /\ \A k \in DOMAIN r.rows : r.rows[k].id <= stats'.max
          BY <1>0, <5>1, AdjustedFields
        <5>3. ASSUME NEW i \in LiveIds PROVE i <= stats'.max
          <6>1. i \in Nat /\ stats.max \in Nat /\ stats'.max \in Nat
            BY <5>1, <5>2, BrainAssumption DEF LiveIds, Ids, Snapshot
          <6>2. CASE i <= stats.max
            BY <5>2, <6>1, <6>2
          <6>3. CASE i \in RowIds(c)
            BY <5>2, <6>3 DEF RowIds
          <6> QED BY <2>3, <4>1, <4>3, <6>2, <6>3
        <5> QED BY <2>3, <4>1, <4>3, <5>2, <5>3
      <4> QED BY <3>2, <4>1, <4>2, <4>3 DEF ExactInv
    <3>7. CASE ~CountDocs(c) /\ ~ReadMaxId(c) /\ ~StoreStats(c) /\ ~AdjustStats(c)
      <4>1. conn'[c].pc \notin {"max", "store", "adjust"}
        BY <1>0, <2>8, <3>1, <3>7, PlainServe DEF Keeps
      <4>2. stats' = stats /\ r.pc # "adjust"
        BY <2>8, <3>7 DEF Serve, HotAdd, ClearCache, Audit, Emit, Lookup, Forget, Get,
           Query, LogQuery, Install, caches
      <4> QED BY <2>4, <3>2, <4>1, <4>2
    <3> QED BY <3>3, <3>4, <3>5, <3>6, <3>7
  <2>9. CASE Expire
    <3>1. /\ stats # Unset /\ stats' = [stats EXCEPT !.fresh = FALSE] /\ UNCHANGED <<conn, brain>>
      BY <2>9 DEF Expire, disk
    <3>2. stats'.docs = stats.docs /\ stats'.max = stats.max /\ stats'.vecs = stats.vecs
      BY <1>0, <3>1 DEF Snapshot
    <3>3. LiveIds' = LiveIds /\ Present(vecs') = Present(vecs) /\ RowIds(c)' = RowIds(c)
      BY <3>1 DEF brain, LiveIds, RowIds
    <3>4. Passing(stats', conn'[c].rows) = Passing(stats, r.rows)
      BY <3>1, <3>2 DEF Passing
    <3> QED BY <2>3, <3>1, <3>2, <3>3, <3>4 DEF ExactInv
  <2>10. CASE Start \/ WarmRead \/ WarmInstall \/ UNCHANGED vars \/ Checkpoint
    BY <1>4, <2>5, <2>10 DEF Start, WarmRead, WarmInstall, vars, disk, caches, Checkpoint
  <2>11. ~\E i \in Ids : ExtDelete(i)
    BY <1>0, <1>4 DEF ExtDelete, History
  <2>12. ~Kill /\ ~Shutdown
    BY <1>4 DEF Kill, Shutdown, Exit
  <2> QED BY <2>2, <2>6, <2>7, <2>8, <2>9, <2>10, <2>11, <2>12 DEF Next, Outside
<1>5. up \in BOOLEAN /\ up' \in BOOLEAN
  BY DEF TypeInv, TypeOK
<1> QED BY <1>2, <1>3, <1>4, <1>5

\* With one connection, no foreign writes and no deletes, the snapshot an idle
\* daemon answers a stats request with is the count, whatever batches, texts
\* that are stored already, recounts and crashes came before.
THEOREM StatsAreExact ==
  ASSUME NEW c, Conns = {c}
  PROVE  Spec => []StatsExact
<1>1. Init => StatsInv /\ ExactInv(c)
  <2> SUFFICES ASSUME Init PROVE StatsInv /\ ExactInv(c)
    OBVIOUS
  <2>1. conn[c].pc = "idle" /\ conn[c].rows = <<>> /\ stats = Unset
    BY DEF Init, Idle
  <2> QED BY <2>1 DEF StatsInv, Bounded, SnapBounded, RowIds, Quiet, At, ExactInv
<1>2. /\ TypeInv /\ TypeInv' /\ TablesInv
      /\ StatsInv /\ StatsInv' /\ ExactInv(c) /\ [Next]_vars
      => ExactInv(c)'
  BY ExactInvStep
<1>3. ExactInv(c) => StatsExact
  BY DEF ExactInv, StatsExact, Quiet, At
<1> QED BY <1>1, <1>2, <1>3, StatsInvStep, TablesInvAlways, TypeInvAlways, PTL DEF Spec

-----------------------------------------------------------------------------
(* One connection: the query cache                                         *)

\* NoStaleHitsForever is not inductive: what a search has found and will
\* install is as old as the fingerprint it has left in db_seen.
CacheInv(c) ==
    /\ seen # Unset => seen <= stamp
    /\ conn[c].look <= stamp
    /\ seen = stamp /\ ~At(c, "forget") => \A q \in Queries : qcache[q] \in {LiveIds, Unset}
    /\ conn[c].pc \in {"log", "install"} /\ seen = stamp => conn[c].found = LiveIds

\* A file change leaves db_seen behind.
LEMMA CacheWrite ==
  ASSUME NEW c \in Conns, TypeInv, TypeInv', CacheInv(c), stamp' = stamp + 1, seen' = seen,
         conn'[c].look \in {conn[c].look, stamp, 0}
  PROVE  CacheInv(c)'
<1>1. stamp \in Nat /\ conn[c].look \in Nat /\ (seen # Unset => seen \in Nat) /\ Unset \notin Nat
  BY DaemonAssumption DEF TypeInv, TypeOK, Request
<1>2. conn[c].look <= stamp /\ (seen # Unset => seen <= stamp)
  BY DEF CacheInv
<1>3. seen' # stamp' /\ conn'[c].look <= stamp' /\ (seen' # Unset => seen' <= stamp')
  BY <1>1, <1>2
<1> QED BY <1>3 DEF CacheInv

\* A step that changes no file and no document, and finds and forgets nothing.
LEMMA CacheFrame ==
  ASSUME NEW c \in Conns, TypeInv, TypeInv', CacheInv(c), stamp' = stamp, LiveIds' = LiveIds,
         \/ qcache' = qcache /\ conn[c].pc # "forget"
         \/ qcache' = EmptyCache,
         seen' = seen,
         conn'[c].look \in {conn[c].look, stamp, 0},
         conn'[c].pc \in {"log", "install"} =>
             conn[c].pc \in {"log", "install"} /\ conn'[c].found = conn[c].found
  PROVE  CacheInv(c)'
<1>1. stamp \in Nat /\ conn[c].look \in Nat
  BY DaemonAssumption DEF TypeInv, TypeOK, Request
<1>2. conn'[c].look <= stamp'
  BY <1>1 DEF CacheInv
<1>3. seen' = stamp' => \A q \in Queries : qcache'[q] \in {LiveIds', Unset}
  BY DEF CacheInv, EmptyCache, At
<1> QED BY <1>2, <1>3 DEF CacheInv

LEMMA CacheInvStep ==
  ASSUME NEW c, Conns = {c}, TypeInv, TypeInv', CacheInv(c), [Next]_vars
  PROVE  CacheInv(c)'
<1> DEFINE r == conn[c]
<1>0. /\ c \in Conns /\ conn \in [Conns -> Request] /\ r \in Request
      /\ stamp \in Nat /\ r.query \in Queries /\ r.found \in SUBSET Ids
      /\ qcache \in [Queries -> (SUBSET Ids) \cup {Unset}]
  BY RequestFields, DaemonAssumption DEF TypeInv, TypeOK
<1> USE DEF At
<1>1. ASSUME UNCHANGED <<brain, stamp, seen, qcache, conn>> PROVE CacheInv(c)'
  BY <1>1 DEF CacheInv, brain, LiveIds
<1>2. ASSUME NEW k \in {"put", "batch", "tx"}, NEW rs \in Batches, PutCommit(c, k, rs)
      PROVE  CacheInv(c)'
  <2>1. conn'[c].pc = "adjust" /\ r.pc = "idle" /\ UNCHANGED <<seen, qcache>>
    BY <1>0, <1>2, PutCommitConn DEF PutCommit, caches
  <2>2. conn'[c].look = 0
    BY <1>0, <1>2 DEF PutCommit, Idle
  <2>3. CASE stamp' = stamp + 1
    BY <1>0, <2>1, <2>2, <2>3, CacheWrite
  <2>4. CASE stamp' # stamp + 1
    <3>1. Fresh(rs) = {} /\ stamp' = stamp
      BY <1>2, <2>4 DEF PutCommit
    <3>2. LiveIds' = LiveIds \cup {IdsOf(rs)[j] : j \in Fresh(rs)}
      BY <1>0, <1>2, CommitRows
    <3>3. LiveIds' = LiveIds
      BY <3>1, <3>2
    <3> QED BY <1>0, <2>1, <2>2, <3>1, <3>3, CacheFrame
  <2> QED BY <2>3, <2>4
<1>3. ASSUME Receive(c), ~\E k \in {"put", "batch", "tx"}, rs \in Batches : PutCommit(c, k, rs)
      PROVE  CacheInv(c)'
  <2>1. /\ conn'[c].pc \in {"idle", "audit", "lookup", "count"} /\ conn'[c].look \in {0, stamp}
        /\ UNCHANGED <<qcache, seen>>
        /\ UNCHANGED <<brain, stamp>> \/ stamp' = stamp + 1
    BY <1>0, <1>3, PlainReceive DEF caches
  <2>2. r.pc = "idle"
    BY <1>3 DEF Receive, PutCommit, DeleteCommit, MergeCommit, SearchStat, StatsRequest
  <2>3. CASE stamp' = stamp + 1
    BY <1>0, <2>1, <2>3, CacheWrite
  <2>4. CASE UNCHANGED <<brain, stamp>>
    <3>1. LiveIds' = LiveIds
      BY <2>4 DEF brain, LiveIds
    <3> QED BY <1>0, <2>1, <2>2, <2>4, <3>1, CacheFrame
  <2> QED BY <2>1, <2>3, <2>4
<1>4. ASSUME Serve(c) PROVE CacheInv(c)'
  <2>1. LiveIds' = LiveIds
    BY <1>4 DEF Serve, AdjustStats, HotAdd, ClearCache, Audit, Emit, Lookup, Forget, Get, Query,
       LogQuery, Install, CountDocs, ReadMaxId, StoreStats, disk, brain, LiveIds
  <2>2. CASE CountDocs(c) \/ ReadMaxId(c)
    <3>1. UNCHANGED <<stamp, seen, qcache>> /\ r.pc \in {"count", "max"}
      BY <2>2 DEF CountDocs, ReadMaxId, disk, caches
    <3>2. conn'[c].pc \in {"max", "store"} /\ conn'[c].look = r.look
      <4>1. CASE CountDocs(c)
        <5>1. PICK n : conn' = [conn EXCEPT ![c].pc = "max", ![c].count = n]
          BY <4>1 DEF CountDocs
        <5>2. conn'[c] = [r EXCEPT !.pc = "max", !.count = n]
          BY <1>0, <5>1
        <5> QED BY <1>0, <5>2 DEF Request
      <4>2. CASE ReadMaxId(c)
        <5>1. PICK m : conn' = [conn EXCEPT ![c].pc = "store", ![c].count.max = m]
          BY <4>2 DEF ReadMaxId
        <5>2. conn'[c] = [r EXCEPT !.pc = "store", !.count.max = m]
          BY <1>0, <5>1
        <5> QED BY <1>0, <5>2 DEF Request
      <4> QED BY <2>2, <4>1, <4>2
    <3> QED BY <1>0, <2>1, <3>1, <3>2, CacheFrame
  <2>3. CASE ~CountDocs(c) /\ ~ReadMaxId(c)
    <3>1. Keeps(c)
      BY <1>0, <1>4, <2>3, PlainServe
    <3>2. CASE Lookup(c)
      <4>1. r.pc = "lookup" /\ seen' = r.look /\ UNCHANGED <<stamp, qcache>>
        BY <3>2 DEF Lookup, disk
      <4>2. conn'[c] = [r EXCEPT !.look = 0, !.pc = IF seen = r.look THEN "get" ELSE "forget"]
        BY <1>0, <3>2 DEF Lookup
      <4>3. conn'[c].look = 0 /\ conn'[c].pc = IF seen = r.look THEN "get" ELSE "forget"
        BY <1>0, <4>2 DEF Request
      <4> QED BY <1>0, <2>1, <4>1, <4>3 DEF CacheInv
    <3>3. CASE Query(c)
      <4>1. conn'[c] = [r EXCEPT !.pc = "log", !.found = LiveIds] /\ r.pc = "query"
        BY <1>0, <3>3 DEF Query
      <4>2. conn'[c].pc = "log" /\ conn'[c].found = LiveIds /\ conn'[c].look = r.look
        BY <1>0, <4>1 DEF Request
      <4>3. UNCHANGED <<stamp, seen, qcache>>
        BY <3>3 DEF Query, disk, caches
      <4> QED BY <2>1, <4>1, <4>2, <4>3 DEF CacheInv
    <3>4. CASE LogQuery(c)
      <4>1. r.pc = "log" /\ UNCHANGED <<seen, qcache>> /\ stamp' \in {stamp, stamp + 1}
        BY <3>4 DEF LogQuery, Write
      <4>2. conn'[c] = [r EXCEPT !.pc = "install"]
        BY <1>0, <3>4, GotoFacts DEF LogQuery, PcValues
      <4>3. /\ conn'[c].pc = "install" /\ conn'[c].found = r.found
            /\ conn'[c].look = r.look
        BY <1>0, <4>2 DEF Request
      <4>4. CASE stamp' = stamp + 1
        BY <1>0, <4>1, <4>3, <4>4, CacheWrite
      <4>5. CASE stamp' = stamp
        BY <1>0, <2>1, <4>1, <4>3, <4>5, CacheFrame
      <4> QED BY <4>1, <4>4, <4>5
    <3>5. CASE Install(c)
      <4>1. r.pc = "install" /\ UNCHANGED <<seen, stamp>>
            /\ qcache' = [qcache EXCEPT ![r.query] = r.found]
        BY <3>5 DEF Install, disk
      <4>2. conn'[c] = Idle
        BY <1>0, <3>5, GotoFacts DEF Install, PcValues
      <4>3. conn'[c].pc = "idle" /\ conn'[c].look = 0
        BY <4>2 DEF Idle
      <4>4. seen' = stamp' => \A q \in Queries : qcache'[q] \in {LiveIds, Unset}
        BY <1>0, <4>1 DEF CacheInv
      <4> QED BY <1>0, <2>1, <4>1, <4>3, <4>4 DEF CacheInv
    <3>6. CASE Forget(c) \/ ClearCache(c)
      <4>1. qcache' = EmptyCache /\ UNCHANGED <<seen, stamp>>
        BY <3>6 DEF Forget, ClearCache, disk
      <4>2. conn'[c].pc \notin {"log", "install"} /\ conn'[c].look \in {r.look, 0}
        BY <3>1, <3>6 DEF Keeps, Forget, ClearCache, Query, LogQuery
      <4> QED BY <1>0, <2>1, <4>1, <4>2, CacheFrame
    <3>7. CASE Audit(c)
      <4>1. UNCHANGED <<seen, qcache>> /\ conn'[c].look \in {r.look, 0} /\ r.pc # "forget"
        BY <3>1, <3>7 DEF Audit, caches, Keeps, At
      <4>2. hist \in History /\ RowIds(c) \subseteq Ids
        BY RowIdsAreIds DEF TypeInv, TypeOK
      <4>3. stamp' \in {stamp, stamp + 1}
        BY <3>7, <4>2, AuditFacts
      <4>4. CASE stamp' = stamp + 1
        BY <1>0, <4>1, <4>4, CacheWrite
      <4>5. conn'[c].pc \notin {"log", "install"}
        BY <3>1, <3>7 DEF Keeps, Audit, At, Query, LogQuery
      <4>6. CASE stamp' = stamp
        BY <1>0, <2>1, <4>1, <4>5, <4>6, CacheFrame
      <4> QED BY <4>3, <4>4, <4>6
    <3>8. CASE AdjustStats(c) \/ HotAdd(c) \/ Emit(c) \/ Get(c) \/ StoreStats(c)
      <4>1. UNCHANGED <<stamp, seen, qcache>> /\ r.pc # "forget"
        BY <3>8 DEF AdjustStats, HotAdd, Emit, Get, StoreStats, disk, caches
      <4>2. conn'[c].pc \notin {"log", "install"} /\ conn'[c].look \in {r.look, 0}
        BY <3>1, <3>8 DEF Keeps, AdjustStats, HotAdd, Emit, Get, StoreStats, Query, LogQuery
      <4> QED BY <1>0, <2>1, <4>1, <4>2, CacheFrame
    <3> QED BY <1>4, <2>3, <3>2, <3>3, <3>4, <3>5, <3>6, <3>7, <3>8 DEF Serve
  <2> QED BY <2>2, <2>3
<1>5. CASE Kill \/ Shutdown
  <2>1. seen' = Unset /\ conn'[c] = Idle /\ stamp' = stamp /\ qcache' = EmptyCache
    BY <1>0, <1>5 DEF Kill, Shutdown, Exit, disk
  <2>2. conn'[c].look = 0 /\ conn'[c].pc = "idle"
    BY <2>1 DEF Idle
  <2>3. seen' # stamp'
    BY <1>0, <2>1, DaemonAssumption
  <2> QED BY <1>0, <2>1, <2>2, <2>3 DEF CacheInv
<1>6. CASE Checkpoint \/ (\E q \in PutRequest : ExtPut(q)) \/ (\E i \in Ids : ExtDelete(i))
  <2>1. stamp' = stamp + 1 /\ UNCHANGED <<seen, conn>>
    BY <1>6 DEF Checkpoint, ExtPut, ExtDelete, Write, caches
  <2> QED BY <1>0, <2>1, CacheWrite
<1>7. CASE Start \/ WarmRead \/ WarmInstall \/ Expire \/ UNCHANGED vars
  BY <1>1, <1>7 DEF Start, WarmRead, WarmInstall, Expire, vars, disk, caches
<1> QED BY <1>2, <1>3, <1>4, <1>5, <1>6, <1>7 DEF Next, Outside

\* With one connection, an idle daemon whose fingerprint is current holds only
\* hits a search would find now, although other processes write and delete
\* documents and the WAL task moves frames behind its back.
THEOREM NoStaleHits ==
  ASSUME NEW c, Conns = {c}
  PROVE  Spec => []NoStaleHitsForever
<1>1. Init => CacheInv(c)
  <2> SUFFICES ASSUME Init PROVE CacheInv(c)
    OBVIOUS
  <2>1. /\ conn[c].look = 0 /\ conn[c].pc = "idle" /\ seen = Unset /\ stamp = 0
        /\ \A q \in Queries : qcache[q] = Unset
    BY DEF Init, Idle, EmptyCache
  <2> QED BY <2>1 DEF CacheInv, At
<1>2. TypeInv /\ TypeInv' /\ CacheInv(c) /\ [Next]_vars => CacheInv(c)'
  BY CacheInvStep
<1>3. CacheInv(c) => NoStaleHitsForever
  BY DEF CacheInv, NoStaleHitsForever, Quiet, At
<1> QED BY <1>1, <1>2, <1>3, TypeInvAlways, PTL DEF Spec
=============================================================================
