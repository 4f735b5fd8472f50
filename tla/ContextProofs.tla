--------------------------- MODULE ContextProofs ---------------------------
(***************************************************************************)
(* Proofs about ContextPack: what a context pack is made of and how long   *)
(* it is served from the cache, and what an agent is shown, for any        *)
(* documents, budgets, names and numbers of calls.                         *)
(***************************************************************************)
EXTENDS MCKnowledge, NumberFacts

\* A step is a step of the packs or of the agents, or leaves them alone.
LEMMA ContextMoves ==
  ASSUME [Next]_vars
  PROVE  /\ ContextNext \/ UNCHANGED ckVars
         /\ AgentNext \/ UNCHANGED agVars
<1>1. CASE UNCHANGED vars
  BY <1>1 DEF vars
<1>2. CASE Next
  BY <1>2, Zenon DEF Next, Only
<1> QED BY <1>1, <1>2

-----------------------------------------------------------------------------
(* The pack cache of the MCP server: one entry per key, no more than its    *)
(* capacity, none older than the last write this process was told of.       *)
OfLength(s, n) == s = [i \in 1..n |-> s[i]]
\* A list cut down to some of its positions.
Cut(r, m, s, P) ==
    /\ m \in Nat /\ m = Cardinality(P) /\ OfLength(r, m)
    /\ \E f \in [1..m -> P] : /\ \A k \in 1..m : r[k] = s[f[k]]
                              /\ \A j, k \in 1..m : j < k => f[j] < f[k]
                              /\ \A p \in P : \E k \in 1..m : f[k] = p
LEMMA RetainedIsCut ==
  ASSUME NEW n \in Nat, NEW s, NEW P \in SUBSET (1..n)
  PROVE  \E m \in 0..n : Cut(Retained(s, P), m, s, P)
<1>0. PICK r : r = Retained(s, P)
  OBVIOUS
<1>1. PICK m : m = Cardinality(P)
  OBVIOUS
<1>2. PICK f : f = [k \in 1..m |-> CHOOSE i \in P : Rank(P, i) = k]
  OBVIOUS
<1>3. /\ m \in 0..n /\ \A k \in 1..m : \E i \in P : Rank(P, i) = k
      /\ \A i \in P : Rank(P, i) \in 1..m
      /\ \A i, j \in P : i < j => Rank(P, i) < Rank(P, j)
  BY <1>1, RankFacts
<1>4. \A k \in 1..m : f[k] \in P /\ Rank(P, f[k]) = k
  <2> SUFFICES ASSUME NEW k \in 1..m PROVE f[k] \in P /\ Rank(P, f[k]) = k
    OBVIOUS
  <2>1. f[k] = CHOOSE i \in P : Rank(P, i) = k
    BY <1>2
  <2> QED BY <1>3, <2>1, Zenon
<1>4a. \A p \in P : p \in Nat
  OBVIOUS
<1>4b. m \in Nat
  BY <1>3
<1>5. ASSUME NEW j \in 1..m, NEW k \in 1..m, j < k PROVE f[j] < f[k]
  <2>1. f[j] \in P /\ f[k] \in P /\ f[j] \in Nat /\ f[k] \in Nat /\ Rank(P, f[j]) = j /\ Rank(P, f[k]) = k
    BY <1>4, <1>4a
  <2>2. f[j] # f[k]
    BY <1>5, <2>1
  <2>3. ASSUME f[k] < f[j] PROVE FALSE
    <3>1. Rank(P, f[k]) < Rank(P, f[j])
      BY <1>3, <2>1, <2>3
    <3> QED BY <1>4b, <1>5, <2>1, <3>1
  <2> QED BY <2>1, <2>2, <2>3
<1>6. ASSUME NEW p \in P PROVE \E k \in 1..m : f[k] = p
  <2>1. PICK k \in 1..m : k = Rank(P, p)
    BY <1>3
  <2>2. f[k] \in P /\ Rank(P, f[k]) = Rank(P, p)
    BY <1>4, <2>1
  <2>3. f[k] \in Nat /\ p \in Nat
    BY <1>4a, <2>2
  <2>4. ~(k < k)
    BY <1>4b
  <2>5. ~(f[k] < p) /\ ~(p < f[k])
    BY <1>3, <2>1, <2>2, <2>4
  <2> QED BY <2>3, <2>5
<1>7. f \in [1..m -> P]
  <2>1. f = [k \in 1..m |-> f[k]]
    BY <1>2
  <2> QED BY <1>4, <2>1
<1>8. r = [k \in 1..m |-> s[CHOOSE i \in P : Cardinality({j \in P : j <= i}) = k]]
  BY <1>0, <1>1 DEF Retained
<1>9. \A k \in 1..m : r[k] = s[f[k]]
  <2>1. \A k \in 1..m : f[k] = CHOOSE i \in P : Cardinality({j \in P : j <= i}) = k
    BY <1>2, Zenon DEF Rank, Upto
  <2> QED BY <1>8, <2>1, Zenon
<1>10. OfLength(r, m)
  BY <1>8 DEF OfLength
<1>11. m \in Nat
  BY <1>3
<1>12. Cut(r, m, s, P)
  BY <1>1, <1>5, <1>6, <1>7, <1>9, <1>10, <1>11, Zenon DEF Cut
<1> QED BY <1>0, <1>3, <1>12

Picks(r, m, s, P) ==
    \E f \in [1..m -> P] : (\A k \in 1..m : r[k] = s[f[k]]) /\ \A j, k \in 1..m : f[j] = f[k] => j = k
LEMMA RetainedFacts ==
  ASSUME NEW n \in Nat, NEW s, NEW P \in SUBSET (1..n)
  PROVE  \E m \in 0..n : OfLength(Retained(s, P), m) /\ Picks(Retained(s, P), m, s, P) /\ (P # 1..n => m < n)
<1>1. PICK r : r = Retained(s, P)
  OBVIOUS
<1>2. PICK m \in 0..n : Cut(r, m, s, P)
  BY <1>1, RetainedIsCut
<1>3. m \in Nat /\ m = Cardinality(P) /\ OfLength(r, m)
  BY <1>2 DEF Cut
<1>4. Picks(r, m, s, P)
  <2>1. PICK f \in [1..m -> P] : (\A k \in 1..m : r[k] = s[f[k]]) /\ \A j, k \in 1..m : j < k => f[j] < f[k]
    BY <1>2, Zenon DEF Cut
  <2>2. \A k \in 1..m : f[k] \in P /\ f[k] \in 1..n
    BY <2>1
  <2>3. \A j, k \in 1..m : f[j] = f[k] => j = k
    BY <1>3, <2>1, <2>2
  <2> QED BY <2>1, <2>3, Zenon DEF Picks
<1>5. ASSUME P # 1..n PROVE m < n
  <2>1. PICK x \in 1..n : x \notin P
    BY <1>5
  <2>2. IsFiniteSet(1..n) /\ Cardinality(1..n) = n
    BY FS_Interval
  <2>3. IsFiniteSet((1..n) \ {x}) /\ Cardinality((1..n) \ {x}) = n - 1
    BY <2>2, FS_RemoveElement
  <2>4. P \subseteq (1..n) \ {x}
    BY <2>1
  <2>5. Cardinality(P) <= Cardinality((1..n) \ {x})
    BY <2>3, <2>4, FS_Subset
  <2> QED BY <1>2, <1>3, <2>3, <2>5
<1> QED BY <1>1, <1>2, <1>3, <1>4, <1>5

\* A cache of n packs.
Packs(c, n) ==
    /\ OfLength(c, n)
    /\ \A i \in 1..n : c[i].own = ckOwn
    /\ \A i, j \in 1..n : c[i].key = c[j].key => i = j
Lacks(c, n, key) == \A i \in 1..n : c[i].key # key

LEMMA WithoutKeeps ==
  ASSUME NEW n \in Nat, NEW c, Packs(c, n), NEW key
  PROVE  \E m \in 0..n : Packs(Without(c, key), m) /\ Lacks(Without(c, key), m, key) /\ (~Lacks(c, n, key) => m < n)
<1>1. PICK P, r : P = {i \in 1..n : c[i].key # key} /\ r = Without(c, key)
  OBVIOUS
<1>2. P \in SUBSET (1..n) /\ (~Lacks(c, n, key) => P # 1..n)
  BY <1>1 DEF Lacks
<1>3. DOMAIN c = 1..n
  BY Zenon DEF Packs, OfLength
<1>4. r = Retained(c, P)
  BY <1>1, <1>3 DEF Without
<1>5. PICK m \in 0..n : OfLength(r, m) /\ Picks(r, m, c, P) /\ (P # 1..n => m < n)
  BY ONLY n \in Nat, <1>2, <1>4, RetainedFacts
<1>6. PICK f \in [1..m -> P] : (\A k \in 1..m : r[k] = c[f[k]]) /\ \A j, k \in 1..m : f[j] = f[k] => j = k
  BY <1>5, Zenon DEF Picks
<1>7. \A k \in 1..m : f[k] \in 1..n /\ c[f[k]].key # key
  BY <1>1, <1>6
<1>8. Lacks(r, m, key)
  BY <1>6, <1>7 DEF Lacks
<1>9. Packs(r, m)
  <2>1. ASSUME NEW k \in 1..m PROVE r[k].own = ckOwn
    BY <1>6, <1>7 DEF Packs
  <2>2. ASSUME NEW j \in 1..m, NEW k \in 1..m, r[j].key = r[k].key PROVE j = k
    <3>1. c[f[j]].key = c[f[k]].key
      BY <1>6, <2>2
    <3>2. f[j] = f[k]
      BY <1>7, <3>1, Zenon DEF Packs
    <3> QED BY <1>6, <3>2
  <2> QED BY <1>5, <2>1, <2>2, Zenon DEF Packs
<1> QED BY <1>1, <1>2, <1>5, <1>8, <1>9

LEMMA AppendKeeps ==
  ASSUME NEW n \in Nat, NEW c, Packs(c, n), NEW e, e.own = ckOwn, Lacks(c, n, e.key)
  PROVE  Packs(Append(c, e), n + 1)
<1>1. PICK r : r = Append(c, e)
  OBVIOUS
<1>2. c = [i \in 1..n |-> c[i]]
  BY Zenon DEF Packs, OfLength
<1>3. /\ r = [i \in 1..(n + 1) |-> r[i]] /\ r[n + 1] = e /\ \A i \in 1..n : r[i] = c[i]
  BY ONLY n \in Nat, <1>1, <1>2, AppendedFacts
<1>4. \A i \in 1..(n + 1) : i \in 1..n \/ i = n + 1
  OBVIOUS
<1>5. Packs(r, n + 1)
  BY <1>3, <1>4 DEF Packs, OfLength, Lacks
<1> QED BY <1>1, <1>5

LEMMA TailKeeps ==
  ASSUME NEW n \in Nat \ {0}, NEW c, Packs(c, n), NEW key, Lacks(c, n, key)
  PROVE  Packs(Tail(c), n - 1) /\ Lacks(Tail(c), n - 1, key)
<1>1. PICK S, r : S = {c[i] : i \in 1..n} /\ r = Tail(c)
  OBVIOUS
<1>2. c \in Seq(S) /\ Len(c) = n
  BY <1>1 DEF Packs, OfLength
<1>3. r \in Seq(S) /\ Len(r) = n - 1 /\ \A i \in 1..(n - 1) : r[i] = c[i + 1]
  BY <1>1, <1>2
<1>4. r = [i \in 1..(n - 1) |-> r[i]]
  BY <1>3
<1>5. \A i \in 1..(n - 1) : i + 1 \in 1..n
  OBVIOUS
<1>6. \A i, j \in 1..(n - 1) : r[i].key = r[j].key => i = j
  <2> SUFFICES ASSUME NEW i \in 1..(n - 1), NEW j \in 1..(n - 1), r[i].key = r[j].key PROVE i = j
    OBVIOUS
  <2>1. PICK k, l : k = i + 1 /\ l = j + 1
    OBVIOUS
  <2>2. k \in 1..n /\ l \in 1..n /\ c[k].key = c[l].key
    BY <1>3, <1>5, <2>1
  <2>3. k = l
    BY <2>2, Zenon DEF Packs
  <2> QED BY <2>1, <2>3
<1>7. \A i \in 1..(n - 1) : r[i].own = ckOwn /\ r[i].key # key
  BY <1>3, <1>5 DEF Packs, Lacks
<1>8. Packs(r, n - 1) /\ Lacks(r, n - 1, key)
  BY <1>4, <1>6, <1>7, Zenon DEF Packs, OfLength, Lacks
<1> QED BY <1>1, <1>8

PacksInv ==
    /\ ckReply.hit => ckReply.age < CkTtl
    /\ \E n \in 0..CkCap : Packs(ckCache, n)

LEMMA PutKeeps ==
  ASSUME NEW n \in 0..CkCap, NEW c, Packs(c, n), NEW e, e.own = ckOwn, Lacks(c, n, e.key)
  PROVE  \E m \in 0..CkCap : Packs(CachePut(c, e), m)
<1>0. CkCap \in Nat \ {0} /\ n \in Nat
  BY ContextAssumption
<1>1. PICK room : room = IF Len(c) >= CkCap /\ e.key \notin {x.key : x \in Range(c)} THEN Tail(c) ELSE c
  OBVIOUS
<1>2. Len(c) = n /\ DOMAIN c = 1..n
  <2>1. PICK S : S = {c[i] : i \in 1..n}
    OBVIOUS
  <2>2. c \in Seq(S)
    BY <1>0, <2>1 DEF Packs, OfLength
  <2> QED BY <1>0, <2>2 DEF Packs, OfLength
<1>3. e.key \notin {x.key : x \in Range(c)}
  BY <1>2 DEF Range, Lacks
<1>4. PICK k \in Nat : k < CkCap /\ Packs(room, k)
  <2>1. CASE n >= CkCap
    <3>1. room = Tail(c) /\ n \in Nat \ {0}
      BY <1>0, <1>1, <1>2, <1>3, <2>1
    <3>2. Packs(room, n - 1)
      BY <3>1, TailKeeps
    <3>3. n - 1 \in Nat /\ n - 1 < CkCap
      BY <1>0, <3>1
    <3> QED BY <3>2, <3>3
  <2>2. CASE ~(n >= CkCap)
    BY <1>0, <1>1, <1>2, <2>2
  <2> QED BY <2>1, <2>2
<1>5. PICK w : w = Without(room, e.key)
  OBVIOUS
<1>6. PICK m \in 0..k : Packs(w, m) /\ Lacks(w, m, e.key)
  BY <1>4, <1>5, WithoutKeeps
<1>7. Packs(Append(w, e), m + 1)
  BY <1>6, AppendKeeps
<1>8. m + 1 \in 0..CkCap
  BY <1>0, <1>4
<1>9. CachePut(c, e) = Append(w, e)
  BY <1>1, <1>5 DEF CachePut
<1> QED BY <1>7, <1>8, <1>9

LEMMA PacksStep ==
  ASSUME PacksInv, ContextNext \/ UNCHANGED ckVars
  PROVE  PacksInv'
<1>0. PICK n \in 0..CkCap : Packs(ckCache, n)
  BY DEF PacksInv
<1>1. ASSUME UNCHANGED <<ckCache, ckOwn, ckReply>> PROVE PacksInv'
  BY <1>1 DEF PacksInv, Packs, OfLength
<1>2. ASSUME NEW q \in CkQueries, NEW b \in CkBudgets, NEW pid \in PackIds \cup {<<>>}, NEW kinds \in KindFilters,
             NEW stable \in BOOLEAN, NEW use_cache \in BOOLEAN,
             ContextPackBuild(q, b, pid, kinds, stable, use_cache)
      PROVE  PacksInv'
  <2>1. PICK key : key = <<q, budget_factor(b)>>
    OBVIOUS
  <2>2. ckOwn' = ckOwn
    BY <1>2 DEF ContextPackBuild
  <2>3. PICK e, d : /\ e.key = key /\ e.own = ckOwn /\ d.hit = FALSE
                    /\ ckCache' = CachePut(Without(ckCache, key), e) \/ ckCache' = ckCache
                    /\ ckReply' = d
    <3>1. PICK hits \in recall_candidates :
          LET budget == budget_factor(b)
              prev == UNION {Range(e.ids) : e \in {x \in Range(ckCache) : x.pid = pid}}
              cands == {d \in hits : d.kind \in kinds}
              p == IF prev = {} THEN pack(cands, budget, prev, stable) ELSE pack_delta(cands, budget, prev)
              new == <<q, Ids(p.blocks)>>
              e == [key |-> <<q, budget>>, ids |-> Ids(p.blocks), used |-> p.used, pid |-> new, at |-> ckClock, own |-> ckOwn, pack |-> p, cands |-> cands]
          IN /\ ckCache' = IF use_cache /\ pid = <<>> THEN CachePut(Without(ckCache, <<q, budget>>), e) ELSE ckCache
             /\ ckReply' = [q |-> q, cands |-> cands, prev |-> prev, budget |-> budget, pack |-> p, told |-> PackManifest(p), hit |-> FALSE, age |-> 0, own |-> ckOwn]
      BY <1>2, Zenon DEF ContextPackBuild
    <3> DEFINE prev == UNION {Range(e.ids) : e \in {x \in Range(ckCache) : x.pid = pid}}
               cands == {d \in hits : d.kind \in kinds}
               p == IF prev = {} THEN pack(cands, budget_factor(b), prev, stable) ELSE pack_delta(cands, budget_factor(b), prev)
    <3>2. PICK u, a, v : u = p /\ a = cands /\ v = prev
      OBVIOUS
    <3>3. PICK e : e = [key |-> key, ids |-> Ids(u.blocks), used |-> u.used, pid |-> <<q, Ids(u.blocks)>>, at |-> ckClock, own |-> ckOwn, pack |-> u, cands |-> a]
      OBVIOUS
    <3>4. PICK d : d = [q |-> q, cands |-> a, prev |-> v, budget |-> budget_factor(b), pack |-> u, told |-> PackManifest(u), hit |-> FALSE, age |-> 0, own |-> ckOwn]
      OBVIOUS
    <3>5. ckCache' = (IF use_cache /\ pid = <<>> THEN CachePut(Without(ckCache, key), e) ELSE ckCache) /\ ckReply' = d
      BY <2>1, <3>1, <3>2, <3>3, <3>4, Zenon
    <3>6. d.hit = FALSE /\ e.key = key /\ e.own = ckOwn
      BY <3>3, <3>4
    <3>7. ckCache' = CachePut(Without(ckCache, key), e) \/ ckCache' = ckCache
      BY <3>5
    <3> QED BY <3>5, <3>6, <3>7, Zenon
  <2>5. PICK w : w = Without(ckCache, key)
    OBVIOUS
  <2>6. PICK m \in 0..n : Packs(w, m) /\ Lacks(w, m, key)
    BY <1>0, <2>5, WithoutKeeps, ContextAssumption
  <2>7. m \in 0..CkCap
    BY <1>0, ContextAssumption
  <2>8. \E k \in 0..CkCap : Packs(CachePut(w, e), k)
    BY <2>3, <2>6, <2>7, PutKeeps
  <2>9. \E k \in 0..CkCap : Packs(ckCache', k)
    BY <1>0, <2>3, <2>5, <2>8
  <2> QED BY <2>2, <2>3, <2>9 DEF PacksInv, Packs, OfLength
<1>3. ASSUME NEW q \in CkQueries, NEW b \in CkBudgets, ContextPackHit(q, b) PROVE PacksInv'
  <2>1. PICK e \in Cached(<<q, budget_factor(b)>>) :
           /\ ckCache' = Append(Without(ckCache, e.key), e)
           /\ ckReply' = [q |-> q, cands |-> e.cands, prev |-> {}, budget |-> budget_factor(b), pack |-> e.pack, told |-> HitManifest(e),
                          hit |-> TRUE, age |-> ckClock - e.at, own |-> e.own]
    BY <1>3, Zenon DEF ContextPackHit
  <2>2. ckReply'.age = ckClock - e.at /\ ckOwn' = ckOwn
    BY <1>3, <2>1 DEF ContextPackHit
  <2>3. ckClock - e.at < CkTtl /\ e \in Range(ckCache)
    BY <2>1 DEF Cached
  <2>4. PICK i \in 1..n : e = ckCache[i]
    BY <1>0, <2>3 DEF Packs, OfLength, Range
  <2>5. e.own = ckOwn /\ ~Lacks(ckCache, n, e.key)
    BY <1>0, <2>4 DEF Packs, Lacks
  <2>6. PICK w : w = Without(ckCache, e.key)
    OBVIOUS
  <2>7. PICK m \in 0..n : Packs(w, m) /\ Lacks(w, m, e.key) /\ m < n
    BY <1>0, <2>5, <2>6, WithoutKeeps, ContextAssumption
  <2>8. Packs(Append(w, e), m + 1)
    BY <2>5, <2>7, AppendKeeps
  <2>9. m + 1 \in 0..CkCap
    BY <1>0, <2>7, ContextAssumption
  <2> QED BY <2>1, <2>2, <2>3, <2>6, <2>8, <2>9 DEF PacksInv, Packs, OfLength
<1>4. ASSUME NEW answered \in BOOLEAN, Write(answered) PROVE PacksInv'
  <2>1. CASE answered
    <3>1. ckCache' = <<>> /\ ckReply' = ckReply
      BY <1>4, <2>1 DEF Write
    <3>2. Packs(ckCache, 0)' /\ 0 \in 0..CkCap
      BY <3>1, ContextAssumption DEF Packs, OfLength
    <3> QED BY <3>1, <3>2 DEF PacksInv
  <2>2. CASE ~answered
    <3>1. UNCHANGED <<ckCache, ckOwn, ckReply>>
      BY <1>4, <2>2 DEF Write
    <3> QED BY <1>1, <3>1
  <2> QED BY <2>1, <2>2
<1>5. CASE Remember
  BY <1>1, <1>5 DEF Remember
<1>6. ASSUME NEW pid \in PackIds, NEW gate \in {"pass", "fail", "unknown"}, ContextFeedback(pid, Range(pid[2]), gate) PROVE PacksInv'
  BY <1>1, <1>6, Zenon DEF ContextFeedback
<1>7. CASE ElsewhereWrite
  BY <1>1, <1>7 DEF ElsewhereWrite
<1>8. CASE ContextTick
  BY <1>1, <1>8 DEF ContextTick
<1>9. CASE UNCHANGED ckVars
  BY <1>1, <1>9 DEF ckVars
<1> QED BY <1>2, <1>3, <1>4, <1>5, <1>6, <1>7, <1>8, <1>9, Zenon DEF ContextNext

LEMMA PacksInit == Init => PacksInv
<1> SUFFICES ASSUME Init PROVE PacksInv
  OBVIOUS
<1>1. ckCache = <<>> /\ ckReply = NoReply
  BY DEF Init, ContextInit
<1>2. Packs(ckCache, 0) /\ 0 \in 0..CkCap
  BY <1>1, ContextAssumption DEF Packs, OfLength
<1>3. NoReply.hit = FALSE
  <2>1. PICK p : p = pack({}, 0, {}, FALSE)
    OBVIOUS
  <2> QED BY <2>1 DEF NoReply
<1> QED BY <1>1, <1>2, <1>3 DEF PacksInv

\* The pack cache: a cached answer is younger than the time to live, every entry
\* was made after the last write that dropped the cache, and the cache holds one
\* entry per key and never more than its capacity.
THEOREM CachedPacksAreFresh == Spec => []ServedFresh
<1>1. Init => PacksInv
  BY PacksInit
<1>2. PacksInv /\ [Next]_vars => PacksInv'
  BY ContextMoves, PacksStep
<1>3. PacksInv => ServedFresh
  <2> SUFFICES ASSUME PacksInv PROVE ServedFresh
    OBVIOUS
  <2>1. PICK n \in 0..CkCap : Packs(ckCache, n)
    BY DEF PacksInv
  <2>2. Len(ckCache) = n /\ DOMAIN ckCache = 1..n
    <3>1. PICK S : S = {ckCache[i] : i \in 1..n}
      OBVIOUS
    <3>2. n \in Nat
      BY ContextAssumption
    <3>3. ckCache \in Seq(S)
      BY <2>1, <3>1, <3>2 DEF Packs, OfLength
    <3> QED BY <2>1, <3>2, <3>3 DEF Packs, OfLength
  <2>3. Len(ckCache) <= CkCap
    BY <2>2, ContextAssumption
  <2> QED BY <2>1, <2>2, <2>3, Zenon DEF PacksInv, ServedFresh, Packs
<1> QED BY <1>1, <1>2, <1>3, PTL DEF Spec

-----------------------------------------------------------------------------
(* What a pack is made of: candidates are ranked by a total order, the first *)
(* of each class is kept, and the kept ones are placed one after the other.  *)
\* Candidates are ranked by a strict total order.
BetterIn(S) == {p \in S \X S : Better(p[1], p[2])}
LEMMA BetterOrders ==
  ASSUME NEW S, S \subseteq CkDocs
  PROVE  /\ Orders(BetterIn(S), S)
         /\ \A a, b \in S : Better(a, b) <=> <<a, b>> \in BetterIn(S)
<1>1. \A a, b \in S : Better(a, b) <=> <<a, b>> \in BetterIn(S)
  BY Zenon DEF BetterIn
<1>2. \A k : trust_prior(k) \in Int
  BY DEF trust_prior
<1>3. PICK v : v = [a \in S |-> a.score + trust_prior(a.kind)]
  OBVIOUS
<1>4. \A a \in S : v[a] \in Int /\ a.id \in Int /\ a \in CkDocs
  BY <1>2, <1>3, PackAssumption
<1>5. \A a, b \in S : Better(a, b) <=> v[a] > v[b] \/ (v[a] = v[b] /\ a.id < b.id)
  BY <1>3 DEF Better
<1>6. \A a \in S : ~Better(a, a)
  BY <1>4, <1>5
<1>7. ASSUME NEW a \in S, NEW b \in S, NEW c \in S, Better(a, b), Better(b, c) PROVE Better(a, c)
  BY <1>4, <1>5, <1>7
<1>8. ASSUME NEW a \in S, NEW b \in S PROVE a = b \/ Better(a, b) \/ Better(b, a)
  <2>1. CASE a.id = b.id
    BY <2>1, <1>4, PackAssumption
  <2>2. CASE a.id # b.id
    BY <2>2, <1>4, <1>5
  <2> QED BY <2>1, <2>2
<1>9. Orders(BetterIn(S), S)
  BY ONLY <1>1, <1>6, <1>7, <1>8, Zenon DEF Orders
<1> QED BY <1>1, <1>9

Sorted(y, m, S) ==
    /\ m \in Nat /\ m = Cardinality(S) /\ OfLength(y, m)
    /\ \A k \in 1..m : y[k] \in S
    /\ \A c \in S : \E k \in 1..m : y[k] = c
    /\ \A j, k \in 1..m : j < k => Better(y[j], y[k])
LEMMA RankedIsSorted ==
  ASSUME NEW S, S \subseteq CkDocs
  PROVE  \E m : Sorted(Ranked(S), m, S)
<1>1. IsFiniteSet(S)
  BY PackAssumption, FS_Subset
<1>2. PICK m : m = Cardinality(S) /\ m \in Nat
  BY <1>1, FS_CardinalityType
<1>3. PICK R : R = BetterIn(S)
  OBVIOUS
<1>4. Orders(R, S) /\ \A a, b \in S : Better(a, b) <=> <<a, b>> \in R
  BY <1>3, BetterOrders
<1>5. \A c \in S : Preceding(S, R, c) = {d \in S : Better(d, c)}
  BY <1>4 DEF Preceding
<1>6. \A n \in 1..m : \E s \in S : Cardinality(Preceding(S, R, s)) = n - 1
  BY <1>1, <1>2, <1>4, RanksNumber
<1>7. PICK y : y = Ranked(S)
  OBVIOUS
<1>8. y = [n \in 1..m |-> CHOOSE c \in S : Cardinality({d \in S : Better(d, c)}) = n - 1]
  BY <1>2, <1>7 DEF Ranked
<1>9. ASSUME NEW n \in 1..m PROVE y[n] \in S /\ Cardinality(Preceding(S, R, y[n])) = n - 1
  <2>1. y[n] = CHOOSE c \in S : Cardinality({d \in S : Better(d, c)}) = n - 1
    BY <1>8
  <2>2. \E c \in S : Cardinality({d \in S : Better(d, c)}) = n - 1
    BY <1>5, <1>6
  <2>3. y[n] \in S /\ Cardinality({d \in S : Better(d, y[n])}) = n - 1
    BY <2>1, <2>2, Zenon
  <2> QED BY <1>5, <2>3
<1>10. Ranks(y, m, S, R)
  <2>1. y \in [1..m -> S]
    BY <1>8, <1>9
  <2> QED BY <1>9, <2>1 DEF Ranks
<1>11. y \in Bijection(1..m, S) /\ \A j, k \in 1..m : j < k => <<y[j], y[k]>> \in R
  BY ONLY <1>1, <1>2, <1>4, <1>10, RanksSort
<1>12. \A c \in S : \E k \in 1..m : y[k] = c
  BY <1>11 DEF Bijection, Surjection
<1>13. OfLength(y, m)
  BY <1>8 DEF OfLength
<1>14. \A j, k \in 1..m : j < k => Better(y[j], y[k])
  BY <1>4, <1>9, <1>11
<1> QED BY <1>2, <1>7, <1>9, <1>12, <1>13, <1>14, Zenon DEF Sorted

\* What has become of the first n kept candidates: each is chosen or dropped.
PkBlock == [id : Int, tier : {Tiers[t] : t \in 1..4}]
PkState == [used : Nat, chosen : Seq(PkBlock), dropped : Seq(Int)]
Covered(ch, dr, n, ids) ==
    \A i \in 1..n : (\E k \in 1..Len(ch) : ch[k].id = ids[i]) \/ (\E k \in 1..Len(dr) : dr[k] = ids[i])
FromKept(ch, dr, n, ids) ==
    /\ \A k \in 1..Len(ch) : \E i \in 1..n : ch[k].id = ids[i]
    /\ \A k \in 1..Len(dr) : \E i \in 1..n : dr[k] = ids[i]
LedBy(ch, n, ids) ==
    Len(ch) > 0 => \E i \in 1..n : ch[1].id = ids[i] /\ \A k \in 2..Len(ch) : \E j \in (i + 1)..n : ch[k].id = ids[j]
AllDropped(ch, dr, n, ids) == Len(ch) = 0 => \A i \in 1..n : dr[i] = ids[i]
Tally(ch, dr, n, ids) ==
    /\ Len(ch) + Len(dr) = n
    /\ FromKept(ch, dr, n, ids) /\ Covered(ch, dr, n, ids) /\ LedBy(ch, n, ids) /\ AllDropped(ch, dr, n, ids)

LEMMA TallyDrops ==
  ASSUME NEW n \in Nat, NEW ids, NEW ch \in Seq(PkBlock), NEW dr \in Seq(Int), ids[n + 1] \in Int,
         Tally(ch, dr, n, ids), NEW e, e = Append(dr, ids[n + 1])
  PROVE  Tally(ch, e, n + 1, ids)
<1>1. PICK a \in Nat, b \in Nat : a = Len(ch) /\ b = Len(dr)
  OBVIOUS
<1>2. a + b = n
  BY <1>1 DEF Tally
<1>3. Len(e) = b + 1 /\ e[b + 1] = ids[n + 1] /\ \A k \in 1..b : e[k] = dr[k]
  BY <1>1
<1>4. \A i \in 1..(n + 1) : i \in 1..n \/ i = n + 1
  OBVIOUS
<1>5. \A i \in 1..n : i \in 1..(n + 1)
  OBVIOUS
<1>6. \A k \in 1..(b + 1) : k \in 1..b \/ k = b + 1
  OBVIOUS
<1>7. \A k \in 1..b : k \in 1..(b + 1)
  OBVIOUS
<1>8. n + 1 \in 1..(n + 1) /\ b + 1 \in 1..(b + 1)
  OBVIOUS
<1>9. FromKept(ch, e, n + 1, ids)
  <2>1. \A k \in 1..a : \E i \in 1..(n + 1) : ch[k].id = ids[i]
    BY <1>1, <1>5, Zenon DEF Tally, FromKept
  <2>2. ASSUME NEW k \in 1..(b + 1) PROVE \E i \in 1..(n + 1) : e[k] = ids[i]
    <3>1. CASE k \in 1..b
      <4>1. PICK i \in 1..n : dr[k] = ids[i]
        BY <1>1, <3>1, Zenon DEF Tally, FromKept
      <4> QED BY <1>3, <1>5, <3>1, <4>1
    <3>2. CASE k = b + 1
      BY <1>3, <1>8, <3>2
    <3> QED BY <1>6, <3>1, <3>2
  <2> QED BY <1>1, <1>3, <2>1, <2>2 DEF FromKept
<1>10. Covered(ch, e, n + 1, ids)
  <2> SUFFICES ASSUME NEW i \in 1..(n + 1)
               PROVE  (\E k \in 1..a : ch[k].id = ids[i]) \/ (\E k \in 1..(b + 1) : e[k] = ids[i])
    BY <1>1, <1>3 DEF Covered
  <2>1. CASE i \in 1..n
    <3>1. (\E k \in 1..a : ch[k].id = ids[i]) \/ (\E k \in 1..b : dr[k] = ids[i])
      BY <1>1, <2>1, Zenon DEF Tally, Covered
    <3> QED BY <1>3, <1>7, <3>1
  <2>2. CASE i = n + 1
    BY <1>3, <1>8, <2>2
  <2> QED BY <1>4, <2>1, <2>2
<1>11. LedBy(ch, n + 1, ids)
  <2> SUFFICES ASSUME a > 0
               PROVE  \E i \in 1..(n + 1) : ch[1].id = ids[i] /\ \A k \in 2..a : \E j \in (i + 1)..(n + 1) : ch[k].id = ids[j]
    BY <1>1 DEF LedBy
  <2>1. PICK i \in 1..n : ch[1].id = ids[i] /\ \A k \in 2..a : \E j \in (i + 1)..n : ch[k].id = ids[j]
    BY <1>1 DEF Tally, LedBy
  <2>2. \A j \in (i + 1)..n : j \in (i + 1)..(n + 1)
    OBVIOUS
  <2>3. \A k \in 2..a : \E j \in (i + 1)..(n + 1) : ch[k].id = ids[j]
    BY <2>1, <2>2, Zenon
  <2> QED BY <1>5, <2>1, <2>3, Zenon
<1>12. AllDropped(ch, e, n + 1, ids)
  <2> SUFFICES ASSUME a = 0, NEW i \in 1..(n + 1) PROVE e[i] = ids[i]
    BY <1>1 DEF AllDropped
  <2>1. b = n
    BY <1>2
  <2>2. \A k \in 1..n : dr[k] = ids[k]
    BY <1>1 DEF Tally, AllDropped
  <2> QED BY <1>3, <1>4, <2>1, <2>2
<1>13. Len(ch) + Len(e) = n + 1
  BY ONLY a \in Nat, b \in Nat, <1>1, <1>2, <1>3
<1> QED BY <1>9, <1>10, <1>11, <1>12, <1>13 DEF Tally

LEMMA TallyTakes ==
  ASSUME NEW n \in Nat, NEW ids, NEW ch \in Seq(PkBlock), NEW dr \in Seq(Int), NEW x \in PkBlock, x.id = ids[n + 1],
         Tally(ch, dr, n, ids), NEW e, e = Append(ch, x)
  PROVE  Tally(e, dr, n + 1, ids)
<1>1. PICK a \in Nat, b \in Nat : a = Len(ch) /\ b = Len(dr)
  OBVIOUS
<1>2. a + b = n
  BY <1>1 DEF Tally
<1>3. Len(e) = a + 1 /\ e[a + 1] = x /\ \A k \in 1..a : e[k] = ch[k]
  BY <1>1
<1>4. \A i \in 1..(n + 1) : i \in 1..n \/ i = n + 1
  OBVIOUS
<1>5. \A i \in 1..n : i \in 1..(n + 1)
  OBVIOUS
<1>6. \A k \in 1..(a + 1) : k \in 1..a \/ k = a + 1
  OBVIOUS
<1>7. \A k \in 1..a : k \in 1..(a + 1)
  OBVIOUS
<1>8. n + 1 \in 1..(n + 1) /\ a + 1 \in 1..(a + 1)
  OBVIOUS
<1>9. FromKept(e, dr, n + 1, ids)
  <2>1. \A k \in 1..b : \E i \in 1..(n + 1) : dr[k] = ids[i]
    BY <1>1, <1>5, Zenon DEF Tally, FromKept
  <2>2. ASSUME NEW k \in 1..(a + 1) PROVE \E i \in 1..(n + 1) : e[k].id = ids[i]
    <3>1. CASE k \in 1..a
      <4>1. PICK i \in 1..n : ch[k].id = ids[i]
        BY <1>1, <3>1, Zenon DEF Tally, FromKept
      <4> QED BY <1>3, <1>5, <3>1, <4>1
    <3>2. CASE k = a + 1
      BY <1>3, <1>8, <3>2
    <3> QED BY <1>6, <3>1, <3>2
  <2> QED BY <1>1, <1>3, <2>1, <2>2 DEF FromKept
<1>10. Covered(e, dr, n + 1, ids)
  <2> SUFFICES ASSUME NEW i \in 1..(n + 1)
               PROVE  (\E k \in 1..(a + 1) : e[k].id = ids[i]) \/ (\E k \in 1..b : dr[k] = ids[i])
    BY <1>1, <1>3 DEF Covered
  <2>1. CASE i \in 1..n
    <3>1. (\E k \in 1..a : ch[k].id = ids[i]) \/ (\E k \in 1..b : dr[k] = ids[i])
      BY <1>1, <2>1, Zenon DEF Tally, Covered
    <3> QED BY <1>3, <1>7, <3>1
  <2>2. CASE i = n + 1
    BY <1>3, <1>8, <2>2
  <2> QED BY <1>4, <2>1, <2>2
<1>11. \E i \in 1..(n + 1) : e[1].id = ids[i] /\ \A k \in 2..(a + 1) : \E j \in (i + 1)..(n + 1) : e[k].id = ids[j]
  <2>1. CASE a = 0
    <3>1. e[1].id = ids[n + 1] /\ \A k \in 2..(a + 1) : FALSE
      BY <1>3, <2>1
    <3> QED BY <1>8, <3>1
  <2>2. CASE a # 0
    <3>1. PICK i \in 1..n : ch[1].id = ids[i] /\ \A k \in 2..a : \E j \in (i + 1)..n : ch[k].id = ids[j]
      BY <1>1, <2>2 DEF Tally, LedBy
    <3>2. (\A j \in (i + 1)..n : j \in (i + 1)..(n + 1)) /\ n + 1 \in (i + 1)..(n + 1)
      OBVIOUS
    <3>3. \A k \in 2..(a + 1) : (k \in 2..a /\ k \in 1..a) \/ k = a + 1
      OBVIOUS
    <3>4. ASSUME NEW k \in 2..(a + 1) PROVE \E j \in (i + 1)..(n + 1) : e[k].id = ids[j]
      <4>1. CASE k \in 2..a /\ k \in 1..a
        <5>1. PICK j \in (i + 1)..n : ch[k].id = ids[j]
          BY <3>1, <4>1
        <5>2. e[k].id = ids[j] /\ j \in (i + 1)..(n + 1)
          BY <1>3, <3>2, <4>1, <5>1
        <5> QED BY <5>2
      <4>2. CASE k = a + 1
        <5>1. e[k].id = ids[n + 1]
          BY <1>3, <4>2
        <5> QED BY <3>2, <5>1
      <4> QED BY <3>3, <4>1, <4>2
    <3>5. e[1].id = ids[i] /\ i \in 1..(n + 1)
      BY <1>3, <1>5, <2>2, <3>1
    <3> QED BY <3>4, <3>5
  <2> QED BY <2>1, <2>2
<1>11a. LedBy(e, n + 1, ids)
  <2>1. Len(e) = a + 1
    BY <1>3
  <2>2. \E i \in 1..(n + 1) : e[1].id = ids[i] /\ \A k \in 2..Len(e) : \E j \in (i + 1)..(n + 1) : e[k].id = ids[j]
    BY ONLY <1>11, <2>1, Zenon
  <2> QED BY ONLY <2>2, Zenon DEF LedBy
<1>12. AllDropped(e, dr, n + 1, ids)
  BY <1>3 DEF AllDropped
<1>13. Len(e) + Len(dr) = n + 1
  BY ONLY a \in Nat, b \in Nat, <1>1, <1>2, <1>3
<1> QED BY <1>9, <1>10, <1>11a, <1>12, <1>13 DEF Tally

\* One candidate is placed or dropped.
PlacedOrDropped(x, y, c, avail) ==
    \/ y.used = x.used /\ y.chosen = x.chosen /\ y.dropped = Append(x.dropped, c.id)
    \/ /\ y.used <= avail /\ y.dropped = x.dropped
       /\ \E z \in PkBlock : z.id = c.id /\ y.chosen = Append(x.chosen, z)
LEMMA OneIsPlaced ==
  ASSUME NEW avail \in Nat, NEW x \in PkState, NEW c \in CkDocs, NEW y, y = PlaceBlock(avail, x, c)
  PROVE  y \in PkState /\ PlacedOrDropped(x, y, c, avail)
<1>1. PICK F : F = {t \in 1..KindFloor(c.kind) : x.used + c.toks[t] <= avail}
  OBVIOUS
<1>2. y = IF F = {} THEN [x EXCEPT !.dropped = Append(@, c.id)]
          ELSE [used |-> x.used + c.toks[Min(F)], dropped |-> x.dropped,
                chosen |-> Append(x.chosen, [id |-> c.id, tier |-> Tiers[Min(F)]])]
  BY <1>1, Zenon DEF PlaceBlock
<1>3. x.used \in Nat /\ x.chosen \in Seq(PkBlock) /\ x.dropped \in Seq(Int) /\ c.id \in Int
  BY PackAssumption DEF PkState
<1>4. Append(x.dropped, c.id) \in Seq(Int)
  BY <1>3
<1>5. CASE F = {}
  <2>1. y = [x EXCEPT !.dropped = Append(x.dropped, c.id)]
    BY <1>2, <1>5
  <2>2. y.used = x.used /\ y.chosen = x.chosen /\ y.dropped = Append(x.dropped, c.id)
    BY <2>1 DEF PkState
  <2>3. y \in PkState
    BY <1>4, <2>1 DEF PkState
  <2> QED BY <2>2, <2>3 DEF PlacedOrDropped
<1>6. CASE F # {}
  <2>1. KindFloor(c.kind) \in {2, 4}
    BY DEF KindFloor
  <2>2. \A t \in F : t \in 1..4
    BY <1>1, <2>1
  <2>3. F \subseteq Nat
    BY <2>2
  <2>4. \E t \in F : \A u \in F : t <= u
    BY <1>6, <2>3, LeastNat
  <2>5. PICK t : t = Min(F)
    OBVIOUS
  <2>6. t \in F
    BY <2>4, <2>5, Zenon DEF Min
  <2>7. t \in 1..4 /\ x.used + c.toks[t] <= avail
    BY <1>1, <2>2, <2>6
  <2>8. c.toks[t] \in Nat
    BY <2>7, PackAssumption
  <2>9. PICK z : z = [id |-> c.id, tier |-> Tiers[t]]
    OBVIOUS
  <2>10. z \in PkBlock /\ z.id = c.id
    BY <1>3, <2>7, <2>9 DEF PkBlock
  <2>11. Append(x.chosen, z) \in Seq(PkBlock) /\ x.used + c.toks[t] \in Nat
    BY <1>3, <2>8, <2>10
  <2>12. y = [used |-> x.used + c.toks[t], dropped |-> x.dropped, chosen |-> Append(x.chosen, z)]
    BY <1>2, <1>6, <2>5, <2>9
  <2>13. y \in PkState /\ y.used = x.used + c.toks[t] /\ y.dropped = x.dropped /\ y.chosen = Append(x.chosen, z)
    BY <1>3, <2>11, <2>12 DEF PkState
  <2> QED BY <2>7, <2>10, <2>13 DEF PlacedOrDropped
<1> QED BY <1>5, <1>6

IsGreedy(f, avail, kept) ==
    f = [n \in 0..Len(kept) |-> IF n = 0 THEN [used |-> 0, chosen |-> <<>>, dropped |-> <<>>]
                                ELSE PlaceBlock(avail, f[n - 1], kept[n])]
LEMMA GreedyTallies ==
  ASSUME NEW avail \in Nat, NEW kept \in Seq(CkDocs), NEW len, len = Len(kept), NEW st, st = Greedy(avail, kept),
         NEW ids, ids = [i \in 1..len |-> kept[i].id]
  PROVE  st \in PkState /\ st.used <= avail /\ Tally(st.chosen, st.dropped, len, ids)
<1>1. PICK C : C = PkState
  OBVIOUS
<1>2. len \in Nat /\ \A n \in 1..len : kept[n] \in CkDocs /\ ids[n] = kept[n].id /\ ids[n] \in Int
  BY PackAssumption
<1>3. PICK a : a = [used |-> 0, chosen |-> <<>>, dropped |-> <<>>]
  OBVIOUS
<1>4. a \in C /\ a.used = 0 /\ a.chosen = <<>> /\ a.dropped = <<>>
  BY <1>1, <1>3 DEF PkState
<1>5. \A x \in C, c \in CkDocs : PlaceBlock(avail, x, c) \in C
  BY <1>1, OneIsPlaced
<1>6. PICK h : h = [n \in 1..len |-> [x \in C |-> PlaceBlock(avail, x, kept[n])]]
  OBVIOUS
<1>7. Climbs(a, h, C, len)
  BY <1>2, <1>4, <1>5, <1>6 DEF Climbs
<1>8. PICK s \in [0..len -> C] : s[0] = a /\ \A n \in 1..len : s[n] = h[n][s[n - 1]]
  BY ONLY <1>2, <1>7, Iterated
<1>9. ASSUME NEW n \in 1..len PROVE n - 1 \in 0..len /\ s[n - 1] \in C /\ s[n] = PlaceBlock(avail, s[n - 1], kept[n])
  <2>1. n - 1 \in 0..len
    BY <1>2
  <2>2. s[n - 1] \in C
    BY <2>1, Zenon
  <2>3. s[n] = PlaceBlock(avail, s[n - 1], kept[n])
    BY <1>6, <1>8, <2>2, Zenon
  <2> QED BY <2>1, <2>2, <2>3
<1>10. IsGreedy(s, avail, kept)
  <2>1. \A n \in 0..len : n = 0 \/ n \in 1..len
    BY <1>2
  <2>2. \A n \in 0..len : s[n] = IF n = 0 THEN a ELSE PlaceBlock(avail, s[n - 1], kept[n])
    BY <1>8, <1>9, <2>1
  <2>3. s = [n \in 0..len |-> s[n]]
    BY <1>8
  <2> QED BY <1>3, <2>2, <2>3 DEF IsGreedy
<1>11. PICK r : r[len] = st /\ IsGreedy(r, avail, kept)
  <2>1. PICK r : r = CHOOSE f : IsGreedy(f, avail, kept)
    OBVIOUS
  <2>2. IsGreedy(r, avail, kept)
    BY <1>10, <2>1, Zenon
  <2>3. st = r[len]
    BY <2>1, Zenon DEF Greedy, IsGreedy
  <2> QED BY <2>2, <2>3
<1>12. \A n \in 0..len : r[n] = IF n = 0 THEN a ELSE PlaceBlock(avail, r[n - 1], kept[n])
  BY <1>3, <1>11 DEF IsGreedy
<1>13. GoAlike(s, r, len)
  <2>1. 0 \in 0..len /\ \A n \in 1..len : n \in 0..len /\ n # 0
    BY <1>2
  <2> QED BY <1>8, <1>9, <1>12, <2>1 DEF GoAlike
<1>14. st = s[len]
  <2>1. \A n \in 0..len : s[n] = r[n]
    BY ONLY <1>2, <1>13, SameWay
  <2> QED BY <1>2, <1>11, <2>1
<1>15. PICK T : T = {n \in 0..len : s[n].used <= avail /\ Tally(s[n].chosen, s[n].dropped, n, ids)}
  OBVIOUS
<1>16. 0 \in T
  <2>1. Tally(<<>>, <<>>, 0, ids)
    BY DEF Tally, FromKept, Covered, LedBy, AllDropped
  <2> QED BY <1>2, <1>4, <1>8, <1>15, <2>1
<1>17. ASSUME NEW n \in 0..(len - 1), n \in T PROVE n + 1 \in T
  <2>1. n + 1 \in 1..len /\ n + 1 \in 0..len /\ (n + 1) - 1 = n /\ n \in 0..len /\ n \in Nat
    BY <1>2
  <2>2. PICK x, y, c : x = s[n] /\ y = s[n + 1] /\ c = kept[n + 1]
    OBVIOUS
  <2>3. x \in PkState /\ c \in CkDocs /\ y = PlaceBlock(avail, x, c) /\ c.id = ids[n + 1] /\ ids[n + 1] \in Int
    BY <1>1, <1>2, <1>9, <2>1, <2>2
  <2>4. x.used <= avail /\ Tally(x.chosen, x.dropped, n, ids)
    BY <1>15, <1>17, <2>2
  <2>5. PlacedOrDropped(x, y, c, avail)
    BY ONLY avail \in Nat, <2>3, OneIsPlaced, Zenon
  <2>6. PICK ch \in Seq(PkBlock), dr \in Seq(Int) : ch = x.chosen /\ dr = x.dropped
    BY <2>3 DEF PkState
  <2>7. CASE y.used = x.used /\ y.chosen = x.chosen /\ y.dropped = Append(x.dropped, c.id)
    <3>1. Tally(ch, Append(dr, c.id), n + 1, ids)
      BY <2>1, <2>3, <2>4, <2>6, TallyDrops
    <3> QED BY <1>15, <2>1, <2>2, <2>4, <2>6, <2>7, <3>1
  <2>8. CASE /\ y.used <= avail /\ y.dropped = x.dropped
             /\ \E z \in PkBlock : z.id = c.id /\ y.chosen = Append(x.chosen, z)
    <3>1. PICK z \in PkBlock : z.id = c.id /\ y.chosen = Append(x.chosen, z)
      BY <2>8
    <3>2. Tally(Append(ch, z), dr, n + 1, ids)
      BY <2>1, <2>3, <2>4, <2>6, <3>1, TallyTakes
    <3> QED BY <1>15, <2>1, <2>2, <2>6, <2>8, <3>1, <3>2
  <2> QED BY <2>5, <2>7, <2>8 DEF PlacedOrDropped
<1>18. len \in T
  <2>1. \A n \in 0..len : n \in T
    BY ONLY <1>2, <1>16, <1>17, UpTo
  <2> QED BY <1>2, <2>1
<1>19. st \in C
  BY <1>2, <1>8, <1>14
<1> QED BY <1>1, <1>14, <1>15, <1>18, <1>19

\* Two lists joined.
Joined(t, a, b, S) ==
    /\ t \in Seq(S) /\ Len(t) = Len(a) + Len(b)
    /\ \A k \in 1..Len(a) : t[k] = a[k]
    /\ \A k \in 1..Len(b) : t[Len(a) + k] = b[k]
LEMMA ConcatJoins ==
  ASSUME NEW S, NEW a \in Seq(S), NEW b \in Seq(S)
  PROVE  Joined(a \o b, a, b, S)
<1>1. PICK m \in Nat, n \in Nat : m = Len(a) /\ n = Len(b)
  OBVIOUS
<1>2. a \o b \in Seq(S) /\ Len(a \o b) = Len(a) + Len(b)
  OBVIOUS
<1>3. ASSUME NEW k \in 1..Len(a) PROVE (a \o b)[k] = a[k]
  OBVIOUS
<1>4. ASSUME NEW k \in 1..Len(b) PROVE (a \o b)[Len(a) + k] = b[k]
  OBVIOUS
<1> QED BY <1>2, <1>3, <1>4 DEF Joined

\* The order of the blocks: the same blocks, the first one first.
Reorders(t, s) ==
    /\ t \in Seq(PkBlock) /\ Len(t) = Len(s)
    /\ \A k \in 1..Len(s) : \E j \in 1..Len(s) : t[k] = s[j]
    /\ \A j \in 1..Len(s) : \E k \in 1..Len(s) : t[k] = s[j]
    /\ Len(s) > 0 => t[1] = s[1]
LEMMA SerialReorders ==
  ASSUME NEW s \in Seq(PkBlock)
  PROVE  Reorders(serial_position_order(s), s)
<1>1. PICK n \in Nat : n = Len(s)
  OBVIOUS
<1>2. CASE n <= 2
  <2>1. serial_position_order(s) = s
    BY <1>1, <1>2 DEF serial_position_order
  <2> QED BY <2>1 DEF Reorders
<1>3. CASE n > 2
  <2>1. s[1] \in PkBlock /\ s[2] \in PkBlock
    BY <1>1, <1>3
  <2>2. SubSeq(s, 3, n) \in Seq(PkBlock)
    BY <1>1, <1>3
  <2>2a. <<s[1]>> \in Seq(PkBlock) /\ <<s[2]>> \in Seq(PkBlock)
    BY <2>1
  <2>3. PICK u \in Seq(PkBlock), v \in Seq(PkBlock), w \in Seq(PkBlock) : u = <<s[1]>> /\ v = SubSeq(s, 3, n) /\ w = <<s[2]>>
    BY ONLY <2>2, <2>2a, Zenon
  <2>4. Len(u) = 1 /\ u[1] = s[1] /\ Len(w) = 1 /\ w[1] = s[2]
    BY <2>3
  <2>5. Len(v) = n - 2 /\ \A k \in 1..(n - 2) : v[k] = s[k + 2]
    BY <1>1, <1>3, <2>3
  <2>6. Joined(u \o v, u, v, PkBlock)
    BY ConcatJoins
  <2>6a. PICK x \in Seq(PkBlock) : x = u \o v
    BY <2>6 DEF Joined
  <2>7. Len(x) = n - 1 /\ x[1] = s[1] /\ \A k \in 1..(n - 2) : x[1 + k] = v[k]
    <3>1. Joined(x, u, v, PkBlock)
      BY <2>6, <2>6a
    <3>2. Len(x) = Len(u) + Len(v) /\ (\A k \in 1..Len(u) : x[k] = u[k]) /\ \A k \in 1..Len(v) : x[Len(u) + k] = v[k]
      BY ONLY <3>1, Zenon DEF Joined
    <3>3. Len(x) = 1 + (n - 2) /\ (\A k \in 1..1 : x[k] = u[k]) /\ \A k \in 1..(n - 2) : x[1 + k] = v[k]
      BY ONLY <2>4, <2>5, <3>2, Zenon
    <3>4. 1 + (n - 2) = n - 1 /\ 1 \in 1..1
      OBVIOUS
    <3> QED BY ONLY <2>4, <3>3, <3>4, Zenon
  <2>8. Joined(x \o w, x, w, PkBlock)
    BY ConcatJoins
  <2>8a. PICK t \in Seq(PkBlock) : t = x \o w
    BY <2>8 DEF Joined
  <2>8b. serial_position_order(s) = t
    BY <1>1, <1>3, <2>3, <2>6a, <2>8a DEF serial_position_order
  <2>9. Len(t) = n /\ t[n] = s[2] /\ \A k \in 1..(n - 1) : t[k] = x[k]
    <3>1. Joined(t, x, w, PkBlock)
      BY <2>8, <2>8a
    <3>2. Len(t) = Len(x) + Len(w) /\ (\A k \in 1..Len(x) : t[k] = x[k]) /\ \A k \in 1..Len(w) : t[Len(x) + k] = w[k]
      BY ONLY <3>1, Zenon DEF Joined
    <3>3. Len(t) = (n - 1) + 1 /\ (\A k \in 1..(n - 1) : t[k] = x[k]) /\ \A k \in 1..1 : t[(n - 1) + k] = w[k]
      BY ONLY <2>4, <2>7, <3>2, Zenon
    <3>4. (n - 1) + 1 = n /\ 1 \in 1..1
      OBVIOUS
    <3> QED BY ONLY <2>4, <3>3, <3>4, Zenon
  <2>10. t[1] = s[1]
    BY <1>3, <2>7, <2>9
  <2>11. \A k \in 2..(n - 1) : t[k] = s[k + 1]
    <3> TAKE k \in 2..(n - 1)
    <3>1. PICK h \in 1..(n - 2) : k = 1 + h /\ h + 2 = k + 1
      <4>1. k - 1 \in 1..(n - 2) /\ k = 1 + (k - 1) /\ (k - 1) + 2 = k + 1
        OBVIOUS
      <4> QED BY <4>1
    <3>2. k \in 1..(n - 1)
      OBVIOUS
    <3>3. t[k] = x[k] /\ x[k] = v[h] /\ v[h] = s[k + 1]
      BY ONLY <2>5, <2>7, <2>9, <3>1, <3>2, h \in 1..(n - 2), Zenon
    <3> QED BY <3>3
  <2>12. ASSUME NEW k \in 1..n PROVE \E j \in 1..n : t[k] = s[j]
    <3>1. k = 1 \/ k = n \/ (k \in 2..(n - 1) /\ k + 1 \in 1..n)
      OBVIOUS
    <3>2. 1 \in 1..n /\ 2 \in 1..n
      BY <1>3
    <3> QED BY <2>9, <2>10, <2>11, <3>1, <3>2
  <2>13. ASSUME NEW j \in 1..n PROVE \E k \in 1..n : t[k] = s[j]
    <3>1. j = 1 \/ j = 2 \/ (j - 1 \in 2..(n - 1) /\ j - 1 \in 1..n /\ (j - 1) + 1 = j)
      OBVIOUS
    <3>2. 1 \in 1..n /\ n \in 1..n
      BY <1>3
    <3>3. CASE j = 1 \/ j = 2
      BY <2>9, <2>10, <3>2, <3>3
    <3>4. CASE j - 1 \in 2..(n - 1) /\ j - 1 \in 1..n /\ (j - 1) + 1 = j
      <4>1. t[j - 1] = s[j]
        BY <2>11, <3>4
      <4> QED BY <3>4, <4>1
    <3> QED BY <3>1, <3>3, <3>4
  <2> QED BY <1>1, <2>8b, <2>9, <2>10, <2>12, <2>13 DEF Reorders
<1> QED BY <1>2, <1>3

\* The kept candidates and the near duplicates share out the candidates.
SharedOut(S, kept, len, dup, dl) ==
    /\ kept \in Seq(CkDocs) /\ len \in Nat /\ len = Len(kept) /\ dup \in Seq(CkDocs) /\ dl \in Nat /\ dl = Len(dup)
    /\ len + dl = Cardinality(S)
    /\ (\A k \in 1..len : kept[k] \in S) /\ \A k \in 1..dl : dup[k] \in S
    /\ \A c \in S : (\E k \in 1..len : kept[k] = c) \/ \E k \in 1..dl : dup[k] = c
    /\ \A j, k \in 1..len : j < k => Better(kept[j], kept[k])
    /\ \A k \in 1..dl : \E j \in 1..len : kept[j].sim = dup[k].sim /\ Better(kept[j], dup[k])
KeptIn(S) == Retained(Ranked(S), KeptOf(Ranked(S)))
DupIn(S) == Retained(Ranked(S), DOMAIN Ranked(S) \ KeptOf(Ranked(S)))
LEMMA PartsShareOut ==
  ASSUME NEW S, S \subseteq CkDocs
  PROVE  \E len, dl : SharedOut(S, KeptIn(S), len, DupIn(S), dl)
<1>1. PICK y, kept, dup : y = Ranked(S) /\ kept = KeptIn(S) /\ dup = DupIn(S)
  OBVIOUS
<1>2. PICK m : Sorted(y, m, S)
  BY <1>1, RankedIsSorted
<1>3. m \in Nat /\ m = Cardinality(S) /\ OfLength(y, m)
  BY <1>2 DEF Sorted
<1>4. DOMAIN y = 1..m
  BY <1>3 DEF OfLength
<1>5. \A k \in 1..m : y[k] \in S
  BY <1>2 DEF Sorted
<1>6. \A c \in S : \E k \in 1..m : y[k] = c
  BY <1>2 DEF Sorted
<1>7. \A j, k \in 1..m : j < k => Better(y[j], y[k])
  BY <1>2 DEF Sorted
<1>8. PICK F, G : F = KeptOf(y) /\ G = 1..m \ F
  OBVIOUS
<1>9. F = {i \in 1..m : \A j \in 1..(i - 1) : y[j].sim # y[i].sim}
  BY <1>4, <1>8 DEF KeptOf
<1>10. F \in SUBSET (1..m) /\ G \in SUBSET (1..m)
  BY <1>8, <1>9
<1>11. kept = Retained(y, F) /\ dup = Retained(y, G)
  BY <1>1, <1>4, <1>8 DEF KeptIn, DupIn
<1>12. PICK len \in 0..m : Cut(kept, len, y, F)
  BY <1>3, <1>10, <1>11, RetainedIsCut
<1>13. PICK dl \in 0..m : Cut(dup, dl, y, G)
  BY <1>3, <1>10, <1>11, RetainedIsCut
<1>14. len \in Nat /\ len = Cardinality(F) /\ OfLength(kept, len) /\ dl \in Nat /\ dl = Cardinality(G) /\ OfLength(dup, dl)
  BY <1>12, <1>13 DEF Cut
<1>15. PICK f \in [1..len -> F] : /\ \A k \in 1..len : kept[k] = y[f[k]]
                                  /\ \A j, k \in 1..len : j < k => f[j] < f[k]
                                  /\ \A p \in F : \E k \in 1..len : f[k] = p
  BY <1>12, Zenon DEF Cut
<1>16. PICK g \in [1..dl -> G] : /\ \A k \in 1..dl : dup[k] = y[g[k]]
                                 /\ \A j, k \in 1..dl : j < k => g[j] < g[k]
                                 /\ \A p \in G : \E k \in 1..dl : g[k] = p
  BY <1>13, Zenon DEF Cut
<1>17. \A k \in 1..len : f[k] \in F /\ f[k] \in 1..m
  BY <1>10, <1>15
<1>18. \A k \in 1..dl : g[k] \in G /\ g[k] \in 1..m
  BY <1>10, <1>16
<1>19. \A k \in 1..len : kept[k] \in S
  BY <1>5, <1>15, <1>17, Zenon
<1>20. \A k \in 1..dl : dup[k] \in S
  BY <1>5, <1>16, <1>18, Zenon
<1>21. kept \in Seq(CkDocs) /\ len = Len(kept)
  <2>1. kept = [i \in 1..len |-> kept[i]]
    BY <1>14 DEF OfLength
  <2>2. \A i \in 1..len : kept[i] \in CkDocs
    BY <1>19
  <2>3. len \in Nat
    BY <1>14
  <2> QED BY ONLY <2>1, <2>2, <2>3
<1>22. dup \in Seq(CkDocs) /\ dl = Len(dup)
  <2>1. dup = [i \in 1..dl |-> dup[i]]
    BY <1>14 DEF OfLength
  <2>2. \A i \in 1..dl : dup[i] \in CkDocs
    BY <1>20
  <2>3. dl \in Nat
    BY <1>14
  <2> QED BY ONLY <2>1, <2>2, <2>3
<1>23. len + dl = Cardinality(S)
  <2>1. IsFiniteSet(1..m) /\ Cardinality(1..m) = m
    BY <1>3, FS_Interval
  <2>2. F \subseteq 1..m /\ G \subseteq 1..m /\ F \cap G = {} /\ F \cup G = 1..m
    BY <1>8, <1>10
  <2>3. Cardinality(F \cup G) = Cardinality(F) + Cardinality(G)
    BY <1>3, <2>2, DisjointParts
  <2> QED BY <1>3, <1>14, <2>1, <2>2, <2>3
<1>24. ASSUME NEW c \in S PROVE (\E k \in 1..len : kept[k] = c) \/ \E k \in 1..dl : dup[k] = c
  <2>1. PICK i \in 1..m : y[i] = c
    BY <1>6
  <2>2. CASE i \in F
    <3>1. PICK k \in 1..len : f[k] = i
      BY ONLY <1>15, <2>2, Zenon
    <3> QED BY <1>15, <2>1, <3>1
  <2>3. CASE i \in G
    <3>1. PICK k \in 1..dl : g[k] = i
      BY ONLY <1>16, <2>3, Zenon
    <3> QED BY <1>16, <2>1, <3>1
  <2> QED BY <1>8, <2>2, <2>3
<1>25. ASSUME NEW j \in 1..len, NEW k \in 1..len, j < k PROVE Better(kept[j], kept[k])
  <2>1. f[j] < f[k] /\ f[j] \in 1..m /\ f[k] \in 1..m
    BY <1>15, <1>17, <1>25
  <2>2. Better(y[f[j]], y[f[k]])
    BY <1>7, <2>1
  <2> QED BY <1>15, <2>2
<1>26. ASSUME NEW k \in 1..dl PROVE \E j \in 1..len : kept[j].sim = dup[k].sim /\ Better(kept[j], dup[k])
  <2>1. PICK i \in 1..m : i = g[k] /\ i \in G /\ dup[k] = y[i]
    BY <1>16, <1>18
  <2>2. PICK T : T = {j \in 1..m : y[j].sim = y[i].sim}
    OBVIOUS
  <2>3. T \subseteq Nat /\ T # {}
    BY <1>3, <2>2
  <2>4. PICK h \in T : \A j \in T : h <= j
    BY <2>3, LeastNat
  <2>5. h \in 1..m /\ y[h].sim = y[i].sim /\ h <= i
    BY <2>2, <2>4
  <2>6. h \in F
    <3>1. ASSUME NEW j \in 1..(h - 1), y[j].sim = y[h].sim PROVE FALSE
      <4>1. j \in 1..m /\ ~(h <= j)
        BY <1>3, <2>5
      <4> QED BY <2>2, <2>4, <2>5, <3>1, <4>1
    <3> QED BY <1>9, <2>5, <3>1
  <2>7. h # i
    BY <1>8, <2>1, <2>6
  <2>8. h < i
    BY <2>5, <2>7
  <2>9. Better(y[h], y[i])
    BY <1>7, <2>5, <2>8
  <2>10. PICK j \in 1..len : f[j] = h
    BY ONLY <1>15, <2>6, Zenon
  <2>11. kept[j] = y[h]
    BY <1>15, <2>10
  <2> QED BY <2>1, <2>5, <2>9, <2>11
<1>27. SharedOut(S, kept, len, dup, dl)
  BY <1>14, <1>19, <1>20, <1>21, <1>22, <1>23, <1>24, <1>25, <1>26, Zenon DEF SharedOut
<1> QED BY <1>1, <1>27

\* The larger and the smaller of two counts.
LEMMA LargerOfTwo ==
  ASSUME NEW a \in Nat, NEW b \in Nat
  PROVE  Max({a, b}) \in {a, b} /\ a <= Max({a, b}) /\ b <= Max({a, b})
<1>1. PICK S : S = {a, b}
  OBVIOUS
<1>2. \E x \in S : \A y \in S : x >= y
  BY <1>1
<1>3. Max(S) \in S /\ \A y \in S : Max(S) >= y
  <2>1. Max(S) = CHOOSE x \in S : \A y \in S : x >= y
    BY DEF Max
  <2> QED BY <1>2, <2>1, Zenon
<1> QED BY <1>1, <1>3

LEMMA SmallerOfTwo ==
  ASSUME NEW a \in Nat, NEW b \in Nat
  PROVE  Min({a, b}) \in {a, b} /\ Min({a, b}) <= a /\ Min({a, b}) <= b
<1>1. \E x \in {a, b} : \A y \in {a, b} : x <= y
  <2>1. a <= b \/ b <= a
    OBVIOUS
  <2> QED BY <2>1
<1>2. PICK m : m = Min({a, b})
  OBVIOUS
<1>3. m \in {a, b} /\ \A y \in {a, b} : m <= y
  BY <1>1, <1>2, Zenon DEF Min
<1> QED BY <1>2, <1>3

\* What is left of a budget after the header.
LEMMA RoomIsLeft ==
  ASSUME NEW b \in Nat
  PROVE  b - Min({CkHeader, b \div 4}) \in 0..b
<1>1. PICK q : q = b \div 4
  OBVIOUS
<1>2. q \in Nat /\ q <= b
  BY <1>1
<1>3. PICK h : h = Min({CkHeader, q})
  OBVIOUS
<1>4. CkHeader \in Nat
  BY PackAssumption
<1>5. h \in {CkHeader, q} /\ h <= q
  BY <1>2, <1>3, <1>4, SmallerOfTwo
<1>6. h \in Nat
  BY <1>2, <1>4, <1>5
<1>7. b - h \in 0..b
  BY <1>2, <1>5, <1>6
<1> QED BY <1>1, <1>3, <1>7

\* What the packer has chosen in the end: the greedy choice, or the best
\* candidate on one line when nothing else fits.
OneLineFits(g, kept, b) == g.chosen = <<>> /\ kept # <<>> /\ kept[1].toks[4] <= b
ChosenOf(g, kept, b) == IF OneLineFits(g, kept, b) THEN <<[id |-> kept[1].id, tier |-> "OneLine"]>> ELSE g.chosen
UsedOf(g, kept, b) == IF OneLineFits(g, kept, b) THEN kept[1].toks[4] ELSE g.used
DroppedOf(g, kept, b) == IF OneLineFits(g, kept, b) THEN Tail(g.dropped) ELSE g.dropped
Settled(ch, dr, u, len, ids, b) ==
    /\ ch \in Seq(PkBlock) /\ dr \in Seq(Int) /\ u \in Nat /\ u <= b
    /\ Len(ch) + Len(dr) = len /\ FromKept(ch, dr, len, ids) /\ Covered(ch, dr, len, ids) /\ LedBy(ch, len, ids)
LEMMA ChosenIsSettled ==
  ASSUME NEW b \in Nat, NEW avail \in 0..b, NEW kept \in Seq(CkDocs), NEW len, len = Len(kept),
         NEW ids, ids = [i \in 1..len |-> kept[i].id], NEW g, g = Greedy(avail, kept)
  PROVE  Settled(ChosenOf(g, kept, b), DroppedOf(g, kept, b), UsedOf(g, kept, b), len, ids, b)
<1>1. avail \in Nat /\ avail <= b
  OBVIOUS
<1>2. g \in PkState /\ g.used <= avail /\ Tally(g.chosen, g.dropped, len, ids)
  BY <1>1, GreedyTallies
<1>3. PICK ch \in Seq(PkBlock), dr \in Seq(Int), u \in Nat : ch = g.chosen /\ dr = g.dropped /\ u = g.used
  BY <1>2 DEF PkState
<1>4. CASE ~OneLineFits(g, kept, b)
  <2>1. ChosenOf(g, kept, b) = ch /\ DroppedOf(g, kept, b) = dr /\ UsedOf(g, kept, b) = u
    BY <1>3, <1>4, Zenon DEF ChosenOf, DroppedOf, UsedOf
  <2>2. u <= b
    BY <1>1, <1>2, <1>3
  <2>3. Tally(ch, dr, len, ids)
    BY <1>2, <1>3
  <2> QED BY <2>1, <2>2, <2>3 DEF Settled, Tally
<1>5. CASE OneLineFits(g, kept, b)
  <2>1. PICK x, c, e, v : x = [id |-> kept[1].id, tier |-> "OneLine"] /\ c = <<x>> /\ e = Tail(dr) /\ v = kept[1].toks[4]
    OBVIOUS
  <2>2. ChosenOf(g, kept, b) = c /\ DroppedOf(g, kept, b) = e /\ UsedOf(g, kept, b) = v
    BY <1>3, <1>5, <2>1, Zenon DEF ChosenOf, DroppedOf, UsedOf
  <2>3. ch = <<>> /\ kept # <<>> /\ v <= b
    BY <1>3, <1>5, <2>1 DEF OneLineFits
  <2>4. len \in Nat /\ len >= 1 /\ 1 \in 1..len
    BY <2>3
  <2>5. kept[1] \in CkDocs
    BY <2>4
  <2>6. kept[1].id \in Int /\ v \in Nat /\ ids[1] = kept[1].id
    BY <2>1, <2>4, <2>5, PackAssumption
  <2>7. x \in PkBlock /\ x.id = ids[1]
    <3>1. "OneLine" \in {Tiers[t] : t \in 1..4}
      <4>1. Tiers[4] = "OneLine" /\ 4 \in 1..4
        BY DEF Tiers
      <4> QED BY <4>1
    <3> QED BY <2>1, <2>6, <3>1 DEF PkBlock
  <2>8. c \in Seq(PkBlock) /\ Len(c) = 1 /\ c[1] = x
    BY <2>1, <2>7
  <2>9. Len(ch) = 0
    BY <2>3
  <2>10. Len(dr) = len /\ \A i \in 1..len : dr[i] = ids[i]
    <3>1. Len(ch) + Len(dr) = len /\ AllDropped(ch, dr, len, ids)
      BY <1>2, <1>3 DEF Tally
    <3>2. Len(dr) = len
      BY <2>9, <3>1
    <3> QED BY <2>9, <3>1, <3>2 DEF AllDropped
  <2>11. e \in Seq(Int) /\ Len(e) = len - 1 /\ \A i \in 1..(len - 1) : e[i] = dr[i + 1]
    <3>1. dr # <<>>
      BY <2>4, <2>10
    <3> QED BY <2>1, <2>10, <3>1
  <2>12. ASSUME NEW i \in 1..(len - 1) PROVE e[i] = ids[i + 1] /\ i + 1 \in 1..len
    <3>1. i + 1 \in 1..len
      BY <2>4
    <3>2. e[i] = dr[i + 1] /\ dr[i + 1] = ids[i + 1]
      BY ONLY <2>10, <2>11, <3>1, i \in 1..(len - 1), Zenon
    <3> QED BY <3>1, <3>2
  <2>13. Len(c) + Len(e) = len
    BY ONLY <2>4, <2>8, <2>11
  <2>14. FromKept(c, e, len, ids)
    <3>1. \A k \in 1..Len(c) : \E i \in 1..len : c[k].id = ids[i]
      BY <2>4, <2>7, <2>8
    <3>2. \A k \in 1..(len - 1) : \E i \in 1..len : e[k] = ids[i]
      BY ONLY <2>12, Zenon
    <3>3. \A k \in 1..Len(e) : \E i \in 1..len : e[k] = ids[i]
      BY ONLY <2>11, <3>2, Zenon
    <3> QED BY <3>1, <3>3, Zenon DEF FromKept
  <2>15. Covered(c, e, len, ids)
    <3> SUFFICES ASSUME NEW i \in 1..len
                 PROVE  (\E k \in 1..Len(c) : c[k].id = ids[i]) \/ (\E k \in 1..Len(e) : e[k] = ids[i])
      BY DEF Covered
    <3>1. CASE i = 1
      BY <2>7, <2>8, <3>1
    <3>2. CASE i # 1
      <4>1. i - 1 \in 1..(len - 1) /\ (i - 1) + 1 = i
        BY <2>4, <3>2
      <4>2. e[i - 1] = ids[i]
        BY <2>12, <4>1
      <4> QED BY <2>11, <4>1, <4>2
    <3> QED BY <3>1, <3>2
  <2>16. LedBy(c, len, ids)
    <3>1. \A k \in 2..Len(c) : FALSE
      BY <2>8
    <3> QED BY <2>4, <2>7, <2>8, <3>1 DEF LedBy
  <2> QED BY <2>2, <2>3, <2>6, <2>8, <2>11, <2>13, <2>14, <2>15, <2>16 DEF Settled
<1> QED BY <1>4, <1>5

\* The blocks, drops and duplicates of a pack made from S.
InBlocks(i, bl) == \E k \in 1..Len(bl) : bl[k].id = i
InList(i, s) == \E k \in 1..Len(s) : s[k] = i
PackedAs(bl, dr, dd, u, S, b) ==
    /\ bl \in Seq(PkBlock) /\ dr \in Seq(Int) /\ dd \in Seq(Int) /\ u \in Nat /\ u <= b
    /\ Len(bl) + Len(dr) + Len(dd) = Cardinality(S)
    /\ \A c \in S : InBlocks(c.id, bl) \/ InList(c.id, dr) \/ InList(c.id, dd)
    /\ \A i : InBlocks(i, bl) \/ InList(i, dr) \/ InList(i, dd) => \E c \in S : c.id = i
    /\ \A i : InList(i, dd) => \E c, d \in S : /\ d.id = i /\ c.sim = d.sim /\ Better(c, d)
                                               /\ InBlocks(c.id, bl) \/ InList(c.id, dr)
    /\ Len(bl) > 0 => \A i : InBlocks(i, bl) => i = bl[1].id \/ \E c, d \in S : c.id = bl[1].id /\ d.id = i /\ Better(c, d)
LEMMA BlocksArePacked ==
  ASSUME NEW S, S \subseteq CkDocs, NEW b \in Nat, NEW kept, NEW len, NEW dup, NEW dl, SharedOut(S, kept, len, dup, dl),
         NEW ids, ids = [i \in 1..len |-> kept[i].id], NEW ch, NEW dr, NEW u, Settled(ch, dr, u, len, ids, b),
         NEW bl, Reorders(bl, ch), NEW dd, dd = Ids(dup)
  PROVE  PackedAs(bl, dr, dd, u, S, b)
<1>1. kept \in Seq(CkDocs) /\ len \in Nat /\ len = Len(kept) /\ dup \in Seq(CkDocs) /\ dl \in Nat /\ dl = Len(dup)
  BY DEF SharedOut
<1>2. len + dl = Cardinality(S)
  BY DEF SharedOut
<1>3. (\A k \in 1..len : kept[k] \in S) /\ \A k \in 1..dl : dup[k] \in S
  BY DEF SharedOut
<1>4. \A c \in S : (\E k \in 1..len : kept[k] = c) \/ \E k \in 1..dl : dup[k] = c
  BY DEF SharedOut
<1>5. \A j, k \in 1..len : j < k => Better(kept[j], kept[k])
  BY DEF SharedOut
<1>6. \A k \in 1..dl : \E j \in 1..len : kept[j].sim = dup[k].sim /\ Better(kept[j], dup[k])
  BY DEF SharedOut
<1>7. ch \in Seq(PkBlock) /\ dr \in Seq(Int) /\ u \in Nat /\ u <= b /\ Len(ch) + Len(dr) = len
  BY DEF Settled
<1>8. FromKept(ch, dr, len, ids) /\ Covered(ch, dr, len, ids) /\ LedBy(ch, len, ids)
  BY DEF Settled
<1>9. PICK n \in Nat, e \in Nat : n = Len(ch) /\ e = Len(dr)
  BY <1>7
<1>10. bl \in Seq(PkBlock) /\ Len(bl) = n
  BY <1>9 DEF Reorders
<1>11. (\A k \in 1..n : \E j \in 1..n : bl[k] = ch[j]) /\ \A j \in 1..n : \E k \in 1..n : bl[k] = ch[j]
  BY <1>9, Zenon DEF Reorders
<1>12. n > 0 => bl[1] = ch[1]
  BY <1>9 DEF Reorders
<1>13. dd \in Seq(Int) /\ Len(dd) = dl /\ \A k \in 1..dl : dd[k] = dup[k].id
  <2>1. dd = [k \in 1..dl |-> dup[k].id]
    BY <1>1 DEF Ids
  <2>2. \A k \in 1..dl : dup[k].id \in Int
    BY <1>3, PackAssumption
  <2> QED BY <1>1, <2>1, <2>2
<1>14. \A i \in 1..len : ids[i] = kept[i].id
  OBVIOUS
<1>15. \A i : InBlocks(i, bl) <=> \E j \in 1..n : ch[j].id = i
  <2>1. \A i : InBlocks(i, bl) <=> \E k \in 1..n : bl[k].id = i
    BY <1>10, Zenon DEF InBlocks
  <2>2. ASSUME NEW i, NEW k \in 1..n, bl[k].id = i PROVE \E j \in 1..n : ch[j].id = i
    <3>1. PICK j \in 1..n : bl[k] = ch[j]
      BY <1>11
    <3> QED BY <2>2, <3>1
  <2>3. ASSUME NEW i, NEW j \in 1..n, ch[j].id = i PROVE \E k \in 1..n : bl[k].id = i
    <3>1. PICK k \in 1..n : bl[k] = ch[j]
      BY <1>11
    <3> QED BY <2>3, <3>1
  <2> QED BY ONLY <2>1, <2>2, <2>3, Zenon
<1>16. \A k \in 1..len : InBlocks(kept[k].id, bl) \/ InList(kept[k].id, dr)
  <2> TAKE k \in 1..len
  <2>1. (\E j \in 1..n : ch[j].id = ids[k]) \/ (\E j \in 1..Len(dr) : dr[j] = ids[k])
    BY <1>8, <1>9, Zenon DEF Covered
  <2> QED BY <1>14, <1>15, <2>1, Zenon DEF InList
<1>17. Len(bl) + Len(dr) + Len(dd) = Cardinality(S)
  <2>1. n + e = len
    BY <1>7, <1>9
  <2>2. n + e + dl = Cardinality(S)
    BY <1>1, <1>2, <2>1
  <2> QED BY <1>9, <1>10, <1>13, <2>2
<1>18. \A c \in S : InBlocks(c.id, bl) \/ InList(c.id, dr) \/ InList(c.id, dd)
  <2> TAKE c \in S
  <2>1. CASE \E k \in 1..len : kept[k] = c
    BY <1>16, <2>1, Zenon
  <2>2. CASE \E k \in 1..dl : dup[k] = c
    BY <1>13, <2>2, Zenon DEF InList
  <2> QED BY <1>4, <2>1, <2>2
<1>19. ASSUME NEW i, InBlocks(i, bl) \/ InList(i, dr) \/ InList(i, dd) PROVE \E c \in S : c.id = i
  <2>1. ASSUME NEW j \in 1..len, i = ids[j] PROVE \E c \in S : c.id = i
    BY <1>3, <1>14, <2>1
  <2>2. CASE InBlocks(i, bl)
    <3>1. PICK k \in 1..n : ch[k].id = i
      BY <1>15, <2>2
    <3>2. \E j \in 1..len : ch[k].id = ids[j]
      BY <1>8, <1>9, Zenon DEF FromKept
    <3> QED BY <2>1, <3>1, <3>2, Zenon
  <2>3. CASE InList(i, dr)
    <3>1. PICK k \in 1..Len(dr) : dr[k] = i
      BY <2>3 DEF InList
    <3>2. \E j \in 1..len : dr[k] = ids[j]
      BY <1>8, Zenon DEF FromKept
    <3> QED BY <2>1, <3>1, <3>2, Zenon
  <2>4. CASE InList(i, dd)
    <3>1. PICK k \in 1..dl : dd[k] = i
      BY <1>13, <2>4 DEF InList
    <3> QED BY <1>3, <1>13, <3>1
  <2> QED BY <1>19, <2>2, <2>3, <2>4
<1>20. ASSUME NEW i, InList(i, dd)
       PROVE  \E c, d \in S : d.id = i /\ c.sim = d.sim /\ Better(c, d) /\ (InBlocks(c.id, bl) \/ InList(c.id, dr))
  <2>1. PICK k \in 1..dl : dd[k] = i
    BY <1>13, <1>20 DEF InList
  <2>2. PICK j \in 1..len : kept[j].sim = dup[k].sim /\ Better(kept[j], dup[k])
    BY <1>6
  <2>3. kept[j] \in S /\ dup[k] \in S /\ dup[k].id = i /\ (InBlocks(kept[j].id, bl) \/ InList(kept[j].id, dr))
    BY <1>3, <1>13, <1>16, <2>1
  <2> QED BY <2>2, <2>3
<1>21. ASSUME n > 0, NEW i, InBlocks(i, bl)
       PROVE  i = bl[1].id \/ \E c, d \in S : c.id = bl[1].id /\ d.id = i /\ Better(c, d)
  <2>1. PICK h \in 1..len : ch[1].id = ids[h] /\ \A k \in 2..n : \E j \in (h + 1)..len : ch[k].id = ids[j]
    BY <1>8, <1>9, <1>21 DEF LedBy
  <2>2. bl[1].id = ids[h]
    BY <1>12, <1>21, <2>1
  <2>3. PICK k \in 1..n : ch[k].id = i
    BY <1>15, <1>21
  <2>4. CASE k = 1
    BY <1>12, <1>21, <2>3, <2>4
  <2>5. CASE k # 1
    <3>1. k \in 2..n
      BY <2>5
    <3>2. PICK j \in (h + 1)..len : ch[k].id = ids[j]
      BY <2>1, <3>1
    <3>3. j \in 1..len /\ h < j
      BY <1>1
    <3>4. Better(kept[h], kept[j])
      BY <1>5, <3>3
    <3>5. kept[h] \in S /\ kept[j] \in S /\ kept[h].id = bl[1].id /\ kept[j].id = i
      BY <1>3, <1>14, <2>2, <2>3, <3>2, <3>3
    <3> QED BY <3>4, <3>5
  <2> QED BY <2>4, <2>5
<1>22. Len(bl) > 0 => \A i : InBlocks(i, bl) => i = bl[1].id \/ \E c, d \in S : c.id = bl[1].id /\ d.id = i /\ Better(c, d)
  BY <1>10, <1>21
<1> QED BY <1>7, <1>10, <1>13, <1>17, <1>18, <1>19, <1>20, <1>22, Zenon DEF PackedAs

Packed(p, S, b) ==
    /\ p = [blocks |-> p.blocks, used |-> p.used, dropped |-> p.dropped, deduped |-> p.deduped, skipped |-> {}]
    /\ PackedAs(p.blocks, p.dropped, p.deduped, p.used, S, b)
LEMMA PackIsPacked ==
  ASSUME NEW S, S \subseteq CkDocs, NEW b \in Nat, NEW stable
  PROVE  Packed(pack(S, b, {}, stable), S, b)
<1>1. PICK p : p = pack(S, b, {}, stable)
  OBVIOUS
<1>2. PICK kept, dup : kept = KeptIn(S) /\ dup = DupIn(S)
  OBVIOUS
<1>3. PICK len, dl : SharedOut(S, kept, len, dup, dl)
  BY <1>2, PartsShareOut
<1>4. PICK avail : avail = b - Min({CkHeader, b \div 4})
  OBVIOUS
<1>5. avail \in 0..b
  BY <1>4, RoomIsLeft
<1>6. PICK g, ids : g = Greedy(avail, kept) /\ ids = [i \in 1..len |-> kept[i].id]
  OBVIOUS
<1>7. PICK ch, dr, u : ch = ChosenOf(g, kept, b) /\ dr = DroppedOf(g, kept, b) /\ u = UsedOf(g, kept, b)
  OBVIOUS
<1>8. kept \in Seq(CkDocs) /\ len = Len(kept)
  BY <1>3 DEF SharedOut
<1>9. Settled(ch, dr, u, len, ids, b)
  BY ONLY b \in Nat, <1>5, <1>6, <1>7, <1>8, ChosenIsSettled
<1>10. PICK bl, dd : bl = serial_position_order(ch) /\ dd = Ids(dup)
  OBVIOUS
<1>11. Reorders(bl, ch)
  BY <1>9, <1>10, SerialReorders DEF Settled
<1>12. PackedAs(bl, dr, dd, u, S, b)
  BY ONLY S \subseteq CkDocs, b \in Nat, <1>3, <1>6, <1>9, <1>10, <1>11, BlocksArePacked
<1>13. p = [blocks |-> bl, used |-> u, dropped |-> dr, deduped |-> dd, skipped |-> {}]
  BY <1>1, <1>2, <1>4, <1>6, <1>7, <1>10, Zenon DEF pack, KeptIn, DupIn, ChosenOf, UsedOf, DroppedOf, OneLineFits
<1>14. p.blocks = bl /\ p.used = u /\ p.dropped = dr /\ p.deduped = dd
  BY <1>13
<1> QED BY <1>1, <1>12, <1>13, <1>14 DEF Packed

\* A list and the set of its entries.
LEMMA ListedIn ==
  ASSUME NEW T, NEW s \in Seq(T)
  PROVE  \A i : i \in Range(s) <=> InList(i, s)
<1>1. DOMAIN s = 1..Len(s)
  OBVIOUS
<1>2. Range(s) = {s[k] : k \in DOMAIN s}
  BY Zenon DEF Range
<1> QED BY <1>1, <1>2, Zenon DEF InList

LEMMA BlocksListed ==
  ASSUME NEW bl \in Seq(PkBlock)
  PROVE  \A i : i \in Range(Ids(bl)) <=> InBlocks(i, bl)
<1>1. PICK y : y = Ids(bl)
  OBVIOUS
<1>2. DOMAIN bl = 1..Len(bl)
  OBVIOUS
<1>3. y = [k \in 1..Len(bl) |-> bl[k].id]
  BY <1>1, <1>2 DEF Ids
<1>4. DOMAIN y = 1..Len(bl) /\ \A k \in 1..Len(bl) : y[k] = bl[k].id
  BY <1>3
<1>5. Range(y) = {y[k] : k \in DOMAIN y}
  BY Zenon DEF Range
<1>6. Range(y) = {y[k] : k \in 1..Len(bl)}
  BY ONLY <1>4, <1>5, Zenon
<1>7. \A i : i \in Range(y) <=> \E k \in 1..Len(bl) : y[k] = i
  BY ONLY <1>6
<1>8. \A i : (\E k \in 1..Len(bl) : y[k] = i) <=> \E k \in 1..Len(bl) : bl[k].id = i
  BY ONLY <1>4, Zenon
<1> QED BY ONLY <1>1, <1>7, <1>8, Zenon DEF InBlocks

\* Ids are unique: the candidate of an id is the one with it.
IdOwner(S, i) == CHOOSE c \in S : c.id = i
LEMMA OwnerOfId ==
  ASSUME NEW S, S \subseteq CkDocs, NEW c \in S
  PROVE  IdOwner(S, c.id) = c
<1>1. PICK d : d = IdOwner(S, c.id)
  OBVIOUS
<1>2. d \in S /\ d.id = c.id
  BY <1>1, Zenon DEF IdOwner
<1>3. d \in CkDocs /\ c \in CkDocs
  BY <1>2
<1> QED BY <1>1, <1>2, <1>3, PackAssumption

\* What is left out was delivered before; the ids of the rest are disjoint from it.
Left(S, prev) == {c \in S : c.id \notin prev}
SkippedOf(S, prev) == {c.id : c \in S} \cap prev
LEMMA SkippedCount ==
  ASSUME NEW S, S \subseteq CkDocs, NEW prev
  PROVE  /\ Cardinality(Left(S, prev)) + Cardinality(SkippedOf(S, prev)) = Cardinality(S)
         /\ Cardinality(Left(S, prev)) \in Nat /\ Cardinality(SkippedOf(S, prev)) \in Nat
<1>1. PICK L, K, J : L = Left(S, prev) /\ K = S \ L /\ J = SkippedOf(S, prev)
  OBVIOUS
<1>2. IsFiniteSet(S)
  BY PackAssumption, FS_Subset
<1>3. L \subseteq S /\ K \subseteq S /\ L \cap K = {} /\ L \cup K = S
  BY <1>1 DEF Left
<1>4. IsFiniteSet(L) /\ IsFiniteSet(K) /\ Cardinality(L) \in Nat /\ Cardinality(K) \in Nat
  BY <1>2, <1>3, FS_Subset, FS_CardinalityType
<1>5. Cardinality(S) = Cardinality(L) + Cardinality(K)
  <2>1. Cardinality(L \cup K) = Cardinality(L) + Cardinality(K) - Cardinality(L \cap K)
    BY <1>4, FS_Union
  <2>2. Cardinality(L \cap K) = 0
    BY <1>3, FS_EmptySet
  <2>3. Cardinality(S) = Cardinality(L \cup K)
    BY <1>3
  <2>4. PICK a \in Nat, b \in Nat : a = Cardinality(L) /\ b = Cardinality(K)
    BY <1>4
  <2>5. Cardinality(S) = a + b - 0
    BY ONLY <2>1, <2>2, <2>3, <2>4
  <2> QED BY ONLY <2>4, <2>5, a \in Nat, b \in Nat
<1>6. PICK f : f = [c \in K |-> c.id]
  OBVIOUS
<1>7. J = {c.id : c \in K}
  BY <1>1 DEF Left, SkippedOf
<1>8. f \in Bijection(K, J)
  <2>1. f \in [K -> J] /\ \A c \in K : f[c] = c.id
    BY <1>6, <1>7
  <2>2. \A c, d \in K : f[c] = f[d] => c = d
    BY <1>3, <2>1, PackAssumption
  <2>3. \A j \in J : \E c \in K : f[c] = j
    BY <1>7, <2>1
  <2> QED BY <2>1, <2>2, <2>3, Zenon DEF Bijection, Injection, Surjection, IsInjective
<1>9. Cardinality(K) = Cardinality(J)
  BY <1>4, <1>8, FS_Bijection DEF ExistsBijection
<1> QED BY <1>1, <1>4, <1>5, <1>9

LEMMA PackedAccounts ==
  ASSUME NEW S, S \subseteq CkDocs, NEW prev, NEW b \in Nat, NEW p,
         PackedAs(p.blocks, p.dropped, p.deduped, p.used, Left(S, prev), b), p.skipped = SkippedOf(S, prev)
  PROVE  Accounts(p, S, prev, b)
<1>1. PICK bl, dr, dd, u, L, K : /\ bl = p.blocks /\ dr = p.dropped /\ dd = p.deduped /\ u = p.used
                                 /\ L = Left(S, prev) /\ K = p.skipped
  OBVIOUS
<1>2. PackedAs(bl, dr, dd, u, L, b)
  BY <1>1
<1>3. bl \in Seq(PkBlock) /\ dr \in Seq(Int) /\ dd \in Seq(Int) /\ u \in Nat /\ u <= b
  BY <1>2 DEF PackedAs
<1>4. Len(bl) + Len(dr) + Len(dd) = Cardinality(L)
  BY <1>2 DEF PackedAs
<1>5. \A c \in L : InBlocks(c.id, bl) \/ InList(c.id, dr) \/ InList(c.id, dd)
  BY <1>2 DEF PackedAs
<1>6. \A i : InBlocks(i, bl) \/ InList(i, dr) \/ InList(i, dd) => \E c \in L : c.id = i
  BY <1>2 DEF PackedAs
<1>7. \A i : InList(i, dd) => \E c, d \in L : /\ d.id = i /\ c.sim = d.sim /\ Better(c, d)
                                              /\ InBlocks(c.id, bl) \/ InList(c.id, dr)
  BY <1>2 DEF PackedAs
<1>8. Len(bl) > 0 => \A i : InBlocks(i, bl) => i = bl[1].id \/ \E c, d \in L : c.id = bl[1].id /\ d.id = i /\ Better(c, d)
  BY <1>2 DEF PackedAs
<1>9. \A i : i \in Range(Ids(bl)) <=> InBlocks(i, bl)
  BY <1>3, BlocksListed
<1>10. \A i : i \in Range(dr) <=> InList(i, dr)
  BY <1>3, ListedIn
<1>11. \A i : i \in Range(dd) <=> InList(i, dd)
  BY <1>3, ListedIn
<1>12. L \subseteq S /\ \A c \in L : c.id \notin prev
  BY <1>1 DEF Left
<1>13. \A i : i \in K <=> (i \in prev /\ \E c \in S : c.id = i)
  BY <1>1 DEF SkippedOf
<1>14. Range(Ids(bl)) \cup Range(dr) \cup Range(dd) \cup K = {c.id : c \in S}
  <2>1. ASSUME NEW c \in S PROVE InBlocks(c.id, bl) \/ InList(c.id, dr) \/ InList(c.id, dd) \/ c.id \in K
    <3>1. c \in L \/ c.id \in prev
      BY <1>1 DEF Left
    <3> QED BY <1>5, <1>13, <3>1
  <2>2. ASSUME NEW i, InBlocks(i, bl) \/ InList(i, dr) \/ InList(i, dd) \/ i \in K PROVE \E c \in S : c.id = i
    BY <1>6, <1>12, <1>13, <2>2
  <2>3. \A i : i \in Range(Ids(bl)) \cup Range(dr) \cup Range(dd) \cup K
                 <=> InBlocks(i, bl) \/ InList(i, dr) \/ InList(i, dd) \/ i \in K
    BY ONLY <1>9, <1>10, <1>11
  <2>4. \A i : i \in {c.id : c \in S} <=> \E c \in S : c.id = i
    OBVIOUS
  <2> QED BY ONLY <2>1, <2>2, <2>3, <2>4
<1>15. Len(bl) + Len(dr) + Len(dd) + Cardinality(K) = Cardinality(S)
  <2>1. Cardinality(L) + Cardinality(K) = Cardinality(S)
    BY <1>1, SkippedCount
  <2> QED BY ONLY <1>4, <2>1
<1>16. Range(Ids(bl)) \cap prev = {}
  <2>1. ASSUME NEW i, InBlocks(i, bl), i \in prev PROVE FALSE
    BY <1>6, <1>12, <2>1
  <2> QED BY ONLY <1>9, <2>1
<1>17. ASSUME NEW i \in Range(dd)
       PROVE  \E j \in Range(Ids(bl)) \cup Range(dr) : /\ IdOwner(S, j).sim = IdOwner(S, i).sim
                                                       /\ Better(IdOwner(S, j), IdOwner(S, i))
  <2>1. InList(i, dd)
    BY <1>11
  <2>2. PICK c \in L, d \in L : /\ d.id = i /\ c.sim = d.sim /\ Better(c, d)
                                /\ InBlocks(c.id, bl) \/ InList(c.id, dr)
    BY <1>7, <2>1
  <2>3. IdOwner(S, c.id) = c /\ IdOwner(S, i) = d
    BY <1>12, <2>2, OwnerOfId
  <2>4. c.id \in Range(Ids(bl)) \cup Range(dr)
    BY <1>9, <1>10, <2>2
  <2> QED BY <2>2, <2>3, <2>4
<1>18. ASSUME bl # <<>>, NEW i \in Range(Ids(bl)) \ {bl[1].id} PROVE Better(IdOwner(S, bl[1].id), IdOwner(S, i))
  <2>1. Len(bl) > 0
    BY <1>3, <1>18
  <2>2. InBlocks(i, bl) /\ i # bl[1].id
    BY <1>9
  <2>3. PICK c \in L, d \in L : c.id = bl[1].id /\ d.id = i /\ Better(c, d)
    BY <1>8, <2>1, <2>2
  <2>4. IdOwner(S, bl[1].id) = c /\ IdOwner(S, i) = d
    BY <1>12, <2>3, OwnerOfId
  <2> QED BY <2>3, <2>4
<1>19. /\ Range(Ids(p.blocks)) \cup Range(p.dropped) \cup Range(p.deduped) \cup p.skipped = {c.id : c \in S}
       /\ Len(p.blocks) + Len(p.dropped) + Len(p.deduped) + Cardinality(p.skipped) = Cardinality(S)
       /\ p.used <= b
       /\ Range(Ids(p.blocks)) \cap prev = {}
  BY ONLY <1>1, <1>3, <1>14, <1>15, <1>16, Zenon
<1>20. \A i \in Range(p.deduped) : \E j \in Range(Ids(p.blocks)) \cup Range(p.dropped) :
          IdOwner(S, j).sim = IdOwner(S, i).sim /\ Better(IdOwner(S, j), IdOwner(S, i))
  BY ONLY <1>1, <1>17, Zenon
<1>21. p.blocks # <<>> => \A i \in Range(Ids(p.blocks)) \ {p.blocks[1].id} : Better(IdOwner(S, p.blocks[1].id), IdOwner(S, i))
  BY ONLY <1>1, <1>18, Zenon
<1> QED BY ONLY <1>19, <1>20, <1>21 DEF Accounts, IdOwner

\* The pack for a set of candidates, with what was delivered before left out.
LEMMA FirstPackAccounts ==
  ASSUME NEW S, S \subseteq CkDocs, NEW b \in Nat, NEW stable
  PROVE  Accounts(pack(S, b, {}, stable), S, {}, b)
<1>1. PICK p : p = pack(S, b, {}, stable) /\ Packed(p, S, b)
  BY PackIsPacked
<1>2. p = [blocks |-> p.blocks, used |-> p.used, dropped |-> p.dropped, deduped |-> p.deduped, skipped |-> {}]
  BY <1>1 DEF Packed
<1>3. p.skipped = {}
  BY <1>2
<1>4. Left(S, {}) = S /\ SkippedOf(S, {}) = {}
  BY DEF Left, SkippedOf
<1>5. PackedAs(p.blocks, p.dropped, p.deduped, p.used, Left(S, {}), b)
  BY <1>1, <1>4 DEF Packed
<1> QED BY <1>1, <1>3, <1>4, <1>5, PackedAccounts

LEMMA DeltaAccounts ==
  ASSUME NEW S, S \subseteq CkDocs, NEW prev, NEW b \in Nat
  PROVE  Accounts(pack_delta(S, b, prev), S, prev, b)
<1>1. PICK L, K, q, p : /\ L = Left(S, prev) /\ K = SkippedOf(S, prev) /\ q = pack(L, b, {}, FALSE)
                        /\ p = pack_delta(S, b, prev)
  OBVIOUS
<1>2. L \subseteq CkDocs
  BY <1>1 DEF Left
<1>3. Packed(q, L, b)
  BY <1>1, <1>2, PackIsPacked
<1>4. q = [blocks |-> q.blocks, used |-> q.used, dropped |-> q.dropped, deduped |-> q.deduped, skipped |-> {}]
  BY <1>3 DEF Packed
<1>5. p = [q EXCEPT !.skipped = K]
  BY <1>1, Zenon DEF pack_delta, Left, SkippedOf
<1>6. p = [blocks |-> q.blocks, used |-> q.used, dropped |-> q.dropped, deduped |-> q.deduped, skipped |-> K]
  BY <1>4, <1>5
<1>7. p.blocks = q.blocks /\ p.used = q.used /\ p.dropped = q.dropped /\ p.deduped = q.deduped /\ p.skipped = K
  BY <1>6
<1>8. PackedAs(p.blocks, p.dropped, p.deduped, p.used, L, b)
  BY <1>3, <1>7 DEF Packed
<1> QED BY <1>1, <1>7, <1>8, PackedAccounts

LEMMA BudgetIsCount ==
  ASSUME NEW b \in CkBudgets
  PROVE  budget_factor(b) \in Nat
<1>1. b \in Nat /\ CkFloor \in Nat
  BY PackAssumption
<1>2. (b * 2) \div 5 \in Nat /\ (b * 3) \div 5 \in Nat
  BY <1>1
<1>3. Max({(b * 2) \div 5, CkFloor}) \in Nat /\ Max({(b * 3) \div 5, CkFloor}) \in Nat
  BY <1>1, <1>2, LargerOfTwo
<1>4. budget_factor(b) \in {Max({(b * 2) \div 5, CkFloor}), Max({(b * 3) \div 5, CkFloor}), b}
  BY Zenon DEF budget_factor
<1> QED BY <1>1, <1>3, <1>4

\* What a cache operation leaves in the cache.
LEMMA EntriesOf ==
  ASSUME NEW n \in Nat, NEW c, OfLength(c, n)
  PROVE  Range(c) = {c[i] : i \in 1..n}
<1>1. DOMAIN c = 1..n
  BY DEF OfLength
<1> QED BY <1>1 DEF Range
LEMMA EntriesWithout ==
  ASSUME NEW n \in Nat, NEW c, OfLength(c, n), NEW key
  PROVE  /\ Range(Without(c, key)) \subseteq Range(c)
         /\ \E m \in 0..n : OfLength(Without(c, key), m)
<1>1. PICK P, r : P = {i \in 1..n : c[i].key # key} /\ r = Without(c, key)
  OBVIOUS
<1>2. P \in SUBSET (1..n)
  BY <1>1
<1>3. DOMAIN c = 1..n
  BY DEF OfLength
<1>4. r = Retained(c, P)
  BY <1>1, <1>3 DEF Without
<1>5. PICK m \in 0..n : OfLength(r, m) /\ Picks(r, m, c, P)
  BY ONLY n \in Nat, <1>2, <1>4, RetainedFacts
<1>6. PICK f \in [1..m -> P] : \A k \in 1..m : r[k] = c[f[k]]
  BY <1>5, Zenon DEF Picks
<1>7. \A k \in 1..m : r[k] \in Range(c)
  <2>1. \A k \in 1..m : f[k] \in 1..n
    BY <1>2, <1>6
  <2>2. Range(c) = {c[i] : i \in 1..n}
    BY EntriesOf
  <2> QED BY <1>6, <2>1, <2>2
<1>8. Range(r) = {r[k] : k \in 1..m}
  BY <1>5, EntriesOf
<1> QED BY <1>1, <1>5, <1>7, <1>8
LEMMA EntriesAppended ==
  ASSUME NEW n \in Nat, NEW c, OfLength(c, n), NEW e
  PROVE  Range(Append(c, e)) \subseteq Range(c) \cup {e}
<1>1. PICK r : r = Append(c, e)
  OBVIOUS
<1>2. c = [i \in 1..n |-> c[i]]
  BY Zenon DEF OfLength
<1>3. /\ r = [i \in 1..(n + 1) |-> r[i]] /\ r[n + 1] = e /\ \A i \in 1..n : r[i] = c[i]
  BY ONLY n \in Nat, <1>1, <1>2, AppendedFacts
<1>4. \A i \in 1..(n + 1) : i \in 1..n \/ i = n + 1
  OBVIOUS
<1>5. Range(r) = {r[i] : i \in 1..(n + 1)}
  BY <1>3, EntriesOf DEF OfLength
<1>6. Range(c) = {c[i] : i \in 1..n}
  BY EntriesOf
<1>7. \A i \in 1..(n + 1) : r[i] \in Range(c) \cup {e}
  BY <1>3, <1>4, <1>6
<1>8. Range(r) \subseteq Range(c) \cup {e}
  BY ONLY <1>5, <1>7
<1> QED BY ONLY <1>1, <1>8, Zenon
LEMMA EntriesTail ==
  ASSUME NEW n \in Nat \ {0}, NEW c, OfLength(c, n)
  PROVE  OfLength(Tail(c), n - 1) /\ Range(Tail(c)) \subseteq Range(c)
<1>1. PICK S, r : S = {c[i] : i \in 1..n} /\ r = Tail(c)
  OBVIOUS
<1>2. c \in Seq(S) /\ Len(c) = n
  BY <1>1 DEF OfLength
<1>3. r \in Seq(S) /\ Len(r) = n - 1
  BY <1>1, <1>2
<1>4. r = [i \in 1..(n - 1) |-> r[i]] /\ \A i \in 1..(n - 1) : r[i] \in S
  BY <1>3
<1>5. Range(c) = S
  BY <1>1, EntriesOf
<1>6. Range(r) = {r[i] : i \in 1..(n - 1)}
  <2>1. n - 1 \in Nat /\ OfLength(r, n - 1)
    BY <1>4 DEF OfLength
  <2> QED BY ONLY <2>1, EntriesOf
<1> QED BY <1>1, <1>4, <1>5, <1>6 DEF OfLength
LEMMA EntriesPut ==
  ASSUME NEW n \in Nat, NEW c, OfLength(c, n), NEW e
  PROVE  Range(CachePut(c, e)) \subseteq Range(c) \cup {e}
<1>1. PICK room : room = IF Len(c) >= CkCap /\ e.key \notin {x.key : x \in Range(c)} THEN Tail(c) ELSE c
  OBVIOUS
<1>2. CkCap \in Nat \ {0} /\ Len(c) = n
  <2>1. PICK S : S = {c[i] : i \in 1..n}
    OBVIOUS
  <2>2. c \in Seq(S)
    BY <2>1 DEF OfLength
  <2> QED BY <2>2, ContextAssumption DEF OfLength
<1>3. PICK k \in Nat : OfLength(room, k) /\ Range(room) \subseteq Range(c)
  <2>1. CASE room = c
    BY <2>1
  <2>2. CASE room # c
    <3>1. room = Tail(c) /\ n \in Nat \ {0}
      BY <1>1, <1>2, <2>2
    <3>2. OfLength(room, n - 1) /\ Range(room) \subseteq Range(c)
      BY <3>1, EntriesTail
    <3>3. n - 1 \in Nat
      BY <3>1
    <3> QED BY <3>2, <3>3
  <2> QED BY <2>1, <2>2
<1>4. PICK w : w = Without(room, e.key)
  OBVIOUS
<1>5. Range(w) \subseteq Range(room) /\ \E m \in 0..k : OfLength(w, m)
  BY <1>3, <1>4, EntriesWithout
<1>6. PICK m \in 0..k : OfLength(w, m)
  BY <1>5
<1>7. Range(Append(w, e)) \subseteq Range(w) \cup {e}
  BY <1>6, EntriesAppended
<1>8. CachePut(c, e) = Append(w, e)
  BY <1>1, <1>4 DEF CachePut
<1> QED BY <1>3, <1>5, <1>7, <1>8

\* Every pack, the one answered last and every cached one, accounted for its
\* candidates when it was made.
AccountsEntry(e) ==
    /\ e.pid # <<>> /\ Accounts(e.pack, e.cands, {}, e.key[2])
    /\ e.ids = Ids(e.pack.blocks) /\ e.used = e.pack.used
AccountsInv ==
    /\ ckLive \subseteq CkDocs /\ PackAccounts
    /\ \A e \in Range(ckCache) : AccountsEntry(e)

LEMMA BuildAccounts ==
  ASSUME AccountsInv, NEW n \in Nat, OfLength(ckCache, n),
         NEW q, NEW b \in CkBudgets, NEW pid, NEW kinds, NEW stable, NEW use_cache \in BOOLEAN,
         ContextPackBuild(q, b, pid, kinds, stable, use_cache)
  PROVE  AccountsInv'
<1>1. PICK bud, prev : /\ bud = budget_factor(b)
                       /\ prev = UNION {Range(e.ids) : e \in {x \in Range(ckCache) : x.pid = pid}}
  OBVIOUS
<1>2. bud \in Nat
  BY <1>1, BudgetIsCount
<1>3. PICK hits \in recall_candidates :
          LET cands == {d \in hits : d.kind \in kinds}
              p == IF prev = {} THEN pack(cands, bud, prev, stable) ELSE pack_delta(cands, bud, prev)
              new == <<q, Ids(p.blocks)>>
              e == [key |-> <<q, bud>>, ids |-> Ids(p.blocks), used |-> p.used, pid |-> new, at |-> ckClock, own |-> ckOwn, pack |-> p, cands |-> cands]
          IN /\ ckCache' = IF use_cache /\ pid = <<>> THEN CachePut(Without(ckCache, <<q, bud>>), e) ELSE ckCache
             /\ ckReply' = [q |-> q, cands |-> cands, prev |-> prev, budget |-> bud, pack |-> p, told |-> PackManifest(p), hit |-> FALSE, age |-> 0, own |-> ckOwn]
  BY <1>1, Zenon DEF ContextPackBuild
<1>4. PICK cands : cands = {d \in hits : d.kind \in kinds}
  OBVIOUS
<1>5. cands \subseteq CkDocs
  BY <1>3, <1>4 DEF recall_candidates, AccountsInv
<1>6. PICK p : p = IF prev = {} THEN pack(cands, bud, prev, stable) ELSE pack_delta(cands, bud, prev)
  OBVIOUS
<1>7. Accounts(p, cands, prev, bud)
  <2>1. CASE prev = {}
    BY <1>2, <1>5, <1>6, <2>1, FirstPackAccounts
  <2>2. CASE prev # {}
    BY <1>2, <1>5, <1>6, <2>2, DeltaAccounts
  <2> QED BY <2>1, <2>2
<1>8. PICK e : e = [key |-> <<q, bud>>, ids |-> Ids(p.blocks), used |-> p.used, pid |-> <<q, Ids(p.blocks)>>, at |-> ckClock, own |-> ckOwn,
                   pack |-> p, cands |-> cands]
  OBVIOUS
<1>9. PICK d : d = [q |-> q, cands |-> cands, prev |-> prev, budget |-> bud, pack |-> p, told |-> PackManifest(p), hit |-> FALSE, age |-> 0, own |-> ckOwn]
  OBVIOUS
<1>10. ckCache' = (IF use_cache /\ pid = <<>> THEN CachePut(Without(ckCache, <<q, bud>>), e) ELSE ckCache) /\ ckReply' = d
  BY <1>3, <1>4, <1>6, <1>8, <1>9, Zenon
<1>11. d.pack = p /\ d.cands = cands /\ d.prev = prev /\ d.budget = bud /\ d.told = PackManifest(p)
  BY <1>9
<1>12. PackAccounts'
  <2>1. Accounts(d.pack, d.cands, d.prev, d.budget)
    BY <1>7, <1>11, Zenon
  <2>2. ckReply' = d
    BY <1>10
  <2>3. Accounts(ckReply'.pack, ckReply'.cands, ckReply'.prev, ckReply'.budget)
    BY ONLY <2>1, <2>2, Zenon
  <2>4. ManifestTells(ckReply')
    <3>1. PICK ids : ids = Ids(p.blocks)
      OBVIOUS
    <3>2. PackManifest(p).ids = ids /\ PackManifest(p).used = p.used
      BY <3>1 DEF PackManifest
    <3>3. d.told.ids = Ids(d.pack.blocks) /\ d.told.used = d.pack.used /\ d.told = PackManifest(d.pack)
      BY ONLY <1>11, <3>1, <3>2, Zenon
    <3>4. ManifestTells(d)
      BY ONLY <3>3, Zenon DEF ManifestTells
    <3> QED BY ONLY <2>2, <3>4, Zenon
  <2> QED BY ONLY <2>3, <2>4, Zenon DEF PackAccounts, ManifestTells, PackManifest, Accounts, Ids, Better, trust_prior
<1>13. e.pid # <<>> /\ e.pack = p /\ e.cands = cands /\ e.key[2] = bud /\ e.ids = Ids(p.blocks) /\ e.used = p.used
  BY <1>8
<1>14. ASSUME pid = <<>> PROVE AccountsEntry(e)
  <2>1. \A x \in Range(ckCache) : x.pid # pid
    BY <1>14 DEF AccountsInv, AccountsEntry
  <2>2. prev = {}
    BY <1>1, <2>1
  <2> QED BY <1>7, <1>13, <2>2, Zenon DEF AccountsEntry
<1>15. \A x \in Range(ckCache') : AccountsEntry(x)
  <2>1. \A x \in Range(ckCache) : AccountsEntry(x)
    BY DEF AccountsInv
  <2>2. CASE use_cache /\ pid = <<>>
    <3>1. PICK w : w = Without(ckCache, <<q, bud>>)
      OBVIOUS
    <3>2. Range(w) \subseteq Range(ckCache) /\ \E m \in 0..n : OfLength(w, m)
      BY <3>1, EntriesWithout
    <3>3. PICK m \in 0..n : OfLength(w, m)
      BY <3>2
    <3>4. m \in Nat
      OBVIOUS
    <3>5. Range(CachePut(w, e)) \subseteq Range(w) \cup {e}
      BY <3>3, <3>4, EntriesPut
    <3>6. ckCache' = CachePut(w, e) /\ AccountsEntry(e)
      BY <1>10, <1>14, <2>2, <3>1
    <3> QED BY ONLY <2>1, <3>2, <3>5, <3>6
  <2>3. CASE ~(use_cache /\ pid = <<>>)
    BY <1>10, <2>1, <2>3, Zenon
  <2> QED BY <2>2, <2>3
<1>16. ckLive' = ckLive
  BY DEF ContextPackBuild
<1>17. (\A x \in Range(ckCache) : AccountsEntry(x))'
  BY <1>15, Zenon DEF AccountsEntry, Accounts, Ids, Better, trust_prior
<1> QED BY <1>12, <1>16, <1>17 DEF AccountsInv

LEMMA AccountsStep ==
  ASSUME AccountsInv, PacksInv, ContextNext \/ UNCHANGED ckVars
  PROVE  AccountsInv'
<1>0. PICK n \in 0..CkCap : OfLength(ckCache, n)
  BY DEF PacksInv, Packs
<1>0a. n \in Nat
  BY ContextAssumption
<1>0b. ckLive \subseteq CkDocs /\ PackAccounts /\ \A e \in Range(ckCache) : AccountsEntry(e)
  BY DEF AccountsInv
<1>1. ASSUME ckReply' = ckReply PROVE PackAccounts'
  <2>1. Accounts(ckReply.pack, ckReply.cands, ckReply.prev, ckReply.budget)
    BY <1>0b, Zenon DEF PackAccounts
  <2>2. Accounts(ckReply'.pack, ckReply'.cands, ckReply'.prev, ckReply'.budget)
    BY ONLY <1>1, <2>1, Zenon
  <2>3. ManifestTells(ckReply)
    BY <1>0b, Zenon DEF PackAccounts
  <2>4. ManifestTells(ckReply')
    BY ONLY <1>1, <2>3, Zenon
  <2> QED BY ONLY <2>2, <2>4, Zenon DEF PackAccounts, ManifestTells, PackManifest, Accounts, Ids, Better, trust_prior
<1>2. ASSUME \A e \in Range(ckCache') : AccountsEntry(e) PROVE (\A e \in Range(ckCache) : AccountsEntry(e))'
  BY <1>2, Zenon DEF AccountsEntry, Accounts, Ids, Better, trust_prior
<1>3. ASSUME ckReply' = ckReply, ckLive' \subseteq CkDocs, ckCache' = ckCache PROVE AccountsInv'
  <2>1. \A e \in Range(ckCache') : AccountsEntry(e)
    BY <1>0b, <1>3, Zenon
  <2> QED BY <1>1, <1>2, <1>3, <2>1 DEF AccountsInv
<1>4. ASSUME NEW q \in CkQueries, NEW b \in CkBudgets, NEW pid \in PackIds \cup {<<>>}, NEW kinds \in KindFilters,
             NEW stable \in BOOLEAN, NEW use_cache \in BOOLEAN,
             ContextPackBuild(q, b, pid, kinds, stable, use_cache)
      PROVE  AccountsInv'
  BY <1>0, <1>0a, <1>4, BuildAccounts
<1>5. ASSUME NEW q \in CkQueries, NEW b \in CkBudgets, ContextPackHit(q, b) PROVE AccountsInv'
  <2>1. PICK bud : bud = budget_factor(b)
    OBVIOUS
  <2>2. PICK e \in Cached(<<q, bud>>) :
           /\ ckCache' = Append(Without(ckCache, e.key), e)
           /\ ckReply' = [q |-> q, cands |-> e.cands, prev |-> {}, budget |-> bud, pack |-> e.pack, told |-> HitManifest(e),
                          hit |-> TRUE, age |-> ckClock - e.at, own |-> e.own]
    BY <1>5, <2>1, Zenon DEF ContextPackHit
  <2>3. e \in Range(ckCache) /\ e.key = <<q, bud>>
    BY <2>2 DEF Cached
  <2>4. AccountsEntry(e) /\ e.key[2] = bud
    BY <1>0b, <2>3
  <2>5. /\ ckReply'.pack = e.pack /\ ckReply'.cands = e.cands /\ ckReply'.prev = {} /\ ckReply'.budget = bud
        /\ ckReply'.told = HitManifest(e) /\ ckReply'.hit = TRUE
    BY <2>2
  <2>6. Accounts(ckReply'.pack, ckReply'.cands, ckReply'.prev, ckReply'.budget)
    BY ONLY <2>4, <2>5, Zenon DEF AccountsEntry
  <2>6a. HitManifest(e).ids = e.ids /\ HitManifest(e).used = e.used
    BY DEF HitManifest
  <2>6b. e.ids = Ids(e.pack.blocks) /\ e.used = e.pack.used
    BY ONLY <2>4, Zenon DEF AccountsEntry
  <2>6c. ckReply'.told.ids = Ids(ckReply'.pack.blocks) /\ ckReply'.told.used = ckReply'.pack.used /\ ckReply'.hit
    BY ONLY <2>5, <2>6a, <2>6b, Zenon
  <2>6d. ManifestTells(ckReply')
    BY ONLY <2>6c, Zenon DEF ManifestTells
  <2>7. PackAccounts'
    BY ONLY <2>6, <2>6d, Zenon DEF PackAccounts, ManifestTells, PackManifest, Accounts, Ids, Better, trust_prior
  <2>8. PICK w : w = Without(ckCache, e.key)
    OBVIOUS
  <2>9. Range(w) \subseteq Range(ckCache) /\ \E m \in 0..n : OfLength(w, m)
    BY <1>0, <1>0a, <2>8, EntriesWithout
  <2>10. PICK m \in 0..n : OfLength(w, m)
    BY <2>9
  <2>11. m \in Nat
    BY <1>0a
  <2>12. Range(Append(w, e)) \subseteq Range(w) \cup {e}
    BY <2>10, <2>11, EntriesAppended
  <2>13. ckCache' = Append(w, e)
    BY <2>2, <2>8
  <2>14. \A x \in Range(ckCache') : AccountsEntry(x)
    BY ONLY <1>0b, <2>4, <2>9, <2>12, <2>13
  <2>15. ckLive' = ckLive
    BY <1>5 DEF ContextPackHit
  <2> QED BY <1>0b, <1>2, <2>7, <2>14, <2>15 DEF AccountsInv
<1>6. ASSUME NEW answered \in BOOLEAN, Write(answered) PROVE AccountsInv'
  <2>1. ckLive' \subseteq CkDocs
    BY <1>0b, <1>6 DEF Write
  <2>2. ckReply' = ckReply
    BY <1>6 DEF Write
  <2>3. CASE answered
    <3>1. ckCache' = <<>>
      BY <1>6, <2>3 DEF Write
    <3>2. \A x \in Range(ckCache') : AccountsEntry(x)
      BY <3>1 DEF Range
    <3> QED BY <1>1, <1>2, <2>1, <2>2, <3>2 DEF AccountsInv
  <2>4. CASE ~answered
    <3>1. ckCache' = ckCache
      BY <1>6, <2>4 DEF Write
    <3> QED BY <1>3, <2>1, <2>2, <3>1
  <2> QED BY <2>3, <2>4
<1>7. CASE Remember
  <2>1. ckReply' = ckReply /\ ckLive' \subseteq CkDocs /\ ckCache' = ckCache
    BY <1>0b, <1>7 DEF Remember
  <2> QED BY <1>3, <2>1
<1>8. ASSUME NEW pid \in PackIds, NEW gate \in {"pass", "fail", "unknown"}, ContextFeedback(pid, Range(pid[2]), gate) PROVE AccountsInv'
  <2>1. ckReply' = ckReply /\ ckLive' = ckLive /\ ckCache' = ckCache
    BY <1>8, Zenon DEF ContextFeedback
  <2> QED BY <1>0b, <1>3, <2>1
<1>9. CASE ElsewhereWrite
  <2>1. ckReply' = ckReply /\ ckLive' \subseteq CkDocs /\ ckCache' = ckCache
    BY <1>0b, <1>9 DEF ElsewhereWrite
  <2> QED BY <1>3, <2>1
<1>10. CASE ContextTick
  BY <1>0b, <1>3, <1>10 DEF ContextTick
<1>11. CASE UNCHANGED ckVars
  BY <1>0b, <1>3, <1>11 DEF ckVars
<1> QED BY <1>4, <1>5, <1>6, <1>7, <1>8, <1>9, <1>10, <1>11, Zenon DEF ContextNext

\* Context packs: every pack that is made has each candidate once, in a block,
\* dropped, a near duplicate or delivered before, and says so; it keeps to its
\* budget, repeats nothing of a previous pack still in the cache, leads with the
\* best that got in and drops a duplicate only for a better one; a pack from the
\* cache was made so, is fresh, and names the ids and tokens it delivers.
THEOREM ContextPacksAreSound == Spec => []ContextsAreSound
<1>1. Init => AccountsInv
  <2> SUFFICES ASSUME Init PROVE AccountsInv
    OBVIOUS
  <2>1. ckCache = <<>> /\ ckReply = NoReply /\ ckLive \subseteq CkDocs
    BY DEF Init, ContextInit
  <2>2. PICK p : p = pack({}, 0, {}, FALSE)
    OBVIOUS
  <2>3. {} \subseteq CkDocs /\ 0 \in Nat
    OBVIOUS
  <2>4. Accounts(p, {}, {}, 0)
    BY ONLY <2>2, <2>3, FirstPackAccounts
  <2>5. ckReply.pack = p /\ ckReply.cands = {} /\ ckReply.prev = {} /\ ckReply.budget = 0
    BY <2>1, <2>2 DEF NoReply
  <2>5a. ckReply.told = PackManifest(p)
    BY <2>1, <2>2 DEF NoReply
  <2>5b. PICK ids : ids = Ids(p.blocks)
    OBVIOUS
  <2>5c. PackManifest(p).ids = ids /\ PackManifest(p).used = p.used
    BY <2>5b DEF PackManifest
  <2>5d. ManifestTells(ckReply)
    BY ONLY <2>5, <2>5a, <2>5b, <2>5c, Zenon DEF ManifestTells
  <2>6. PackAccounts
    BY ONLY <2>4, <2>5, <2>5d, Zenon DEF PackAccounts
  <2>7. \A e \in Range(ckCache) : AccountsEntry(e)
    BY <2>1 DEF Range
  <2> QED BY <2>1, <2>6, <2>7 DEF AccountsInv
<1>2. AccountsInv /\ PacksInv /\ [Next]_vars => AccountsInv'
  BY ContextMoves, AccountsStep
<1>3. AccountsInv => PackAccounts
  BY DEF AccountsInv
<1>4. Init => PacksInv
  BY PacksInit
<1>5. PacksInv /\ [Next]_vars => PacksInv'
  BY ContextMoves, PacksStep
<1>6. PackAccounts /\ ServedFresh => ContextsAreSound
  BY DEF ContextsAreSound
<1> QED BY <1>1, <1>2, <1>3, <1>4, <1>5, <1>6, CachedPacksAreFresh, PTL DEF Spec

-----------------------------------------------------------------------------
(* Scopes: a component is written character by character, and each          *)
(* character can be read off again, so different names have different       *)
(* scopes.                                                                  *)
Chars == AgChars \cup {"%", "2", "5", "F", "/", "agent"}
Writes(s, v, n) ==
    /\ n \in Nat /\ s \in [0..n -> Seq(Chars)] /\ \A i \in 1..n : v[i] \in Chars
    /\ s[0] = <<>> /\ \A i \in 1..n : s[i] = s[i - 1] \o EscapedChar(v[i])

LEMMA ManyOf ==
  ASSUME NEW n \in Nat, NEW S, NEW y, y \in [1..n -> S]
  PROVE  y \in Seq(S) /\ Len(y) = n
OBVIOUS

LEMMA ThreeOf ==
  ASSUME NEW S, NEW a \in S, NEW b \in S, NEW c \in S, NEW y, y = <<a, b, c>>
  PROVE  y \in Seq(S) /\ Len(y) = 3 /\ y[1] = a /\ y[2] = b /\ y[3] = c
<1>1. PICK n \in Nat : n = 3
  OBVIOUS
<1>2. y = [i \in 1..n |-> y[i]]
  BY <1>1
<1>3. \A i \in 1..n : i = 1 \/ i = 2 \/ i = 3
  BY <1>1
<1>4. \A i \in 1..n : y[i] \in S
  BY <1>3
<1>5. y \in Seq(S) /\ Len(y) = n
  BY <1>2, <1>4, ManyOf
<1> QED BY <1>1, <1>5

\* The first character says how many follow, and the third which was meant.
LEMMA EscapedIsText ==
  ASSUME NEW c \in Chars
  PROVE  /\ EscapedChar(c) \in Seq(Chars) /\ Len(EscapedChar(c)) \in {1, 3}
         /\ \A q \in 1..Len(EscapedChar(c)) : EscapedChar(c)[q] # "/"
         /\ EscapedChar(c)[1] = "%" => /\ Len(EscapedChar(c)) = 3
                                      /\ \/ c = "%" /\ EscapedChar(c)[3] = "5"
                                         \/ c = "/" /\ EscapedChar(c)[3] = "F"
         /\ EscapedChar(c)[1] # "%" => c = EscapedChar(c)[1]
<1>1. PICK e : e = EscapedChar(c)
  OBVIOUS
<1>2. \A q \in 1..3 : q = 1 \/ q = 2 \/ q = 3
  OBVIOUS
<1>3. "%" \in Chars /\ "2" \in Chars /\ "5" \in Chars /\ "F" \in Chars
  BY DEF Chars
<1>4. ASSUME NEW d, e = <<"%", "2", d>>, d \in {"5", "F"}
      PROVE  e \in Seq(Chars) /\ Len(e) = 3 /\ e[1] = "%" /\ e[3] = d /\ \A q \in 1..3 : e[q] # "/"
  <2>1. e \in Seq(Chars) /\ Len(e) = 3 /\ e[1] = "%" /\ e[2] = "2" /\ e[3] = d
    BY <1>3, <1>4, ThreeOf
  <2> QED BY <1>2, <1>4, <2>1
<1>5. CASE c = "%"
  <2>1. e = <<"%", "2", "5">>
    BY <1>1, <1>5 DEF EscapedChar
  <2> QED BY <1>1, <1>4, <1>5, <2>1
<1>6. CASE c = "/"
  <2>1. e = <<"%", "2", "F">>
    BY <1>1, <1>6 DEF EscapedChar
  <2> QED BY <1>1, <1>4, <1>6, <2>1
<1>7. CASE c # "%" /\ c # "/"
  <2>1. e = <<c>>
    BY <1>1, <1>7 DEF EscapedChar
  <2>2. e \in Seq(Chars) /\ Len(e) = 1 /\ e[1] = c /\ \A q \in 1..1 : q = 1
    BY <2>1
  <2> QED BY <1>1, <1>7, <2>2
<1> QED BY <1>5, <1>6, <1>7

IsFlat(f, e, n) == f = [i \in 1..n |-> IF i = 1 THEN e[i] ELSE f[i - 1] \o e[i]]
LEMMA ComponentIsWritten ==
  ASSUME NEW v \in Seq(Chars), NEW n, n = Len(v)
  PROVE  \E s : Writes(s, v, n) /\ scope_component(v) = s[n]
<1>1. n \in Nat /\ \A i \in 1..n : v[i] \in Chars
  OBVIOUS
<1>2. PICK e, h : /\ e = [i \in DOMAIN v |-> EscapedChar(v[i])]
                  /\ h = [i \in 1..n |-> [x \in Seq(Chars) |-> x \o EscapedChar(v[i])]]
  OBVIOUS
<1>3. /\ e = [i \in 1..n |-> e[i]] /\ \A i \in 1..n : e[i] = EscapedChar(v[i]) /\ e[i] \in Seq(Chars)
  <2>1. DOMAIN v = 1..n
    OBVIOUS
  <2>2. e = [i \in 1..n |-> EscapedChar(v[i])]
    BY <1>2, <2>1
  <2>3. \A i \in 1..n : EscapedChar(v[i]) \in Seq(Chars)
    BY <1>1, EscapedIsText
  <2> QED BY <2>2, <2>3
<1>0. PICK C : C = Seq(Chars)
  OBVIOUS
<1>4. Climbs(<<>>, h, C, n)
  <2>1. <<>> \in Seq(Chars)
    OBVIOUS
  <2>2. \A i \in 1..n : EscapedChar(v[i]) \in Seq(Chars)
    BY <1>3
  <2>3. \A i \in 1..n : \A x \in Seq(Chars) : x \o EscapedChar(v[i]) \in Seq(Chars)
    BY <2>2
  <2>4. h \in [1..n -> [Seq(Chars) -> Seq(Chars)]]
    BY <1>2, <2>3
  <2> QED BY <1>0, <2>1, <2>4 DEF Climbs
<1>5. PICK s \in [0..n -> Seq(Chars)] : s[0] = <<>> /\ \A i \in 1..n : s[i] = h[i][s[i - 1]]
  <2>1. \E s \in [0..n -> C] : s[0] = <<>> /\ \A i \in 1..n : s[i] = h[i][s[i - 1]]
    BY ONLY <1>1, <1>4, Iterated
  <2> QED BY <1>0, <2>1, Zenon
<1>6. ASSUME NEW i \in 1..n PROVE s[i] = s[i - 1] \o EscapedChar(v[i])
  <2>1. i - 1 \in 0..n
    BY <1>1
  <2>2. s[i - 1] \in Seq(Chars)
    BY <2>1, Zenon
  <2> QED BY <1>2, <1>5, <2>2, Zenon
<1>7. Writes(s, v, n)
  BY <1>1, <1>5, <1>6 DEF Writes
<1>8. Len(e) = n /\ scope_component(v) = FlattenSeq(e)
  <2>1. e \in Seq(Seq(Chars))
    BY <1>1, <1>3
  <2> QED BY <1>1, <1>2, <1>3, <2>1 DEF scope_component
<1>9. CASE n = 0
  <2>1. FlattenSeq(e) = e
    BY <1>8, <1>9 DEF FlattenSeq
  <2>2. e = <<>>
    BY <1>3, <1>9
  <2> QED BY <1>5, <1>7, <1>8, <1>9, <2>1, <2>2
<1>10. CASE n # 0
  <2>1. PICK f : f = [i \in 1..n |-> s[i]]
    OBVIOUS
  <2>2. IsFlat(f, e, n)
    <3>1. 0 \in 0..n /\ 1 \in 1..n
      BY <1>1, <1>10
    <3>2. s[1] = e[1]
      <4>1. s[1] = <<>> \o e[1]
        <5>1. s[1] = s[1 - 1] \o EscapedChar(v[1])
          BY <1>6, <3>1
        <5>2. s[1] = s[0] \o EscapedChar(v[1])
          BY <5>1
        <5> QED BY <1>3, <1>5, <3>1, <5>2
      <4>2. e[1] \in Seq(Chars)
        BY <1>3, <3>1
      <4> QED BY <4>1, <4>2
    <3>3. ASSUME NEW i \in 1..n PROVE f[i] = IF i = 1 THEN e[i] ELSE f[i - 1] \o e[i]
      <4>1. CASE i = 1
        BY <2>1, <3>2, <4>1
      <4>2. CASE i # 1
        <5>1. i - 1 \in 1..n
          BY <4>2
        <5> QED BY <1>3, <1>6, <2>1, <4>2, <5>1
      <4> QED BY <4>1, <4>2
    <3>4. f = [i \in 1..n |-> f[i]]
      BY <2>1
    <3> QED BY <3>3, <3>4, Zenon DEF IsFlat
  <2>3. PICK g : g = (CHOOSE x : IsFlat(x, e, n))
    OBVIOUS
  <2>4. IsFlat(g, e, n)
    BY <2>2, <2>3, Zenon
  <2>5. FlattenSeq(e) = g[n]
    BY <1>8, <1>10, <2>3 DEF FlattenSeq, IsFlat
  <2>6. \A i \in 1..n : g[i] = IF i = 1 THEN e[i] ELSE g[i - 1] \o e[i]
    BY <2>4, Zenon DEF IsFlat
  <2>7. PICK t : t = [i \in 0..n |-> IF i = 0 THEN <<>> ELSE g[i]]
    OBVIOUS
  <2>8. GoAlike(s, t, n)
    <3>1. s[0] = t[0]
      BY <1>1, <1>5, <2>7
    <3>2. ASSUME NEW i \in 1..n, s[i - 1] = t[i - 1] PROVE s[i] = t[i]
      <4>1. t[i] = g[i] /\ s[i] = s[i - 1] \o e[i] /\ e[i] \in Seq(Chars)
        <5>1. s[i] = s[i - 1] \o EscapedChar(v[i])
          BY <1>6
        <5>2. i \in 0..n /\ i # 0
          OBVIOUS
        <5> QED BY <1>3, <2>7, <5>1, <5>2
      <4>2. CASE i = 1
        <5>1. s[i] = <<>> \o e[i]
          <6>1. i - 1 = 0
            BY <4>2
          <6> QED BY <1>5, <4>1, <6>1
        <5>2. s[i] = e[i]
          BY <4>1, <5>1
        <5> QED BY <2>6, <4>1, <4>2, <5>2
      <4>3. CASE i # 1
        <5>1. i - 1 \in 0..n /\ i - 1 # 0
          BY <4>3
        <5>2. t[i - 1] = g[i - 1]
          BY <2>7, <5>1
        <5> QED BY <2>6, <3>2, <4>1, <4>3, <5>2
      <4> QED BY <4>2, <4>3
    <3> QED BY <3>1, <3>2 DEF GoAlike
  <2>9. s[n] = t[n]
    <3>1. \A i \in 0..n : s[i] = t[i]
      BY ONLY <1>1, <2>8, SameWay
    <3> QED BY <1>1, <3>1
  <2> QED BY <1>1, <1>7, <1>8, <1>10, <2>5, <2>7, <2>9
<1> QED BY <1>9, <1>10

\* What is written stays: a shorter name's text is a prefix of the longer's.
Adds(x, e, y) == Len(y) = Len(x) + Len(e) /\ \A q \in 1..Len(e) : y[Len(x) + q] = e[q]
Extends(x, y) == Len(x) <= Len(y) /\ \A q \in 1..Len(x) : y[q] = x[q]
LEMMA WrittenStays ==
  ASSUME NEW n, NEW v, NEW s, Writes(s, v, n)
  PROVE  /\ \A i \in 0..n : Extends(s[i], s[n])
         /\ \A i \in 1..n : Adds(s[i - 1], EscapedChar(v[i]), s[i])
         /\ \A q \in 1..Len(s[n]) : s[n][q] # "/"
<1> n \in Nat /\ s \in [0..n -> Seq(Chars)] /\ \A i \in 1..n : v[i] \in Chars
  BY DEF Writes
<1>0. \A i \in 0..n : s[i] \in Seq(Chars) /\ Len(s[i]) \in Nat
  OBVIOUS
<1>1. ASSUME NEW i \in 1..n
      PROVE  /\ Adds(s[i - 1], EscapedChar(v[i]), s[i]) /\ Extends(s[i - 1], s[i])
             /\ \A q \in 1..Len(s[i]) : q \in 1..Len(s[i - 1]) \/ s[i][q] # "/"
  <2>1. PICK x, y, e : x = s[i - 1] /\ y = s[i] /\ e = EscapedChar(v[i])
    OBVIOUS
  <2>2. x \in Seq(Chars) /\ e \in Seq(Chars) /\ y = x \o e /\ \A q \in 1..Len(e) : e[q] # "/"
    <3>1. i - 1 \in 0..n /\ v[i] \in Chars
      OBVIOUS
    <3>2. s[i - 1] \in Seq(Chars)
      BY <3>1, Zenon
    <3> QED BY <2>1, <3>1, <3>2, EscapedIsText DEF Writes
  <2>3. Len(x) \in Nat /\ Len(e) \in Nat /\ Len(y) = Len(x) + Len(e)
    BY ONLY <2>2
  <2>4. \A q \in 1..Len(x) : y[q] = x[q]
    BY ONLY <2>2
  <2>5. ASSUME NEW q \in 1..Len(e) PROVE y[Len(x) + q] = e[q]
    BY ONLY <2>2, q \in 1..Len(e)
  <2>6. ASSUME NEW q \in 1..Len(y) PROVE q \in 1..Len(x) \/ y[q] # "/"
    <3>1. CASE q > Len(x)
      <4>1. PICK r : r = q - Len(x)
        OBVIOUS
      <4>2. r \in 1..Len(e) /\ q = Len(x) + r
        BY <2>3, <3>1, <4>1
      <4> QED BY <2>2, <2>5, <4>2
    <3> QED BY <2>3, <3>1
  <2>7. Extends(x, y)
    BY <2>3, <2>4 DEF Extends
  <2>8. Adds(x, e, y)
    BY <2>3, <2>5 DEF Adds
  <2> QED BY <2>1, <2>6, <2>7, <2>8, Zenon
<1>2. PICK T : T = {j \in 0..n : /\ \A i \in 0..j : Extends(s[i], s[j])
                                 /\ \A q \in 1..Len(s[j]) : s[j][q] # "/"}
  OBVIOUS
<1>3. 0 \in T
  <2>1. Len(s[0]) = 0
    BY DEF Writes
  <2> QED BY <1>2, <2>1 DEF Extends
<1>4. ASSUME NEW j \in 0..(n - 1), j \in T PROVE j + 1 \in T
  <2>1. j + 1 \in 1..n /\ j + 1 \in 0..n /\ (j + 1) - 1 = j /\ j \in 0..n
    OBVIOUS
  <2>2. PICK k : k = j + 1
    OBVIOUS
  <2>3. Extends(s[j], s[k]) /\ \A q \in 1..Len(s[k]) : q \in 1..Len(s[j]) \/ s[k][q] # "/"
    BY <1>1, <2>1, <2>2
  <2>4. /\ \A i \in 0..j : Extends(s[i], s[j])
        /\ \A q \in 1..Len(s[j]) : s[j][q] # "/"
    BY <1>2, <1>4
  <2>5. ASSUME NEW i \in 0..k PROVE Extends(s[i], s[k])
    <3>1. CASE i = k
      <4>1. Len(s[k]) \in Nat
        BY <1>0, <2>1, <2>2
      <4> QED BY <3>1, <4>1 DEF Extends
    <3>2. CASE i # k
      <4>1. i \in 0..j /\ i \in 0..n
        BY <2>1, <2>2, <3>2
      <4>2. Extends(s[i], s[j])
        BY <2>4, <4>1
      <4>3. Len(s[i]) \in Nat /\ Len(s[j]) \in Nat /\ Len(s[k]) \in Nat
        BY <1>0, <2>1, <2>2, <4>1
      <4> QED BY <2>3, <4>2, <4>3 DEF Extends
    <3> QED BY <3>1, <3>2
  <2>6. \A q \in 1..Len(s[k]) : s[k][q] # "/"
    BY <2>3, <2>4 DEF Extends
  <2> QED BY <1>2, <2>1, <2>2, <2>5, <2>6
<1>5. n \in T
  <2>1. \A j \in 0..n : j \in T
    BY ONLY n \in Nat, <1>3, <1>4, UpTo
  <2> QED BY <2>1
<1> QED BY <1>1, <1>2, <1>5

LEMMA AddedIsThere ==
  ASSUME NEW x, NEW e, NEW y, NEW z, Len(x) \in Nat, Len(e) \in {1, 3}, Len(z) \in Nat, Adds(x, e, y), Extends(y, z)
  PROVE  /\ Len(z) > Len(x) /\ 1 \in 1..Len(e) /\ z[Len(x) + 1] = e[1]
         /\ Len(e) = 3 => z[Len(x) + 3] = e[3]
<1>1. PICK a, b, c, d : a = Len(x) /\ b = Len(e) /\ c = Len(y) /\ d = Len(z)
  OBVIOUS
<1>2. a \in Nat /\ (b = 1 \/ b = 3) /\ d \in Nat /\ c = a + b /\ c <= d
  BY <1>1 DEF Adds, Extends
<1>3. ASSUME NEW q \in 1..b PROVE z[a + q] = e[q]
  <2>1. a + q \in 1..c
    BY <1>2
  <2> QED BY <1>1, <2>1 DEF Adds, Extends
<1>4. z[a + 1] = e[1] /\ 1 \in 1..b /\ d > a
  BY <1>2, <1>3
<1>5. b = 3 => z[a + 3] = e[3]
  BY <1>3
<1> QED BY <1>1, <1>4, <1>5

\* What is written can be read: names with the same text agree as far as the
\* shorter goes.
LEMMA ReadAlong ==
  ASSUME NEW n, NEW v, NEW s, Writes(s, v, n), NEW m, NEW w, NEW t, Writes(t, w, m), s[n] = t[m]
  PROVE  n <= m /\ \A i \in 1..n : v[i] = w[i]
<1> /\ n \in Nat /\ s \in [0..n -> Seq(Chars)] /\ \A i \in 1..n : v[i] \in Chars
    /\ m \in Nat /\ t \in [0..m -> Seq(Chars)] /\ \A i \in 1..m : w[i] \in Chars
  BY DEF Writes
<1>0. /\ \A i \in 0..n : Len(s[i]) \in Nat
      /\ \A i \in 0..m : Len(t[i]) \in Nat
  OBVIOUS
<1>1. PICK T : T = {k \in 0..n : k <= m /\ s[k] = t[k] /\ \A i \in 1..k : v[i] = w[i]}
  OBVIOUS
<1>2. 0 \in T
  BY <1>1 DEF Writes
<1>3. ASSUME NEW k \in 0..(n - 1), k \in T PROVE k + 1 \in T
  <2>1. /\ k \in 0..n /\ k \in 0..m /\ k + 1 \in 1..n /\ k + 1 \in 0..n /\ (k + 1) - 1 = k
        /\ s[k] = t[k] /\ \A i \in 1..k : v[i] = w[i]
    BY <1>1, <1>3
  <2>2. PICK j, out, x, e, d, len : /\ j = k + 1 /\ out = s[n] /\ x = s[k] /\ e = EscapedChar(v[k + 1])
                                    /\ d = EscapedChar(w[k + 1]) /\ len = Len(x)
    OBVIOUS
  <2>3. Extends(s[j], out) /\ Adds(x, e, s[j])
    <3>1. /\ \A i \in 0..n : Extends(s[i], s[n])
          /\ \A i \in 1..n : Adds(s[i - 1], EscapedChar(v[i]), s[i])
      BY ONLY Writes(s, v, n), WrittenStays
    <3> QED BY <2>1, <2>2, <3>1
  <2>4. len \in Nat /\ Len(out) \in Nat
    BY <1>0, <2>1, <2>2
  <2>5. Len(out) > len /\ out[len + 1] = e[1] /\ (Len(e) = 3 => out[len + 3] = e[3])
    <3>1. Len(e) \in {1, 3}
      BY <2>1, <2>2, EscapedIsText
    <3>2. Len(x) \in Nat
      BY <2>2, <2>4
    <3>3. Len(out) > Len(x) /\ out[Len(x) + 1] = e[1] /\ (Len(e) = 3 => out[Len(x) + 3] = e[3])
      BY ONLY <2>3, <2>4, <3>1, <3>2, AddedIsThere
    <3> QED BY <2>2, <3>3
  <2>7. k + 1 \in 1..m /\ k + 1 \in 0..m
    <3>1. k # m
      BY <2>1, <2>2, <2>5
    <3> QED BY <2>1, <3>1
  <2>8. Extends(t[j], out) /\ Adds(x, d, t[j])
    <3>1. /\ \A i \in 0..m : Extends(t[i], t[m])
          /\ \A i \in 1..m : Adds(t[i - 1], EscapedChar(w[i]), t[i])
      BY ONLY Writes(t, w, m), WrittenStays
    <3>2. out = t[m] /\ x = t[k]
      BY <2>1, <2>2
    <3> QED BY <2>1, <2>2, <2>7, <3>1, <3>2
  <2>9. out[len + 1] = d[1] /\ (Len(d) = 3 => out[len + 3] = d[3])
    <3>1. Len(d) \in {1, 3}
      BY <2>2, <2>7, EscapedIsText
    <3>2. Len(x) \in Nat
      BY <2>2, <2>4
    <3>3. out[Len(x) + 1] = d[1] /\ (Len(d) = 3 => out[Len(x) + 3] = d[3])
      BY ONLY <2>4, <2>8, <3>1, <3>2, AddedIsThere
    <3> QED BY <2>2, <3>3
  <2>11. e[1] = d[1]
    BY <2>5, <2>9
  <2>12. v[j] = w[j]
    <3>1. v[j] \in Chars /\ w[j] \in Chars
      BY <2>1, <2>2, <2>7
    <3>2. CASE e[1] # "%"
      BY <2>2, <2>11, <3>1, <3>2, EscapedIsText
    <3>3. CASE e[1] = "%"
      <4>0. PICK a \in Chars, b \in Chars : a = v[j] /\ b = w[j] /\ e = EscapedChar(a) /\ d = EscapedChar(b)
        BY <2>2, <3>1
      <4>1. Len(e) = 3 /\ Len(d) = 3
        BY <2>11, <3>3, <4>0, EscapedIsText, ZenonT(40)
      <4>2. e[3] = d[3]
        BY <2>5, <2>9, <4>1
      <4>3. (a = "%" /\ e[3] = "5") \/ (a = "/" /\ e[3] = "F")
        BY <3>3, <4>0, EscapedIsText
      <4>4. (b = "%" /\ d[3] = "5") \/ (b = "/" /\ d[3] = "F")
        <5>1. d[1] = "%"
          BY <2>11, <3>3
        <5> QED BY <4>0, <5>1, EscapedIsText
      <4> QED BY <4>0, <4>2, <4>3, <4>4
    <3> QED BY <3>2, <3>3
  <2>13. s[j] = t[j]
    BY <2>1, <2>2, <2>7, <2>12 DEF Writes
  <2>14. \A i \in 1..j : i \in 1..k \/ i = j
    BY <2>1, <2>2
  <2> QED BY <1>1, <2>1, <2>2, <2>7, <2>12, <2>13, <2>14
<1>4. n \in T
  <2>1. \A j \in 0..n : j \in T
    BY ONLY n \in Nat, <1>2, <1>3, UpTo
  <2> QED BY <2>1
<1> QED BY <1>1, <1>4

LEMMA ComponentFacts ==
  ASSUME NEW v \in Seq(Chars)
  PROVE  /\ scope_component(v) \in Seq(Chars)
         /\ \A q \in 1..Len(scope_component(v)) : scope_component(v)[q] # "/"
         /\ \A w \in Seq(Chars) : scope_component(w) = scope_component(v) => w = v
<1>1. PICK n : n = Len(v)
  OBVIOUS
<1>2. n \in Nat /\ \A i \in 1..n : v[i] \in Chars
  BY <1>1
<1>3. PICK s : Writes(s, v, n) /\ scope_component(v) = s[n]
  BY <1>1, ComponentIsWritten
<1>4. s[n] \in Seq(Chars) /\ \A q \in 1..Len(s[n]) : s[n][q] # "/"
  <2>1. s \in [0..n -> Seq(Chars)]
    BY <1>3 DEF Writes
  <2>2. \A q \in 1..Len(s[n]) : s[n][q] # "/"
    BY ONLY <1>3, WrittenStays
  <2> QED BY <1>2, <2>1, <2>2
<1>5. ASSUME NEW w \in Seq(Chars), scope_component(w) = scope_component(v) PROVE w = v
  <2>1. PICK m : m = Len(w)
    OBVIOUS
  <2>2. m \in Nat /\ \A i \in 1..m : w[i] \in Chars
    BY <2>1
  <2>3. PICK t : Writes(t, w, m) /\ scope_component(w) = t[m]
    BY <2>1, ComponentIsWritten
  <2>4. s[n] = t[m]
    BY <1>3, <1>5, <2>3
  <2>5. n <= m /\ \A i \in 1..n : v[i] = w[i]
    BY ONLY <1>3, <2>3, <2>4, ReadAlong
  <2>6. m <= n
    BY ONLY <1>3, <2>3, <2>4, ReadAlong
  <2>7. n = m
    BY <1>2, <2>2, <2>5, <2>6
  <2>8. v = [i \in 1..n |-> v[i]] /\ w = [i \in 1..n |-> w[i]]
    <3>1. v = [i \in 1..n |-> v[i]]
      BY <1>1
    <3>2. w = [i \in 1..m |-> w[i]]
      BY <2>1
    <3> QED BY <2>7, <3>1, <3>2
  <2> QED BY <2>5, <2>8
<1> QED BY <1>3, <1>4, <1>5

\* A scope names the agent and the project.
Agents == AgNames \X (AgNames \cup {NoProject})

LEMMA TwoParts ==
  ASSUME NEW p \in Seq(Chars), NEW a \in Seq(Chars), NEW z, z = <<"agent", "/">> \o p \o <<"/">> \o a,
         NEW n, n = Len(p)
  PROVE  /\ n \in Nat /\ Len(z) = n + 3 + Len(a) /\ z[n + 3] = "/"
         /\ \A q \in 1..n : z[q + 2] = p[q]
         /\ \A q \in 1..Len(a) : z[n + 3 + q] = a[q]
<1>1. "agent" \in Chars /\ "/" \in Chars
  BY DEF Chars
<1>2. PICK x, y : x = <<"agent", "/">> \o p /\ y = x \o <<"/">>
  OBVIOUS
<1>3. x \in Seq(Chars) /\ Len(x) = n + 2 /\ \A q \in 1..n : x[q + 2] = p[q]
  BY <1>1, <1>2
<1>4. y \in Seq(Chars) /\ Len(y) = n + 3 /\ y[n + 3] = "/" /\ \A q \in 1..(n + 2) : y[q] = x[q]
  BY <1>1, <1>2, <1>3
<1>5. z = y \o a /\ n \in Nat /\ Len(a) \in Nat
  BY <1>2
<1>6. /\ Len(z) = n + 3 + Len(a) /\ \A q \in 1..(n + 3) : z[q] = y[q]
      /\ \A q \in 1..Len(a) : z[n + 3 + q] = a[q]
  BY <1>4, <1>5
<1>7. \A q \in 1..n : q + 2 \in 1..(n + 2) /\ q + 2 \in 1..(n + 3)
  BY <1>5
<1> QED BY <1>3, <1>4, <1>5, <1>6, <1>7

LEMMA OnePart ==
  ASSUME NEW a \in Seq(Chars), NEW z, z = <<"agent", "/">> \o a
  PROVE  Len(z) = 2 + Len(a) /\ \A q \in 1..Len(a) : z[q + 2] = a[q]
<1>1. "agent" \in Chars /\ "/" \in Chars
  BY DEF Chars
<1> QED BY <1>1

LEMMA SameSequence ==
  ASSUME NEW n \in Nat, NEW S, NEW v \in Seq(S), NEW w \in Seq(S), Len(v) = n, Len(w) = n, \A q \in 1..n : v[q] = w[q]
  PROVE  v = w
<1>1. v = [i \in 1..n |-> v[i]]
  OBVIOUS
<1>2. w = [i \in 1..n |-> w[i]]
  OBVIOUS
<1> QED BY <1>1, <1>2

NoSlash(p) == \A q \in 1..Len(p) : p[q] # "/"

\* The project ends at the first slash.
LEMMA ProjectIsRead ==
  ASSUME NEW p \in Seq(Chars), NEW a \in Seq(Chars), NEW u \in Seq(Chars), NEW b \in Seq(Chars),
         <<"agent", "/">> \o p \o <<"/">> \o a = <<"agent", "/">> \o u \o <<"/">> \o b, NoSlash(u), NoSlash(p)
  PROVE  p = u /\ a = b
<1>1. PICK z : z = <<"agent", "/">> \o p \o <<"/">> \o a /\ z = <<"agent", "/">> \o u \o <<"/">> \o b
  OBVIOUS
<1>2. PICK n, m : n = Len(p) /\ m = Len(u)
  OBVIOUS
<1>3. /\ n \in Nat /\ Len(z) = n + 3 + Len(a) /\ z[n + 3] = "/"
      /\ \A q \in 1..n : z[q + 2] = p[q]
      /\ \A q \in 1..Len(a) : z[n + 3 + q] = a[q]
  BY <1>1, <1>2, TwoParts
<1>4. /\ m \in Nat /\ Len(z) = m + 3 + Len(b) /\ z[m + 3] = "/"
      /\ \A q \in 1..m : z[q + 2] = u[q]
      /\ \A q \in 1..Len(b) : z[m + 3 + q] = b[q]
  <2>1. z = <<"agent", "/">> \o u \o <<"/">> \o b /\ m = Len(u)
    BY <1>1, <1>2
  <2> QED BY ONLY u \in Seq(Chars), b \in Seq(Chars), <2>1, TwoParts
<1>5. ~(n < m)
  <2> SUFFICES ASSUME n < m PROVE FALSE
    OBVIOUS
  <2>1. n + 1 \in 1..m /\ (n + 1) + 2 = n + 3
    BY <1>3, <1>4
  <2>2. z[n + 3] = u[n + 1]
    BY <1>4, <2>1
  <2> QED BY <1>2, <1>3, <2>1, <2>2 DEF NoSlash
<1>6. ~(m < n)
  <2> SUFFICES ASSUME m < n PROVE FALSE
    OBVIOUS
  <2>1. m + 1 \in 1..n /\ (m + 1) + 2 = m + 3
    BY <1>3, <1>4
  <2>2. z[m + 3] = p[m + 1]
    BY <1>3, <2>1
  <2> QED BY <1>2, <1>4, <2>1, <2>2 DEF NoSlash
<1>7. n = m
  BY <1>3, <1>4, <1>5, <1>6
<1>8. p = u
  <2>1. \A q \in 1..n : p[q] = u[q]
    BY <1>3, <1>4, <1>7
  <2> QED BY <1>2, <1>3, <1>7, <2>1, SameSequence
<1>9. a = b
  <2>1. PICK k \in Nat : k = Len(a) /\ k = Len(b)
    <3>1. Len(a) \in Nat /\ Len(b) \in Nat
      OBVIOUS
    <3> QED BY <1>3, <1>4, <1>7, <3>1
  <2>2. \A q \in 1..k : a[q] = b[q]
    BY <1>3, <1>4, <1>7, <2>1
  <2> QED BY <2>1, <2>2, SameSequence
<1> QED BY <1>8, <1>9

LEMMA ProjectIsSeen ==
  ASSUME NEW a \in Seq(Chars), NoSlash(a), NEW u \in Seq(Chars), NEW b \in Seq(Chars)
  PROVE  <<"agent", "/">> \o a # <<"agent", "/">> \o u \o <<"/">> \o b
<1> SUFFICES ASSUME NEW z, z = <<"agent", "/">> \o a, z = <<"agent", "/">> \o u \o <<"/">> \o b PROVE FALSE
  OBVIOUS
<1>1. PICK n, m, l : n = Len(a) /\ m = Len(u) /\ l = Len(b)
  OBVIOUS
<1>2. n \in Nat /\ m \in Nat /\ l \in Nat
  BY <1>1
<1>3. Len(z) = 2 + n /\ \A q \in 1..n : z[q + 2] = a[q]
  BY <1>1, OnePart
<1>4. Len(z) = m + 3 + l /\ z[m + 3] = "/"
  <2>1. Len(z) = m + 3 + Len(b) /\ z[m + 3] = "/"
    BY ONLY u \in Seq(Chars), b \in Seq(Chars), z = <<"agent", "/">> \o u \o <<"/">> \o b, <1>1, TwoParts
  <2> QED BY <1>1, <2>1
<1>5. m + 1 \in 1..n /\ (m + 1) + 2 = m + 3
  BY <1>2, <1>3, <1>4
<1>6. z[m + 3] = a[m + 1]
  BY <1>3, <1>5
<1> QED BY <1>1, <1>4, <1>5, <1>6 DEF NoSlash

LEMMA ScopesDiffer ==
  ASSUME NEW x \in Agents, NEW y \in Agents, agent_scope(x) = agent_scope(y)
  PROVE  x = y
<1>1. /\ x = <<x[1], x[2]>> /\ x[1] \in Seq(Chars) /\ x[2] \in Seq(Chars)
      /\ y = <<y[1], y[2]>> /\ y[1] \in Seq(Chars) /\ y[2] \in Seq(Chars)
  <2>1. AgNames \subseteq Seq(AgChars)
    BY AgentAssumption
  <2>2. \A v \in Seq(AgChars) : v \in Seq(Chars)
    BY DEF Chars
  <2>3. NoProject \in Seq(Chars)
    BY DEF NoProject
  <2> QED BY <2>1, <2>2, <2>3 DEF Agents
<1>2. PICK a, b, p, q : /\ a = scope_component(x[1]) /\ b = scope_component(y[1])
                        /\ p = scope_component(x[2]) /\ q = scope_component(y[2])
  OBVIOUS
<1>3. /\ a \in Seq(Chars) /\ NoSlash(a) /\ b \in Seq(Chars) /\ NoSlash(b)
      /\ p \in Seq(Chars) /\ NoSlash(p) /\ q \in Seq(Chars) /\ NoSlash(q)
  BY <1>1, <1>2, ComponentFacts DEF NoSlash
<1>4. /\ a = b => x[1] = y[1]
      /\ p = q => x[2] = y[2]
  BY <1>1, <1>2, ComponentFacts
<1>5. CASE x[2] = NoProject /\ y[2] = NoProject
  <2>1. PICK z : z = <<"agent", "/">> \o a /\ z = <<"agent", "/">> \o b
    BY <1>2, <1>5 DEF agent_scope
  <2>2. Len(z) = 2 + Len(a) /\ \A i \in 1..Len(a) : z[i + 2] = a[i]
    BY <1>3, <2>1, OnePart
  <2>3. Len(z) = 2 + Len(b) /\ \A i \in 1..Len(b) : z[i + 2] = b[i]
    BY <1>3, <2>1, OnePart
  <2>4. PICK k \in Nat : k = Len(a) /\ k = Len(b)
    <3>1. Len(a) \in Nat /\ Len(b) \in Nat
      BY <1>3
    <3> QED BY <2>2, <2>3, <3>1
  <2>5. \A i \in 1..k : a[i] = b[i]
    BY <2>2, <2>3, <2>4
  <2>6. a = b
    BY <1>3, <2>4, <2>5, SameSequence
  <2> QED BY <1>1, <1>4, <1>5, <2>6
<1>6. CASE x[2] # NoProject /\ y[2] # NoProject
  <2>1. <<"agent", "/">> \o p \o <<"/">> \o a = <<"agent", "/">> \o q \o <<"/">> \o b
    BY <1>2, <1>6 DEF agent_scope
  <2>2. p = q /\ a = b
    BY <1>3, <2>1, ProjectIsRead
  <2> QED BY <1>1, <1>4, <2>2
<1>7. CASE x[2] = NoProject /\ y[2] # NoProject
  <2>1. <<"agent", "/">> \o a = <<"agent", "/">> \o q \o <<"/">> \o b
    BY <1>2, <1>7 DEF agent_scope
  <2> QED BY <1>3, <2>1, ProjectIsSeen
<1>8. CASE x[2] # NoProject /\ y[2] = NoProject
  <2>1. <<"agent", "/">> \o b = <<"agent", "/">> \o p \o <<"/">> \o a
    BY <1>2, <1>8 DEF agent_scope
  <2> QED BY <1>3, <2>1, ProjectIsSeen
<1> QED BY <1>5, <1>6, <1>7, <1>8

-----------------------------------------------------------------------------
(* Lists without repetition.                                                *)
HitList(x, S) == x \in Seq(S) /\ \A j, k \in 1..Len(x) : x[j] = x[k] => j = k

LEMMA HitListGrows ==
  ASSUME NEW x, NEW S, NEW T, HitList(x, S), S \subseteq T
  PROVE  HitList(x, T)
BY DEF HitList

LEMMA HitListCounts ==
  ASSUME NEW x, NEW S, HitList(x, S)
  PROVE  Cardinality(Range(x)) = Len(x)
<1>1. PICK n \in Nat : n = Len(x) /\ DOMAIN x = 1..n
  BY DEF HitList
<1>2. IsFiniteSet(1..n) /\ Cardinality(1..n) = n
  BY FS_Interval
<1>3. \A j, k \in 1..n : x[j] = x[k] => j = k
  BY <1>1 DEF HitList
<1>4. Cardinality({x[j] : j \in 1..n}) = Cardinality(1..n)
  <2>1. PICK P : P = 1..n
    OBVIOUS
  <2>2. IsFiniteSet(P) /\ \A j, k \in P : x[j] = x[k] => j = k
    BY <1>2, <1>3, <2>1
  <2>3. Cardinality({x[j] : j \in P}) = Cardinality(P)
    BY ONLY <2>2, CountByValues
  <2> QED BY <2>1, <2>3
<1>5. Range(x) = {x[j] : j \in 1..n}
  BY <1>1 DEF Range
<1> QED BY <1>1, <1>2, <1>4, <1>5

LEMMA HitListAdds ==
  ASSUME NEW x, NEW S, HitList(x, S), NEW i, i \notin S
  PROVE  HitList(Append(x, i), S \cup {i})
<1>1. PICK y, n, T : y = Append(x, i) /\ n = Len(x) /\ T = S \cup {i}
  OBVIOUS
<1>2. x \in Seq(T) /\ i \in T /\ n \in Nat
  BY <1>1 DEF HitList
<1>3. y \in Seq(T) /\ Len(y) = n + 1 /\ y[n + 1] = i /\ \A k \in 1..n : y[k] = x[k]
  BY <1>1, <1>2
<1>4. \A k \in 1..n : x[k] \in S
  BY <1>1 DEF HitList
<1>5. \A k \in 1..(n + 1) : k \in 1..n \/ k = n + 1
  BY <1>2
<1>6. \A j, k \in 1..n : x[j] = x[k] => j = k
  BY <1>1 DEF HitList
<1>7. \A j, k \in 1..(n + 1) : y[j] = y[k] => j = k
  BY <1>3, <1>4, <1>5, <1>6
<1> QED BY <1>1, <1>3, <1>7 DEF HitList

LEMMA FirstOfHits ==
  ASSUME NEW x, NEW S, HitList(x, S), NEW n \in Nat
  PROVE  HitList(FirstOf(x, n), S) /\ Range(FirstOf(x, n)) \subseteq Range(x)
<1>1. PICK m, k, y : m = Len(x) /\ k = (IF m < n THEN m ELSE n) /\ y = FirstOf(x, n)
  OBVIOUS
<1>2. x \in Seq(S) /\ m \in Nat /\ k \in 0..m /\ y = SubSeq(x, 1, k)
  BY <1>1 DEF HitList, FirstOf
<1>3. y \in Seq(S) /\ Len(y) = k /\ \A i \in 1..k : y[i] = x[i]
  <2>1. y = [i \in 1..k |-> x[i]]
    <3>1. y = [i \in 1..(1 + k - 1) |-> x[i + 1 - 1]]
      BY <1>2 DEF SubSeq
    <3>2. 1 + k - 1 = k /\ \A i \in 1..k : i + 1 - 1 = i
      BY <1>2
    <3> QED BY <3>1, <3>2
  <2>2. k \in Nat /\ \A i \in 1..k : x[i] \in S
    BY <1>1, <1>2
  <2>3. y \in [1..k -> S]
    BY <2>1, <2>2
  <2> QED BY <2>1, <2>2, <2>3, ManyOf
<1>4. \A i \in 1..k : i \in 1..m
  BY <1>2
<1>5. HitList(y, S)
  BY <1>1, <1>3, <1>4 DEF HitList
<1>6. Range(y) \subseteq Range(x)
  <2>1. DOMAIN y = 1..k /\ DOMAIN x = 1..m
    BY <1>1, <1>2, <1>3
  <2> QED BY <1>3, <1>4, <2>1 DEF Range
<1> QED BY <1>1, <1>5, <1>6

\* Retained keeps what it is given, each place once.
LEMMA RetainedHits ==
  ASSUME NEW x, NEW n \in Nat, NEW P \in SUBSET (1..n), NEW S, \A k \in P : x[k] \in S,
         \A j, k \in P : x[j] = x[k] => j = k
  PROVE  HitList(Retained(x, P), S) /\ Range(Retained(x, P)) \subseteq {x[k] : k \in P}
<1>1. PICK y : y = Retained(x, P)
  OBVIOUS
<1>2. PICK m \in 0..n : OfLength(y, m) /\ Picks(y, m, x, P)
  BY ONLY n \in Nat, P \in SUBSET (1..n), <1>1, RetainedFacts
<1>3. PICK f \in [1..m -> P] : (\A k \in 1..m : y[k] = x[f[k]]) /\ \A j, k \in 1..m : f[j] = f[k] => j = k
  BY <1>2, Zenon DEF Picks
<1>4. y \in [1..m -> S]
  <2>1. y = [k \in 1..m |-> y[k]]
    BY <1>2, Zenon DEF OfLength
  <2>2. \A k \in 1..m : y[k] \in S
    BY <1>3
  <2> QED BY <2>1, <2>2
<1>5. y \in Seq(S) /\ Len(y) = m
  BY <1>2, <1>4, ManyOf
<1>6. ASSUME NEW j \in 1..m, NEW k \in 1..m, y[j] = y[k] PROVE j = k
  <2>1. f[j] \in P /\ f[k] \in P /\ x[f[j]] = x[f[k]]
    BY <1>3, <1>6
  <2>2. f[j] = f[k]
    BY <2>1
  <2> QED BY <1>3, <2>2
<1>7. Range(y) \subseteq {x[k] : k \in P}
  <2>1. DOMAIN y = 1..m
    BY <1>4
  <2>2. \A k \in 1..m : y[k] \in {x[i] : i \in P}
    BY <1>3
  <2> QED BY <2>1, <2>2, Zenon DEF Range
<1> QED BY <1>1, <1>5, <1>6, <1>7 DEF HitList

-----------------------------------------------------------------------------
(* The agents' documents and what a reply is made of.                       *)
Mine(who) == {i \in DOMAIN agDocs : agDocs[i].scope = agent_scope(who)}
DocsInv ==
    /\ IsNumbered(agDocs)
    /\ \A i \in DOMAIN agDocs :
          /\ agDocs[i].who \in Agents /\ agDocs[i].scope = agent_scope(agDocs[i].who)
          /\ agDocs[i].text.toks \in Nat /\ agDocs[i].text.snip \in Nat

LEMMA DocsNumbered ==
  ASSUME DocsInv
  PROVE  \E n \in Nat : DOMAIN agDocs = 1..n
<1>1. PICK n \in Nat : agDocs = [i \in 1..n |-> agDocs[i]]
  BY DEF DocsInv, IsNumbered
<1> QED BY <1>1

LEMMA RankedHits ==
  ASSUME DocsInv, NEW ids, ids \subseteq DOMAIN agDocs, NEW terms \in AgTerms
  PROVE  HitList(rank_docs(ids, terms), ids)
<1>1. PICK n \in Nat : DOMAIN agDocs = 1..n
  BY DocsNumbered
<1>2. IsFiniteSet(ids)
  <2>1. IsFiniteSet(1..n)
    BY FS_Interval
  <2> QED BY <1>1, <2>1, FS_Subset
<1>3. PICK m \in Nat : m = Cardinality(ids)
  BY <1>2, FS_CardinalityType
<1>4. PICK P, M, R : /\ P = [i \in ids |-> Points(i, terms)] /\ M = {i \in ids : MatchesTerms(i, terms)}
                     /\ R = {x \in ids \X ids : RankedBefore(x[1], x[2], terms)}
  OBVIOUS
<1>5. ASSUME NEW i \in ids PROVE i \in Nat /\ P[i] \in Int
  <2>1. i \in Nat
    BY <1>1
  <2>2. PICK W : W = terms \cap agDocs[i].text.words
    OBVIOUS
  <2>3. W \subseteq terms /\ IsFiniteSet(terms)
    BY <2>2, AgentAssumption
  <2>4. Cardinality(W) \in Nat
    BY <2>3, FS_Subset, FS_CardinalityType
  <2>5. P[i] = AgTermWeight * Cardinality(W) + i
    BY <1>4, <2>2 DEF Points
  <2>6. AgTermWeight \in Nat
    BY AgentAssumption
  <2> QED BY <2>1, <2>4, <2>5, <2>6
<1>6. ASSUME NEW a \in ids, NEW b \in ids
      PROVE  /\ <<a, b>> \in R <=> RankedBefore(a, b, terms)
             /\ <<a, b>> \in R <=> \/ P[a] > P[b]
                                   \/ /\ P[a] = P[b]
                                      /\ \/ a \in M /\ b \notin M
                                         \/ (a \in M <=> b \in M) /\ a > b
  <2>1. <<a, b>> \in R <=> RankedBefore(a, b, terms)
    BY <1>4
  <2>2. (a \in M <=> MatchesTerms(a, terms)) /\ (b \in M <=> MatchesTerms(b, terms))
    BY <1>4
  <2>3. P[a] = Points(a, terms) /\ P[b] = Points(b, terms)
    BY <1>4
  <2> QED BY <2>1, <2>2, <2>3 DEF RankedBefore, RowBefore
<1>7. Orders(R, ids)
  <2>1. \A a \in ids : <<a, a>> \notin R
    BY <1>5, <1>6
  <2>2. ASSUME NEW a \in ids, NEW b \in ids, NEW c \in ids, <<a, b>> \in R, <<b, c>> \in R PROVE <<a, c>> \in R
    <3>1. /\ P[a] \in Int /\ P[b] \in Int /\ P[c] \in Int /\ a \in Nat /\ b \in Nat /\ c \in Nat
      BY <1>5
    <3>2. \/ P[a] > P[b]
          \/ P[a] = P[b] /\ ((a \in M /\ b \notin M) \/ ((a \in M <=> b \in M) /\ a > b))
      BY <1>6, <2>2
    <3>3. \/ P[b] > P[c]
          \/ P[b] = P[c] /\ ((b \in M /\ c \notin M) \/ ((b \in M <=> c \in M) /\ b > c))
      BY <1>6, <2>2
    <3>4. \/ P[a] > P[c]
          \/ P[a] = P[c] /\ ((a \in M /\ c \notin M) \/ ((a \in M <=> c \in M) /\ a > c))
      BY <3>1, <3>2, <3>3
    <3> QED BY <1>6, <3>4
  <2>3. ASSUME NEW a \in ids, NEW b \in ids, a # b PROVE <<a, b>> \in R \/ <<b, a>> \in R
    <3>1. /\ P[a] \in Int /\ P[b] \in Int /\ a \in Nat /\ b \in Nat
      BY <1>5
    <3> QED BY <1>6, <2>3, <3>1
  <2> QED BY <2>1, <2>2, <2>3, Zenon DEF Orders
<1>8. PICK y : y = rank_docs(ids, terms)
  OBVIOUS
<1>9. ASSUME NEW i \in ids PROVE {j \in ids : RankedBefore(j, i, terms)} = Preceding(ids, R, i)
  BY <1>6 DEF Preceding
<1>10. ASSUME NEW k \in 1..m PROVE y[k] \in ids /\ Cardinality(Preceding(ids, R, y[k])) = k - 1
  <2>1. y[k] = CHOOSE i \in ids : Cardinality({j \in ids : RankedBefore(j, i, terms)}) = k - 1
    BY <1>3, <1>8 DEF rank_docs
  <2>2. PICK i \in ids : Cardinality(Preceding(ids, R, i)) = k - 1
    BY <1>2, <1>3, <1>7, RanksNumber
  <2>3. Cardinality({j \in ids : RankedBefore(j, i, terms)}) = k - 1
    BY <1>9, <2>2
  <2>4. y[k] \in ids /\ Cardinality({j \in ids : RankedBefore(j, y[k], terms)}) = k - 1
    BY <2>1, <2>3, Zenon
  <2> QED BY <1>9, <2>4
<1>11. y \in [1..m -> ids]
  <2>1. y = [k \in 1..m |-> y[k]]
    <3>1. y = [k \in 1..m |-> CHOOSE i \in ids : Cardinality({j \in ids : RankedBefore(j, i, terms)}) = k - 1]
      BY <1>3, <1>8 DEF rank_docs
    <3>2. \A k \in 1..m : y[k] = CHOOSE i \in ids : Cardinality({j \in ids : RankedBefore(j, i, terms)}) = k - 1
      BY <1>3, <1>8 DEF rank_docs
    <3> QED BY <3>1, <3>2, Zenon
  <2> QED BY <1>10, <2>1
<1>12. y \in Seq(ids) /\ Len(y) = m
  BY <1>11, ManyOf
<1>13. \A j, k \in 1..m : y[j] = y[k] => j = k
  BY <1>10
<1> QED BY <1>8, <1>12, <1>13 DEF HitList

LEMMA SearchHits ==
  ASSUME DocsInv, NEW who, NEW terms \in AgTerms, NEW limit \in Nat, NEW fetch
  PROVE  HitList(SearchIndex(who, terms, limit, fetch), Mine(who))
<1>1. PICK mine, ids, x : /\ mine = Mine(who) /\ x = rank_docs(ids, terms)
                          /\ ids = Newest({i \in mine : MatchesTerms(i, terms)}, fetch) \cup Newest(mine, fetch)
  OBVIOUS
<1>2. ids \subseteq mine /\ ids \subseteq DOMAIN agDocs
  BY <1>1 DEF Newest, Mine
<1>3. HitList(x, ids)
  BY <1>1, <1>2, RankedHits
<1>4. HitList(x, mine)
  BY <1>2, <1>3, HitListGrows
<1>5. HitList(FirstOf(x, limit), mine)
  BY <1>4, FirstOfHits
<1>6. SearchIndex(who, terms, limit, fetch) = FirstOf(x, limit)
  BY <1>1 DEF SearchIndex, Mine
<1> QED BY <1>1, <1>5, <1>6

LEMMA GotHits ==
  ASSUME DocsInv, NEW who, NEW n \in Nat, NEW x, DOMAIN x = 1..n
  PROVE  HitList(GetObservations(who, x), Mine(who)) /\ Range(GetObservations(who, x)) \subseteq Range(x)
<1>1. PICK P : P = {k \in 1..n : /\ x[k] \in DOMAIN agDocs /\ agDocs[x[k]].scope = agent_scope(who)
                                /\ \A h \in 1..(k - 1) : x[h] # x[k]}
  OBVIOUS
<1>2. GetObservations(who, x) = Retained(x, P)
  BY <1>1 DEF GetObservations
<1>3. P \in SUBSET (1..n) /\ \A k \in P : x[k] \in Mine(who)
  BY <1>1 DEF Mine
<1>4. ASSUME NEW j \in P, NEW k \in P, x[j] = x[k] PROVE j = k
  <2>1. /\ j \in 1..n /\ k \in 1..n
        /\ \A h \in 1..(j - 1) : x[h] # x[j]
        /\ \A h \in 1..(k - 1) : x[h] # x[k]
    BY <1>1
  <2> QED BY <1>4, <2>1
<1>5. HitList(Retained(x, P), Mine(who)) /\ Range(Retained(x, P)) \subseteq {x[k] : k \in P}
  <2>1. PICK S : S = Mine(who)
    OBVIOUS
  <2>2. \A k \in P : x[k] \in S
    BY <1>3, <2>1
  <2>3. HitList(Retained(x, P), S) /\ Range(Retained(x, P)) \subseteq {x[k] : k \in P}
    BY <1>3, <1>4, <2>2, RetainedHits
  <2> QED BY <2>1, <2>3
<1>6. {x[k] : k \in P} \subseteq Range(x)
  BY <1>3 DEF Range
<1> QED BY <1>2, <1>5, <1>6

-----------------------------------------------------------------------------
(* agent_context goes through the hits and stays within its budget.         *)
Spent(used, budget, start) == used <= budget \/ used = start
Taken(x, n) == {x[j] : j \in 1..n}

IsIndexed(f, budget, raw) ==
    f = [n \in 0..Len(raw) |-> IF n = 0 THEN [used |-> AgReserve, index |-> <<>>, stop |-> FALSE]
                               ELSE IndexStep(budget, f[n - 1], raw[n])]
LEMMA IndexedHits ==
  ASSUME DocsInv, NEW who, NEW raw, HitList(raw, Mine(who)), NEW budget \in Nat, NEW st, st = Indexed(budget, raw)[Len(raw)]
  PROVE  st.used \in Nat /\ Spent(st.used, budget, AgReserve) /\ HitList(st.index, Mine(who))
<1>1. PICK len, S, C : len = Len(raw) /\ S = Mine(who) /\ C = [used : Nat, index : Seq(S), stop : BOOLEAN]
  OBVIOUS
<1>2. len \in Nat /\ raw \in Seq(S) /\ (\A n \in 1..len : raw[n] \in S) /\ AgReserve \in Nat /\ AgPerHit \in Nat
  BY <1>1, AgentAssumption DEF HitList
<1>3. PICK a : a = [used |-> AgReserve, index |-> <<>>, stop |-> FALSE]
  OBVIOUS
<1>4. a \in C /\ a.used = AgReserve /\ a.index = <<>>
  BY <1>1, <1>2, <1>3
<1>5. ASSUME NEW x \in C, NEW i \in S
      PROVE  /\ IndexStep(budget, x, i) \in C
             /\ \/ IndexStep(budget, x, i).used = x.used /\ IndexStep(budget, x, i).index = x.index
                \/ /\ IndexStep(budget, x, i).used <= budget
                   /\ IndexStep(budget, x, i).index = Append(x.index, i)
  <2>1. PICK t, y : t = agDocs[i].text.snip + AgPerHit /\ y = IndexStep(budget, x, i)
    OBVIOUS
  <2>2. t \in Nat
    BY <1>1, <1>2, <2>1 DEF DocsInv, Mine
  <2>3. x.used \in Nat /\ x.index \in Seq(S) /\ x.stop \in BOOLEAN
    BY <1>1
  <2>4. \/ y = [x EXCEPT !.stop = TRUE]
        \/ y = x
        \/ x.used + t <= budget /\ y = [x EXCEPT !.used = x.used + t, !.index = Append(x.index, i)]
    BY <2>1, <2>2, <2>3 DEF IndexStep
  <2>5. CASE y = [x EXCEPT !.stop = TRUE]
    BY <1>1, <2>1, <2>3, <2>5
  <2>6. CASE y = x
    BY <2>1, <2>6
  <2>7. CASE x.used + t <= budget /\ y = [x EXCEPT !.used = x.used + t, !.index = Append(x.index, i)]
    <3>1. Append(x.index, i) \in Seq(S) /\ x.used + t \in Nat
      BY <2>2, <2>3
    <3>2. PICK z : z = [x EXCEPT !.used = x.used + t]
      OBVIOUS
    <3>3. z \in C /\ z.used = x.used + t
      BY <1>1, <3>1, <3>2
    <3>4. y = [z EXCEPT !.index = Append(x.index, i)]
      BY <2>7, <3>2
    <3>5. y \in C /\ y.used = x.used + t /\ y.index = Append(x.index, i)
      BY <1>1, <3>1, <3>3, <3>4
    <3> QED BY <2>1, <2>7, <3>5
  <2> QED BY <2>4, <2>5, <2>6, <2>7
<1>6. PICK h : h = [n \in 1..len |-> [x \in C |-> IndexStep(budget, x, raw[n])]]
  OBVIOUS
<1>7. Climbs(a, h, C, len)
  BY <1>2, <1>4, <1>5, <1>6 DEF Climbs
<1>8. PICK s \in [0..len -> C] : s[0] = a /\ \A n \in 1..len : s[n] = h[n][s[n - 1]]
  BY ONLY <1>2, <1>7, Iterated
<1>9. ASSUME NEW n \in 1..len PROVE n - 1 \in 0..len /\ s[n - 1] \in C /\ s[n] = IndexStep(budget, s[n - 1], raw[n])
  <2>1. n - 1 \in 0..len
    BY <1>2
  <2>2. s[n - 1] \in C
    BY <2>1, Zenon
  <2>3. s[n] = IndexStep(budget, s[n - 1], raw[n])
    BY <1>6, <1>8, <2>2, Zenon
  <2> QED BY <2>1, <2>2, <2>3
<1>10. IsIndexed(s, budget, raw)
  <2>1. \A n \in 0..len : n = 0 \/ n \in 1..len
    BY <1>2
  <2>2. \A n \in 0..len : s[n] = IF n = 0 THEN a ELSE IndexStep(budget, s[n - 1], raw[n])
    BY <1>8, <1>9, <2>1
  <2>3. s = [n \in 0..len |-> s[n]]
    BY <1>8
  <2> QED BY <1>1, <1>3, <2>2, <2>3 DEF IsIndexed
<1>11. PICK r : r = Indexed(budget, raw) /\ IsIndexed(r, budget, raw)
  <2>1. Indexed(budget, raw) = CHOOSE r : IsIndexed(r, budget, raw)
    BY DEF Indexed, IsIndexed
  <2> QED BY <1>10, <2>1
<1>12. \A n \in 0..len : r[n] = IF n = 0 THEN a ELSE IndexStep(budget, r[n - 1], raw[n])
  BY <1>1, <1>3, <1>11 DEF IsIndexed
<1>13. GoAlike(s, r, len)
  <2>1. 0 \in 0..len /\ \A n \in 1..len : n \in 0..len /\ n # 0
    BY <1>2
  <2> QED BY <1>8, <1>9, <1>12, <2>1 DEF GoAlike
<1>14. st = s[len]
  <2>1. \A n \in 0..len : s[n] = r[n]
    BY ONLY <1>2, <1>13, SameWay
  <2> QED BY <1>1, <1>2, <1>11, <2>1
<1>15. PICK T : T = {n \in 0..len : Spent(s[n].used, budget, AgReserve) /\ HitList(s[n].index, Taken(raw, n))}
  OBVIOUS
<1>16. 0 \in T
  <2>1. HitList(<<>>, Taken(raw, 0))
    BY DEF HitList
  <2> QED BY <1>2, <1>4, <1>8, <1>15, <2>1 DEF Spent
<1>17. ASSUME NEW n \in 0..(len - 1), n \in T PROVE n + 1 \in T
  <2>1. n + 1 \in 1..len /\ n + 1 \in 0..len /\ (n + 1) - 1 = n /\ n \in 0..len
    BY <1>2
  <2>2. PICK x, y, i : x = s[n] /\ y = s[n + 1] /\ i = raw[n + 1]
    OBVIOUS
  <2>3. x \in C /\ i \in S /\ y = IndexStep(budget, x, i)
    BY <1>2, <1>9, <2>1, <2>2
  <2>4. Spent(x.used, budget, AgReserve) /\ HitList(x.index, Taken(raw, n))
    BY <1>15, <1>17, <2>2
  <2>5. Taken(raw, n + 1) = Taken(raw, n) \cup {i} /\ i \notin Taken(raw, n)
    <3>1. \A j \in 1..(n + 1) : j \in 1..n \/ j = n + 1
      BY <2>1
    <3>2. \A j \in 1..n : j \in 1..(n + 1) /\ j \in 1..len /\ j # n + 1
      BY <1>2, <2>1
    <3>3. Taken(raw, n + 1) = Taken(raw, n) \cup {i}
      BY <2>1, <2>2, <3>1, <3>2 DEF Taken
    <3>4. \A j \in 1..n : raw[j] # i
      BY <1>1, <2>1, <2>2, <3>2 DEF HitList
    <3> QED BY <3>3, <3>4 DEF Taken
  <2>6. (y.used = x.used /\ y.index = x.index) \/ (y.used <= budget /\ y.index = Append(x.index, i))
    BY <1>5, <2>3
  <2>7. HitList(x.index, Taken(raw, n + 1)) /\ HitList(Append(x.index, i), Taken(raw, n + 1))
    <3>1. PICK u, A, B : u = x.index /\ A = Taken(raw, n) /\ B = Taken(raw, n + 1)
      OBVIOUS
    <3>2. HitList(u, A) /\ B = A \cup {i} /\ i \notin A
      BY <2>4, <2>5, <3>1
    <3>3. HitList(u, B) /\ HitList(Append(u, i), B)
      BY <3>2, HitListGrows, HitListAdds
    <3> QED BY <3>1, <3>3
  <2>8. Spent(y.used, budget, AgReserve) /\ HitList(y.index, Taken(raw, n + 1))
    BY <2>4, <2>6, <2>7 DEF Spent
  <2> QED BY <1>15, <2>1, <2>2, <2>8
<1>18. len \in T
  <2>1. \A n \in 0..len : n \in T
    BY ONLY <1>2, <1>16, <1>17, UpTo
  <2> QED BY <1>2, <2>1
<1>19. HitList(st.index, S)
  <2>1. Taken(raw, len) \subseteq S
    BY <1>2 DEF Taken
  <2>2. HitList(st.index, Taken(raw, len))
    BY <1>14, <1>15, <1>18
  <2> QED BY <2>1, <2>2, HitListGrows
<1>20. st \in C
  BY <1>2, <1>8, <1>14
<1> QED BY <1>1, <1>14, <1>15, <1>18, <1>19, <1>20

IsSelected(f, budget, clip, docs, used, hits) ==
    f = [n \in 0..Len(hits) |-> IF n = 0 THEN [used |-> used, full |-> <<>>]
                               ELSE FullStep(budget, clip, docs, f[n - 1], hits[n])]
LEMMA SelectedHits ==
  ASSUME DocsInv, NEW who, NEW hits, HitList(hits, Mine(who)), NEW budget \in Nat,
         NEW clip \in Nat, NEW docs, NEW used \in Nat, NEW st, st = Selected(budget, clip, docs, used, hits)[Len(hits)]
  PROVE  st.used \in Nat /\ Spent(st.used, budget, used) /\ HitList(st.full, Mine(who)) /\ Range(st.full) \subseteq Range(hits)
<1>1. PICK len, S, C : len = Len(hits) /\ S = Mine(who) /\ C = [used : Nat, full : Seq(S)]
  OBVIOUS
<1>2. len \in Nat /\ hits \in Seq(S) /\ (\A n \in 1..len : hits[n] \in S) /\ used \in Nat
  BY <1>1 DEF HitList
<1>3. PICK a : a = [used |-> used, full |-> <<>>]
  OBVIOUS
<1>4. a \in C /\ a.used = used /\ a.full = <<>>
  BY <1>1, <1>2, <1>3
<1>5. ASSUME NEW x \in C, NEW i \in S
      PROVE  /\ FullStep(budget, clip, docs, x, i) \in C
             /\ \/ FullStep(budget, clip, docs, x, i).used = x.used /\ FullStep(budget, clip, docs, x, i).full = x.full
                \/ /\ FullStep(budget, clip, docs, x, i).used <= budget
                   /\ FullStep(budget, clip, docs, x, i).full = Append(x.full, i)
  <2>1. PICK t, y : t = agDocs[i].text.toks /\ y = FullStep(budget, clip, docs, x, i)
    OBVIOUS
  <2>2. t \in Nat
    BY <1>1, <1>2, <2>1 DEF DocsInv, Mine
  <2>3. x.used \in Nat /\ x.full \in Seq(S)
    BY <1>1
  <2>4. \/ y = x
        \/ x.used + t <= budget /\ y = [x EXCEPT !.used = x.used + t, !.full = Append(x.full, i)]
        \/ x.used + clip <= budget /\ y = [x EXCEPT !.used = x.used + clip, !.full = Append(x.full, i)]
    BY <2>1, <2>2, <2>3 DEF FullStep
  <2>5. CASE y = x
    BY <2>1, <2>5
  <2>6. ASSUME NEW u \in Nat, x.used + u <= budget, y = [x EXCEPT !.used = x.used + u, !.full = Append(x.full, i)]
        PROVE  y \in C /\ y.used <= budget /\ y.full = Append(x.full, i)
    <3>1. Append(x.full, i) \in Seq(S) /\ x.used + u \in Nat
      BY <2>3
    <3>2. PICK z : z = [x EXCEPT !.used = x.used + u]
      OBVIOUS
    <3>3. z \in C /\ z.used = x.used + u
      BY <1>1, <3>1, <3>2
    <3>4. y = [z EXCEPT !.full = Append(x.full, i)]
      BY <2>6, <3>2
    <3>5. y \in C /\ y.used = x.used + u /\ y.full = Append(x.full, i)
      BY <1>1, <3>1, <3>3, <3>4
    <3> QED BY <2>6, <3>5
  <2>7. y = x \/ (y \in C /\ y.used <= budget /\ y.full = Append(x.full, i))
    BY <2>2, <2>4, <2>6
  <2> QED BY <2>1, <2>5, <2>7
<1>6. PICK h : h = [n \in 1..len |-> [x \in C |-> FullStep(budget, clip, docs, x, hits[n])]]
  OBVIOUS
<1>7. Climbs(a, h, C, len)
  BY <1>2, <1>4, <1>5, <1>6 DEF Climbs
<1>8. PICK s \in [0..len -> C] : s[0] = a /\ \A n \in 1..len : s[n] = h[n][s[n - 1]]
  BY ONLY <1>2, <1>7, Iterated
<1>9. ASSUME NEW n \in 1..len PROVE n - 1 \in 0..len /\ s[n - 1] \in C /\ s[n] = FullStep(budget, clip, docs, s[n - 1], hits[n])
  <2>1. n - 1 \in 0..len
    BY <1>2
  <2>2. s[n - 1] \in C
    BY <2>1, Zenon
  <2>3. s[n] = FullStep(budget, clip, docs, s[n - 1], hits[n])
    BY <1>6, <1>8, <2>2, Zenon
  <2> QED BY <2>1, <2>2, <2>3
<1>10. IsSelected(s, budget, clip, docs, used, hits)
  <2>1. \A n \in 0..len : n = 0 \/ n \in 1..len
    BY <1>2
  <2>2. \A n \in 0..len : s[n] = IF n = 0 THEN a ELSE FullStep(budget, clip, docs, s[n - 1], hits[n])
    BY <1>8, <1>9, <2>1
  <2>3. s = [n \in 0..len |-> s[n]]
    BY <1>8
  <2> QED BY <1>1, <1>3, <2>2, <2>3 DEF IsSelected
<1>11. PICK r : r = Selected(budget, clip, docs, used, hits) /\ IsSelected(r, budget, clip, docs, used, hits)
  <2>1. Selected(budget, clip, docs, used, hits) = CHOOSE r : IsSelected(r, budget, clip, docs, used, hits)
    BY DEF Selected, IsSelected
  <2> QED BY <1>10, <2>1
<1>12. \A n \in 0..len : r[n] = IF n = 0 THEN a ELSE FullStep(budget, clip, docs, r[n - 1], hits[n])
  BY <1>1, <1>3, <1>11 DEF IsSelected
<1>13. GoAlike(s, r, len)
  <2>1. 0 \in 0..len /\ \A n \in 1..len : n \in 0..len /\ n # 0
    BY <1>2
  <2> QED BY <1>8, <1>9, <1>12, <2>1 DEF GoAlike
<1>14. st = s[len]
  <2>1. \A n \in 0..len : s[n] = r[n]
    BY ONLY <1>2, <1>13, SameWay
  <2> QED BY <1>1, <1>2, <1>11, <2>1
<1>15. PICK T : T = {n \in 0..len : Spent(s[n].used, budget, used) /\ HitList(s[n].full, Taken(hits, n))}
  OBVIOUS
<1>16. 0 \in T
  <2>1. HitList(<<>>, Taken(hits, 0))
    BY DEF HitList
  <2> QED BY <1>2, <1>4, <1>8, <1>15, <2>1 DEF Spent
<1>17. ASSUME NEW n \in 0..(len - 1), n \in T PROVE n + 1 \in T
  <2>1. n + 1 \in 1..len /\ n + 1 \in 0..len /\ (n + 1) - 1 = n /\ n \in 0..len
    BY <1>2
  <2>2. PICK x, y, i : x = s[n] /\ y = s[n + 1] /\ i = hits[n + 1]
    OBVIOUS
  <2>3. x \in C /\ i \in S /\ y = FullStep(budget, clip, docs, x, i)
    BY <1>2, <1>9, <2>1, <2>2
  <2>4. Spent(x.used, budget, used) /\ HitList(x.full, Taken(hits, n))
    BY <1>15, <1>17, <2>2
  <2>5. Taken(hits, n + 1) = Taken(hits, n) \cup {i} /\ i \notin Taken(hits, n)
    <3>1. \A j \in 1..(n + 1) : j \in 1..n \/ j = n + 1
      BY <2>1
    <3>2. \A j \in 1..n : j \in 1..(n + 1) /\ j \in 1..len /\ j # n + 1
      BY <1>2, <2>1
    <3>3. Taken(hits, n + 1) = Taken(hits, n) \cup {i}
      BY <2>1, <2>2, <3>1, <3>2 DEF Taken
    <3>4. \A j \in 1..n : hits[j] # i
      BY <1>1, <2>1, <2>2, <3>2 DEF HitList
    <3> QED BY <3>3, <3>4 DEF Taken
  <2>6. (y.used = x.used /\ y.full = x.full) \/ (y.used <= budget /\ y.full = Append(x.full, i))
    BY <1>5, <2>3
  <2>7. HitList(x.full, Taken(hits, n + 1)) /\ HitList(Append(x.full, i), Taken(hits, n + 1))
    <3>1. PICK u, A, B : u = x.full /\ A = Taken(hits, n) /\ B = Taken(hits, n + 1)
      OBVIOUS
    <3>2. HitList(u, A) /\ B = A \cup {i} /\ i \notin A
      BY <2>4, <2>5, <3>1
    <3>3. HitList(u, B) /\ HitList(Append(u, i), B)
      BY <3>2, HitListGrows, HitListAdds
    <3> QED BY <3>1, <3>3
  <2>8. Spent(y.used, budget, used) /\ HitList(y.full, Taken(hits, n + 1))
    BY <2>4, <2>6, <2>7 DEF Spent
  <2> QED BY <1>15, <2>1, <2>2, <2>8
<1>18. len \in T
  <2>1. \A n \in 0..len : n \in T
    BY ONLY <1>2, <1>16, <1>17, UpTo
  <2> QED BY <1>2, <2>1
<1>19. HitList(st.full, S)
  <2>1. Taken(hits, len) \subseteq S
    BY <1>2 DEF Taken
  <2>2. HitList(st.full, Taken(hits, len))
    BY <1>14, <1>15, <1>18
  <2> QED BY <2>1, <2>2, HitListGrows
<1>20. st \in C
  BY <1>2, <1>8, <1>14
<1>21. Range(st.full) \subseteq Range(hits)
  <2>1. HitList(st.full, Taken(hits, len)) /\ st.full \in Seq(S)
    BY <1>1, <1>14, <1>15, <1>18, <1>20
  <2>2. Taken(hits, len) \subseteq Range(hits)
    BY <1>1, <1>2 DEF Taken, Range
  <2> QED BY <2>1, <2>2 DEF Range, HitList
<1> QED BY <1>1, <1>14, <1>15, <1>18, <1>19, <1>20, <1>21

(* A reply names documents of the scope it was asked for, each once, and    *)
(* keeps to its budget.                                                     *)
Replied(r, S) ==
    /\ HitList(r.ids, S) /\ HitList(r.full, S)
    /\ r.tokens \in Nat /\ r.budget \in Nat
    /\ r.tokens <= r.budget \/ r.tokens <= AgReserve
    /\ r.budget > 0 => Range(r.full) \subseteq Range(r.ids)

LEMMA ContextIsReplied ==
  ASSUME DocsInv, NEW who, NEW terms \in AgTerms, NEW limit \in Nat, NEW budget \in Nat, NEW full_k \in Nat, NEW clip \in Nat,
         NEW r, r = AgentContext(who, terms, limit, budget, full_k, clip)
  PROVE  r.who = who /\ Replied(r, Mine(who))
<1>1. PICK raw, index : raw = SearchIndex(who, terms, limit, AgMaxDocs) /\ index = Indexed(budget, raw)[Len(raw)]
  OBVIOUS
<1>2. PICK hits, docs : hits = FirstOf(index.index, full_k) /\ docs = Range(GetObservations(who, index.index))
  OBVIOUS
<1>3. PICK used, got : used = index.used /\ got = Selected(budget, clip, docs, used, hits)[Len(hits)]
  OBVIOUS
<1>4. r = [who |-> who, ids |-> index.index, full |-> got.full, tokens |-> got.used, budget |-> budget]
  BY <1>1, <1>2, <1>3 DEF AgentContext
<1>5. HitList(raw, Mine(who))
  BY <1>1, SearchHits
<1>6. index.used \in Nat /\ Spent(index.used, budget, AgReserve) /\ HitList(index.index, Mine(who))
  BY <1>1, <1>5, IndexedHits
<1>7. HitList(hits, Mine(who)) /\ Range(hits) \subseteq Range(index.index)
  <2>1. PICK x, S : x = index.index /\ S = Mine(who)
    OBVIOUS
  <2>2. HitList(FirstOf(x, full_k), S) /\ Range(FirstOf(x, full_k)) \subseteq Range(x)
    BY <1>6, <2>1, FirstOfHits
  <2> QED BY <1>2, <2>1, <2>2
<1>8. got.used \in Nat /\ Spent(got.used, budget, used) /\ HitList(got.full, Mine(who)) /\ Range(got.full) \subseteq Range(hits)
  <2>1. used \in Nat
    BY <1>3, <1>6
  <2> QED BY <1>3, <1>7, <2>1, SelectedHits
<1>9. got.used <= budget \/ got.used <= AgReserve
  BY <1>3, <1>6, <1>8, AgentAssumption DEF Spent
<1>10. Range(got.full) \subseteq Range(index.index)
  BY <1>7, <1>8
<1> QED BY <1>4, <1>6, <1>8, <1>9, <1>10 DEF Replied

AgentInv ==
    /\ DocsInv
    /\ Replied(agReply, Mine(agReply.who))
    /\ agReply.who \in Agents \/ agReply = Nobody

LEMMA NobodyIsReplied ==
  ASSUME NEW S
  PROVE  Replied(Nobody, S)
<1>1. HitList(<<>>, S)
  BY DEF HitList
<1>2. Range(<<>>) \subseteq Range(<<>>)
  OBVIOUS
<1> QED BY <1>1, <1>2, AgentAssumption DEF Replied, Nobody

LEMMA AgentInvInit ==
  ASSUME AgentInit
  PROVE  AgentInv
<1>1. agDocs = <<>> /\ agReply = Nobody
  BY DEF AgentInit
<1>2. DocsInv
  <2>1. <<>> = [i \in 1..0 |-> <<>>[i]]
    OBVIOUS
  <2> QED BY <1>1, <2>1 DEF DocsInv, IsNumbered
<1> QED BY <1>1, <1>2, NobodyIsReplied DEF AgentInv

(* What an agent writes goes to the end.                                    *)
LEMMA WrittenDocs ==
  ASSUME DocsInv, NEW who \in Agents, NEW t, t.toks \in Nat, t.snip \in Nat, NEW d,
         d.scope = agent_scope(who), d.who = who, d.text = t, agDocs' = Append(agDocs, d)
  PROVE  DocsInv' /\ \A w : Mine(w) \subseteq Mine(w)'
<1>1. PICK n \in Nat : agDocs = [i \in 1..n |-> agDocs[i]]
  BY DEF DocsInv, IsNumbered
<1>2. PICK s, r : s = agDocs /\ r = agDocs'
  OBVIOUS
<1>3. /\ DOMAIN s = 1..n /\ r = [i \in 1..(n + 1) |-> r[i]] /\ DOMAIN r = 1..(n + 1)
      /\ r[n + 1] = d /\ \A i \in 1..n : r[i] = s[i]
  <2>1. s = [i \in 1..n |-> s[i]] /\ r = Append(s, d)
    BY <1>1, <1>2
  <2> QED BY ONLY <2>1, n \in Nat, AppendedFacts
<1>4. /\ DOMAIN agDocs = 1..n /\ DOMAIN agDocs' = 1..(n + 1) /\ agDocs'[n + 1] = d
      /\ \A i \in 1..n : i \in 1..(n + 1) /\ agDocs'[i] = agDocs[i]
  BY <1>2, <1>3
<1>5. \A i \in 1..(n + 1) : i \in 1..n \/ i = n + 1
  OBVIOUS
<1>6. IsNumbered(agDocs')
  <2>1. agDocs' = [i \in 1..(n + 1) |-> agDocs'[i]]
    BY <1>2, <1>3
  <2>2. n + 1 \in Nat
    OBVIOUS
  <2> QED BY <2>1, <2>2 DEF IsNumbered
<1>7. ASSUME NEW i \in DOMAIN agDocs'
      PROVE  /\ agDocs'[i].who \in Agents /\ agDocs'[i].scope = agent_scope(agDocs'[i].who)
             /\ agDocs'[i].text.toks \in Nat /\ agDocs'[i].text.snip \in Nat
  <2>1. CASE i = n + 1
    BY <1>4, <2>1
  <2>2. CASE i \in 1..n
    BY <1>4, <2>2 DEF DocsInv
  <2> QED BY <1>4, <1>5, <2>1, <2>2
<1>8. DocsInv'
  BY <1>6, <1>7 DEF DocsInv
<1>9. \A w : Mine(w) \subseteq Mine(w)'
  BY <1>4 DEF Mine
<1> QED BY <1>8, <1>9

LEMMA ReplyStays ==
  ASSUME AgentInv, DocsInv', \A w : Mine(w) \subseteq Mine(w)', agReply' = agReply
  PROVE  AgentInv'
<1>1. PICK r, A, B : r = agReply /\ A = Mine(agReply.who) /\ B = (Mine(agReply.who))'
  OBVIOUS
<1>2. A \subseteq B /\ Replied(r, A)
  BY <1>1 DEF AgentInv
<1>3. Replied(r, B)
  BY <1>2, HitListGrows DEF Replied
<1>4. (Replied(agReply, Mine(agReply.who)))'
  BY <1>1, <1>3 DEF Replied
<1> QED BY <1>4 DEF AgentInv

LEMMA ReplyIsNew ==
  ASSUME AgentInv, agDocs' = agDocs, NEW who \in Agents, NEW r, r.who = who, Replied(r, Mine(who)), agReply' = r
  PROVE  AgentInv'
<1>1. DocsInv' /\ (Mine(agReply.who))' = Mine(who)
  BY DEF AgentInv, DocsInv, Mine
<1>2. (Replied(agReply, Mine(agReply.who)))'
  BY <1>1 DEF Replied
<1> QED BY <1>1, <1>2 DEF AgentInv

LEMMA AgentStep ==
  ASSUME AgentInv, AgentNext \/ UNCHANGED agVars
  PROVE  AgentInv'
<1>1. CASE UNCHANGED <<agDocs, agReply>>
  BY <1>1 DEF AgentInv, DocsInv, Mine, Replied
<1>2. ASSUME NEW a \in AgNames, NEW p \in AgNames \cup {NoProject}, AgentCall(<<a, p>>) PROVE AgentInv'
  <2>1. PICK who : who = <<a, p>>
    OBVIOUS
  <2>2. who \in Agents /\ AgentCall(who)
    BY <1>2, <2>1 DEF Agents
  <2>3. DocsInv
    BY DEF AgentInv
  <2>4. CASE AgentPut(who)
    <3>1. PICK t \in AgTexts : agDocs' = Append(agDocs, [scope |-> agent_scope(who), text |-> t, who |-> who])
      BY <2>4 DEF AgentPut
    <3>2. PICK d : d = [scope |-> agent_scope(who), text |-> t, who |-> who]
      OBVIOUS
    <3>3. t.toks \in Nat /\ t.snip \in Nat /\ d.scope = agent_scope(who) /\ d.who = who /\ d.text = t
      BY <3>2, AgentAssumption
    <3>4. DocsInv' /\ \A w : Mine(w) \subseteq Mine(w)'
      BY <2>2, <2>3, <3>1, <3>2, <3>3, WrittenDocs
    <3>5. agReply' = agReply
      BY <2>4 DEF AgentPut
    <3> QED BY <3>4, <3>5, ReplyStays
  <2>5. CASE AgentFeedback(who)
    <3>1. PICK t, d : t = [words |-> {}, toks |-> 1, snip |-> 1] /\ d = [scope |-> agent_scope(who), who |-> who, text |-> t]
      OBVIOUS
    <3>2. t.toks \in Nat /\ t.snip \in Nat /\ d.scope = agent_scope(who) /\ d.who = who /\ d.text = t
      BY <3>1
    <3>3. agDocs' = Append(agDocs, d) /\ agReply' = agReply
      BY <2>5, <3>1 DEF AgentFeedback
    <3>4. DocsInv' /\ \A w : Mine(w) \subseteq Mine(w)'
      BY <2>2, <2>3, <3>2, <3>3, WrittenDocs
    <3> QED BY <3>3, <3>4, ReplyStays
  <2>6. ASSUME NEW ids, HitList(ids, Mine(who)), agDocs' = agDocs, agReply' = [Nobody EXCEPT !.who = who, !.ids = ids]
        PROVE  AgentInv'
    <3>1. PICK r : r = agReply'
      OBVIOUS
    <3>2. r = [who |-> who, ids |-> ids, full |-> <<>>, tokens |-> 0, budget |-> 0]
      BY <2>6, <3>1 DEF Nobody
    <3>3. HitList(<<>>, Mine(who))
      BY DEF HitList
    <3>4. r.who = who /\ Replied(r, Mine(who))
      BY <2>6, <3>2, <3>3, AgentAssumption DEF Replied
    <3> QED BY <2>2, <2>6, <3>1, <3>4, ReplyIsNew
  <2>7. ASSUME NEW full, HitList(full, Mine(who)), agDocs' = agDocs, agReply' = [Nobody EXCEPT !.who = who, !.full = full]
        PROVE  AgentInv'
    <3>1. PICK r : r = agReply'
      OBVIOUS
    <3>2. r = [who |-> who, ids |-> <<>>, full |-> full, tokens |-> 0, budget |-> 0]
      BY <2>7, <3>1 DEF Nobody
    <3>3. HitList(<<>>, Mine(who))
      BY DEF HitList
    <3>4. r.who = who /\ Replied(r, Mine(who))
      BY <2>7, <3>2, <3>3, AgentAssumption DEF Replied
    <3> QED BY <2>2, <2>7, <3>1, <3>4, ReplyIsNew
  <2>8. ASSUME agDocs' = agDocs, NEW terms \in AgTerms, NEW limit \in AgLimits, NEW fetch,
               agReply' = [Nobody EXCEPT !.who = who, !.ids = SearchIndex(who, terms, limit, fetch)]
        PROVE  AgentInv'
    <3>1. limit \in Nat
      BY AgentAssumption
    <3>2. HitList(SearchIndex(who, terms, limit, fetch), Mine(who))
      BY <2>3, <3>1, SearchHits
    <3> QED BY <2>6, <2>8, <3>2
  <2>9. ASSUME agDocs' = agDocs, NEW ids, NEW n \in Nat, DOMAIN ids = 1..n,
               agReply' = [Nobody EXCEPT !.who = who, !.full = GetObservations(who, ids)]
        PROVE  AgentInv'
    <3>1. HitList(GetObservations(who, ids), Mine(who))
      BY <2>3, <2>9, GotHits
    <3> QED BY <2>7, <2>9, <3>1
  <2>10. ASSUME agDocs' = agDocs, NEW terms \in AgTerms, NEW limit \in AgLimits, NEW budget \in AgBudgets, NEW full_k \in 1..2,
                NEW clip \in {1, 9}, agReply' = AgentContext(who, terms, limit, budget, full_k, clip)
         PROVE  AgentInv'
    <3>1. PICK l \in Nat, b \in Nat, f \in Nat, c \in Nat : l = limit /\ b = budget /\ f = full_k /\ c = clip
      BY AgentAssumption
    <3>2. PICK r : r = AgentContext(who, terms, l, b, f, c)
      OBVIOUS
    <3>3. r.who = who /\ Replied(r, Mine(who))
      BY <2>3, <3>2, ContextIsReplied
    <3> QED BY <2>2, <2>10, <3>1, <3>2, <3>3, ReplyIsNew
  <2>11. ASSUME NEW ids, NEW i \in 1..AgMaxDocs, NEW j \in 1..AgMaxDocs, ids \in {<<i, j>>, [k \in DOMAIN agDocs |-> k]}
         PROVE  \E n \in Nat : DOMAIN ids = 1..n
    <3>1. CASE ids = <<i, j>>
      <4>1. DOMAIN ids = 1..2
        BY <3>1
      <4> QED BY <4>1
    <3>2. CASE ids = [k \in DOMAIN agDocs |-> k]
      <4>1. DOMAIN ids = DOMAIN agDocs
        BY <3>2
      <4> QED BY <2>3, <4>1, DocsNumbered
    <3> QED BY <2>11, <3>1, <3>2
  <2>12. CASE /\ agDocs' = agDocs
              /\ \E terms \in AgTerms, limit \in AgLimits, fetch \in {1, AgMaxDocs} :
                    agReply' = [Nobody EXCEPT !.who = who, !.ids = SearchIndex(who, terms, limit, fetch)]
    BY <2>8, <2>12, Zenon
  <2>13. CASE /\ agDocs' = agDocs
              /\ \E i, j \in 1..AgMaxDocs : \E ids \in {<<i, j>>, [k \in DOMAIN agDocs |-> k]} :
                    agReply' = [Nobody EXCEPT !.who = who, !.full = GetObservations(who, ids)]
    BY <2>9, <2>11, <2>13, Zenon
  <2>14. CASE /\ agDocs' = agDocs
              /\ \E terms \in AgTerms, limit \in AgLimits, budget \in AgBudgets, full_k \in 1..2, clip \in {1, 9} :
                    agReply' = AgentContext(who, terms, limit, budget, full_k, clip)
    BY <2>10, <2>14, Zenon
  <2> QED BY <2>2, <2>4, <2>5, <2>12, <2>13, <2>14, Zenon DEF AgentCall
<1>3. CASE AgentNext
  BY <1>1, <1>2, <1>3, Zenon DEF AgentNext, AgentLine
<1> QED BY <1>1, <1>3 DEF agVars

LEMMA AgentInvIsEnough ==
  ASSUME AgentInv
  PROVE  AgentsAreApart
<1>1. PICK r, S : r = agReply /\ S = Mine(r.who)
  OBVIOUS
<1>2. Replied(r, S) /\ HitList(r.ids, S) /\ HitList(r.full, S)
  BY <1>1 DEF AgentInv, Replied
<1>3. ASSUME NEW x, HitList(x, S), NEW k \in 1..Len(x) PROVE r.who \in Agents => agDocs[x[k]].who = r.who
  <2>1. x[k] \in S
    BY <1>3 DEF HitList
  <2>2. x[k] \in DOMAIN agDocs /\ agDocs[x[k]].scope = agent_scope(r.who)
    BY <1>1, <2>1 DEF Mine
  <2>3. agDocs[x[k]].who \in Agents /\ agDocs[x[k]].scope = agent_scope(agDocs[x[k]].who)
    BY <2>2 DEF AgentInv, DocsInv
  <2> QED BY <2>2, <2>3, ScopesDiffer
<1>4. PICK x, y, got : x = r.ids /\ y = r.full /\ got = x \o y
  OBVIOUS
<1>5. x \in Seq(S) /\ y \in Seq(S)
  BY <1>2, <1>4 DEF HitList
<1>6. ASSUME NEW k \in DOMAIN got PROVE (k \in 1..Len(x) /\ got[k] = x[k]) \/ (\E j \in 1..Len(y) : got[k] = y[j])
  <2>1. k \in 1..(Len(x) + Len(y)) /\ Len(x) \in Nat /\ Len(y) \in Nat
    <3>1. got \in Seq(S) /\ Len(got) = Len(x) + Len(y) /\ Len(x) \in Nat /\ Len(y) \in Nat
      BY <1>4, <1>5
    <3>2. DOMAIN got = 1..Len(got)
      BY <3>1
    <3> QED BY <3>1, <3>2
  <2>2. CASE k <= Len(x)
    BY <1>4, <1>5, <2>1, <2>2
  <2>3. CASE k > Len(x)
    <3>1. PICK j : j = k - Len(x)
      OBVIOUS
    <3>2. j \in 1..Len(y) /\ k = Len(x) + j
      BY <2>1, <2>3, <3>1
    <3>3. (x \o y)[Len(x) + j] = y[j]
      BY <1>5, <3>2
    <3> QED BY <1>4, <3>2, <3>3
  <2> QED BY <2>1, <2>2, <2>3
<1>7. r.who \in Agents => \A k \in DOMAIN got : agDocs[got[k]].who = r.who
  <2> SUFFICES ASSUME r.who \in Agents, NEW k \in DOMAIN got PROVE agDocs[got[k]].who = r.who
    OBVIOUS
  <2>1. HitList(x, S) /\ HitList(y, S)
    BY <1>2, <1>4
  <2>2. CASE k \in 1..Len(x) /\ got[k] = x[k]
    BY <1>3, <2>1, <2>2
  <2>3. CASE \E j \in 1..Len(y) : got[k] = y[j]
    BY <1>3, <2>1, <2>3
  <2> QED BY <1>6, <2>2, <2>3
<1>8. r = Nobody => \A k \in DOMAIN got : agDocs[got[k]].who = r.who
  <2> SUFFICES ASSUME r = Nobody PROVE DOMAIN got = {}
    OBVIOUS
  <2>1. x = <<>> /\ y = <<>>
    BY <1>4 DEF Nobody
  <2> QED BY <1>4, <2>1
<1>9. \A k \in DOMAIN got : agDocs[got[k]].who = r.who
  BY <1>1, <1>7, <1>8 DEF AgentInv
<1>10. Cardinality(Range(x)) = Len(x) /\ Cardinality(Range(y)) = Len(y)
  BY <1>2, <1>4, HitListCounts
<1>11. r.tokens <= Max({r.budget, AgReserve})
  <2>1. PICK b \in Nat, c \in Nat : b = r.budget /\ c = AgReserve
    BY <1>2, AgentAssumption DEF Replied
  <2>2. b <= Max({b, c}) /\ c <= Max({b, c})
    BY LargerOfTwo
  <2>3. Max({b, c}) \in {b, c}
    BY LargerOfTwo
  <2>4. r.tokens \in Nat /\ (r.tokens <= b \/ r.tokens <= c)
    BY <1>2, <2>1 DEF Replied
  <2> QED BY <2>1, <2>2, <2>3, <2>4
<1>12. Len(y) > 0 /\ r.budget > 0 => Range(y) \subseteq Range(x)
  BY <1>2, <1>4 DEF Replied
<1> QED BY <1>1, <1>4, <1>9, <1>10, <1>11, <1>12 DEF AgentsAreApart

(* No agent is shown what another one wrote, or the same one in another     *)
(* project, no list repeats a document, and a context keeps to its budget.  *)
(* This needs that scope_component and agent_scope can be read back: two    *)
(* agents with the same scope are the same agent in the same project.       *)
THEOREM AgentsNeverMix == Spec => []AgentsStayApart
<1>1. Init => AgentInv
  BY AgentInvInit DEF Init
<1>2. AgentInv /\ [Next]_vars => AgentInv'
  BY ContextMoves, AgentStep
<1>3. AgentInv => AgentsStayApart
  BY AgentInvIsEnough DEF AgentsStayApart
<1> QED BY <1>1, <1>2, <1>3, PTL DEF Spec
=============================================================================
