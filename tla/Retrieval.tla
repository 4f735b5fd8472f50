------------------------------ MODULE Retrieval ------------------------------
(***************************************************************************)
(* How answers are put together once the indexes have been asked           *)
(* (synapse-core db.rs, sota.rs, sota_pipeline.rs; synapse-graph hippo.rs; *)
(* synapse-fusion, synapse-rerank, synapse-splade, synapse-colbert).       *)
(*                                                                         *)
(*  "recall"  Store::recall and search_hybrid_hippo: a chain of SELECTs    *)
(*            with no transaction round them, while others write;          *)
(*  "fusion"  reciprocal rank fusion in its several hands, the graded      *)
(*            pipeline and the reranking cascade, over all small rankings; *)
(*  "filter"  search under a metadata predicate: oversample, then look     *)
(*            the metadata up in a second statement;                       *)
(*  "sparse"  the block-max index of sparse vectors;                       *)
(*  "colbert" token vectors in three tables, written one after the other.  *)
(*                                                                         *)
(* The five share no state; rtJob says which of them runs.  What an index  *)
(* answers is any ranking; scores are integers in units of 1 / RtScale.    *)
(***************************************************************************)
EXTENDS Integers, Sequences, FiniteSets, SequencesExt, FiniteSetsExt, TLC

CONSTANTS RtRrfK,        \* the constant of rank fusion, 60 in the code
          RtScale,       \* a common multiple of RtRrfK + rank
          RtAllDocs, RtMemTable, RtEdgeTable, \* the brain a recall starts from
          RtModes, RtMaxHops, RtK,
          RtEdgeCap,     \* edges read of one memory (64 in the code)
          RtHopCap,      \* memories looked up of one hop (200 in the code)
          RtMaxChanges,  \* bound on foreign writes
          RtIds, RtFloors, RtGrades,
          RtPreds, RtMetas, RtEfs, RtFilterDocs,
          RtVectors, RtQueries, RtBlock, RtMaxSparse,
          RtColDocs, RtMaxAdds

ASSUME RtScaleDivides == \A r \in 1..4 : RtScale % (RtRrfK + r) = 0

VARIABLES rtJob,
          rtDocs, rtMems, rtEdges, rtCall, rtChanges,
          rtIn,
          rtFind,
          rtTerms, rtPending, rtVecs,
          rtFde, rtF32, rtI8, rtAdd, rtAdds

rtRecall == <<rtDocs, rtMems, rtEdges, rtCall, rtChanges>>
rtSparse == <<rtTerms, rtPending, rtVecs>>
rtColbert == <<rtFde, rtF32, rtI8, rtAdd, rtAdds>>
rtVars == <<rtJob, rtRecall, rtIn, rtFind, rtSparse, rtColbert>>

-----------------------------------------------------------------------------
(* Rankings                                                                *)

\* Everything a sort by falling score, cut off at limit, can return: an
\* unstable sort, or one that starts from a hash map, leaves ties open.
RankedBy(scores, limit) ==
    LET n == Min({limit, Cardinality(DOMAIN scores)}) IN
    {s \in [1..n -> DOMAIN scores] :
        /\ \A i, j \in 1..n : i < j => s[i] # s[j] /\ scores[s[i]] >= scores[s[j]]
        /\ \A d \in DOMAIN scores : (\A i \in 1..n : s[i] # d) => n = 0 \/ scores[d] <= scores[s[n]]}

Rrf(rank) == RtScale \div (RtRrfK + rank)

\* One more list added to a map of scores, each place worth weight * Rrf.
AddList(scores, list, weight) ==
    FoldLeft(LAMBDA f, i : IF list[i] \in DOMAIN f THEN [f EXCEPT ![list[i]] = @ + weight * Rrf(i)]
                           ELSE f @@ (list[i] :> weight * Rrf(i)),
             scores, [i \in DOMAIN list |-> i])

NoScores == [d \in {} |-> 0]

muvera_rrf(dense, colbert) == AddList(AddList(NoScores, dense, 1), colbert, 1)

\* alpha in tenths: how much the graph counts.
rrf_hippo(vec, hippo, alpha) == AddList(AddList(NoScores, vec, 10 - alpha), hippo, alpha)

\* lists of [ids, w]; weights gives some documents' type weight in hundredths.
rrf_typed(lists, weights) ==
    LET sum == FoldLeft(LAMBDA f, l : AddList(f, l.ids, l.w), NoScores, lists)
    IN [d \in DOMAIN sum |-> sum[d] * (IF d \in DOMAIN weights THEN weights[d] ELSE 100)]

\* Mutant: the pairs are not brought together by id before the merge.
PairsUnsorted(lex, vec) ==
    [i \in 1..Len(lex) |-> [id |-> lex[i], score |-> Rrf(i)]] \o [i \in 1..Len(vec) |-> [id |-> vec[i], score |-> Rrf(i)]]

\* rrf_merge_neon without a hash map: the (id, score) pairs of both lists in
\* the order of the ids ...
Pairs(lex, vec) ==
    SortSeq([i \in 1..Len(lex) |-> [id |-> lex[i], score |-> Rrf(i)]]
            \o [i \in 1..Len(vec) |-> [id |-> vec[i], score |-> Rrf(i)]],
            LAMBDA a, b : a.id < b.id)

\* ... and each run of one id summed up.
MergedRuns(pairs) ==
    FoldLeft(LAMBDA m, p : IF m # <<>> /\ m[Len(m)].id = p.id
                           THEN [m EXCEPT ![Len(m)].score = @ + p.score] ELSE Append(m, p),
             <<>>, pairs)

rrf_merge_neon(lex, vec) == MergedRuns(Pairs(lex, vec))

\* pipeline_recall: the sub-results one after the other, a document's places
\* in the whole row of them added up.
PipelineFused(subs) == AddList(NoScores, FoldLeft(LAMBDA a, s : a \o s, <<>>, subs), 1)

\* The graded list keeps the order of the fused scores; what it shows is a
\* blend (0.6 fused, 0.4 grade), in tenths of 1 / RtScale.  Grades are tenths.
Graded(order, fused, grade, floor, k) ==
    LET kept == IF floor <= 0 THEN order ELSE SelectSeq(order, LAMBDA d : grade[d] >= floor)
        shown(d) == IF floor <= 0 THEN 10 * fused[d] ELSE 6 * fused[d] + (4 * grade[d] * RtScale) \div 10
    IN [i \in 1..Min({k, Len(kept)}) |-> [id |-> kept[i], score |-> shown(kept[i])]]

\* Mutant: the cheap stage keeps its own number, whatever was asked for.
StageOneNarrow(stage1_top, top_k) == stage1_top

StageOne(stage1_top, top_k) == Max({stage1_top, top_k})

\* CascadeReranker: the order a reranker gives is any; the identity reranker
\* keeps the one it was given.
CascadeOuts(cands, stage1_top, top_k) ==
    LET cut(s, n) == SubSeq(s, 1, Min({n, Len(s)}))
        rerank(s, n) == {cut(t, n) : t \in SetToSeqs(ToSet(s))}
    IN UNION {rerank(s1, top_k) : s1 \in rerank(cands, StageOne(stage1_top, top_k))}

-----------------------------------------------------------------------------
(* Recall, one SELECT at a time                                            *)

NoCall == [stage |-> "idle"]

\* The memories a query can take for current.
Current == {m \in DOMAIN rtMems : rtMems[m].sup = 0}

\* default_weight, in hundredths, for the two types told apart here.
default_weight(m) == IF rtMems[m].fact THEN 120 ELSE 100

\* Mutant: hits are built from what the index says, deleted rows included.
HydrateAll(ids) == ids

\* hydrate_hits_*: the rows of the ids in one SELECT, in the order of the
\* index; ids that have no row any more are left out.
Hydrate(ids) == SelectSeq(ids, LAMBDA d : d \in rtDocs)

\* The same for the index in RAM: pairs of id and distance in, each id once.
hydrate_hits_by_id_dist(ids) ==
    SelectSeq([i \in DOMAIN ids |-> IF \E j \in 1..(i - 1) : ids[j] = ids[i] THEN 0 ELSE ids[i]], LAMBDA d : d \in rtDocs)

Rankings(S) == UNION {SetToSeqs(T) : T \in SUBSET S}

\* The vectors' answer, from an index in memory that may still hold deleted
\* documents.  The ghost remembers what was gone before the call began, and
\* the current memories and the edges there were at any moment of it.
RecallVec ==
    /\ rtCall.stage = "idle"
    /\ \E mode \in RtModes, ids \in Rankings(RtAllDocs) :
       \E vec \in {Hydrate(ids), hydrate_hits_by_id_dist(ids)} :
          rtCall' = [stage |-> "lex", mode |-> mode, vec |-> vec,
                     ghost |-> [seen |-> Current, ever |-> rtEdges, gone |-> RtAllDocs \ rtDocs, quiet |-> TRUE]]
    /\ UNCHANGED <<rtDocs, rtMems, rtEdges, rtChanges>>

\* The words' answer (read from the documents' own tables), and both fused.
RecallLex ==
    /\ rtCall.stage = "lex"
    /\ \E lex \in {s \in Rankings(rtDocs) : Len(s) <= 1} :
       \E base \in RankedBy(muvera_rrf(lex, rtCall.vec), Cardinality(RtAllDocs)) :
          rtCall' = [stage |-> IF rtCall.mode = "hippo" THEN "seeds" ELSE "memories",
                     mode |-> rtCall.mode, base |-> base,
                     ghost |-> rtCall.ghost]
    /\ UNCHANGED <<rtDocs, rtMems, rtEdges, rtChanges>>

\* mem_for_doc: of a document's current memories the row read last stays.
MemChoices(base) ==
    LET own(d) == {m \in Current : rtMems[m].doc = d}
        having == {d \in ToSet(base) : own(d) # {}}
    IN {f \in [having -> Current] : \A d \in having : f[d] \in own(d)}

RecallMemories ==
    /\ rtCall.stage = "memories"
    /\ \E memFor \in MemChoices(rtCall.base) :
          LET c == rtCall
              ms == {memFor[d] : d \in DOMAIN memFor}
              walk == c.mode # "plain" /\ ms # {}
          IN \E q \in IF c.mode = "expand" /\ walk THEN SetToSeqs(ms) ELSE {<<>>} :
             rtCall' = [stage |-> IF ~walk THEN "fuse" ELSE c.mode, mode |-> c.mode, base |-> c.base, memFor |-> memFor,
                        queue |-> q, dist |-> [m \in ms |-> 0], hops |-> {},
                        weight |-> [d \in DOMAIN memFor |-> default_weight(memFor[d])],
                        lists |-> <<[ids |-> c.base, w |-> 10 ^ (RtMaxHops + 1)]>>,
                        ghost |-> c.ghost]
    /\ UNCHANGED <<rtDocs, rtMems, rtEdges, rtChanges>>

\* The SELECT of a memory's edges: its LIMIT takes the first in the order of
\* the key (src_id, dst_id).
Edges(E, m) == {e[2] : e \in {x \in E : x[1] = m}}
Out(m) == {n \in Edges(rtEdges, m) : Cardinality({o \in Edges(rtEdges, m) : o < n}) < RtEdgeCap}

\* Mutant: the test lets one hop too many through.
GoesOnPast(hop) == hop <= RtMaxHops

GoesOn(hop) == hop < RtMaxHops

\* multi_hop_neighbors: the next node of the queue, its edges in one SELECT.
RecallWalk ==
    /\ rtCall.stage = "expand" /\ rtCall.queue # <<>>
    /\ LET m == Head(rtCall.queue)
           hop == rtCall.dist[m]
           new == IF GoesOn(hop) THEN Out(m) \ DOMAIN rtCall.dist ELSE {}
           dist == rtCall.dist @@ [n \in new |-> hop + 1]
           rest == Tail(rtCall.queue) \o SetToSeq(new)
       IN rtCall' = [rtCall EXCEPT !.queue = rest, !.dist = dist,
                        !.hops = IF rest = <<>> THEN {dist[n] : n \in DOMAIN dist} \ {0} ELSE @,
                        !.stage = IF rest # <<>> THEN @
                                  ELSE IF \A n \in DOMAIN dist : dist[n] = 0 THEN "fuse" ELSE "resolve"]
    /\ UNCHANGED <<rtDocs, rtMems, rtEdges, rtChanges>>

\* Mutant: the documents of superseded memories as well.
ResolveAll(ms) == {m \in ms : m \in DOMAIN rtMems}

Resolve(ms) == ms \cap Current

\* The documents of one hop's memories, in the order of the rows and no more
\* than LIMIT, weighted 0.6 ^ hop; hops come in the order of a hash map.
RecallResolve ==
    /\ rtCall.stage = "resolve"
    /\ \E hop \in rtCall.hops :
          LET ms == SortSeq(SetToSeq(Resolve({m \in DOMAIN rtCall.dist : rtCall.dist[m] = hop})), <)
              ids == [i \in 1..Min({RtHopCap, Len(ms)}) |-> rtMems[ms[i]].doc]
          IN rtCall' = [rtCall EXCEPT
                 !.lists = IF ids = <<>> THEN @ ELSE Append(@, [ids |-> ids, w |-> 6 ^ hop * 10 ^ (RtMaxHops + 1 - hop)]),
                 !.hops = @ \ {hop},
                 !.stage = IF rtCall.hops = {hop} THEN "fuse" ELSE @]
    /\ UNCHANGED <<rtDocs, rtMems, rtEdges, rtChanges>>

\* What personalized_pagerank gives mass to (GraphStore models the masses):
\* the seeds and what the rounds reach from them.
Massed(seeds) == FoldLeft(LAMBDA S, i : S \cup UNION {Out(m) : m \in S}, seeds, [i \in 1..RtMaxHops |-> i])

RecallPpr ==
    /\ rtCall.stage = "ppr"
    /\ \E order \in SetToSeqs(Massed(DOMAIN rtCall.dist)) :
          rtCall' = [rtCall EXCEPT !.stage = "pprdocs", !.queue = order]
    /\ UNCHANGED <<rtDocs, rtMems, rtEdges, rtChanges>>

RecallPprDocs ==
    /\ rtCall.stage = "pprdocs"
    /\ LET ms == SelectSeq(rtCall.queue, LAMBDA m : m \in Resolve(ToSet(rtCall.queue)))
           ids == [i \in DOMAIN ms |-> rtMems[ms[i]].doc]
       IN rtCall' = [rtCall EXCEPT !.stage = "fuse", !.queue = <<>>,
                         !.lists = IF ids = <<>> THEN @ ELSE Append(@, [ids |-> ids, w |-> 10 ^ (RtMaxHops + 1)])]
    /\ UNCHANGED <<rtDocs, rtMems, rtEdges, rtChanges>>

\* rrf_typed; the call turns to the documents one by one.
RecallFuse ==
    /\ rtCall.stage = "fuse"
    /\ LET c == rtCall
           scores == rrf_typed(c.lists, c.weight)
       IN \E order \in RankedBy(scores, Cardinality(RtAllDocs)) :
          rtCall' = [stage |-> "heat", mode |-> c.mode, base |-> c.base, memFor |-> c.memFor,
                     scores |-> scores, left |-> order, ghost |-> c.ghost]
    /\ UNCHANGED <<rtDocs, rtMems, rtEdges, rtChanges>>

\* Heat: the newest current memory of the document, 10 or (faded) 3 tenths.
RecallHeat ==
    /\ rtCall.stage = "heat" /\ rtCall.left # <<>>
    /\ LET d == Head(rtCall.left)
           own == {m \in Current : rtMems[m].doc = d}
           decay == IF own # {} /\ (\A m \in own : rtMems[m].old) THEN 3 ELSE 10
       IN rtCall' = [rtCall EXCEPT !.scores[d] = @ * decay, !.left = Tail(@)]
    /\ UNCHANGED <<rtDocs, rtMems, rtEdges, rtChanges>>

\* Sorted again and cut to k.  A document that came in by an edge alone has
\* neither text nor memory.
RecallEnd ==
    /\ rtCall.stage = "heat" /\ rtCall.left = <<>>
    /\ LET c == rtCall IN
       \E order \in RankedBy(c.scores, RtK) :
          rtCall' = [stage |-> "done", mode |-> c.mode, base |-> c.base, memFor |-> c.memFor,
                     hits |-> [i \in DOMAIN order |->
                                  [id |-> order[i], score |-> c.scores[order[i]], text |-> order[i] \in ToSet(c.base),
                                   mem |-> IF order[i] \in DOMAIN c.memFor THEN c.memFor[order[i]] ELSE 0]],
                     ghost |-> c.ghost]
    /\ UNCHANGED <<rtDocs, rtMems, rtEdges, rtChanges>>

\* The same walk for hippo_retrieve, with rounds enough for the whole graph; a
\* node without edges gives its mass back to the seeds.
HippoMassed(seeds) ==
    FoldLeft(LAMBDA S, i : seeds \cup UNION {IF Out(m) = {} THEN seeds ELSE Out(m) : m \in S} \cup S,
             seeds, [i \in DOMAIN RtMemTable |-> i])

\* hippo_retrieve: memories of the query's entities, current or not ...
HippoSeeds ==
    /\ rtCall.stage = "seeds"
    /\ LET seeds == {m \in DOMAIN rtMems : rtMems[m].ent}
           reached == HippoMassed(seeds)
       IN \E order \in SetToSeqs(reached) :
          rtCall' = [stage |-> "hippo", mode |-> "hippo", base |-> rtCall.base, ppr |-> order, docs |-> <<>>,
                     ghost |-> rtCall.ghost]
    /\ UNCHANGED <<rtDocs, rtMems, rtEdges, rtChanges>>

\* ... each looked up for its document, which keeps its best score ...
HippoDoc ==
    /\ rtCall.stage = "hippo" /\ rtCall.ppr # <<>>
    /\ LET m == Head(rtCall.ppr)
           d == IF m \in DOMAIN rtMems THEN rtMems[m].doc ELSE 0
       IN rtCall' = [rtCall EXCEPT !.ppr = Tail(@),
                        !.docs = IF d = 0 \/ d \in ToSet(@) THEN @ ELSE Append(@, d)]
    /\ UNCHANGED <<rtDocs, rtMems, rtEdges, rtChanges>>

\* ... and fused with the hybrid hits; rows are fetched by id.
HippoEnd ==
    /\ rtCall.stage = "hippo" /\ rtCall.ppr = <<>>
    /\ LET c == rtCall
           scores == rrf_hippo(c.base, c.docs, 4)
       IN \E order \in RankedBy(scores, RtK) :
          LET found == Hydrate(order) IN
          rtCall' = [stage |-> "done", mode |-> "hippo", base |-> c.base, memFor |-> NoScores,
                     hits |-> [i \in DOMAIN found |-> [id |-> found[i], score |-> scores[found[i]], text |-> TRUE, mem |-> 0]],
                     ghost |-> c.ghost]
    /\ UNCHANGED <<rtDocs, rtMems, rtEdges, rtChanges>>

\* Others: a memory is superseded by another one, with the edge that says so;
\* a document goes with its memories and their edges, and what they had
\* superseded is current again.
RtForeign(mems, edges) ==
    /\ rtChanges < RtMaxChanges /\ rtChanges' = rtChanges + 1
    /\ rtMems' = mems /\ rtEdges' = edges
    /\ rtCall' = IF rtCall.stage \in {"idle", "done"} THEN rtCall
                 ELSE [rtCall EXCEPT !.ghost.quiet = FALSE, !.ghost.ever = @ \cup edges,
                      !.ghost.seen = @ \cup {m \in DOMAIN mems : mems[m].sup = 0}]

RtSupersede(old, new) ==
    /\ old # new /\ {old, new} \subseteq Current
    /\ RtForeign([rtMems EXCEPT ![old].sup = new], rtEdges \cup {<<new, old>>})
    /\ UNCHANGED rtDocs

RtDelete(d) ==
    LET gone == {m \in DOMAIN rtMems : rtMems[m].doc = d} IN
    /\ rtDocs' = rtDocs \ {d}
    /\ RtForeign([m \in DOMAIN rtMems \ gone |-> IF rtMems[m].sup \in gone THEN [rtMems[m] EXCEPT !.sup = 0] ELSE rtMems[m]],
                 {e \in rtEdges : e[1] \notin gone /\ e[2] \notin gone})

RtRecallNext ==
    \/ RecallVec \/ RecallLex \/ RecallMemories \/ RecallWalk \/ RecallResolve \/ RecallPpr \/ RecallPprDocs
    \/ RecallFuse \/ RecallHeat \/ RecallEnd \/ HippoSeeds \/ HippoDoc \/ HippoEnd
    \/ \E a, b \in DOMAIN rtMems : RtSupersede(a, b)
    \/ \E d \in rtDocs : RtDelete(d)

-----------------------------------------------------------------------------
(* Search under a predicate                                                *)

\* MetadataPredicate::matches.  RtPreds is a sequence of [op, v, args], args
\* being earlier predicates; metadata is one number, 0 for none.
matches(pred, meta) ==
    LET m[i \in DOMAIN RtPreds] ==
            LET p == RtPreds[i] IN
            CASE p.op = "and" -> \A j \in ToSet(p.args) : m[j]
              [] p.op = "or" -> \E j \in ToSet(p.args) : m[j]
              [] p.op = "not" -> ~m[p.args[1]]
              [] p.op = "eq" -> meta # 0 /\ meta = p.v
              [] p.op = "ne" -> meta # 0 /\ meta # p.v
              [] p.op = "gt" -> meta # 0 /\ meta > p.v
              [] p.op = "in" -> meta # 0 /\ meta \in ToSet(p.args)
    IN m[pred]

\* In percent.
estimated_selectivity(pred) ==
    LET s[i \in DOMAIN RtPreds] ==
            LET p == RtPreds[i] IN
            CASE p.op = "and" -> Max({1, FoldLeft(LAMBDA a, j : (a * s[j]) \div 100, 100, p.args)})
              [] p.op = "or" -> Min({99, 100 - FoldLeft(LAMBDA a, j : (a * (100 - s[j])) \div 100, 100, p.args)})
              [] p.op = "not" -> Max({1, 100 - s[p.args[1]]})
              [] p.op = "eq" -> 50
              [] p.op = "ne" -> 90
              [] p.op = "gt" -> 30
              [] p.op = "in" -> Min({90, 20 * Len(p.args)})
    IN s[pred]

\* ef 0 stands for no override.
EfMult(pred, ef) ==
    IF ef # 0 THEN ef ELSE LET s == estimated_selectivity(pred) IN Max({2, Min({32, (99 + s) \div s})})

\* Mutant: one candidate more than asked for.
OversampledByOne(mode, pred, ef, limit) == limit + 1

Oversampled(mode, pred, ef, limit) ==
    IF mode = "lex" THEN limit * EfMult(pred, ef) ELSE Max({limit * EfMult(pred, ef), limit + 1})

\* The best k of the index, or of docs_vec when it is empty or fails; documents
\* are numbered by rank.
search_vec_oversampled(k) == [i \in 1..Min({RtFilterDocs, k}) |-> i]

\* search_with_options
FindCandidates ==
    /\ rtFind.stage = "start"
    /\ rtFind' = [rtFind EXCEPT !.stage = "meta",
                     !.cands = search_vec_oversampled(Oversampled(rtFind.mode, rtFind.pred, rtFind.ef, rtFind.limit))]

\* filter_hits_by_meta: the metadata of the candidates, read afterwards; a
\* row that is gone by now has none.
FindFilter ==
    /\ rtFind.stage = "meta"
    /\ LET ok == SelectSeq(rtFind.cands, LAMBDA d : matches(rtFind.pred, rtFind.meta[d]))
       IN rtFind' = [rtFind EXCEPT !.stage = "done", !.out = SubSeq(ok, 1, Min({rtFind.limit, Len(ok)}))]

\* Another connection writes or deletes one document in between.
FindChange ==
    /\ rtFind.stage = "meta" /\ rtFind.was = <<>>
    /\ \E d \in 1..RtFilterDocs, v \in RtMetas :
          /\ v # rtFind.meta[d]
          /\ rtFind' = [rtFind EXCEPT !.was = rtFind.meta, !.meta[d] = v]

-----------------------------------------------------------------------------
(* Sparse vectors                                                          *)

RtTerms == DOMAIN RtQueries[1]

\* Block::from_postings: in the order of the documents.
Sealed(postings) == SortSeq(postings, LAMBDA a, b : a.d < b.d)

\* Mutant: a block's bound is its last weight.
MaxWeightLast(block) == block[Len(block)].w

MaxWeight(block) == Max({block[i].w : i \in DOMAIN block})

SparseAdd(v) ==
    LET d == Len(rtVecs) + 1
        buf(t) == IF v[t] = 0 THEN rtPending[t] ELSE Append(rtPending[t], [d |-> d, w |-> v[t]])
        full(t) == Len(buf(t)) >= RtBlock
    IN /\ Len(rtVecs) < RtMaxSparse
       /\ rtVecs' = Append(rtVecs, v)
       /\ rtTerms' = [t \in RtTerms |-> IF full(t) THEN Append(rtTerms[t], Sealed(buf(t))) ELSE rtTerms[t]]
       /\ rtPending' = [t \in RtTerms |-> IF full(t) THEN <<>> ELSE buf(t)]

SparseFlush ==
    /\ \E t \in RtTerms : rtPending[t] # <<>>
    /\ rtTerms' = [t \in RtTerms |-> IF rtPending[t] = <<>> THEN rtTerms[t] ELSE Append(rtTerms[t], Sealed(rtPending[t]))]
    /\ rtPending' = [t \in RtTerms |-> <<>>]
    /\ UNCHANGED rtVecs

TermBound(q, t) == q[t] * Max({MaxWeight(rtTerms[t][i]) : i \in DOMAIN rtTerms[t]})

\* The query's terms, the most promising first.
TermOrders(q) ==
    {s \in SetToSeqs({t \in RtTerms : q[t] > 0 /\ rtTerms[t] # <<>>}) :
        \A i, j \in DOMAIN s : i < j => TermBound(q, s[i]) >= TermBound(q, s[j])}

\* One posting: the document's score grows and goes to the heap, which keeps
\* its earlier entries; past 4 k entries the least is dropped.
Posting(st, p, qw, k) ==
    LET s == (IF p.d \in DOMAIN st.scores THEN st.scores[p.d] ELSE 0) + qw * p.w
        heap == IF Len(st.heap) < k \/ s > st.heap[1] THEN SortSeq(Append(st.heap, s), <) ELSE st.heap
    IN [scores |-> (p.d :> s) @@ st.scores, heap |-> IF Len(heap) > 4 * k THEN Tail(heap) ELSE heap]

\* Mutant: a block is skipped before k documents are known.
SkippedEarly(heap, k, upper) == heap # <<>> /\ upper <= heap[1]

Skipped(heap, k, upper) == Len(heap) >= k /\ upper <= heap[1]

\* The scores search_topk has when it ranks.
search_topk(q, k, order) ==
    LET later(i) == FoldLeft(LAMBDA a, j : a + (IF j > i THEN TermBound(q, order[j]) ELSE 0), 0, [j \in DOMAIN order |-> j])
        block(st, b, i) == IF Skipped(st.heap, k, q[order[i]] * MaxWeight(b) + later(i)) THEN st
                           ELSE FoldLeft(LAMBDA a, p : Posting(a, p, q[order[i]], k), st, b)
        term(st, i) == FoldLeft(LAMBDA a, b : block(a, b, i), st, rtTerms[order[i]])
    IN FoldLeft(term, [scores |-> NoScores, heap |-> <<>>], [i \in DOMAIN order |-> i]).scores

\* SpladeIndex::search, the same over the postings table: every shared term.
SpladeSearch(q) ==
    LET dot(d) == FoldLeft(LAMBDA a, t : a + q[t] * rtVecs[d][t], 0, SetToSeq(RtTerms))
    IN [d \in {e \in DOMAIN rtVecs : dot(e) > 0} |-> dot(d)]

-----------------------------------------------------------------------------
(* Token vectors                                                           *)

\* add_colbert: the summary vector, then the token vectors; add_colbert_i8:
\* the other way round.  Rows carry the number of the call that wrote them.
ColbertStart(d, kind) ==
    LET v == rtAdds.n + 1 IN
    /\ v <= RtMaxAdds
    /\ rtAdds' = [rtAdds EXCEPT !.n = v]
    /\ rtAdd' = rtAdd \cup {[d |-> d, kind |-> kind, v |-> v]}
    /\ IF kind = "f32" THEN rtFde' = [rtFde EXCEPT ![d] = v] /\ UNCHANGED rtI8
       ELSE rtI8' = [rtI8 EXCEPT ![d] = v] /\ UNCHANGED rtFde
    /\ UNCHANGED rtF32

ColbertFinish(a) ==
    /\ rtAdd' = rtAdd \ {a}
    /\ IF a.kind = "f32" THEN rtF32' = [rtF32 EXCEPT ![a.d] = a.v] /\ UNCHANGED rtFde
       ELSE rtFde' = [rtFde EXCEPT ![a.d] = a.v] /\ UNCHANGED rtF32
    /\ rtAdds' = IF a.kind = "f32" THEN [rtAdds EXCEPT !.f32[a.d] = a.v] ELSE [rtAdds EXCEPT !.i8[a.d] = Max({@, a.v})]
    /\ UNCHANGED rtI8

ColbertKill(a) == /\ rtAdd' = rtAdd \ {a} /\ UNCHANGED <<rtFde, rtF32, rtI8, rtAdds>>

\* Mutant: the float vectors are tried first.
TokensFloatFirst(d) == IF rtF32[d] # 0 THEN rtF32[d] ELSE rtI8[d]

\* The vectors a candidate is scored with: the i8 row before the float row.
Tokens(d) == IF rtI8[d] # 0 THEN rtI8[d] ELSE rtF32[d]

\* search_muvera_then_rerank: every summary row is a candidate; one without
\* token vectors is left out.
search_muvera == [d \in {e \in RtColDocs : rtFde[e] # 0 /\ Tokens(e) # 0} |-> Tokens(d)]

-----------------------------------------------------------------------------
RtNoIn == [a |-> <<>>, b |-> <<>>]
RtNoFind == [stage |-> "none"]

RetrievalInit ==
    /\ rtJob \in {"recall", "fusion", "filter", "sparse", "colbert"}
    /\ rtDocs = RtAllDocs /\ rtMems = RtMemTable /\ rtEdges = RtEdgeTable /\ rtCall = NoCall /\ rtChanges = 0
    /\ IF rtJob = "fusion" THEN rtIn \in [a : Rankings(RtIds), b : Rankings(RtIds)] ELSE rtIn = RtNoIn
    /\ IF rtJob = "filter"
       THEN rtFind \in [stage : {"start"}, mode : {"lex", "vec"}, pred : DOMAIN RtPreds, limit : 1..2, ef : RtEfs,
                        meta : [1..RtFilterDocs -> RtMetas], cands : {<<>>}, out : {<<>>}, was : {<<>>}]
       ELSE rtFind = RtNoFind
    /\ rtTerms = [t \in RtTerms |-> <<>>] /\ rtPending = [t \in RtTerms |-> <<>>] /\ rtVecs = <<>>
    /\ rtFde = [d \in RtColDocs |-> 0] /\ rtF32 = rtFde /\ rtI8 = rtFde /\ rtAdd = {}
    /\ rtAdds = [n |-> 0, f32 |-> rtFde, i8 |-> rtFde]

RetrievalNext ==
    /\ UNCHANGED <<rtJob, rtIn>>
    /\ \/ rtJob = "recall" /\ RtRecallNext /\ UNCHANGED <<rtFind, rtSparse, rtColbert>>
       \/ rtJob = "filter" /\ (FindCandidates \/ FindFilter \/ FindChange) /\ UNCHANGED <<rtRecall, rtSparse, rtColbert>>
       \/ rtJob = "sparse" /\ ((\E v \in RtVectors : SparseAdd(v)) \/ SparseFlush)
                           /\ UNCHANGED <<rtRecall, rtFind, rtColbert>>
       \/ /\ rtJob = "colbert" /\ UNCHANGED <<rtRecall, rtFind, rtSparse>>
          /\ \/ \E d \in RtColDocs, kind \in {"f32", "i8"} : ColbertStart(d, kind)
             \/ \E a \in rtAdd : ColbertFinish(a) \/ ColbertKill(a)

-----------------------------------------------------------------------------
(* Properties                                                              *)

\* A recall among foreign writes names no document twice and keeps its order
\* and length.  No document that was gone before the call began is in it;
\* one without text came in by edges; a memory it names was its document's
\* and current at some moment of the call.
HitsAreHonest ==
    rtCall.stage = "done" =>
    LET h == rtCall.hits IN
    /\ Len(h) <= RtK
    /\ \A i, j \in DOMAIN h : i < j => h[i].id # h[j].id /\ h[i].score >= h[j].score
    /\ \A i \in DOMAIN h :
          /\ h[i].id \notin rtCall.ghost.gone
          /\ ~h[i].text => h[i].id \notin ToSet(rtCall.base)
          /\ h[i].mem # 0 => RtMemTable[h[i].mem].doc = h[i].id /\ h[i].mem \in rtCall.ghost.seen

\* What comes in by edges is the document of a memory at most max_hops edges
\* from a memory of a base hit, current at some moment of the call; and when
\* nobody wrote meanwhile, one of those is missing only if some memory on the
\* way has more edges, or some hop more memories, than one SELECT takes.
ExpansionIsExact ==
    rtCall.stage = "done" /\ rtCall.mode = "expand" =>
    LET ever == rtCall.ghost.ever
        near(n) == FoldLeft(LAMBDA S, i : S \cup UNION {Edges(ever, m) : m \in S},
                            {rtCall.memFor[d] : d \in DOMAIN rtCall.memFor}, [i \in 1..n |-> i])
        ids == {rtCall.hits[i].id : i \in DOMAIN rtCall.hits}
        reached == {RtMemTable[m].doc : m \in near(RtMaxHops) \cap rtCall.ghost.seen}
        limited == \/ \E m \in near(RtMaxHops - 1) : Cardinality(Edges(ever, m)) > RtEdgeCap
                   \/ \E n \in 1..RtMaxHops : Cardinality((near(n) \ near(n - 1)) \cap rtCall.ghost.seen) > RtHopCap
    IN /\ ids \ ToSet(rtCall.base) \subseteq reached
       /\ rtCall.ghost.quiet /\ ~limited => Cardinality(ids) = Min({RtK, Cardinality(ToSet(rtCall.base) \cup reached)})

\* What rrf_merge_neon gets by sorting is what the hash maps of the other
\* three compute: every document once, with the sum of its places.
FusionsAgree ==
    rtJob = "fusion" =>
    LET neon == rrf_merge_neon(rtIn.a, rtIn.b)
        place(s, d) == IF d \in ToSet(s) THEN Rrf(CHOOSE i \in DOMAIN s : s[i] = d) ELSE 0
        sum == [d \in ToSet(rtIn.a) \cup ToSet(rtIn.b) |-> place(rtIn.a, d) + place(rtIn.b, d)]
    IN /\ Len(neon) = Cardinality(DOMAIN sum)
       /\ \A i \in DOMAIN neon : sum[neon[i].id] = neon[i].score
       /\ muvera_rrf(rtIn.a, rtIn.b) = sum
       /\ rrf_typed(<<[ids |-> rtIn.a, w |-> 1], [ids |-> rtIn.b, w |-> 1]>>, NoScores) = [d \in DOMAIN sum |-> 100 * sum[d]]
       /\ rrf_hippo(rtIn.a, rtIn.b, 5) = [d \in DOMAIN sum |-> 5 * sum[d]]

\* The pipeline never returns a document twice or one graded under the
\* floor, and drops nothing else; without a floor its order is that of the
\* scores it shows.  The cascade returns as many hits as one reranker would.
StagesDropNothing ==
    rtJob = "fusion" =>
    LET fused == PipelineFused(<<rtIn.a, rtIn.b>>) IN
    /\ \A floor \in RtFloors, grade \in [RtIds -> RtGrades], order \in RankedBy(fused, Cardinality(RtIds)) :
          LET out == Graded(order, fused, grade, floor, RtK)
              good == {d \in DOMAIN fused : floor <= 0 \/ grade[d] >= floor}
          IN /\ Len(out) = Min({RtK, Cardinality(good)})
             /\ \A i \in DOMAIN out : out[i].id \in good /\ \A j \in DOMAIN out : i < j => out[i].id # out[j].id
             /\ floor <= 0 => \A i, j \in DOMAIN out : i < j => out[i].score >= out[j].score
    /\ \A top_k \in 1..3, s1 \in 1..2 : \A out \in CascadeOuts(rtIn.a, s1, top_k) : Len(out) = Min({top_k, Len(rtIn.a)})

\* A search under a predicate returns only candidates that matched when their
\* metadata was read, in order, and as many as asked for whenever the true
\* share of matches among the candidates is no smaller than the estimate.
\* A write in between moves the answer at one document only.
FilterKeepsPromise ==
    rtFind.stage = "done" =>
    LET f == rtFind
        n == Len(f.cands)
        hitsAt(meta) == {i \in 1..n : matches(f.pred, meta[i])}
        enough(meta) == 100 * Cardinality(hitsAt(meta)) >= estimated_selectivity(f.pred) * n
        firsts(meta) == {i \in hitsAt(meta) : Cardinality({j \in hitsAt(meta) : j < i}) < f.limit}
    IN /\ ToSet(f.out) = firsts(f.meta)
       /\ \A i, j \in DOMAIN f.out : i < j => f.out[i] < f.out[j]
       /\ f.ef = 0 /\ n < RtFilterDocs /\ enough(f.meta) => Len(f.out) = f.limit
       /\ f.was # <<>> => Cardinality(ToSet(f.out) \ firsts(f.was)) <= 1

\* After a flush the block-max index answers a query of one term, or one that
\* asks for no less than there are postings, exactly as the postings table
\* does; whatever it skips, it never shows a score above the true one.
SparseIsExact ==
    (\A t \in RtTerms : rtPending[t] = <<>>) =>
    \A qi \in DOMAIN RtQueries, k \in 1..3 :
        LET q == RtQueries[qi]
            used == {t \in RtTerms : q[t] > 0}
            postings == Cardinality({x \in (DOMAIN rtVecs) \X used : rtVecs[x[1]][x[2]] > 0})
            true == SpladeSearch(q)
        IN \A order \in TermOrders(q) :
              LET found == search_topk(q, k, order) IN
              /\ \A d \in DOMAIN found : found[d] <= true[d]
              /\ Cardinality(used) = 1 \/ k >= postings =>
                    \A out \in RankedBy(found, k) : out \in RankedBy(true, k) /\ \A i \in DOMAIN out : found[out[i]] = true[out[i]]

\* Whatever calls were cut short or ran into each other: a document whose add
\* was completed is found, and it is scored with vectors no older than its
\* last completed i8 add, or than its last add if it has no i8 row.  (Once it
\* has one, a later float add is stored and does not count in the score.)
TokensAreNoOlder ==
    \A d \in RtColDocs :
        rtAdds.f32[d] # 0 \/ rtAdds.i8[d] # 0 =>
            /\ d \in DOMAIN search_muvera
            /\ search_muvera[d] >= rtAdds.i8[d]
            /\ rtI8[d] = 0 => search_muvera[d] = rtAdds.f32[d]
=============================================================================
