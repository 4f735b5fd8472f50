--------------------------- MODULE VectorIndexes ---------------------------
(***************************************************************************)
(* The in-memory vector indexes (synapse-core/src/turbo, synapse-ann,      *)
(* synapse-quant) and the disk tier behind them (synapse-spann): exact and *)
(* quantised scans, the coarse-to-fine cascades, the Glass graph, the      *)
(* index that spills to disk past its RAM threshold, and the router that   *)
(* picks a scan.  Vectors are integer vectors of one length, as embedders  *)
(* return unit vectors, so a cosine is a dot product up to a constant.     *)
(***************************************************************************)
EXTENDS Integers, Sequences, FiniteSets, SequencesExt

CONSTANTS ViVecs,        \* vectors that are indexed and asked for
          ViIds, ViKeys, \* document ids, and keys of the usearch index
          ViThresholds,  \* values of SYNAPSE_RAM_THRESHOLD_DOCS
          ViPerCluster,  \* documents per cluster (100 in the code)
          ViProbe,       \* clusters probed by a disk search (8 in the code)
          ViKs,          \* values of k
          ViDegrees,     \* values of m of the Glass graph
          ViHints,       \* queries' hints: [n, budget, recall (per cent)]
          ViLatencies,   \* observed latencies
          ViCap,         \* cap of a Beta parameter (10000 in the code)
          ViReserve,     \* least reserve and growth of usearch (1024 in the code)
          ViMaxRows, ViMaxObserved, ViMaxCalls    \* bounds

ASSUME ViAssumption ==
  /\ ViThresholds \subseteq Nat \ {0} /\ ViPerCluster \in Nat \ {0}
  /\ ViProbe \in Nat \ {0} /\ ViCap \in Nat \ {0} /\ ViReserve \in Nat \ {0}
  /\ ViKs \subseteq Nat \ {0} /\ ViDegrees \subseteq Nat \ {0}

VARIABLES viJob,    \* which structure this behaviour exercises
          viLimit,  \* the threshold of the tiered index
          viMem,    \* mem_buf of the tiered index
          viBuilt,  \* the rows its MultiIndex was built from, Unbuilt before
          viBuf,    \* documents waiting for the disk tier
          viDisk,   \* the SPANN index: its centroids and posting lists
          viGone,   \* history: rows a later flush of the disk tier replaced
          viTorn,   \* history: a flush failed after writing over the open index
          viAsked,  \* the last tiered search: its query, k and hits
          viBeta, viEwma, viSeen,  \* posterior, latency, observations
          viUx,     \* the usearch index: its keys, capacity, len and ef
          viFile,   \* its sidecar file, and the temporary one beside it
          viLost    \* history: adds failed batches left uncounted, a refusal for room, calls

viTier == <<viLimit, viMem, viBuilt, viBuf, viDisk, viGone, viTorn, viAsked>>
viRoute == <<viBeta, viEwma, viSeen>>
viUsearch == <<viUx, viFile, viLost>>
viVars == <<viJob, viLimit, viMem, viBuilt, viBuf, viDisk, viGone, viTorn, viAsked,
            viBeta, viEwma, viSeen, viUx, viFile, viLost>>

Unbuilt == << >>        \* it is never built from no rows
NotAsked == [k |-> 0]
NoDisk == [centroids |-> << >>, posting |-> << >>]

\* ---- Scores and codes ----

Dims == 1..2
Dot(a, b) == a[1] * b[1] + a[2] * b[2]
Near(a, b) == (a[1] - b[1]) * (a[1] - b[1]) + (a[2] - b[2]) * (a[2] - b[2])
Magnitude(x) == IF x < 0 THEN -x ELSE x
Norm(v) == CHOOSE n \in 0..100 : n * n = Dot(v, v)

\* f32::round of a / b, for b > 0: halves go away from zero.
Rounded(a, b) == IF a >= 0 THEN (2 * a + b) \div (2 * b)
                 ELSE -((2 * (-a) + b) \div (2 * b))

\* The bits of the signs, and the Hamming distance of two bit vectors.
pack_binary(v) == {i \in Dims : v[i] > 0}
hamming(a, b) == Cardinality((a \ b) \cup (b \ a))

AbsMax(v) == LET x == Magnitude(v[1]) y == Magnitude(v[2])
             IN IF x > y THEN x ELSE y

\* One scale per vector: 127 codes to the largest component.
I8Codes(v) == [i \in Dims |-> Rounded(v[i] * 127, AbsMax(v))]

\* Integer dot product times both scales (absmax / 127 each), over 127 * 127.
I8Score(q, v) == Dot(I8Codes(q), I8Codes(v)) * AbsMax(v) * AbsMax(q)

\* A Householder rotation, in 25ths, and the sign code of a rotated vector.
Rotated(v) == <<7 * v[1] - 24 * v[2], -24 * v[1] - 7 * v[2]>>
EncodedBits(v) == {i \in Dims : Rotated(v)[i] >= 0}
QueryBits(q) == {i \in Dims : Rotated(q)[i] >= 0}
query_estimate(q, v) ==
  LET sign(i) == IF i \in EncodedBits(v) THEN 1 ELSE -1
  IN (Rotated(q)[1] * sign(1) + Rotated(q)[2] * sign(2)) * Norm(v)

\* ---- Top k ----

Least(a, b) == IF a < b THEN a ELSE b
Most(a, b) == IF a > b THEN a ELSE b

\* What select_nth_unstable, truncate leave of S: any k of the best.
TopSets(S, score, k) ==
  {T \in SUBSET S : /\ Cardinality(T) = Least(k, Cardinality(S))
                    /\ \A i \in T, j \in S \ T : score[i] >= score[j]}

\* The bounded max-heap of (distance, row): a nearer row replaces the top.
HeapTop(heap) == CHOOSE e \in heap : \A f \in heap :
                    e[1] > f[1] \/ (e[1] = f[1] /\ e[2] >= f[2])
HeapStep(heap, e, k) ==
  IF Cardinality(heap) < k THEN heap \cup {e}
  ELSE IF e[1] < HeapTop(heap)[1] THEN (heap \ {HeapTop(heap)}) \cup {e} ELSE heap

HeapOf(entries, k) == FoldLeft(LAMBDA h, e : HeapStep(h, e, k), {}, entries)

\* ---- The scans ----
(* Rows are sequences of <<id, vector>>; an answer is a set of positions.   *)

RowScores(rows, q) == [i \in DOMAIN rows |-> Dot(rows[i][2], q)]

\* f16 and ndarray search: every row scored, the best k kept.
ExactSearch(rows, q, k) == TopSets(DOMAIN rows, RowScores(rows, q), k)

\* NdArraySearch::add_row leaves a known id alone.
add_row(rows, id, v) == IF \E i \in DOMAIN rows : rows[i][1] = id THEN rows
                        ELSE Append(rows, <<id, v>>)
NdRows(rows) == FoldLeft(LAMBDA s, r : add_row(s, r[1], r[2]), << >>, rows)

\* NdArraySearch::search_cascade: binary_k rows by sign bits, then by cosine.
search_cascade(rows, q, k, binaryK) ==
  LET b == Least(binaryK, Len(rows))
      near == [i \in DOMAIN rows |-> -hamming(pack_binary(q), pack_binary(rows[i][2]))]
  IN UNION {TopSets(T, RowScores(rows, q), Least(k, b)) : T \in TopSets(DOMAIN rows, near, b)}

I8Search(rows, q, k) ==
  TopSets(DOMAIN rows, [i \in DOMAIN rows |-> I8Score(q, rows[i][2])], k)

HammingEntries(rows, q) ==
  [i \in DOMAIN rows |-> <<hamming(pack_binary(q), pack_binary(rows[i][2])), i>>]

HammingSearch(rows, q, k) == HeapOf(HammingEntries(rows, q), Least(k, Len(rows)))

\* Past half a million rows: a heap per part, the second emptied into the first.
HammingParallel(rows, q, k, cut) ==
  LET all == HammingEntries(rows, q)
      a == HeapOf(SubSeq(all, 1, cut), k)
      b == HeapOf(SubSeq(all, cut + 1, Len(all)), k)
  IN {FoldLeft(LAMBDA h, e : HeapStep(h, e, k), a, s) : s \in SetToSeqs(b)}

\* Stage widths of the cascade: what the caller asks for, never under k.
StageUnder(asked, k, most) == Least(asked, most)
Stage(asked, k, most) == Least(Most(asked, k), most)

RaBitQEntries(rows, q) ==
  [i \in DOMAIN rows |-> <<hamming(QueryBits(q), EncodedBits(rows[i][2])), i>>]

Estimates(rows, q) == [i \in DOMAIN rows |-> query_estimate(q, rows[i][2])]

RaBitQCascade(rows, q, k, hammingN, rabitqN) ==
  LET hn == Stage(hammingN, k, Len(rows))
      a == {e[2] : e \in HeapOf(RaBitQEntries(rows, q), hn)}
      b == TopSets(a, Estimates(rows, q), Stage(rabitqN, k, hn))
  IN UNION {TopSets(T, RowScores(rows, q), k) : T \in b}

RaBitQSearch(rows, q, k, rerankN) ==
  LET c == {e[2] : e \in HeapOf(RaBitQEntries(rows, q), Stage(rerankN, k, Len(rows)))}
  IN TopSets(c, Estimates(rows, q), k)

\* ScalarCodebook::train: the range of one component; a constant one is widened.
train(rows, c) ==
  LET xs == {rows[i][2][c] : i \in DOMAIN rows}
      lo == CHOOSE x \in xs : \A y \in xs : x <= y
      top == CHOOSE x \in xs : \A y \in xs : x >= y
  IN [lo |-> lo, hi |-> IF top = lo THEN lo + 1 ELSE top]

\* ScalarCodebook over the range lo..hi: 255 steps; back in 255ths.
quantize(x, lo, hi) ==
  LET clamped == IF x < lo THEN lo ELSE IF x > hi THEN hi ELSE x
      c == Rounded((clamped - lo) * 255 - 128 * (hi - lo), hi - lo)
  IN IF c > 127 THEN 127 ELSE c
dequantize255(c, lo, hi) == lo * 255 + (c + 128) * (hi - lo)

\* ---- The Glass graph (synapse-ann/src/glass.rs): nodes 1..n, entry 1 ----

\* Both heaps order by -distance, so the top of either is its nearest entry.
Nearest(S, d) == CHOOSE i \in S : \A j \in S : d[i] < d[j] \/ (d[i] = d[j] /\ i <= j)

\* One neighbour of the batch: `worst` was read before the batch began.
BeamAdd(b, i, d, worst, ef) ==
  IF ~ (Cardinality(b.results) < ef \/ d[i] < worst) THEN b
  ELSE LET r == b.results \cup {i}
       IN [b EXCEPT !.open = @ \cup {i},
                    !.results = IF Cardinality(r) > ef THEN r \ {Nearest(r, d)} ELSE r]

\* Pop the nearest open node, mark its new neighbours visited, add them.
BeamStep(b, adj, d, ef) ==
  LET cur == Nearest(b.open, d)
      batch == SetToSortSeq(adj[cur] \ b.visited, <)
  IN FoldLeft(LAMBDA x, i : BeamAdd(x, i, d, d[Nearest(b.results, d)], ef),
              [b EXCEPT !.open = @ \ {cur}, !.visited = @ \cup adj[cur]],
              batch)

\* The loop ends when nothing is open, or when the nearest open node is
\* further than the top of a full result; every node is open once at most.
BeamEnds(b, d, ef) ==
  \/ b.open = {}
  \/ d[Nearest(b.open, d)] > d[Nearest(b.results, d)] /\ Cardinality(b.results) >= ef
Beam(start, adj, d, ef) ==
  LET turns == Cardinality(DOMAIN d)
      b[n \in 0..turns] == IF n = 0 THEN start
                           ELSE IF BeamEnds(b[n - 1], d, ef) THEN b[n - 1] ELSE BeamStep(b[n - 1], adj, d, ef)
  IN b[turns].results

\* beam_search_internal: the k nearest of the results.
beam_search(rows, adj, q, k, ef) ==
  LET d == [i \in DOMAIN rows |-> Near(rows[i][2], q)]
      found == Beam([open |-> {1}, results |-> {1}, visited |-> {1}],
                    adj, d, ef)
  IN SubSeq(SetToSortSeq(found, LAMBDA i, j : d[i] < d[j] \/ (d[i] = d[j] /\ i < j)),
            1, Least(k, Cardinality(found)))

\* Node i takes up to m of its candidates, and is linked back where there is room.
GlassLink(adj, i, c, m) ==
  LET out == IF Cardinality(adj[i]) < m THEN [adj EXCEPT ![i] = @ \cup {c}] ELSE adj
  IN IF Cardinality(out[c]) < m THEN [out EXCEPT ![c] = @ \cup {i}] ELSE out

GlassBuild(rows, m, efC) ==
  FoldLeft(LAMBDA adj, i :
             FoldLeft(LAMBDA a, c : GlassLink(a, i, c, m), adj,
                      beam_search(rows, adj, rows[i][2], m, Least(efC, i - 1))),
           [i \in DOMAIN rows |-> {}], [i \in 1..(Len(rows) - 1) |-> i + 1])

\* beam_search_csr: the same walk over the packed lists of the built graph.
beam_search_csr(rows, adj, q, k, ef) ==
  IF rows = << >> THEN << >> ELSE beam_search(rows, adj, q, k, ef)

\* AnnIndex::search of GlassIndex: a beam twice as wide as k.
GlassSearch(rows, adj, q, k) == beam_search_csr(rows, adj, q, k, 2 * k)

\* AnnIndex::search_with_rerank: search wider, keep the k nearest.
search_with_rerank(rows, adj, q, k, mult) ==
  LET hits == GlassSearch(rows, adj, q, k * Least(Most(mult, 2), 100))
  IN SubSeq(hits, 1, Least(k, Len(hits)))

\* hamming_topk: the k_rough rows nearest by sign bits, ids breaking ties.
hamming_topk(rows, q, kRough) ==
  LET d == [i \in DOMAIN rows |-> hamming(pack_binary(q), pack_binary(rows[i][2]))]
      s == SetToSortSeq(DOMAIN rows, LAMBDA i, j : d[i] < d[j] \/ (d[i] = d[j] /\ i < j))
  IN ToSet(SubSeq(s, 1, Least(kRough, Len(s))))

\* cascade_search: the graph's hits that are also near by sign bits, filled up
\* with the graph's own hits when that leaves fewer than k.
CascadeFill(rows, adj, q, k, kept) ==
  FoldLeft(LAMBDA h, i : IF i \in ToSet(h) \/ Len(h) >= k THEN h ELSE Append(h, i),
           kept, GlassSearch(rows, adj, q, k))
cascade_search(rows, adj, q, k, rough) ==
  LET kRough == Most(k * rough, k * 2)
      allow == hamming_topk(rows, q, kRough)
      mult == Least(Most(kRough \div Most(Len(rows), 1), 2), 100)
      kept == SelectSeq(search_with_rerank(rows, adj, q, k, mult), LAMBDA i : i \in allow)
  IN IF allow = {} THEN << >>
     ELSE IF Len(kept) < k THEN CascadeFill(rows, adj, q, k, kept) ELSE kept

\* ---- The router (turbo/adaptive_router.rs), recall in thousandths ----

Strategies == <<"scalar", "rayon", "simd", "i8", "hamming", "rabitq", "mrl">>
prior_recall == [scalar |-> 1000, rayon |-> 1000, simd |-> 1000, i8 |-> 970,
                 hamming |-> 720, rabitq |-> 950, mrl |-> 950]
prior_us == [scalar |-> 13000, rayon |-> 1500, simd |-> 760, i8 |-> 325,
             hamming |-> 250, rabitq |-> 500, mrl |-> 400]

passes_corpus_gate(s, n) ==
  CASE s = "scalar" -> n <= 10000
    [] s = "rayon" -> n <= 200000
    [] s = "simd" -> n <= 5000000
    [] s = "i8" -> n <= 50000000
    [] s = "hamming" -> n >= 10000
    [] s = "mrl" -> n >= 5000
    [] s = "rabitq" -> n \in 5000..50000000

Mean(b) == (1000 * b[1]) \div (b[1] + b[2])
ExpectedRecall(s) == Most(Mean(viBeta[s]), prior_recall[s])
\* Latencies are per 100 000 documents, scaled to the corpus.
ExpectedUs(s, n) == (viEwma[s] * Most(n \div 1000, 1)) \div 100

\* Mutant of Feasible.
FeasibleUngated(h) == SelectSeq(Strategies, LAMBDA s : ExpectedRecall(s) >= 10 * h.recall)

Feasible(h) == SelectSeq(Strategies, LAMBDA s : /\ passes_corpus_gate(s, h.n)
                                                /\ ExpectedRecall(s) >= 10 * h.recall)
Overrun(us, budget) ==
  IF budget = 0 \/ us <= budget THEN 0 ELSE Least((1000 * (us - budget)) \div budget, 2000)
Rating(s, h) == ExpectedRecall(s) - Overrun(ExpectedUs(s, h.n), h.budget) \div 2
                - (IF h.n < 5000 /\ s \in {"hamming", "mrl"} THEN 300 ELSE 0)

\* The first of seq with the highest value of f.
FirstBest(seq, f(_)) == seq[CHOOSE i \in DOMAIN seq : \A j \in DOMAIN seq :
                              f(seq[i]) > f(seq[j]) \/ (f(seq[i]) = f(seq[j]) /\ i <= j)]

choose(h) ==
  LET ok == Feasible(h)
  IN IF ok = << >> THEN "i8"
     ELSE IF h.budget > 0 /\ \A i \in DOMAIN ok : ExpectedUs(ok[i], h.n) > h.budget
     THEN FirstBest(ok, LAMBDA s : -ExpectedUs(s, h.n))
     ELSE FirstBest(ok, LAMBDA s : Rating(s, h))

\* MultiIndex::search with default hints: the scan the router picks.
MultiSearch(rows, q, k) ==
  LET c == choose([n |-> Len(rows), budget |-> 0, recall |-> 0])
  IN CASE c = "hamming" -> {{e[2] : e \in HammingSearch(rows, q, k)}}
       [] c = "i8" -> I8Search(rows, q, k)
       [] c = "rabitq" -> RaBitQSearch(rows, q, k, 50 * k)
       [] OTHER -> ExactSearch(rows, q, k)

\* ---- The disk tier (synapse-spann) and the tiered index ----

\* assign_centroid: the first of the nearest centroids.
assign_centroid(cents, v) ==
  CHOOSE c \in DOMAIN cents : \A e \in DOMAIN cents :
    Near(cents[c], v) < Near(cents[e], v) \/ (Near(cents[c], v) = Near(cents[e], v) /\ c <= e)

\* build_index: KMeans may place its centroids anywhere.
SpannBuild(docs, cents) ==
  [centroids |-> cents,
   posting |-> [c \in DOMAIN cents |->
                  SelectSeq(docs, LAMBDA r : assign_centroid(cents, r[2]) = c)]]

Clusters(n) == Least(Most(n \div ViPerCluster, 1), Least(n, 4096))

\* nearest_centroids: ViProbe lists, the nearest first.
nearest_centroids(disk, q) ==
  LET s == SetToSortSeq(DOMAIN disk.centroids,
             LAMBDA c, e : \/ Near(disk.centroids[c], q) < Near(disk.centroids[e], q)
                           \/ /\ Near(disk.centroids[c], q) = Near(disk.centroids[e], q)
                              /\ c < e)
  IN SubSeq(s, 1, Least(ViProbe, Len(s)))

\* The rows of the probed lists, in the order they are read.
Probed(disk, q) == FlattenSeq([i \in DOMAIN nearest_centroids(disk, q) |->
                                 disk.posting[nearest_centroids(disk, q)[i]]])

\* scan_and_rerank: best first; dedup_by_key drops a hit that follows one of
\* the same document; the first k are left.
scan_and_rerank(rows, q, k) ==
  LET sc == RowScores(rows, q)
      s == SetToSortSeq(DOMAIN rows, LAMBDA i, j : sc[i] > sc[j] \/ (sc[i] = sc[j] /\ i < j))
      kept == SelectSeq([n \in DOMAIN s |-> n],
                        LAMBDA n : n = 1 \/ rows[s[n]][1] # rows[s[n - 1]][1])
  IN {s[kept[n]] : n \in 1..Least(k, Len(kept))}

Centroids == [1..Clusters(Len(viBuf)) -> ViVecs]

\* SpannBuffer::flush: the index is built anew, from the waiting documents
\* alone, in the files of the one before.
FlushWorks ==
  IF viBuf = << >> THEN UNCHANGED <<viBuf, viDisk, viGone, viTorn>>
  ELSE /\ \E cents \in Centroids : viDisk' = SpannBuild(viBuf, cents)
       /\ viGone' = viGone \o FlattenSeq(viDisk.posting)
       /\ viBuf' = << >> /\ viTorn' = FALSE

\* A list is mapped with the length it had; past the end of a shorter file its
\* page reads as zeros.  (A page wholly past the end would kill the reader.)
Overwritten(old, new) == [i \in DOMAIN old |-> IF i <= Len(new) THEN new[i] ELSE <<0, <<0, 0>>>>]

\* A build that fails, before or after some lists are written: the index that
\* is open stays open, on the files as they are now, and the documents wait.
PartlyWritten(new, written) ==
  [viDisk EXCEPT !.posting = [c \in DOMAIN @ |-> IF c <= written THEN Overwritten(@[c], new[c]) ELSE @[c]]]
FlushFails ==
  /\ viBuf # << >>
  /\ viDisk' \in {viDisk} \cup {PartlyWritten(SpannBuild(viBuf, cents).posting, n) :
                                 cents \in Centroids, n \in 1..Clusters(Len(viBuf))}
  /\ viTorn' = (viTorn \/ viDisk' # viDisk)
  /\ UNCHANGED <<viBuf, viGone>>

ensure_mem_built == viBuilt' = IF viBuilt = Unbuilt /\ viMem # << >> THEN viMem ELSE viBuilt

\* Documents that went past memory.
Spilled == Len(viBuf) + Len(viGone) + Len(FlattenSeq(viDisk.posting))

TierAdd(id, v) ==
  /\ viJob = "tier"
  /\ Len(viMem) + Spilled < ViMaxRows
  /\ IF Len(viMem) < viLimit
     THEN /\ viMem' = Append(viMem, <<id, v>>) /\ viBuilt' = Unbuilt
          /\ UNCHANGED viBuf
     ELSE /\ ensure_mem_built /\ viBuf' = Append(viBuf, <<id, v>>)
          /\ UNCHANGED viMem
  /\ viAsked' = NotAsked
  /\ UNCHANGED <<viJob, viLimit, viDisk, viGone, viTorn, viRoute, viUsearch>>

FlushDisk ==
  /\ viJob = "tier" /\ viBuf # << >>
  /\ FlushWorks \/ FlushFails
  /\ viAsked' = NotAsked
  /\ UNCHANGED <<viJob, viLimit, viMem, viBuilt, viRoute, viUsearch>>

\* Hits as <<tier, place, row, score>>: k of each tier, the best k of both.
Hits(tier, rows, T, q) == {<<tier, i, rows[i], Dot(rows[i][2], q)>> : i \in T}
Best(S, k) == TopSets(S, [h \in S |-> h[4]], k)
TierHits(mem, disk, q, k) ==
  LET near == Probed(disk, q)
  IN UNION {Best(Hits("mem", mem, T, q) \cup Hits("disk", near, scan_and_rerank(near, q, k), q), k) :
              T \in MultiSearch(mem, q, k)}

\* A search builds what is missing, flushes what waits, or fails to and does
\* not notice, then asks both tiers.
TierSearch(q, k) ==
  /\ viJob = "tier"
  /\ \E failed \in BOOLEAN :
       /\ IF failed THEN FlushFails ELSE FlushWorks
       /\ \E hits \in TierHits(IF viBuilt = Unbuilt THEN viMem ELSE viBuilt, viDisk', q, k) :
            viAsked' = [q |-> q, k |-> k, hits |-> hits, failed |-> failed]
  /\ ensure_mem_built
  /\ UNCHANGED <<viJob, viLimit, viMem, viRoute, viUsearch>>

\* ---- Observations of the router ----

\* observe: one more success or failure, and three tenths of the new latency.
Observe(s, us, good) ==
  /\ viJob = "router" /\ viSeen < ViMaxObserved
  /\ viBeta' = [viBeta EXCEPT ![s] = IF good THEN <<Least(@[1] + 1, ViCap), @[2]>>
                                     ELSE <<@[1], Least(@[2] + 1, ViCap)>>]
  /\ viEwma' = [viEwma EXCEPT ![s] = (7 * @ + 3 * us) \div 10]
  /\ viSeen' = viSeen + 1
  /\ UNCHANGED <<viJob, viTier, viUsearch>>

\* ---- The usearch backend (synapse-ann/src/usearch_backend.rs) ----

\* usearch's load leaves exactly the room the saved keys need.
NoFile == [kind |-> "absent", keys |-> {}]
capacity_with_headroom(cap, needed) ==
  IF needed <= cap THEN cap
  ELSE Most(Most(needed, cap + Most(cap \div 16, ViReserve)), ViReserve)
ux_new == [keys |-> {}, cap |-> ViReserve, len |-> 0, ef |-> 256]
try_load_or_none(f) ==
  IF f.kind # "whole" THEN ux_new
  ELSE [keys |-> f.keys, cap |-> Cardinality(f.keys), len |-> Cardinality(f.keys), ef |-> 256]
UxReserved(ux, cap) == [ux EXCEPT !.cap = Most(@, cap)]

\* Mutant of ensure_capacity.
EnsureCapacityLate(ux, n) ==
  IF ux.len + n <= ux.cap + 1 THEN ux
  ELSE UxReserved(ux, capacity_with_headroom(ux.cap, ux.len + n))

ensure_capacity(ux, n) ==
  IF ux.len + n <= ux.cap THEN ux
  ELSE UxReserved(ux, capacity_with_headroom(ux.cap, ux.len + n))

UxIdle == viJob = "usearch" /\ viFile.tmp.kind # "saving" /\ viLost.calls < ViMaxCalls
Called == [viLost EXCEPT !.calls = @ + 1]

\* insert: usearch refuses a key it has (multi is off) and an add past its room.
UxInsert(id) ==
  LET ux == ensure_capacity(viUx, 1)
      full == Cardinality(ux.keys) >= ux.cap
  IN /\ UxIdle
     /\ viUx' = IF id \in ux.keys \/ full THEN ux
                ELSE [ux EXCEPT !.keys = @ \cup {id}, !.len = @ + 1]
     /\ viLost' = [Called EXCEPT !.refused = @ \/ (id \notin ux.keys /\ full)]
     /\ UNCHANGED <<viJob, viTier, viRoute, viFile>>

\* add_batch_parallel: the adds that succeed stay, but len only counts them
\* when all of them did; a vector of another length fails alone.
UxBatch(ids, misfit) ==
  LET ux == UxReserved(viUx, viUx.len + Cardinality(ids) + (IF misfit THEN 1 ELSE 0))
      new == ids \ ux.keys
      room == ux.cap - Cardinality(ux.keys)
  IN /\ UxIdle /\ ids # {}
     /\ \E added \in SUBSET new :
          LET ok == added = ids /\ ~ misfit
          IN /\ Cardinality(added) = Least(Cardinality(new), room)
             /\ viUx' = [ux EXCEPT !.keys = @ \cup added,
                                  !.len = @ + (IF ok THEN Cardinality(added) ELSE 0)]
             /\ viLost' = [Called EXCEPT !.drift = @ + (IF ok THEN 0 ELSE Cardinality(added)),
                                        !.ever = @ \/ (~ ok /\ added # {}), !.refused = @ \/ added # new]
     /\ UNCHANGED <<viJob, viTier, viRoute, viFile>>

\* remove: len follows the removals that find it large enough.
UxRemove(id) ==
  LET n == IF id \in viUx.keys THEN 1 ELSE 0
  IN /\ UxIdle
     /\ viUx' = [viUx EXCEPT !.keys = @ \ {id}, !.len = IF @ >= n THEN @ - n ELSE @]
     /\ viLost' = Called
     /\ UNCHANGED <<viJob, viTier, viRoute, viFile>>

\* save: the whole index into path.tmp, then a rename over path.
UxSaveBegins ==
  /\ UxIdle /\ viFile' = [viFile EXCEPT !.tmp = [kind |-> "saving", keys |-> {}]]
  /\ viLost' = Called
  /\ UNCHANGED <<viJob, viTier, viRoute, viUx>>

UxSaveEnds ==
  /\ viJob = "usearch" /\ viFile.tmp.kind = "saving"
  /\ viFile' = [path |-> [kind |-> "whole", keys |-> viUx.keys], tmp |-> NoFile]
  /\ UNCHANGED <<viJob, viTier, viRoute, viUx, viLost>>

\* A new process loads what the last one left, or starts an empty index.
UxReopen ==
  /\ viJob = "usearch" /\ viLost.calls < ViMaxCalls
  /\ viUx' = try_load_or_none(viFile.path)
  /\ viFile' = [viFile EXCEPT !.tmp.kind = IF @ = "saving" THEN "torn" ELSE @]
  /\ viLost' = [Called EXCEPT !.drift = 0]
  /\ UNCHANGED <<viJob, viTier, viRoute>>

\* ---- The specification ----

VectorInit ==
  /\ viJob \in {"tier", "router", "usearch"}
  /\ viUx = ux_new /\ viFile = [path |-> NoFile, tmp |-> NoFile]
  /\ viLost = [drift |-> 0, ever |-> FALSE, refused |-> FALSE, calls |-> 0]
  /\ viMem = << >> /\ viBuilt = Unbuilt /\ viBuf = << >> /\ viDisk = NoDisk
  /\ viLimit \in ViThresholds /\ (viJob = "tier" \/ \A t \in ViThresholds : viLimit <= t) /\ viGone = << >> /\ viTorn = FALSE /\ viAsked = NotAsked
  /\ viBeta = [s \in ToSet(Strategies) |-> <<1, 1>>] /\ viEwma = prior_us /\ viSeen = 0

VectorNext ==
  \/ \E id \in ViIds, v \in ViVecs : TierAdd(id, v)
  \/ FlushDisk
  \/ \E q \in ViVecs, k \in ViKs : TierSearch(q, k)
  \/ \E s \in ToSet(Strategies), us \in ViLatencies, good \in BOOLEAN : Observe(s, us, good)
  \/ \E id \in ViKeys : UxInsert(id) \/ UxRemove(id)
  \/ \E ids \in SUBSET ViKeys, misfit \in BOOLEAN : UxBatch(ids, misfit)
  \/ UxSaveBegins \/ UxSaveEnds \/ UxReopen

\* ---- Properties ----

(* An answer of the tiered index (tiered.rs:196-219) is right about the rows  *)
(* in memory and those of the last flush: the hits are such rows with their  *)
(* true scores, no other scores better than a listed one, unless its         *)
(* document is there with a better row or more clusters exist than a search  *)
(* probes, and nothing waits unless this search's flush failed.  Rows of an  *)
(* earlier flush are gone, and a flush that failed after writing leaves the  *)
(* open index on files it was not built with; nothing is said of that one.   *)
TierAnswers ==
  viAsked = NotAsked \/ viTorn \/
  LET mem == {<<"mem", viMem[i]>> : i \in DOMAIN viMem}
      disk == {<<"disk", r>> : r \in ToSet(FlattenSeq(viDisk.posting))}
      listed == {<<h[1], h[3]>> : h \in viAsked.hits}
      score(r) == Dot(r[2][2], viAsked.q)
  IN /\ viBuf = << >> \/ viAsked.failed
     /\ listed \subseteq mem \cup disk
     /\ Cardinality(viAsked.hits) <= viAsked.k
     /\ Len(viDisk.centroids) <= ViProbe =>
          \A r \in (mem \cup disk) \ listed :
             \/ /\ Cardinality(viAsked.hits) = viAsked.k
                /\ \A h \in viAsked.hits : h[4] >= score(r)
             \/ \E s \in disk : s # r /\ s[2][1] = r[2][1] /\ score(s) >= score(r)

(* usearch refuses an add past the room reserved for it, and the wrapper      *)
(* reserves from its own len (usearch_backend.rs:226-237): len is never too   *)
(* large, and too small by no more than the adds that parallel batches made  *)
(* and did not count because another add of theirs failed, so a new key is   *)
(* refused for want of room only after such a batch; there is never more in  *)
(* the index than it has room for; and a crash in the middle of a save       *)
(* leaves the sidecar that was there.                                        *)
UsearchHasRoom ==
  LET size == Cardinality(viUx.keys) IN
  /\ viUx.len <= size /\ size <= viUx.len + viLost.drift
  /\ size <= viUx.cap /\ viFile.path.kind # "torn"
  /\ viLost.refused => viLost.ever

(* The one-byte scan ranks by a score whose error is bounded by half a code   *)
(* step per component: a row it leaves out cannot beat a listed one by more. *)
I8NearExact(rows, q, k) ==
  \A T \in I8Search(rows, q, k) : \A i \in T, j \in DOMAIN rows \ T :
     LET slack(v) == 1018 * AbsMax(v) * AbsMax(q)
     IN 4 * 16129 * (Dot(rows[j][2], q) - Dot(rows[i][2], q))
          <= slack(rows[i][2]) + slack(rows[j][2])

(* The Hamming scan keeps k rows of least distance, however it is split.     *)
HammingExact(rows, q, k) ==
  LET dist(H) == [d \in 0..2 |-> Cardinality({e \in H : e[1] = d})]
      one == HammingSearch(rows, q, k)
  IN /\ Cardinality(one) = Least(k, Len(rows))
     /\ \A i \in DOMAIN rows : HammingEntries(rows, q)[i] \notin one =>
          \A e \in one : e[1] <= HammingEntries(rows, q)[i][1]
     /\ \A cut \in 0..Len(rows) : \A h \in HammingParallel(rows, q, k, cut) :
          dist(h) = dist(one)

(* A cascade as wide as the corpus answers as the exact scan does, and a     *)
(* narrow one answers with k rows and finds the query's own vector whenever  *)
(* fewer rows than its width share the vector's code.                        *)
CascadesAgree(rows, q, k) ==
  LET nd == NdRows(rows)
      own(R) == {i \in DOMAIN R : R[i][2] = q}
      sameSign == {i \in DOMAIN nd : pack_binary(nd[i][2]) = pack_binary(q)}
      sameCode == {i \in DOMAIN rows : EncodedBits(rows[i][2]) = QueryBits(q)}
  IN /\ nd # << >> => search_cascade(nd, q, k, Len(nd)) = ExactSearch(nd, q, k)
     /\ RaBitQCascade(rows, q, k, Len(rows), Len(rows)) = ExactSearch(rows, q, k)
     /\ \A w \in 1..Len(nd) : \A T \in search_cascade(nd, q, k, w) :
          /\ Cardinality(T) = Least(k, w)
          /\ own(nd) # {} /\ Cardinality(sameSign) <= w => T \cap own(nd) # {}
     /\ \A hn, rn \in 1..Len(rows) : \A T \in RaBitQCascade(rows, q, k, hn, rn) :
          /\ Cardinality(T) = Least(k, Len(rows))
          /\ /\ own(rows) # {} /\ Cardinality(sameCode) <= Least(hn, rn)
             => T \cap own(rows) # {}
     /\ \A rn \in 1..Len(rows) : \A T \in RaBitQSearch(rows, q, k, rn) :
          Cardinality(T) = Least(k, Len(rows))

Reached(S, adj) ==
  LET n == Cardinality(DOMAIN adj)
      r[i \in 0..n] == IF i = 0 THEN S ELSE r[i - 1] \cup UNION {adj[j] : j \in r[i - 1]}
  IN r[n]

(* A beam no narrower than the graph returns the k nearest of the nodes that *)
(* can be reached, every node can be while the degree has room for all, and  *)
(* the sign-bit cascade never answers worse than the graph alone.            *)
GlassAgrees(rows, q, k, m) ==
  LET adj == GlassBuild(rows, m, 2 * m)
      reach == Reached({1}, adj)
      d == [i \in DOMAIN rows |-> -Near(rows[i][2], q)]
      plain == GlassSearch(rows, adj, q, k)
      fused == cascade_search(rows, adj, q, k, 1)
  IN /\ ToSet(beam_search_csr(rows, adj, q, k, Len(rows) + k)) \in TopSets(reach, d, k)
     /\ m + 1 >= Len(rows) => reach = DOMAIN rows
     /\ Len(fused) >= Len(plain) /\ Cardinality(ToSet(fused)) = Len(fused)
     /\ \A i \in ToSet(plain) \ ToSet(fused) : \A j \in ToSet(fused) : d[j] >= d[i]

(* A component goes through the one-byte codebook (vec_index.rs:27-78) and   *)
(* back with an error of at most half a step of 255 over its range.          *)
CodebookBounded(rows) ==
  \A c \in Dims : LET cb == train(rows, c) IN
    \A x \in {rows[i][2][c] : i \in DOMAIN rows} :
       2 * Magnitude(dequantize255(quantize(x, cb.lo, cb.hi), cb.lo, cb.hi) - 255 * x) <= cb.hi - cb.lo

(* The scans over one corpus agree with the exact one as far as their codes  *)
(* allow (turbo/inmem_*_index.rs, rabitq_index.rs, ndarray_search.rs,        *)
(* synapse-ann/src/glass.rs and cascade.rs).                                 *)
ScansAgree ==
  viMem = << >> \/ viBuf # << >> \/ viDisk # NoDisk \/ viAsked # NotAsked \/
  /\ CodebookBounded(viMem)
  /\ \A q \in ViVecs, k \in ViKs : /\ I8NearExact(viMem, q, k)
                                   /\ HammingExact(viMem, q, k)
                                   /\ CascadesAgree(viMem, q, k)
                                   /\ \A m \in ViDegrees : GlassAgrees(viMem, q, k, m)

(* The router keeps the caller's hints whatever it has observed              *)
(* (adaptive_router.rs:190-246): a scan that fits the corpus and the wanted   *)
(* recall if there is one, the fastest of those when none meets the budget,  *)
(* and past the budget only for recall worth half the overrun.               *)
RouterKeepsHints ==
  \A h \in ViHints :
    LET c == choose(h)
        fits(s) == passes_corpus_gate(s, h.n) /\ ExpectedRecall(s) >= 10 * h.recall
        quick(s) == h.budget = 0 \/ ExpectedUs(s, h.n) <= h.budget
    IN /\ (\E s \in ToSet(Strategies) : fits(s)) => fits(c)
       /\ \A s \in ToSet(Strategies) : fits(s) /\ ~ quick(c) =>
            \/ /\ ~ quick(s)
               /\ (\A t \in ToSet(Strategies) : fits(t) => ~ quick(t))
                     => ExpectedUs(c, h.n) <= ExpectedUs(s, h.n)
            \/ /\ quick(s)
               /\ Rating(c, h) >= Rating(s, h)
=============================================================================
