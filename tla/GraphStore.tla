------------------------------ MODULE GraphStore ------------------------------
(***************************************************************************)
(* The edges table and what is asked of it (crates/synapse-graph: lib.rs,  *)
(* algorithms.rs, csr.rs), and the personalised PageRank of                *)
(* crates/synapse-core/src/ppr.rs.  Weights count units of 1 / GsUnit;     *)
(* scores are exact multiples of 1 / GsOne.  Long queries read the table   *)
(* statement by statement, and another process may write in between.       *)
(***************************************************************************)
EXTENDS Integers, Sequences, SequencesExt, FiniteSets, FiniteSetsExt, Functions

CONSTANTS GsGraphs,      \* tables to start from: sequences of edges [from, to, rel, w]
          GsCalls,       \* the edges relate may be called with
          GsThreads,     \* threads that use the CSR cache
          GsUnit,
          GsRelWidth,    \* relations a CSR index can tell apart (2^8 in the code)
          GsDepths,      \* max_depth values
          GsOne,         \* the score 1.0
          GsMaxWrites    \* calls of relate

VARIABLES gsWrites,
          gsEdges,    \* the edges table, in rowid order: [from, to, rel, w]
          gsJob,      \* the query under way, or GIdle
          gsTouched,  \* history: the table was written since the query began
          gsCache,    \* CsrCache: the graph, or NoCsr
          gsCall,     \* the call of each thread: get_or_build or rebuild between two steps
          gsOwed,     \* history: the table was written since the last invalidate
          gsRaced     \* history: the last invalidate came while a graph was being built

gsVars == <<gsWrites, gsEdges, gsJob, gsTouched, gsCache, gsCall, gsOwed, gsRaced>>

GIdle == [at |-> "idle"]
NoCsr == [none |-> TRUE]
GraphInit ==
    /\ gsWrites = 0 /\ gsEdges \in GsGraphs /\ gsJob = GIdle /\ gsTouched = FALSE
    /\ gsCache = NoCsr /\ gsCall = [t \in GsThreads |-> GIdle] /\ gsOwed = FALSE /\ gsRaced = FALSE

GNodes(E) == {E[i].from : i \in DOMAIN E} \cup {E[i].to : i \in DOMAIN E}
GOut(E, n) == SelectSeq(E, LAMBDA e : e.from = n)

\* INSERT OR REPLACE on (from, to, rel): the row gets a new rowid.
relate(E, e) == Append(SelectSeq(E, LAMBDA x : ~(x.from = e.from /\ x.to = e.to /\ x.rel = e.rel)), e)

\* The write does not know of the CSR cache.
GRelate ==
    \E e \in GsCalls :
        /\ gsEdges' = relate(gsEdges, e)
        /\ gsWrites < GsMaxWrites /\ gsWrites' = gsWrites + 1
        /\ gsTouched' = TRUE /\ gsOwed' = TRUE
        /\ UNCHANGED <<gsJob, gsCache, gsCall, gsRaced>>

-----------------------------------------------------------------------------
\* idx_edges_from: by weight, the heaviest first, then by rowid; NoRel for no filter.
NoRel == "*"
neighbors(E, n, rel, topK) ==
    LET rows == SelectSeq(E, LAMBDA e : e.from = n /\ rel \in {NoRel, e.rel})
        sorted == SetToSortSeq(DOMAIN rows, LAMBDA i, j : rows[i].w > rows[j].w \/ (rows[i].w = rows[j].w /\ i < j)) IN
    [i \in 1 .. Min({topK, Len(rows)}) |-> rows[sorted[i]]]

\* Mutant of TraverseEdge: a node counts as visited only when its hop is over.
TraverseEdgeTwice(hop, hit, e, decay) ==
    [hop EXCEPT !.found = Append(@, [node |-> e.to, score |-> ((hit.score * e.w) \div GsUnit) \div decay, depth |-> hit.depth + 1, chain |-> Append(hit.chain, e.rel)])]

\* One edge of the frontier; decay is 1 / decay to the power of the depth.
TraverseEdge(hop, hit, e, decay) ==
    IF e.to \in hop.visited THEN hop
    ELSE [visited |-> hop.visited \cup {e.to},
          found |-> Append(hop.found, [node |-> e.to, score |-> ((hit.score * e.w) \div GsUnit) \div decay,
                                       depth |-> hit.depth + 1, chain |-> Append(hit.chain, e.rel)])]

\* traverse, with a decay of 1/2: the hops up to max_depth.
TraverseHops(E, start, depth, topK, rel) ==
    LET hops[d \in 0 .. depth] ==
            IF d = 0 THEN [visited |-> {start}, frontier |-> <<[node |-> start, score |-> GsOne, depth |-> 0, chain |-> <<>>]>>, out |-> <<>>]
            ELSE LET p == hops[d - 1]
                     hop == FoldLeft(LAMBDA h, hit : FoldLeft(LAMBDA g, e : TraverseEdge(g, hit, e, 2 ^ d), h, neighbors(E, hit.node, rel, topK)),
                                     [visited |-> p.visited, found |-> <<>>], p.frontier)
                 IN [visited |-> hop.visited, frontier |-> hop.found, out |-> p.out \o hop.found]
    IN hops[depth].out
traverse(E, start, depth, topK, rel) ==
    LET out == TraverseHops(E, start, depth, topK, rel)
        by == SetToSortSeq(DOMAIN out, LAMBDA i, j : out[i].score > out[j].score \/ (out[i].score = out[j].score /\ i < j)) IN
    [i \in DOMAIN out |-> out[by[i]]]

-----------------------------------------------------------------------------
\* pagerank, damping 1/2, without the tolerance; NaN where a node's weights add up to 0.
OutSum(E, n) == FoldLeft(LAMBDA s, e : s + e.w, 0, GOut(E, n))
IsNan(E) == \E n \in GNodes(E) : GOut(E, n) # <<>> /\ OutSum(E, n) = 0
GPlus(f, n, x) == [k \in DOMAIN f \cup {n} |-> (IF k \in DOMAIN f THEN f[k] ELSE 0) + (IF k = n THEN x ELSE 0)]

\* Mutant of Dangling: a node without edges keeps what it has to itself.
DanglingIgnored(E, score) == 0

\* The score of the nodes without outgoing edges.
Dangling(E, score) == MapThenSumSet(LAMBDA n : IF GOut(E, n) = <<>> THEN score[n] ELSE 0, DOMAIN score)
PagerankRound(E, score) ==
    LET N == Cardinality(GNodes(E))
        pushed == FoldLeft(LAMBDA f, e : GPlus(f, e.to, (score[e.from] * e.w) \div (2 * OutSum(E, e.from))),
                           [n \in GNodes(E) |-> GsOne \div (2 * N)], E)
    IN [n \in DOMAIN pushed |-> pushed[n] + Dangling(E, score) \div (2 * N)]
pagerank(E, iters) ==
    LET r[i \in 0 .. iters] == IF i = 0 THEN [n \in GNodes(E) |-> GsOne \div Cardinality(GNodes(E))] ELSE PagerankRound(E, r[i - 1])
    IN r[iters]

\* Mutant of Restarted: what reaches a node without edges is lost.
RestartedNowhere(share, score) == [n \in DOMAIN share |-> 0]

\* personalized_pagerank: what reaches a node without edges goes back to the seeds.
Share(total, share) == (total * share[1]) \div share[2]
Restarted(share, score) == [n \in DOMAIN share |-> Share(score, share[n]) \div 2]
PprRound(E, share, r, cap) ==
    LET start == [n \in DOMAIN share |-> Share(GsOne, share[n]) \div 2]
        add(f, g) == [k \in DOMAIN f \cup DOMAIN g |-> (IF k \in DOMAIN f THEN f[k] ELSE 0) + (IF k \in DOMAIN g THEN g[k] ELSE 0)]
        push(f, n) ==
            LET out == SubSeq(GOut(E, n), 1, Min({cap, Len(GOut(E, n))})) IN
            IF r[n] = 0 THEN f
            ELSE IF out = <<>> THEN add(f, Restarted(share, r[n]))
            ELSE FoldLeft(LAMBDA g, e : GPlus(g, e.to, (r[n] * e.w) \div (2 * OutSum(out, n))), f, out)
    IN FoldSet(LAMBDA n, f : push(f, n), start, DOMAIN r)
personalized_pagerank(E, seeds, iters, cap) ==
    IF seeds = <<>> \/ iters = 0 THEN <<>>
    ELSE LET total == SumFunction(seeds)
             share == [n \in DOMAIN seeds |-> IF total > 0 THEN <<seeds[n], total>> ELSE <<1, Cardinality(DOMAIN seeds)>>]
             r[i \in 0 .. iters] == IF i = 0 THEN [n \in DOMAIN seeds |-> Share(GsOne, share[n])] ELSE PprRound(E, share, r[i - 1], cap)
         IN r[iters]

-----------------------------------------------------------------------------
(* CsrGraph::rebuild: the nodes in order, the relations as they come, then  *)
(* the three arrays filled from where each node's range starts.             *)
\* Mutant of CsrPlace: the cursor of the node is not moved on.
CsrPlaceStuck(g, e) ==
    LET f == SelectInSeq(g.nodes, LAMBDA n : n = e.from) IN
    [g EXCEPT !.slots[g.cur[f]] = [to |-> SelectInSeq(g.nodes, LAMBDA n : n = e.to), w |-> e.w,
                                   rel |-> (SelectInSeq(g.dict, LAMBDA r : r = e.rel) - 1) % GsRelWidth]]

CsrPlace(g, e) ==
    LET f == SelectInSeq(g.nodes, LAMBDA n : n = e.from) IN
    [g EXCEPT !.slots[g.cur[f]] = [to |-> SelectInSeq(g.nodes, LAMBDA n : n = e.to), w |-> e.w,
                                   rel |-> (SelectInSeq(g.dict, LAMBDA r : r = e.rel) - 1) % GsRelWidth],
              !.cur[f] = @ + 1]
CsrRebuild(E) ==
    LET nodes == SetToSortSeq(GNodes(E), <)
        byFrom == SetToSortSeq(DOMAIN E, LAMBDA i, j : E[i].from < E[j].from \/ (E[i].from = E[j].from /\ i < j))
        rows == [i \in DOMAIN E |-> E[byFrom[i]]]
        dict == FoldLeft(LAMBDA d, e : IF Contains(d, e.rel) THEN d ELSE Append(d, e.rel), <<>>, rows)
        indptr == [i \in 1 .. Len(nodes) + 1 |-> Cardinality({j \in DOMAIN E : \E k \in 1 .. i - 1 : E[j].from = nodes[k]}) + 1]
        g == FoldLeft(CsrPlace, [nodes |-> nodes, dict |-> dict, cur |-> indptr, slots |-> [i \in DOMAIN E |-> [to |-> 1, w |-> 0, rel |-> 0]]], rows)
    IN [nodes |-> nodes, dict |-> dict, indptr |-> indptr, slots |-> g.slots]
CsrNeighbors(g, i) == SubSeq(g.slots, g.indptr[i], g.indptr[i + 1] - 1)

\* CsrCache::get_or_build takes the lock three times: to look, to store the
\* graph it has built without it, and for the guard it returns, whose deref
\* panics on an empty cache.  rebuild builds whatever the cache holds.
Csr(t, call) ==
    gsCall' = [gsCall EXCEPT ![t] = call] /\ UNCHANGED <<gsWrites, gsEdges, gsJob, gsTouched, gsOwed, gsRaced>>
CsrLook(t) ==
    /\ gsCall[t] = GIdle
    /\ Csr(t, IF gsCache = NoCsr THEN [at |-> "store", graph |-> CsrRebuild(gsEdges)] ELSE [at |-> "guard", cut |-> FALSE])
    /\ UNCHANGED gsCache
CsrRefresh(t) ==
    /\ gsCall[t] = GIdle
    /\ Csr(t, [at |-> "refresh", graph |-> CsrRebuild(gsEdges)])
    /\ UNCHANGED gsCache
CsrStore(t) ==
    /\ gsCall[t].at \in {"store", "refresh"}
    /\ gsCache' = gsCall[t].graph
    /\ Csr(t, IF gsCall[t].at = "store" THEN [at |-> "guard", cut |-> FALSE] ELSE GIdle)
CsrGuard(t) == gsCall[t].at = "guard" /\ Csr(t, GIdle) /\ UNCHANGED gsCache

\* invalidate, by whoever wrote or wants a new graph; cut: between store and guard.
CsrInvalidate ==
    /\ gsOwed \/ gsRaced
    /\ gsCache' = NoCsr /\ gsOwed' = FALSE
    /\ gsRaced' = (\E t \in GsThreads : gsCall[t].at \in {"store", "refresh"})
    /\ gsCall' = [t \in GsThreads |-> IF gsCall[t].at = "guard" THEN [at |-> "guard", cut |-> TRUE] ELSE gsCall[t]]
    /\ UNCHANGED <<gsWrites, gsEdges, gsJob, gsTouched>>

-----------------------------------------------------------------------------
\* shortest_path: a heap of [cost, node, path]; a heavier edge costs less.
PathStart ==
    /\ gsJob = GIdle
    /\ \E p \in GNodes(gsEdges) \X GNodes(gsEdges), d \in GsDepths :
          gsJob' = [at |-> "path", from |-> p[1], to |-> p[2], depth |-> d, seen |-> <<>>,
                    heap |-> {[cost |-> 0, node |-> p[1], path |-> <<>>]}]
    /\ gsTouched' = FALSE
    /\ UNCHANGED <<gsWrites, gsEdges, gsCache, gsCall, gsOwed, gsRaced>>

\* Mutant of Expanded: the edge's weight itself is taken for its cost.
ExpandedByWeight(j, s) ==
    {[cost |-> s.cost + e.w, node |-> e.to, path |-> Append(s.path, s.node)] :
        e \in {x \in Range(gsEdges) : x.from = s.node /\ x.to \notin DOMAIN j.seen \cup {s.node}}}

Expanded(j, s) ==
    {[cost |-> s.cost + Max({GsUnit - e.w, 0}), node |-> e.to, path |-> Append(s.path, s.node)] :
        e \in {x \in Range(gsEdges) : x.from = s.node /\ x.to \notin DOMAIN j.seen \cup {s.node}}}

\* heap.pop takes any of the cheapest.
PathPop ==
    /\ gsJob.at = "path"
    /\ \E s \in gsJob.heap :
          /\ \A t \in gsJob.heap : s.cost <= t.cost
          /\ gsJob' =
               IF s.node = gsJob.to THEN [at |-> "found", job |-> gsJob, cost |-> s.cost, path |-> Append(s.path, s.node)]
               ELSE IF s.node \in DOMAIN gsJob.seen /\ gsJob.seen[s.node] <= s.cost THEN [gsJob EXCEPT !.heap = @ \ {s}]
               ELSE IF Len(s.path) >= gsJob.depth THEN [gsJob EXCEPT !.heap = @ \ {s}]
               ELSE [gsJob EXCEPT !.heap = (@ \ {s}) \cup Expanded(gsJob, s),
                                  !.seen = [n \in DOMAIN @ \cup {s.node} |-> IF n = s.node THEN s.cost ELSE @[n]]]
    /\ UNCHANGED <<gsWrites, gsEdges, gsTouched, gsCache, gsCall, gsOwed, gsRaced>>
PathNone ==
    /\ gsJob.at = "path" /\ gsJob.heap = {}
    /\ gsJob' = [at |-> "found", job |-> gsJob, path |-> <<>>]
    /\ UNCHANGED <<gsWrites, gsEdges, gsTouched, gsCache, gsCall, gsOwed, gsRaced>>

\* label_propagation reads the table once; nodes and ties come in any order.
LabelStart ==
    /\ gsJob = GIdle /\ gsEdges # <<>>
    /\ gsJob' = [at |-> "label", edges |-> Range(gsEdges), labels |-> [n \in GNodes(gsEdges) |-> n], todo |-> GNodes(gsEdges), round |-> 1, changed |-> FALSE]
    /\ gsTouched' = FALSE
    /\ UNCHANGED <<gsWrites, gsEdges, gsCache, gsCall, gsOwed, gsRaced>>

\* The weight of the label among the neighbours, both directions.
Votes(j, n, l) ==
    MapThenSumSet(LAMBDA e : (IF e.from = n /\ j.labels[e.to] = l THEN e.w ELSE 0) + (IF e.to = n /\ j.labels[e.from] = l THEN e.w ELSE 0), j.edges)
LabelVote ==
    /\ gsJob.at = "label" /\ gsJob.todo # {}
    /\ \E n \in gsJob.todo, l \in Range(gsJob.labels) :
          /\ \E e \in gsJob.edges : (e.from = n /\ gsJob.labels[e.to] = l) \/ (e.to = n /\ gsJob.labels[e.from] = l)
          /\ \A k \in Range(gsJob.labels) : Votes(gsJob, n, k) <= Votes(gsJob, n, l)
          /\ gsJob' = [gsJob EXCEPT !.labels[n] = l, !.todo = @ \ {n}, !.changed = @ \/ gsJob.labels[n] # l]
    /\ UNCHANGED <<gsWrites, gsEdges, gsTouched, gsCache, gsCall, gsOwed, gsRaced>>
LabelRound ==
    /\ gsJob.at = "label" /\ gsJob.todo = {}
    /\ gsJob' = IF gsJob.changed /\ gsJob.round < Max(GsDepths)
                THEN [gsJob EXCEPT !.todo = DOMAIN gsJob.labels, !.round = @ + 1, !.changed = FALSE]
                ELSE [at |-> "communities", edges |-> gsJob.edges, labels |-> gsJob.labels]
    /\ UNCHANGED <<gsWrites, gsEdges, gsTouched, gsCache, gsCall, gsOwed, gsRaced>>

\* communities: the nodes of a label, the larger groups first.
communities(labels) ==
    LET group(l) == {n \in DOMAIN labels : labels[n] = l} IN
    SetToSortSeq({group(l) : l \in Range(labels)}, LAMBDA a, b : Cardinality(a) > Cardinality(b) \/ (Cardinality(a) = Cardinality(b) /\ Min(a) < Min(b)))

\* The answer is taken; or, at any time, the process is killed.
GraphDone ==
    /\ gsJob # GIdle /\ gsJob' = GIdle
    /\ UNCHANGED <<gsWrites, gsEdges, gsTouched, gsCache, gsCall, gsOwed, gsRaced>>

\* The graph commands; count, neighbors, traverse, pagerank and ppr answer at once and change nothing.
GraphCmd == GRelate \/ PathStart \/ LabelStart

GraphNext ==
    \/ GraphCmd \/ PathPop \/ PathNone
    \/ LabelVote \/ LabelRound \/ GraphDone

\* The cache and the queries share only the table.
CsrNext ==
    \/ GRelate \/ CsrInvalidate
    \/ \E t \in GsThreads : CsrLook(t) \/ CsrRefresh(t) \/ CsrStore(t) \/ CsrGuard(t)

-----------------------------------------------------------------------------
\* Reference: walks along edges from a node, with at most d edges.
Linked(E, a, b) == \E e \in E : e.from = a /\ e.to = b
CheapestEdge(E, a, b) == Min({Max({GsUnit - e.w, 0}) : e \in {x \in E : x.from = a /\ x.to = b}})
WalkCost(E, p) == MapThenSumSet(LAMBDA i : CheapestEdge(E, p[i], p[i + 1]), 1 .. Len(p) - 1)
Walks(E, N, a, b, d) ==
    {p \in SeqOf(N, d + 1) : p # <<>> /\ p[1] = a /\ Last(p) = b /\ \A i \in 1 .. Len(p) - 1 : Linked(E, p[i], p[i + 1])}

\* shortest_path: a real walk within the depth; the cheapest of all once the
\* depth covers every node, and None only when there is none then.
PathsAreShortest ==
    gsJob.at = "found" /\ ~gsTouched =>
        LET E == Range(gsEdges) N == GNodes(gsEdges) j == gsJob.job
            all == Walks(E, N, j.from, j.to, Cardinality(N) - 1) IN
        /\ gsJob.path # <<>> => /\ gsJob.path \in Walks(E, N, j.from, j.to, j.depth)
                                /\ gsJob.cost = WalkCost(E, gsJob.path)
                                /\ \A p \in all : WalkCost(E, p) >= gsJob.cost \/ j.depth < Cardinality(N) - 1
        /\ gsJob.path = <<>> => all = {} \/ j.depth < Cardinality(N) - 1

\* traverse: with room for every neighbour, exactly the nodes a walk reaches
\* within the depth, each once and at its distance, best score first.
TraverseIsBfs ==
    gsJob = GIdle => \A start \in GNodes(gsEdges), d \in GsDepths :
        LET E == Range(gsEdges) N == GNodes(gsEdges) out == traverse(gsEdges, start, d, Len(gsEdges), NoRel) IN
        /\ Range([i \in DOMAIN out |-> out[i].node]) = {n \in N \ {start} : Walks(E, N, start, n, d) # {}}
        /\ \A i, j \in DOMAIN out : i # j => out[i].node # out[j].node
        /\ \A i \in DOMAIN out : out[i].depth = Min({Len(p) - 1 : p \in Walks(E, N, start, out[i].node, d)})
        /\ \A i, j \in DOMAIN out : i < j => out[i].score >= out[j].score

\* pagerank and personalized_pagerank hand on all of the score in every round.
RanksSumToOne ==
    gsJob = GIdle /\ ~IsNan(gsEdges) /\ gsEdges # <<>> =>
        /\ \A i \in 0 .. 2 : SumFunction(pagerank(gsEdges, i)) = GsOne
        /\ \A n \in GNodes(gsEdges), x \in 0 .. 1 :
              SumFunction(personalized_pagerank(gsEdges, [k \in {n, Min(GNodes(gsEdges))} |-> x], 2, Len(gsEdges))) = GsOne

\* communities: every node in one group, and a group is connected to the node it is named after.
Connected(E, S) == \A T \in SUBSET S \ {{}, S} : \E e \in E : (e.from \in T /\ e.to \in S \ T) \/ (e.to \in T /\ e.from \in S \ T)
LabelsStayConnected ==
    gsJob.at \in {"label", "communities"} =>
        \A n \in DOMAIN gsJob.labels :
            \E S \in SUBSET DOMAIN gsJob.labels : {n, gsJob.labels[n]} \subseteq S /\ Connected(gsJob.edges, S)

(* What the graph commands answer: shortest paths, walks, ranks and groups  *)
(* agree with their definitions on the edges table, whatever order equal    *)
(* entries come in, when no other process writes while they run.            *)
GraphAnswers == PathsAreShortest /\ TraverseIsBfs /\ RanksSumToOne /\ LabelsStayConnected

(* The CSR arrays hold the edges table: each node's range its edges, with   *)
(* weight and relation, while an index tells the relations apart.  After a  *)
(* write and an invalidate every thread gets the new graph, unless one of   *)
(* them was building the old one meanwhile, which it stores over the        *)
(* invalidated cache; relate itself invalidates nothing.  A guard is empty, *)
(* and its use a panic, only if an invalidate came just before it.          *)
CsrMirrors ==
    /\ \A t \in GsThreads : gsCall[t].at = "guard" /\ gsCache = NoCsr => gsCall[t].cut
    /\ \A g \in {CsrRebuild(gsEdges)} \cup {x \in {gsCache} : x # NoCsr /\ ~gsOwed /\ ~gsRaced} :
           /\ Range(g.nodes) = GNodes(gsEdges) /\ Len(g.slots) = Len(gsEdges)
           /\ \A i \in DOMAIN g.nodes :
                 {<<g.nodes[s.to], s.w>> : s \in Range(CsrNeighbors(g, i))} = {<<e.to, e.w>> : e \in Range(GOut(gsEdges, g.nodes[i]))}
           /\ Len(g.dict) <= GsRelWidth =>
                 \A i \in DOMAIN g.nodes : {g.dict[s.rel + 1] : s \in Range(CsrNeighbors(g, i))} = {e.rel : e \in Range(GOut(gsEdges, g.nodes[i]))}

-----------------------------------------------------------------------------
(***************************************************************************)
(* The Datalog engine (crates/synapse-graph/src/datalog.rs).  An atom is   *)
(* [name, args]; a variable is a term [var |-> x], a constant [val |-> c]. *)
(* Facts arrive between evaluations; semi_naive is run round by round.     *)
(***************************************************************************)

CONSTANTS DlRules,      \* add_rule calls, in order: a sequence of [head, body]
          DlFacts,      \* facts that may be added: [name, args], args a sequence of values
          DlMaxFacts    \* calls of fact()

VARIABLES dlFacts,    \* facts: set of [name, args]
          dlGiven,    \* history: the facts given by fact()
          dlDelta,    \* the delta of the round to come, or NoDelta between evaluations
          dlRun       \* history: semi_naive has returned since the last fact

dlVars == <<dlFacts, dlGiven, dlDelta, dlRun>>

NoDelta == {[name |-> "idle", args |-> <<>>]}
DatalogInit == dlFacts = {} /\ dlGiven = {} /\ dlDelta = NoDelta /\ dlRun = FALSE

fact ==
    /\ dlDelta = NoDelta /\ Cardinality(dlGiven) < DlMaxFacts
    /\ \E f \in DlFacts \ dlGiven : dlFacts' = dlFacts \cup {f} /\ dlGiven' = dlGiven \cup {f}
    /\ dlRun' = FALSE /\ UNCHANGED dlDelta

-----------------------------------------------------------------------------
IsVar(t) == "var" \in DOMAIN t

\* The binding that makes the arguments the tuple: one, or none.
match_args(args, tuple) ==
    {b \in IF Len(args) # Len(tuple) \/ \E i \in DOMAIN args : ~IsVar(args[i]) /\ args[i].val # tuple[i] THEN {}
           ELSE {[x \in {args[i].var : i \in {k \in DOMAIN args : IsVar(args[k])}} |->
                    tuple[CHOOSE i \in DOMAIN args : IsVar(args[i]) /\ args[i].var = x]]} :
        \A i \in DOMAIN args : IsVar(args[i]) => b[args[i].var] = tuple[i]}

\* Both bindings together, when they agree: one, or none.
merge_bindings(a, b) ==
    IF \E x \in DOMAIN a \cap DOMAIN b : a[x] # b[x] THEN {}
    ELSE {[x \in DOMAIN a \cup DOMAIN b |-> IF x \in DOMAIN a THEN a[x] ELSE b[x]]}

\* The head's tuple, unless a variable of it is unbound.
apply_binding(args, b) ==
    IF \E i \in DOMAIN args : IsVar(args[i]) /\ args[i].var \notin DOMAIN b THEN {}
    ELSE {[i \in DOMAIN args |-> IF IsVar(args[i]) THEN b[args[i].var] ELSE args[i].val]}

Named(F, n) == {f \in F : f.name = n}
\* One body atom: every binding with every fact that fits.
Joined(bindings, atom, tuples) ==
    UNION {UNION {merge_bindings(b, nb) : nb \in match_args(atom.args, f.args)} : b \in bindings, f \in Named(tuples, atom.name)}

\* derive_rule (pos = 0), and derive_rule_delta_at: the atom at pos reads the delta.
Derived(rule, F, delta, pos) ==
    LET step[i \in 0 .. Len(rule.body)] ==
            IF i = 0 THEN {<<>>}
            ELSE Joined(step[i - 1], rule.body[i], IF i = pos THEN delta ELSE F)
    IN {[name |-> rule.head.name, args |-> t] : t \in UNION {apply_binding(rule.head.args, b) : b \in step[Len(rule.body)]}}

IdbPreds == {DlRules[i].head.name : i \in DOMAIN DlRules}

\* Mutant of IdbPositions: only the first derived atom of a body reads the delta.
IdbPositionsFirst(rule) ==
    LET p == {i \in DOMAIN rule.body : rule.body[i].name \in IdbPreds} IN IF p = {} THEN {} ELSE {Min(p)}

IdbPositions(rule) == {i \in DOMAIN rule.body : rule.body[i].name \in IdbPreds}
Candidates(rule, F, delta) ==
    IF IdbPositions(rule) = {} THEN Derived(rule, F, {}, 0)
    ELSE UNION {Derived(rule, F, Named(delta, rule.body[p].name), p) : p \in IdbPositions(rule)}

\* Mutant of FirstDelta: an evaluation starts from what it derives itself.
FirstDeltaEmpty(F) == {}

\* An evaluation starts with all facts of the derived predicates as its delta.
FirstDelta(F) == {f \in F : f.name \in IdbPreds}
SemiNaive ==
    /\ dlDelta = NoDelta /\ ~dlRun
    /\ dlDelta' = FirstDelta(dlFacts)
    /\ UNCHANGED <<dlFacts, dlGiven, dlRun>>

\* One round: the rules in order, each seeing what the ones before it added.
Round ==
    /\ dlDelta # NoDelta
    /\ LET after[i \in 0 .. Len(DlRules)] ==
               IF i = 0 THEN dlFacts ELSE after[i - 1] \cup Candidates(DlRules[i], after[i - 1], dlDelta)
           new == after[Len(DlRules)] \ dlFacts IN
       /\ dlFacts' = after[Len(DlRules)]
       /\ dlDelta' = IF new = {} THEN NoDelta ELSE new
       /\ dlRun' = (new = {})
    /\ UNCHANGED dlGiven

DatalogNext == fact \/ SemiNaive \/ Round

\* query and aggregate: rows of a predicate, grouped by a column; a short row
\* has the empty key and the value 0.
Col(f, c) == IF c \in DOMAIN f.args THEN f.args[c] ELSE 0
query(F, n, arity) == {f \in Named(F, n) : Len(f.args) = arity}
aggregate(F, n, group, value) ==
    [k \in {Col(f, group) : f \in Named(F, n)} |->
        LET rows == {f \in Named(F, n) : Col(f, group) = k} IN
        [count |-> Cardinality(rows), sum |-> MapThenSumSet(LAMBDA f : Col(f, value), rows),
         min |-> Min({Col(f, value) : f \in rows}), max |-> Max({Col(f, value) : f \in rows})]]

-----------------------------------------------------------------------------
\* Reference: everything the rules give, taken again and again.
Consequences(F) == F \cup UNION {Derived(DlRules[i], F, {}, 0) : i \in DOMAIN DlRules}
LeastModel(F) ==
    LET n[i \in 0 .. 8] == IF i = 0 THEN F ELSE Consequences(n[i - 1]) IN n[8]

(* However facts and evaluations alternate, an evaluation ends with exactly *)
(* the least model of the facts given so far: nothing missed because a rule *)
(* only reads what is new, nothing that does not follow; and the groups of  *)
(* an aggregate account for every row once.                                 *)
FixpointIsExact ==
    /\ dlRun => dlFacts = LeastModel(dlGiven) /\ Consequences(dlFacts) = dlFacts
    /\ dlFacts \subseteq LeastModel(dlGiven)
    /\ dlRun => \A n \in {f.name : f \in dlFacts} :
          LET a == aggregate(dlFacts, n, 1, 2) IN
          /\ MapThenSumSet(LAMBDA k : a[k].count, DOMAIN a) = Cardinality(Named(dlFacts, n))
          /\ \A k \in DOMAIN a : a[k].min * a[k].count <= a[k].sum /\ a[k].sum <= a[k].max * a[k].count
          /\ UNION {query(dlFacts, n, j) : j \in 1 .. 3} = Named(dlFacts, n)
=============================================================================
