---------------------------- MODULE DecisionGraph ----------------------------
(***************************************************************************)
(* Decisions, the graph a trigger grows from them, and what is read back   *)
(* from the log (crates/synapse-ultra: events.rs ingest_decision and       *)
(* ingest_token_cost, graph.rs, observe.rs, and the trigger of schema.rs). *)
(* Uris are naturals in the order of their text; 0 stands for NULL.        *)
(***************************************************************************)
EXTENDS Integers, Sequences, SequencesExt, FiniteSets, FiniteSetsExt

CONSTANTS DgUris,        \* naturals from 1
          DgDecisions,   \* decisions that may be made: [ts, session, agent, uri, why, source, target]
          DgEdges,       \* edges upsert_edge may be called with: [from, to, rel, ts]
          DgEvents,      \* events: [ts, session, agent]
          DgCosts,       \* costs: [ts, session, agent, usd]
          DgDays,        \* day starts of the summaries
          DgDayLen,
          DgMaxSteps

VARIABLES dgDecs,     \* decisions, in rowid order
          dgNodes,    \* uri -> [kind, first, last]
          dgArcs,     \* graph_edges: set of [from, to, rel, ts]
          dgLog,      \* synapse_events, in rowid order
          dgCosts,    \* token_cost, in rowid order
          dgSess      \* sessions: session -> [agent, start, end], end = -1 for NULL

dgVars == <<dgDecs, dgNodes, dgArcs, dgLog, dgCosts, dgSess>>

DecisionInit == dgDecs = <<>> /\ dgNodes = <<>> /\ dgArcs = {} /\ dgLog = <<>> /\ dgCosts = <<>> /\ dgSess = <<>>

DgSteps == Len(dgDecs) + Len(dgLog) + Len(dgCosts) + Cardinality(dgArcs)

\* Mutant of SessionOf: the session row is only made by an event.
SessionOfEvents(x) == IF "usd" \in DOMAIN x \/ "uri" \in DOMAIN x THEN dgSess ELSE
    [s \in DOMAIN dgSess \cup {x.session} |->
        IF s \in DOMAIN dgSess THEN dgSess[s] ELSE [agent |-> x.agent, start |-> x.ts, end |-> -1]]

\* The upsert every ingest starts with when it names a session.
SessionOf(x) ==
    IF x.session = 0 THEN dgSess
    ELSE [s \in DOMAIN dgSess \cup {x.session} |->
            IF s \notin DOMAIN dgSess THEN [agent |-> x.agent, start |-> x.ts, end |-> -1]
            ELSE IF s = x.session THEN [dgSess[s] EXCEPT !.end = x.ts] ELSE dgSess[s]]

-----------------------------------------------------------------------------
\* INSERT OR IGNORE INTO graph_nodes.
NodeOrKept(nodes, uri, kind, ts) ==
    IF uri \in DOMAIN nodes THEN nodes
    ELSE [u \in DOMAIN nodes \cup {uri} |-> IF u = uri THEN [kind |-> kind, first |-> ts, last |-> ts] ELSE nodes[u]]

\* INSERT OR IGNORE INTO graph_edges, UNIQUE (from, to, rel).
SameArc(a, b) == a.from = b.from /\ a.to = b.to /\ a.rel = b.rel
ArcOrKept(arcs, a) == IF \E x \in arcs : SameArc(x, a) THEN arcs ELSE arcs \cup {a}

\* trg_decision_to_graph, only for a decision with both ends.
TriggerNodes(d) ==
    LET n == NodeOrKept(NodeOrKept(NodeOrKept(dgNodes, d.uri, "decision", d.ts), d.source, "source", d.ts), d.target, "target", d.ts) IN
    [u \in DOMAIN n |-> IF u \in {d.uri, d.source, d.target} THEN [n[u] EXCEPT !.last = d.ts] ELSE n[u]]

\* Mutant of TriggerArcs: both edges leave the decision.
TriggerArcsOutward(d) ==
    ArcOrKept(ArcOrKept(dgArcs, [from |-> d.uri, to |-> d.source, rel |-> "caused", ts |-> d.ts]),
              [from |-> d.uri, to |-> d.target, rel |-> "derived_from", ts |-> d.ts])

TriggerArcs(d) ==
    ArcOrKept(ArcOrKept(dgArcs, [from |-> d.source, to |-> d.uri, rel |-> "caused", ts |-> d.ts]),
              [from |-> d.uri, to |-> d.target, rel |-> "derived_from", ts |-> d.ts])

\* ingest_decision: the key leaves out the time; UNIQUE(blake3) backs the SELECT.
DecisionKey(d) == <<d.uri, d.agent, d.session, d.why, d.source, d.target>>
Decide ==
    /\ DgSteps < DgMaxSteps
    /\ \E d \in DgDecisions :
          /\ \A i \in DOMAIN dgDecs : DecisionKey(dgDecs[i]) # DecisionKey(d)
          /\ dgDecs' = Append(dgDecs, d) /\ dgSess' = SessionOf(d)
          /\ IF d.source # 0 /\ d.target # 0
             THEN dgNodes' = TriggerNodes(d) /\ dgArcs' = TriggerArcs(d)
             ELSE UNCHANGED <<dgNodes, dgArcs>>
    /\ UNCHANGED <<dgLog, dgCosts>>

\* upsert_node: a known node keeps its kind and its first_seen.
UpsertNode ==
    /\ \E u \in DgUris \ DOMAIN dgNodes : dgNodes' = NodeOrKept(dgNodes, u, "concept", 0)
    /\ UNCHANGED <<dgDecs, dgArcs, dgLog, dgCosts, dgSess>>

\* upsert_edge: the foreign keys refuse an unknown end; a known edge takes the new ts.
UpsertEdge ==
    /\ DgSteps < DgMaxSteps
    /\ \E a \in DgEdges :
          /\ a.from \in DOMAIN dgNodes /\ a.to \in DOMAIN dgNodes
          /\ dgArcs' = {x \in dgArcs : ~SameArc(x, a)} \cup {a}
    /\ UNCHANGED <<dgDecs, dgNodes, dgLog, dgCosts, dgSess>>

LogEvent ==
    /\ DgSteps < DgMaxSteps
    /\ \E e \in DgEvents : dgLog' = Append(dgLog, e) /\ dgSess' = SessionOf(e)
    /\ UNCHANGED <<dgDecs, dgNodes, dgArcs, dgCosts>>

\* ingest_token_cost: no deduplication.
LogCost ==
    /\ DgSteps < DgMaxSteps
    /\ \E c \in DgCosts : dgCosts' = Append(dgCosts, c) /\ dgSess' = SessionOf(c)
    /\ UNCHANGED <<dgDecs, dgNodes, dgArcs, dgLog>>

DecisionNext == Decide \/ UpsertNode \/ UpsertEdge \/ LogEvent \/ LogCost

-----------------------------------------------------------------------------
(* why, why_at and graph_expand: one breadth-first walk, over the edges     *)
(* nbr gives for a node.  A step of the result is [uri, depth, path].       *)

\* For one frontier step: the unvisited neighbours in uri order.
WalkStep(nbr, acc, step) ==
    LET new == SetToSortSeq(nbr[step.uri] \ acc.visited, <)
        steps == [i \in DOMAIN new |-> [uri |-> new[i], depth |-> step.depth + 1, path |-> Append(step.path, new[i])]] IN
    [visited |-> acc.visited \cup Range(new), next |-> acc.next \o steps]

\* Mutant of WalkRounds: one round more.
WalkRoundsPlusOne(max) == max

\* step.depth >= max_depth - 1 stops the walk.
WalkRounds(max) == max - 1

Walk(nbr, uri, max) ==
    IF max <= 0 \/ uri \notin DOMAIN dgNodes THEN <<>>
    ELSE LET start == [uri |-> uri, depth |-> 0, path |-> <<uri>>]
             round[k \in 0 .. WalkRounds(max)] ==
                IF k = 0 THEN [visited |-> {uri}, next |-> <<start>>, out |-> <<start>>]
                ELSE LET r == FoldLeft(LAMBDA acc, st : WalkStep(nbr, acc, st),
                                       [visited |-> round[k-1].visited, next |-> <<>>], round[k-1].next)
                     IN  [visited |-> r.visited, next |-> r.next, out |-> round[k-1].out \o r.next]
         IN SortSeq(round[WalkRounds(max)].out, LAMBDA a, b : a.depth < b.depth \/ (a.depth = b.depth /\ a.uri < b.uri))

Causal == {"caused", "derived_from", "depends_on"}
CausesAt(at) == [u \in DOMAIN dgNodes |-> {a.from : a \in {x \in dgArcs : x.to = u /\ x.rel \in Causal /\ x.ts <= at}}]
Causes == [u \in DOMAIN dgNodes |-> {a.from : a \in {x \in dgArcs : x.to = u /\ x.rel \in Causal}}]
Effects == [u \in DOMAIN dgNodes |-> {a.to : a \in {x \in dgArcs : x.from = u}}]

why(uri, max) == Walk(Causes, uri, max)
why_at(uri, max, at) == Walk(CausesAt(at), uri, max)
graph_expand(uri, max) == Walk(Effects, uri, max)

-----------------------------------------------------------------------------
(* observe.rs.  ORDER BY ts leaves the order of equal times to rowid.       *)
ByTime(rows) == SortSeq(rows, LAMBDA a, b : a.ts < b.ts)
Limited(rows, n) == SubSeq(rows, 1, IF Len(rows) < n THEN Len(rows) ELSE n)
OfSession(rows, s) == SelectSeq(rows, LAMBDA r : r.session = s)

replay(s, n) == Limited(ByTime(OfSession(dgLog, s)), n)

\* Mutant of TimelineDecisions: only as many decisions as events left room for.
TimelineDecisionsSqueezed(s, n) == Limited(ByTime(OfSession(dgDecs, s)), n - Len(replay(s, n)))

TimelineDecisions(s, n) == Limited(ByTime(OfSession(dgDecs, s)), n)
session_timeline(s, n) == Limited(ByTime(replay(s, n) \o TimelineDecisions(s, n)), n)

\* daily_summary: both ends of the day are inclusive; the agents are those with an event.
InDay(rows, d) == SelectSeq(rows, LAMBDA r : r.ts >= d /\ r.ts <= d + DgDayLen)
Usd(rows) == FoldLeft(LAMBDA acc, r : acc + r.usd, 0, rows)
OfAgent(rows, a) == SelectSeq(rows, LAMBDA r : r.agent = a)

\* Mutant of SummaryAgents: an agent's costs of every day.
SummaryAgentsAllDays(d) ==
    LET ev == InDay(dgLog, d) IN
    [a \in {ev[i].agent : i \in DOMAIN ev} |->
        [events |-> Len(OfAgent(ev, a)), decisions |-> Len(OfAgent(InDay(dgDecs, d), a)), usd |-> Usd(OfAgent(dgCosts, a))]]

SummaryAgents(d) ==
    LET ev == InDay(dgLog, d) IN
    [a \in {ev[i].agent : i \in DOMAIN ev} |->
        [events |-> Len(OfAgent(ev, a)), decisions |-> Len(OfAgent(InDay(dgDecs, d), a)), usd |-> Usd(OfAgent(InDay(dgCosts, d), a))]]
daily_summary(d) ==
    [events |-> Len(InDay(dgLog, d)), decisions |-> Len(InDay(dgDecs, d)), usd |-> Usd(InDay(dgCosts, d)), agents |-> SummaryAgents(d)]

\* agent_trace and query_events (newest first); FTS search is in EventLog.
agent_trace(a, since, until, n) == Limited(ByTime(SelectSeq(OfAgent(dgLog, a), LAMBDA r : r.ts >= since /\ r.ts <= until)), n)
query_events(s, n) == Limited(Reverse(ByTime(OfSession(dgLog, s))), IF n < 1 THEN 1 ELSE n)

\* list_sessions, ORDER BY COALESCE(ended_at, started_at) DESC.
SessionEnd(s) == IF dgSess[s].end = -1 THEN dgSess[s].start ELSE dgSess[s].end
list_sessions(n) ==
    LET all == SetToSortSeq(DOMAIN dgSess, LAMBDA s, t : SessionEnd(s) > SessionEnd(t)) IN
    Limited([i \in DOMAIN all |->
        [session |-> all[i], agent |-> dgSess[all[i]].agent, events |-> Len(OfSession(dgLog, all[i])),
         decisions |-> Len(OfSession(dgDecs, all[i])), usd |-> Usd(OfSession(dgCosts, all[i]))]], n)

brain_stats == [events |-> Len(dgLog), decisions |-> Len(dgDecs), nodes |-> Cardinality(DOMAIN dgNodes),
                edges |-> Cardinality(dgArcs), sessions |-> Cardinality(DOMAIN dgSess), usd |-> Usd(dgCosts)]
Agents == {dgLog[i].agent : i \in DOMAIN dgLog}
top_agents(n) ==
    LET count == [a \in Agents |-> Len(OfAgent(dgLog, a))]
        all == SetToSortSeq(Agents, LAMBDA a, b : count[a] > count[b]) IN
    Limited([i \in DOMAIN all |-> <<all[i], count[all[i]]>>], n)

(* The MCP tools over these: arguments are clamped first.                   *)
Clamp(x, lo, hi) == IF x < lo THEN lo ELSE IF x > hi THEN hi ELSE x
ultra_why(u, depth) == why(u, Clamp(depth, 0, 20))
ultra_graph_expand(u, depth) == graph_expand(u, Clamp(depth, 0, 20))
ultra_events(s, n) == query_events(s, Clamp(n, 1, 1000))
McpTimeline(s, n) == session_timeline(s, Clamp(n, 1, 10000))
McpSessions(n) == list_sessions(Clamp(n, 1, 1000))
McpTrace(a, now, days, n) == agent_trace(a, now - Clamp(days, 0, 365) * DgDayLen, now, Clamp(n, 1, 10000))
McpDaily(now, back) == daily_summary(now - Clamp(back, 0, 365) * DgDayLen - DgDayLen)
ultra_stats == [stats |-> brain_stats, agents |-> top_agents(5)]

-----------------------------------------------------------------------------
\* The nodes within n edges of uri along nbr, and those at exactly n.
Within(nbr, uri, n) ==
    LET near[k \in 0 .. n] == IF k = 0 THEN {uri} ELSE near[k-1] \cup UNION {nbr[u] : u \in near[k-1]} IN near
IsWalk(nbr, path) == \A i \in 1 .. Len(path) - 1 : path[i+1] \in nbr[path[i]]
WalkIsExact(nbr, uri, max, steps) ==
    /\ {<<steps[i].uri, steps[i].depth>> : i \in DOMAIN steps} =
       {x \in (DOMAIN dgNodes) \X (0 .. max - 1) :
            x[1] \in Within(nbr, uri, max)[x[2]] /\ (x[2] > 0 => x[1] \notin Within(nbr, uri, max)[x[2] - 1])}
    /\ IsInjective([i \in DOMAIN steps |-> steps[i].uri])
    /\ \A i \in DOMAIN steps :
          /\ steps[i].path[1] = uri /\ Last(steps[i].path) = steps[i].uri
          /\ Len(steps[i].path) = steps[i].depth + 1 /\ IsWalk(nbr, steps[i].path)

(* why, why_at and graph_expand return every node within their depth once,  *)
(* at its shortest distance and with a path that follows edges, however the *)
(* graph is looped; and a decision with both ends explains its target, by   *)
(* its source, from the moment it is made and for ever.                     *)
WhyIsExact ==
    /\ \A u \in DOMAIN dgNodes, n \in 1 .. 3 :
          /\ WalkIsExact(Causes, u, n, ultra_why(u, n))
          /\ WalkIsExact(Effects, u, n, ultra_graph_expand(u, n))
          /\ WalkIsExact(CausesAt(1), u, n, why_at(u, n, 1))
    /\ \A i \in DOMAIN dgDecs : LET d == dgDecs[i] IN
          d.source # 0 /\ d.target # 0 => {d.source, d.uri} \subseteq {s.uri : s \in Range(why(d.target, 3))}

Many == 100
(* The reports agree with each other and with the log.  A timeline of n     *)
(* rows is the first n of everything logged in the session, though events   *)
(* and decisions are limited before they are merged.  Every session of the  *)
(* log is listed, with as many items as its timeline has and as many events *)
(* as a query finds.  The agents of a daily summary add up to the day's     *)
(* totals, leaving out only the spending of agents without an event that    *)
(* day, and each has as many events as its trace of that day shows; the     *)
(* top agents add up to the number of events.                               *)
ReportsAddUp ==
    /\ \A s \in {r.session : r \in Range(dgLog \o dgDecs)}, n \in 1 .. 3 :
          McpTimeline(s, n) = Limited(ByTime(OfSession(dgLog, s) \o OfSession(dgDecs, s)), n)
    /\ LET rows == McpSessions(Many) IN
          /\ {r.session : r \in Range(dgLog \o dgDecs \o dgCosts)} \subseteq {0} \cup {r.session : r \in Range(rows)}
          /\ \A r \in Range(rows) : /\ r.events + r.decisions = Len(McpTimeline(r.session, Many))
                                    /\ r.events = Len(ultra_events(r.session, Many))
    /\ \A d \in DgDays : LET s == McpDaily(d + DgDayLen, 0) IN
          /\ s.events = FoldFunction(LAMBDA a, x : a.events + x, 0, s.agents)
          /\ s.usd = FoldFunction(LAMBDA a, x : a.usd + x, 0, s.agents)
                     + Usd(SelectSeq(InDay(dgCosts, d), LAMBDA c : c.agent \notin DOMAIN s.agents))
          /\ \A a \in DOMAIN s.agents : s.agents[a].events = Len(McpTrace(a, d + DgDayLen, 1, Many))
    /\ ultra_stats.stats.events = FoldLeft(LAMBDA acc, x : acc + x[2], 0, ultra_stats.agents)
=============================================================================
