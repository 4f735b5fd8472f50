------------------------------ MODULE Learning ------------------------------
(***************************************************************************)
(* What the system learns from use (crates/synapse-learn, with the         *)
(* conformal guarantee of crates/synapse-core/src/conformal.rs).           *)
(*                                                                         *)
(*  - learn.db: wins and losses per shard, route and kind of memory, the   *)
(*    context queries and the feedback, written by several processes one   *)
(*    statement at a time (no call opens a transaction);                   *)
(*  - consolidate: near duplicates are marked `merged_into` another row,   *)
(*    one UPDATE per pair, found through random hash buckets;              *)
(*  - the query log, exported for training grouped by query;               *)
(*  - the calibrated lower bound on recall.                                *)
(*                                                                         *)
(* The four share no state; lnJob says which of them runs.                 *)
(***************************************************************************)
EXTENDS Integers, Sequences, FiniteSets, SequencesExt, FiniteSetsExt

CONSTANTS LnProcs,
          LnShards, LnRoutes, LnKinds, LnContexts,
          LnMaxRewards,   \* bound on feedback calls
          LnSimilar,      \* pairs {a, b} of documents with cosine > 0.95
          LnMaxDocs, LnMaxRuns,
          LnQueries, LnMaxEvents,
          LnTruth,        \* size of a calibration query's ground truth
          LnAlphas,       \* miss rates, in tenths
          LnMaxCal        \* bound on calibration queries

\* Two documents make a pair; new() asserts that alpha is between 0 and 1.
ASSUME LearnAssumption ==
    /\ IsFiniteSet(LnProcs) /\ IsFiniteSet(LnKinds)
    /\ LnMaxDocs \in Nat /\ LnTruth \in Nat
    /\ \A pair \in LnSimilar : pair \subseteq Nat /\ \E a, b \in pair : a # b /\ pair = {a, b}
    /\ LnQueries \subseteq Nat /\ LnAlphas \subseteq 1..9

VARIABLES lnJob,
          lnBandit, lnRoute, lnKind,  \* name -> NoRow or [wins, losses]
          lnCtx,       \* context_query_log: context -> NoRow or [route, reward]
          lnRows,      \* feedback: number of rows
          lnOld,       \* how many of them a sweep finds older than its cutoff
          lnCall,      \* process -> the statements it still has to execute
          lnGiven,     \* rewards given so far: shard -> [wins, losses]
          lnAccepted,  \* those of them that record_accept gave
          lnCalls, lnKilled,
          lnDocs, lnMerged, lnRun, lnRuns,
          lnEvents, lnResiduals

lnBase == <<lnBandit, lnRoute, lnKind, lnCtx, lnRows, lnOld, lnCall, lnGiven, lnAccepted, lnCalls, lnKilled>>
lnMerge == <<lnDocs, lnMerged, lnRun, lnRuns>>
lnVars == <<lnJob, lnBase, lnMerge, lnEvents, lnResiduals>>

NoRow == [wins |-> 0, losses |-> 0]
NoLog == [route |-> "none", reward |-> "none"]
NoRun == [rows |-> <<>>, bucket |-> <<>>, left |-> {}]

LearnInit ==
    /\ lnJob \in {"feedback", "merge", "clicks", "recall"}
    /\ lnBandit = [s \in LnShards |-> NoRow]
    /\ lnRoute = [r \in LnRoutes |-> NoRow]
    /\ lnKind = [k \in LnKinds |-> NoRow]
    /\ lnCtx = [c \in LnContexts |-> NoLog]
    /\ lnRows = 0 /\ lnOld = 0
    /\ lnCall = [p \in LnProcs |-> <<>>]
    /\ lnGiven = [s \in LnShards |-> NoRow]
    /\ lnAccepted = 0 /\ lnCalls = 0 /\ lnKilled = 0
    /\ lnDocs = 0 /\ lnRuns = 0
    /\ lnMerged = [d \in 1..LnMaxDocs |-> 0]
    /\ lnRun = [p \in LnProcs |-> NoRun]
    /\ lnEvents = <<>> /\ lnResiduals = <<>>

-----------------------------------------------------------------------------
(* learn.db                                                                *)

\* The upsert of the three reward tables: the first reward of a name makes
\* the row (1, 1) whatever the outcome was, later ones count.
Tallied(row, hit) == IF hit THEN [row EXCEPT !.wins = @ + 1] ELSE [row EXCEPT !.losses = @ + 1]
Rewarded(row, hit) == IF row = NoRow THEN [wins |-> 1, losses |-> 1] ELSE Tallied(row, hit)

update_bandit(s, hit) ==
    /\ lnBandit' = [lnBandit EXCEPT ![s] = Rewarded(@, hit)]
    /\ lnGiven' = [lnGiven EXCEPT ![s] = Tallied(@, hit)]

\* Mutant: the shard is rewarded before the feedback is on disk.
AcceptRewardsFirst(context, s) ==
    <<[op |-> "accepted", name |-> s, hit |-> TRUE], [op |-> "row", name |-> s, hit |-> TRUE]>>

\* record_accept: the context's row and its route's reward when the query
\* names a context, then the feedback row, then the shard.
record_accept(context, s) ==
    (IF context \in LnContexts
     THEN <<[op |-> "context", name |-> context, hit |-> TRUE], [op |-> "route", name |-> context, hit |-> TRUE]>>
     ELSE <<>>)
    \o <<[op |-> "row", name |-> s, hit |-> TRUE], [op |-> "accepted", name |-> s, hit |-> TRUE]>>

\* record_ctx_reward of the MCP server: the kinds, then the shard "ctxpack".
record_ctx_reward(kinds, hit, s) ==
    [i \in 1..Len(kinds) |-> [op |-> "kind", name |-> kinds[i], hit |-> hit]]
    \o <<[op |-> "bandit", name |-> s, hit |-> hit]>>

\* sweep_unaccepted: counts the old rows, accepted as they all are, and takes
\* one loss for the shard when there are any.
sweep_unaccepted(s) == IF lnOld > 0 THEN <<[op |-> "bandit", name |-> s, hit |-> FALSE]>> ELSE <<>>

LearnStart(p) ==
    /\ lnCall[p] = <<>> /\ lnCalls < LnMaxRewards
    /\ lnCalls' = lnCalls + 1
    /\ \E s \in LnShards :
          lnCall' \in {[lnCall EXCEPT ![p] = call] :
              call \in {record_accept(c, s) : c \in LnContexts \cup {"free"}}
                       \cup {record_ctx_reward(SetToSeq(ks), h, s) : ks \in SUBSET LnKinds, h \in BOOLEAN}
                       \cup {sweep_unaccepted(s)}}
    /\ UNCHANGED <<lnBandit, lnRoute, lnKind, lnCtx, lnRows, lnOld, lnGiven, lnAccepted, lnKilled>>

\* One statement of a call in progress.
LearnStatement(p) ==
    /\ lnCall[p] # <<>>
    /\ LET st == Head(lnCall[p]) IN
       \/ /\ st.op = "context"
          /\ lnCtx' = [lnCtx EXCEPT ![st.name] = IF @ = NoLog THEN @ ELSE [@ EXCEPT !.reward = "hit"]]
          /\ UNCHANGED <<lnBandit, lnRoute, lnKind, lnRows, lnGiven>>
       \/ /\ st.op = "route"
          /\ LET r == lnCtx[st.name].route IN
             lnRoute' = IF r \in LnRoutes THEN [lnRoute EXCEPT ![r] = Rewarded(@, st.hit)] ELSE lnRoute
          /\ UNCHANGED <<lnBandit, lnKind, lnCtx, lnRows, lnGiven>>
       \/ /\ st.op = "row" /\ lnRows' = lnRows + 1
          /\ UNCHANGED <<lnBandit, lnRoute, lnKind, lnCtx, lnGiven>>
       \/ /\ st.op = "kind" /\ lnKind' = [lnKind EXCEPT ![st.name] = Rewarded(@, st.hit)]
          /\ UNCHANGED <<lnBandit, lnRoute, lnCtx, lnRows, lnGiven>>
       \/ /\ st.op \in {"bandit", "accepted"} /\ update_bandit(st.name, st.hit)
          /\ UNCHANGED <<lnRoute, lnKind, lnCtx, lnRows>>
    /\ lnCall' = [lnCall EXCEPT ![p] = Tail(@)]
    /\ lnAccepted' = lnAccepted + (IF Head(lnCall[p]).op = "accepted" THEN 1 ELSE 0)
    /\ UNCHANGED <<lnOld, lnCalls, lnKilled>>

\* log_context_query: INSERT OR REPLACE, which forgets an earlier reward.
log_context_query(c, r) ==
    /\ lnCtx[c].route # r \/ lnCtx[c].reward # "none"
    /\ lnCtx' = [lnCtx EXCEPT ![c] = [route |-> r, reward |-> "none"]]
    /\ UNCHANGED <<lnBandit, lnRoute, lnKind, lnRows, lnOld, lnCall, lnGiven, lnAccepted, lnCalls, lnKilled>>

LearnAge == /\ lnOld < lnRows /\ lnOld' = lnRows
            /\ UNCHANGED <<lnBandit, lnRoute, lnKind, lnCtx, lnRows, lnCall, lnGiven, lnAccepted, lnCalls, lnKilled>>

\* A process dies between two statements of a call.
LearnKill(p) ==
    /\ lnCall[p] # <<>>
    /\ lnCall' = [lnCall EXCEPT ![p] = <<>>]
    /\ lnKilled' = lnKilled + 1
    /\ UNCHANGED <<lnBandit, lnRoute, lnKind, lnCtx, lnRows, lnOld, lnGiven, lnAccepted, lnCalls>>

-----------------------------------------------------------------------------
(* Consolidation                                                           *)

LearnPut == /\ lnDocs < LnMaxDocs /\ lnDocs' = lnDocs + 1
            /\ UNCHANGED <<lnMerged, lnRun, lnRuns>>

\* Two rows of one bucket with a cosine above 0.95, by their places.
ClosePairs(rows, bucket, n) ==
    {x \in (1..n) \X (1..n) : /\ x[1] < x[2] /\ bucket[rows[x[1]]] = bucket[rows[x[2]]]
                              /\ {rows[x[1]], rows[x[2]]} \in LnSimilar}

\* Row order is whatever the join gives; the planes are drawn at random, so
\* any two rows may or may not fall into one bucket.
ConsolidateStart(p) ==
    /\ lnRun[p] = NoRun /\ lnRuns < LnMaxRuns /\ lnDocs >= 2
    /\ lnRuns' = lnRuns + 1
    /\ \E rows \in SetToSeqs(1..lnDocs), bucket \in [1..lnDocs -> {0, 1}] :
          lnRun' = [lnRun EXCEPT ![p] = [rows |-> rows, bucket |-> bucket, left |-> ClosePairs(rows, bucket, lnDocs)]]
    /\ UNCHANGED <<lnDocs, lnMerged>>

\* Mutant: of a pair, the row the query gave first is kept.
KeepsFirstRow(a, b) == a

Keeps(a, b) == IF a < b THEN a ELSE b

\* One pair: the row that is not kept gets the pointer, over an older one.
ConsolidatePair(p, pair) ==
    LET a == lnRun[p].rows[pair[1]]
        b == lnRun[p].rows[pair[2]]
        dup == IF Keeps(a, b) = a THEN b ELSE a IN
    /\ lnMerged' = [lnMerged EXCEPT ![dup] = Keeps(a, b)]
    /\ lnRun' = [lnRun EXCEPT ![p].left = @ \ {pair}]
    /\ UNCHANGED <<lnDocs, lnRuns>>

ConsolidateEnd(p) ==
    /\ lnRun[p] # NoRun /\ lnRun[p].left = {}
    /\ lnRun' = [lnRun EXCEPT ![p] = NoRun]
    /\ UNCHANGED <<lnDocs, lnMerged, lnRuns>>

ConsolidateKill(p) ==
    /\ lnRun[p].left # {}
    /\ lnRun' = [lnRun EXCEPT ![p] = NoRun]
    /\ UNCHANGED <<lnDocs, lnMerged, lnRuns>>

-----------------------------------------------------------------------------
(* The query log                                                           *)

log_event(q, rank) ==
    /\ Len(lnEvents) < LnMaxEvents
    /\ lnEvents' = Append(lnEvents, [query |-> q, rank |-> rank, clicked |-> FALSE])

mark_click(id) == /\ ~lnEvents[id].clicked
                  /\ lnEvents' = [lnEvents EXCEPT ![id].clicked = TRUE]

\* ORDER BY query_text, rank; events that tie stay as they were logged.
ExportedBefore(i, j) ==
    \/ lnEvents[i].query < lnEvents[j].query
    \/ /\ lnEvents[i].query = lnEvents[j].query
       /\ \/ lnEvents[i].rank < lnEvents[j].rank
          \/ lnEvents[i].rank = lnEvents[j].rank /\ i < j
ExportedAt(n) == CHOOSE i \in DOMAIN lnEvents : Cardinality({j \in DOMAIN lnEvents : ExportedBefore(j, i)}) = n - 1
Exported == [n \in DOMAIN lnEvents |-> lnEvents[ExportedAt(n)]]

\* qid: a number for every query, in the order of first appearance.
FirstOfItsQuery(i) ==
    CHOOSE f \in 1..i : /\ Exported[f].query = Exported[i].query
                        /\ \A e \in 1..(f - 1) : Exported[e].query # Exported[i].query
export_libsvm ==
    [i \in DOMAIN Exported |->
        [clicked |-> Exported[i].clicked, rank |-> Exported[i].rank,
         qid |-> Cardinality({Exported[j].query : j \in 1..FirstOfItsQuery(i)})]]

-----------------------------------------------------------------------------
(* The bound on recall                                                     *)

\* One calibration query: hits may exceed the truth, because recall_at_k
\* counts a document once for every time it is predicted.
calibrate(hits) == /\ Len(lnResiduals) < LnMaxCal
                   /\ lnResiduals' = Append(lnResiduals, LnTruth - hits)

\* Element ceil((1 - alpha)(n + 1)) of the sorted residuals, within 1..n.
ResidualBefore(i, j) == lnResiduals[i] < lnResiduals[j] \/ (lnResiduals[i] = lnResiduals[j] /\ i < j)
ResidualAt(k) == CHOOSE i \in DOMAIN lnResiduals : Cardinality({j \in DOMAIN lnResiduals : ResidualBefore(j, i)}) = k - 1
conformal_quantile(alpha) ==
    LET n == Len(lnResiduals)
        up == ((10 - alpha) * (n + 1) + 9) \div 10
    IN lnResiduals[ResidualAt(Max({1, Min({up, n})}))]

\* In units of 1 / LnTruth; 0 without calibration.
predict_recall_lower_bound(alpha) ==
    IF lnResiduals = <<>> THEN 0
    ELSE Max({0, Min({LnTruth, LnTruth - conformal_quantile(alpha)})})

should_fallback(alpha, target) == predict_recall_lower_bound(alpha) < target

-----------------------------------------------------------------------------
LearnNext ==
    /\ UNCHANGED lnJob
    /\ \/ /\ lnJob = "feedback" /\ UNCHANGED <<lnMerge, lnEvents, lnResiduals>>
          /\ \/ \E p \in LnProcs : LearnStart(p) \/ LearnStatement(p) \/ LearnKill(p)
             \/ \E c \in LnContexts, r \in LnRoutes : log_context_query(c, r)
             \/ LearnAge
       \/ /\ lnJob = "merge" /\ UNCHANGED <<lnBase, lnEvents, lnResiduals>>
          /\ \/ LearnPut
             \/ \E p \in LnProcs : \/ ConsolidateStart(p) \/ ConsolidateEnd(p) \/ ConsolidateKill(p)
                                   \/ \E pair \in lnRun[p].left : ConsolidatePair(p, pair)
       \/ /\ lnJob = "clicks" /\ UNCHANGED <<lnBase, lnMerge, lnResiduals>>
          /\ \/ \E q \in LnQueries, rank \in 1..2 : log_event(q, rank)
             \/ \E id \in DOMAIN lnEvents : mark_click(id)
       \/ /\ lnJob = "recall" /\ UNCHANGED <<lnBase, lnMerge, lnEvents>>
          /\ \E hits \in 0..(LnTruth + 1) : calibrate(hits)

-----------------------------------------------------------------------------
(* Properties                                                              *)

\* Processes that reward one shard at a time never lose or double a reward:
\* each row holds all rewards given but the first.  And no accepted answer is
\* rewarded that is not in the feedback table; a row without its reward is a
\* call in progress or one that was killed.
RewardsAddUp ==
    /\ \A s \in LnShards :
          LET given == lnGiven[s].wins + lnGiven[s].losses IN
          IF given = 0 THEN lnBandit[s] = NoRow
          ELSE /\ lnBandit[s].wins + lnBandit[s].losses = given + 1
               /\ lnBandit[s].wins - 1 \in {lnGiven[s].wins - 1, lnGiven[s].wins}
    /\ lnAccepted <= lnRows
    /\ lnRows <= lnAccepted + lnKilled + Cardinality({p \in LnProcs : lnCall[p] # <<>>})

\* merged_into never leads in a circle, over any number of runs, running at
\* once, cut short, or with rows in another order (of any documents, one is
\* merged into none of them): every duplicate leads to a row that is kept.
\* When a run ends, of two similar rows of one bucket at most one is unmarked.
DuplicatesKeepOne ==
    /\ \A S \in SUBSET (1..LnMaxDocs) : S # {} => \E d \in S : lnMerged[d] \notin S
    /\ \A p \in LnProcs : lnRun[p] # NoRun /\ lnRun[p].left = {} =>
          \A pair \in LnSimilar :
             pair \subseteq DOMAIN lnRun[p].bucket /\ (\A a, b \in pair : lnRun[p].bucket[a] = lnRun[p].bucket[b])
             => \E d \in pair : lnMerged[d] # 0

\* A training file can be read group by group: the rows of one query are
\* adjacent, groups are numbered 1, 2, ... and no row or click is missing.
ExportIsGrouped ==
    LET out == export_libsvm IN
    /\ Len(out) = Len(lnEvents)
    /\ \A i, j \in DOMAIN out : i < j => out[j].qid - out[i].qid \in 0..(j - i)
    /\ Cardinality({i \in DOMAIN out : out[i].clicked}) = Cardinality({i \in DOMAIN lnEvents : lnEvents[i].clicked})
    /\ \A q \in LnQueries :
          LET group == {i \in DOMAIN Exported : Exported[i].query = q} IN
          \A i, j \in group : out[i].qid = out[j].qid /\ i..j \subseteq group

\* When no exact fallback is asked for, at least 1 - alpha of the calibration
\* queries really reached the target; without calibration it is always asked.
BoundCovers ==
    \A alpha \in LnAlphas, target \in 1..LnTruth :
        ~should_fallback(alpha, target) =>
            LET n == Len(lnResiduals)
                met == {i \in 1..n : LnTruth - lnResiduals[i] >= target}
            IN n > 0 /\ 10 * Cardinality(met) >= (10 - alpha) * n
=============================================================================
