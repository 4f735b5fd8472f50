------------------------------- MODULE Reads -------------------------------
(***************************************************************************)
(* The read side of synapsed and its command line client synx-fast.  Raw   *)
(* SQL, lexical and scoped searches and the hydration of vector hits run   *)
(* on one read-only connection behind the mutex sql_conn; its progress     *)
(* handler interrupts a statement once sql_deadline has passed, and only   *)
(* a Sql request moves that deadline.  A search is cut into one step per   *)
(* statement and per progress check, so writers, other searches and the    *)
(* clock come between any two of its statements.                           *)
(*                                                                         *)
(* A document is its id with its scope, the terms of its text and the rank *)
(* bm25 gives it; the embedder and the kernels are the fixed order RdNear  *)
(* of the documents around a query.  Puts, the caches' upkeep and delete   *)
(* are the subject of Daemon; here documents just come and go.             *)
(***************************************************************************)
EXTENDS Integers, Sequences, FiniteSets, SequencesExt, FiniteSetsExt

CONSTANTS
    RdConns,      \* connections, one command each at a time
    RdDoc,        \* id -> [meta, flag, terms, head, rank, cost]: what --meta and
                  \* --scope said when it was put, its terms, those of its title,
                  \* uri and first 512 characters, its bm25 rank, its tokens
    RdScopes,     \* values of the scope key that commands ask for
    RdQueries,    \* <<[words, plain, phrase, early], ...>>: the tokens, is the text
                  \* only words and blanks, the documents that hold it verbatim,
                  \* and those that do in title, uri or first 512 characters
    RdShort,      \* tokens of one character
    RdNear,       \* all ids, nearest to the query's embedding first
    RdForms,      \* <<operation, mode, scope, query>> of the requests that are made
    RdLimits,     \* limits that are asked for
    RdPool,       \* candidate_limit of a scoped search
    RdWindow,     \* the five seconds a Sql request may take
    RdMaxClock, RdMaxRequests, RdMaxChanges,  \* bounds on time, requests, writes
    RdTenants,    \* tenant databases
    RdFree,       \* sql_conn is not locked
    RdArgs,       \* arguments a command line is made of
    RdMaxArgs,    \* bound on their number
    RdBudget      \* token budget of `synx-fast context`

RdOpKinds == {"search", "scoped", "searchVec", "batch", "sql", "tenant"}
RdModes == {"Lex", "Vec", "Hybrid"}
RdNoScope == "none"
RdIds == DOMAIN RdDoc

ASSUME ReadsAssumption ==
    /\ RdFree \notin RdConns
    /\ RdForms \subseteq RdOpKinds \X RdModes \X ({RdNoScope} \cup RdScopes) \X DOMAIN RdQueries
    /\ \A f \in RdForms : (f[1] = "scoped" => f[3] # RdNoScope) /\ (f[3] # RdNoScope => f[1] \in {"scoped", "batch"})
    /\ RdPool \in Nat \ {0} /\ RdWindow \in Nat /\ RdMaxClock \in Nat
    /\ Range(RdNear) = RdIds /\ Len(RdNear) = Cardinality(RdIds)

VARIABLES
    rdRows,      \* ids in docs
    rdHot,       \* ids in the lifted index: rows deleted elsewhere stay in it
    rdCache,     \* query_cache: <<mode, query, limit>> -> hits, and their texts whole?
    rdClock, rdDeadline,
    rdLock,      \* holder of sql_conn
    rdTenant,    \* the database attached as `tenant`
    rdConn,      \* connection -> the request it serves
    rdLeft,      \* requests and writes still to come
    rdToken,     \* [daemon, client]: the tokens the two resolved
    rdCmd, rdEnv,  \* the arguments of a command line, and SYNAPSE_SCOPE beside it
    rdJob        \* "serve" requests, or "type" a command line

rdData == <<rdRows, rdHot, rdCache>>
rdTime == <<rdClock, rdDeadline>>
rdVars == <<rdData, rdTime, rdLock, rdTenant, rdConn, rdLeft, rdToken, rdCmd, rdEnv, rdJob>>

RdNone == <<>>
RdRefused == "refused"
RdIdle == [pc |-> "idle"]
RdAt(c, l) == rdConn[c].pc = l
rdSet(c, r) == rdConn' = [rdConn EXCEPT ![c] = r]

\* ---- What the statements return ----

\* The ids of s that satisfy P, and the n best of a set in an order.
RdSorted(S, less(_, _)) == SetToSortSeq(S, less)
RdTake(s, n) == SubSeq(s, 1, Min({n, Len(s)}))
ByRowId(a, b) == a < b
ByRank(a, b) == RdDoc[a].rank > RdDoc[b].rank \/ (RdDoc[a].rank = RdDoc[b].rank /\ a < b)

\* fts5_match_query: a text of words goes to FTS5 as it is, and means all of
\* them; any other becomes its longer tokens joined with OR.
fts5_match_query(q) ==
    IF q.plain THEN [any |-> FALSE, terms |-> Range(q.words)]
               ELSE [any |-> TRUE, terms |-> Range(q.words) \ RdShort]
\* fts5_loose_match_query: always the longer tokens joined with OR.
fts5_loose_match_query(q) == [any |-> TRUE, terms |-> Range(q.words) \ RdShort]

RdMatches(m, d) == IF m.any THEN m.terms \cap RdDoc[d].terms # {} ELSE m.terms \subseteq RdDoc[d].terms

\* should_rank_lex_with_bm25: one token needs no ranking.
should_rank_lex_with_bm25(q) == Len(q.words) > 1
RdScore(q, d) == IF should_rank_lex_with_bm25(q) THEN RdDoc[d].rank ELSE 0
LexOrder(q, S, limit) ==
    RdTake(IF should_rank_lex_with_bm25(q) THEN RdSorted(S, ByRank) ELSE RdSorted(S, ByRowId), limit)

\* merge_scope_meta: --scope replaces the key in a JSON object, starts one when
\* there is none, and is an error beside any other JSON value.
RdBadMeta == "not an object"
merge_scope_meta(meta, flag) == IF flag = RdNoScope THEN meta ELSE IF meta = RdBadMeta THEN RdRefused ELSE flag
RdScopeOf(d) == merge_scope_meta(RdDoc[d].meta, RdDoc[d].flag)
InScope(d, s) == RdScopeOf(d) = s

\* fast_lex_from_state: a query without tokens is answered at once, with nothing.
fast_lex_from_state(q, limit) ==
    LET m == fts5_match_query(q) IN
    IF m.terms = {} THEN <<>> ELSE LexOrder(q, {d \in rdRows : RdMatches(m, d)}, limit)

\* scoped_lex_from_state: the matches within the scope, or, when the query has
\* no tokens, the newest rows of the scope.
scoped_lex_from_state(q, s, limit) ==
    LET m == fts5_loose_match_query(q) IN
    IF m.terms # {}
    THEN LexOrder(q, {d \in rdRows : RdMatches(m, d) /\ InScope(d, s)}, limit)
    ELSE RdTake(Reverse(RdSorted({d \in rdRows : InScope(d, s)}, ByRowId)), limit)

\* The pairs of the lifted index, nearest first; hydration drops the rows that
\* are gone and keeps the order.
HotPairs(limit) == RdTake(SelectSeq(RdNear, LAMBDA d : d \in rdHot), limit)
hydrate_pairs_from_state(pairs) == SelectSeq(pairs, LAMBDA d : d \in rdRows)

\* filter_hits_by_meta: reads docs again, so it also drops rows that are gone.
FilterNothing(hits, s) == hits
filter_hits_by_meta(hits, s) == SelectSeq(hits, LAMBDA d : d \in rdRows /\ InScope(d, s))

\* rrf_merge_neon (see Retrieval), with k = 60.
RdRrf(s, d) == IF d \in Range(s) THEN 1000000 \div (60 + CHOOSE i \in DOMAIN s : s[i] = d) ELSE 0
RdMerged(lex, vec, limit) ==
    LET score(d) == RdRrf(lex, d) + RdRrf(vec, d)
        better(a, b) == score(a) > score(b) \/ (score(a) = score(b) /\ a < b)
    IN RdTake(RdSorted(Range(lex) \cup Range(vec), better), limit)

\* query_terms: at most sixteen distinct tokens longer than one character.
query_terms(q) == Range(q.words) \ RdShort

\* scoped_hit_score, of what the hit carries: title, uri and the first 512
\* characters of the text, all of it (`full`) only from Store::search.  The
\* query verbatim counts for more than every overlap.  The hit's own score is
\* RdScore for rows of the lexical statement; the ranks of the global search
\* are below one and only break ties.
scoped_hit_score(q, d, full, own) ==
    (IF d \in (IF full THEN q.phrase ELSE q.early) THEN 1000 ELSE 0)
    + 10 * Cardinality(query_terms(q) \cap (IF full THEN RdDoc[d].terms ELSE RdDoc[d].head))
    + own

\* rank_scoped_hits: the first hit of each document, a stable sort, the limit.
KeepsDuplicates(s) == s
Deduplicated(s) ==
    LET keep == {i \in DOMAIN s : \A j \in 1..(i - 1) : s[j] # s[i]}
    IN [n \in 1..Cardinality(keep) |-> s[SetToSortSeq(keep, ByRowId)[n]]]
rank_scoped_hits(q, lex, global, full, limit) ==
    LET all == Deduplicated(lex \o global)
        own(d) == IF d \in Range(lex) THEN RdScore(q, d) ELSE 0
        score(i) == scoped_hit_score(q, all[i], full /\ all[i] \notin Range(lex), own(all[i]))
        order == SetToSortSeq(DOMAIN all, LAMBDA i, j : score(i) > score(j) \/ (score(i) = score(j) /\ i < j))
    IN RdTake([n \in DOMAIN order |-> all[order[n]]], limit)

\* ---- The connection ----

\* resolve_auth_token: the environment, the file beside the database, or a new
\* token written to it; 0 when the file cannot be used, and auth is off.
DaemonTokens == {0, 1}
\* auth_token of synx-fast: the first of its own sources that holds one, which
\* may be none (0) or the token of another brain (2).
ClientTokens == {0, 1, 2}

\* sql_deadline starts at the daemon's own start: it has passed.
ReadsInit ==
    /\ rdRows = {} /\ rdHot = {} /\ rdCache = <<>>
    /\ rdClock = 1 /\ rdDeadline = 0
    /\ rdLock = RdFree /\ rdTenant = RdNone
    /\ rdConn = [c \in RdConns |-> RdIdle]
    /\ rdLeft = [requests |-> RdMaxRequests, changes |-> RdMaxChanges]
    /\ rdCmd = <<>>
    /\ rdEnv \in {RdNoScope} \cup RdScopes /\ (rdJob = "type" \/ rdEnv = RdNoScope)
    /\ \/ rdJob = "serve" /\ rdToken \in {t \in [daemon : DaemonTokens, client : ClientTokens] : t.daemon = 0 => t.client = 0}
       \/ rdJob = "type" /\ rdToken = [daemon |-> 0, client |-> 0]

\* call sends Auth first when the client has a token, and gives up when it is
\* refused; run_batch opens its own stream and never sends Auth.
Presents(op) == IF op = "batch" THEN 0 ELSE rdToken.client
subtle_eq(a, b) == a = b
Auth(token) == rdToken.daemon = 0 \/ subtle_eq(token, rdToken.daemon)
Gate(op) ==
    IF rdToken.daemon = 0 THEN "served"
    ELSE IF Presents(op) = 0 THEN "auth required"
    ELSE IF Auth(Presents(op)) THEN "served" ELSE "invalid token"

RdRequest(op, mode, q, limit, s) ==
    [pc |-> "done", op |-> op, mode |-> mode, q |-> q, limit |-> limit, scope |-> s,
     left |-> <<>>, token |-> Presents(op),
     cand |-> <<>>, lex |-> <<>>, hits |-> <<>>, full |-> FALSE, lists |-> <<>>, out |-> "ok",
     ever |-> rdRows, whole |-> rdRows]

\* fetch_k of a scoped search: candidate_limit, which a batch does not send
\* and is ten times the limit then, but at least the limit.
IsScoped(r) == r.scope # RdNoScope
FetchOnlyPool(r) == RdPool
fetch_k(r) == Max({IF r.op = "batch" THEN 10 * r.limit ELSE RdPool, r.limit})
RdLimit(r) == IF IsScoped(r) THEN fetch_k(r) ELSE r.limit
RdQuery(r) == RdQueries[r.q]
CacheKey(r) == <<r.mode, r.q, RdLimit(r)>>
Served(r) == r.out \notin {"auth required", "invalid token"}

\* The queries of run_batch's input after the first: one BatchSearch for all
\* of them, or, with a scope, one SearchScoped after the other on the stream.
BatchQueries(q) == <<(q % Len(RdQueries)) + 1>>

\* A scoped search begins with its own statement, any other with the cache.
OpensWith(r) == IF IsScoped(r) THEN "slex" ELSE "look"

\* A request arrives.  The deadline is set before sql_conn is locked.
RdReceive(c) ==
    \E f \in RdForms, limit \in RdLimits :
        LET op == f[1]
            q == f[4]
            r == RdRequest(op, f[2], q, limit, f[3])
            first == [search |-> "look", scoped |-> "slex", searchVec |-> "hot",
                      batch |-> OpensWith(r), sql |-> "sql", tenant |-> "tenant"]
        IN /\ RdAt(c, "idle") /\ rdLeft.requests > 0
           /\ rdLeft' = [rdLeft EXCEPT !.requests = @ - 1]
           /\ rdSet(c, IF Gate(op) # "served" THEN [r EXCEPT !.out = Gate(op)]
                       ELSE [r EXCEPT !.pc = first[op],
                                      !.left = IF op = "batch" THEN BatchQueries(q) ELSE <<>>])
           /\ rdDeadline' = IF op = "sql" /\ Gate(op) = "served" THEN rdClock + RdWindow ELSE rdDeadline
           /\ UNCHANGED <<rdData, rdClock, rdLock, rdTenant, rdToken, rdCmd, rdEnv, rdJob>>

\* One query is answered: a batch goes on to its next one.
QueryReplied(r) ==
    LET lists == IF r.op = "batch" THEN Append(r.lists, [q |-> r.q, hits |-> r.hits]) ELSE <<>>
    IN IF r.left = <<>> THEN [r EXCEPT !.pc = "done", !.lists = lists]
       ELSE [r EXCEPT !.pc = OpensWith(r), !.lists = lists, !.hits = <<>>, !.lex = <<>>, !.cand = <<>>,
                      !.full = FALSE, !.q = Head(r.left), !.left = Tail(r.left)]
RankedReply(r, global) ==
    QueryReplied([r EXCEPT !.hits = rank_scoped_hits(RdQuery(r), r.cand, global, r.full, r.limit)])

\* A search ends: a scoped one goes on to filter what it found.
Ended(r) ==
    IF ~IsScoped(r) THEN QueryReplied(r) ELSE IF r.hits = <<>> THEN RankedReply(r, <<>>) ELSE [r EXCEPT !.pc = "filter"]

\* An error ends a request, but not a batch: BatchSearch answers with an empty
\* list for the query, SearchScoped with the error, and the next one is sent.
RdError == <<0>>
FailedEnds(r) == [r EXCEPT !.pc = "done", !.out = "err"]
Failed(r) == IF r.op # "batch" THEN [r EXCEPT !.pc = "done", !.out = "err"]
             ELSE QueryReplied([r EXCEPT !.hits = IF IsScoped(r) THEN RdError ELSE <<>>])

\* get_cached_hits, then the statements of the mode; a vector query without a
\* lifted index goes to the store.
RdLook(c) ==
    LET r == rdConn[c]
        hit == rdCache[CacheKey(r)] IN
    /\ RdAt(c, "look")
    /\ rdSet(c, IF CacheKey(r) \in DOMAIN rdCache THEN Ended([r EXCEPT !.hits = hit.hits, !.full = hit.full])
                ELSE [r EXCEPT !.pc = IF r.mode = "Vec" THEN "hot" ELSE "lex"])
    /\ UNCHANGED <<rdData, rdTime, rdLock, rdTenant, rdLeft, rdToken, rdCmd, rdEnv, rdJob>>

\* put_cached_hits at the end of a search that was not a cache hit.
RdInstalls(r) == r.op # "searchVec"
RdAnswer(c, r) ==
    /\ rdSet(c, Ended(r))
    /\ rdCache' = IF RdInstalls(r) THEN (CacheKey(r) :> [hits |-> r.hits, full |-> r.full]) @@ rdCache ELSE rdCache

\* fast_search_from_state asks the lexical index for three times the limit
\* when it is going to merge.
RdFetch(r) == IF r.mode = "Hybrid" /\ r.op # "searchVec" THEN 3 * RdLimit(r) ELSE RdLimit(r)

\* The lifted index is read outside every lock but its own.
RdHot(c) ==
    LET r == rdConn[c]
        pairs == HotPairs(RdFetch(r))
        merges == r.mode = "Hybrid" /\ r.op # "searchVec"
    IN /\ RdAt(c, "hot")
       /\ \/ /\ pairs # <<>>
             /\ rdSet(c, [r EXCEPT !.pc = "hyd", !.hits = pairs])
             /\ UNCHANGED rdCache
          \/ /\ pairs = <<>> /\ merges /\ r.lex # <<>>
             /\ RdAnswer(c, [r EXCEPT !.hits = RdMerged(r.lex, <<>>, RdLimit(r))])
          \/ /\ pairs = <<>> /\ (merges => r.lex = <<>>)
             /\ rdSet(c, [r EXCEPT !.pc = "store"])
             /\ UNCHANGED rdCache
       /\ UNCHANGED <<rdRows, rdHot, rdTime, rdLock, rdTenant, rdLeft, rdToken, rdCmd, rdEnv, rdJob>>

\* Store::search on the store's own connection, which has no progress handler.
RdStore(c) ==
    LET r == rdConn[c]
        near == SelectSeq(RdNear, LAMBDA d : d \in rdRows)
    IN /\ RdAt(c, "store")
       /\ RdAnswer(c, [r EXCEPT !.full = TRUE, !.hits =
              IF r.mode = "Hybrid" /\ r.op # "searchVec"
              THEN RdMerged(fast_lex_from_state(RdQuery(r), 3 * RdLimit(r)), RdTake(near, 3 * RdLimit(r)), RdLimit(r))
              ELSE RdTake(near, RdLimit(r))])
       /\ UNCHANGED <<rdRows, rdHot, rdTime, rdLock, rdTenant, rdLeft, rdToken, rdCmd, rdEnv, rdJob>>

\* A statement on sql_conn: the lock is taken and the snapshot it reads fixed.
RdStatements == {"lex", "slex", "hyd", "filter", "sql"}
RdLockConn(c) ==
    LET r == rdConn[c]
        read == CASE r.pc = "lex" -> fast_lex_from_state(RdQuery(r), RdFetch(r))
                  [] r.pc = "slex" -> scoped_lex_from_state(RdQuery(r), r.scope, fetch_k(r))
                  [] r.pc = "hyd" -> hydrate_pairs_from_state(r.hits)
                  [] r.pc = "filter" -> filter_hits_by_meta(r.hits, r.scope)
                  [] OTHER -> <<>>
        \* a lexical query without tokens never reaches the connection
        silent == r.pc = "lex" /\ fts5_match_query(RdQuery(r)).terms = {}
    IN /\ r.pc \in RdStatements
       /\ rdLock = RdFree \/ silent
       /\ rdLock' = IF silent THEN rdLock ELSE c
       /\ rdSet(c, [r EXCEPT !.pc = [lex |-> "lexrun", slex |-> "slexrun", hyd |-> "hydrun",
                                     filter |-> "filterrun", sql |-> "sqlrun"][r.pc],
                             !.lex = IF r.pc = "lex" THEN read ELSE @,
                             !.cand = IF r.pc = "slex" THEN read ELSE @,
                             !.hits = IF r.pc \in {"hyd", "filter"} THEN read ELSE @])
       /\ UNCHANGED <<rdData, rdTime, rdTenant, rdLeft, rdToken, rdCmd, rdEnv, rdJob>>

\* The progress handler, every 1000 steps of a statement: past the deadline it
\* interrupts whatever runs on the connection; before that it does nothing.
RdRunning == {"lexrun", "slexrun", "hydrun", "filterrun", "sqlrun"}
RdCheck(c) ==
    LET r == rdConn[c] IN
    /\ r.pc \in RdRunning /\ rdLock = c /\ rdClock > rdDeadline
    /\ rdSet(c, Failed(r)) /\ rdLock' = RdFree
    /\ UNCHANGED <<rdData, rdTime, rdTenant, rdLeft, rdToken, rdCmd, rdEnv, rdJob>>

\* The statement ends and what follows it in its handler is decided.
RdFinish(c) ==
    LET r == rdConn[c]
        merged == [r EXCEPT !.hits = RdMerged(r.lex, r.hits, RdLimit(r))]
    IN /\ r.pc \in RdRunning \ {"sqlrun"}
       /\ rdLock' = IF rdLock = c THEN RdFree ELSE rdLock
       /\ \/ /\ r.pc = "lexrun" /\ r.mode = "Lex"
             /\ RdAnswer(c, [r EXCEPT !.hits = r.lex])
          \/ /\ r.pc = "lexrun" /\ r.mode = "Hybrid"
             /\ rdSet(c, [r EXCEPT !.pc = "hot"]) /\ UNCHANGED rdCache
          \/ /\ r.pc = "hydrun"
             /\ IF r.mode = "Hybrid" /\ r.op # "searchVec"
                THEN IF r.lex = <<>> /\ r.hits = <<>>
                     THEN rdSet(c, [r EXCEPT !.pc = "store"]) /\ UNCHANGED rdCache
                     ELSE RdAnswer(c, merged)
                ELSE RdAnswer(c, r)
          \/ /\ r.pc = "slexrun"
             /\ rdSet(c, IF Len(r.cand) < r.limit /\ r.mode # "Lex" THEN [r EXCEPT !.pc = "look"]
                         ELSE RankedReply(r, <<>>))
             /\ UNCHANGED rdCache
          \/ /\ r.pc = "filterrun"
             /\ rdSet(c, RankedReply(r, r.hits))
             /\ UNCHANGED rdCache
       /\ UNCHANGED <<rdRows, rdHot, rdTime, rdTenant, rdLeft, rdToken, rdCmd, rdEnv, rdJob>>

\* A Sql statement ends, with its rows or past the cap of 10 000 of them.
RdSqlEnd(c) ==
    /\ RdAt(c, "sqlrun")
    /\ rdLock' = RdFree
    /\ \E out \in {"ok", "err"} : rdSet(c, [rdConn[c] EXCEPT !.pc = "done", !.out = out])
    /\ UNCHANGED <<rdData, rdTime, rdTenant, rdLeft, rdToken, rdCmd, rdEnv, rdJob>>

\* UseTenant: the shared connection drops the attached database before it
\* attaches the new one, which can fail.
RdUseTenant(c) ==
    LET r == rdConn[c] IN
    /\ RdAt(c, "tenant") /\ rdLock = RdFree
    /\ \E t \in RdTenants, ok \in BOOLEAN :
          /\ rdTenant' = IF ok THEN <<t>> ELSE RdNone
          /\ rdSet(c, [r EXCEPT !.pc = "done", !.out = IF ok THEN "ok" ELSE "err"])
    /\ UNCHANGED <<rdData, rdTime, rdLock, rdLeft, rdToken, rdCmd, rdEnv, rdJob>>

\* The client prints the answer and closes the stream.
RdPrinted(c) ==
    /\ RdAt(c, "done")
    /\ rdSet(c, RdIdle)
    /\ UNCHANGED <<rdData, rdTime, rdLock, rdTenant, rdLeft, rdToken, rdCmd, rdEnv, rdJob>>

\* ---- What happens around the requests ----

Witnessed(rows) ==
    rdConn' = [c \in RdConns |-> IF RdAt(c, "idle") THEN rdConn[c]
                                 ELSE [rdConn[c] EXCEPT !.ever = @ \cup rows, !.whole = @ \cap rows]]
RdChange == rdLeft.changes > 0 /\ rdLeft' = [rdLeft EXCEPT !.changes = @ - 1]

\* read_jsonl_batch: every line is parsed before the one request is sent, so a
\* line whose meta refuses the scope keeps all of them out.
RdLines == {lines \in {{d, e} : d, e \in RdIds} : \A d \in lines : RdScopeOf(d) # RdRefused}

\* put and put-batch.  A write clears the query cache; the lifted index takes
\* the rows that carry an embedding.
RdPut ==
    \E lines \in RdLines, embeds \in BOOLEAN :
        /\ RdChange
        /\ lines \cap rdRows = {}
        /\ rdRows' = rdRows \cup lines
        /\ rdHot' = IF embeds THEN rdHot \cup lines ELSE rdHot
        /\ rdCache' = <<>>
        /\ Witnessed(rdRows')
        /\ UNCHANGED <<rdTime, rdLock, rdTenant, rdToken, rdCmd, rdEnv, rdJob>>

\* Another process removes a document: neither the cache nor the lifted index
\* of the daemon hears of it.
RdRemoved ==
    \E d \in rdRows :
        /\ RdChange
        /\ rdRows' = rdRows \ {d}
        /\ Witnessed(rdRows')
        /\ UNCHANGED <<rdHot, rdCache, rdTime, rdLock, rdTenant, rdToken, rdCmd, rdEnv, rdJob>>

RdTick ==
    /\ rdClock < RdMaxClock
    /\ rdClock' = rdClock + 1
    /\ UNCHANGED <<rdData, rdDeadline, rdLock, rdTenant, rdConn, rdLeft, rdToken, rdCmd, rdEnv, rdJob>>

\* ---- The command line of synx-fast ----

\* Where an option, a word or a number starts: everywhere but at the value of
\* an option that takes one.
Starts(args, options) ==
    LET starts[i \in 0..Len(args)] == i > 0 /\ ~(i > 1 /\ starts[i - 1] /\ args[i - 1] \in options)
    IN {i \in 1..Len(args) : starts[i]}
ModeWords == [find |-> "Lex", lex |-> "Lex", vec |-> "Vec", hybrid |-> "Hybrid", search |-> "Hybrid"]
Numbers == {"7", "8"}
SearchOptions == {"--mode", "--limit", "--candidate-limit", "--scope-key", "--scope", "-s"}
BatchOptions == SearchOptions \ {"--candidate-limit"}

\* The value of the last of some options, else a default.
LastOf(args, at, options, default) ==
    LET here == {i \in at : args[i] \in options /\ i < Len(args)}
    IN IF here = {} THEN default ELSE args[Max(here) + 1]
\* option_value: the first pair that begins with the flag, wherever it stands.
OptionValueLong(args, flag) == IF flag = "-s" THEN RdNoScope ELSE LastOf(args, Starts(args, BatchOptions), {flag}, RdNoScope)
option_value(args, flag) ==
    LET here == {i \in 1..(Len(args) - 1) : args[i] = flag}
    IN IF here = {} THEN RdNoScope ELSE args[Min(here) + 1]

\* A mode or a number that does not parse is an error, in either parser.
RdParses(args, at) ==
    /\ \A i \in at : args[i] = "--mode" /\ i < Len(args) => args[i + 1] \in DOMAIN ModeWords
    /\ \A i \in at : args[i] \in {"--limit", "--candidate-limit"} /\ i < Len(args) => args[i + 1] \in Numbers
ModeOf(args, at) ==
    LET here == {i \in at : \/ args[i] \in DOMAIN ModeWords
                            \/ args[i] = "--mode" /\ i < Len(args) /\ args[i + 1] \in DOMAIN ModeWords}
        last == Max(here)
    IN IF here = {} THEN "Hybrid" ELSE ModeWords[IF args[last] = "--mode" THEN args[last + 1] ELSE args[last]]
LimitOf(args, at, default) ==
    LET here == {i \in at : args[i] \in Numbers \/ (args[i] = "--limit" /\ i < Len(args))}
        last == Max(here)
    IN IF here = {} THEN default ELSE IF args[last] = "--limit" THEN args[last + 1] ELSE args[last]

\* parse_scoped_opts: what is neither option, mode nor number is the query; a
\* scope that is not named is that of the environment.
parse_scoped_opts(args) ==
    LET at == Starts(args, SearchOptions)
        words == {i \in at : /\ ~(args[i] \in SearchOptions /\ i < Len(args))
                             /\ args[i] \notin DOMAIN ModeWords \cup Numbers}
        scope == LastOf(args, at, {"--scope", "-s"}, rdEnv)
    IN [ok |-> RdParses(args, at) /\ words # {} /\ scope # RdNoScope, mode |-> ModeOf(args, at),
        limit |-> LimitOf(args, at, "8"), scope |-> scope, key |-> LastOf(args, at, {"--scope-key"}, "scope"),
        words |-> [n \in 1..Cardinality(words) |-> args[SetToSortSeq(words, ByRowId)[n]]]]

\* parse_batch_opts: the queries come from stdin, any other argument is an
\* error, and the scope is looked up a second way, on the command line alone.
parse_batch_opts(args) ==
    LET at == Starts(args, BatchOptions)
        known == {i \in at : \/ args[i] \in BatchOptions /\ i < Len(args)
                             \/ args[i] \in DOMAIN ModeWords \cup Numbers}
        long == option_value(args, "--scope")
    IN [ok |-> RdParses(args, at) /\ known = at, mode |-> ModeOf(args, at), limit |-> LimitOf(args, at, "10"),
        scope |-> IF long # RdNoScope THEN long ELSE option_value(args, "-s"),
        key |-> IF option_value(args, "--scope-key") = RdNoScope THEN "scope" ELSE option_value(args, "--scope-key")]

\* print_context: hits in order while the budget lasts, and always the first.
ContextChecksLate(acc, d) ==
    IF acc.closed \/ (acc.used > RdBudget /\ acc.chosen # <<>>) THEN [acc EXCEPT !.closed = TRUE]
    ELSE [acc EXCEPT !.used = @ + RdDoc[d].cost, !.chosen = Append(@, d)]
ContextStep(acc, d) ==
    IF acc.closed \/ (acc.used + RdDoc[d].cost > RdBudget /\ acc.chosen # <<>>) THEN [acc EXCEPT !.closed = TRUE]
    ELSE [acc EXCEPT !.used = @ + RdDoc[d].cost, !.chosen = Append(@, d)]
print_context(hits) == FoldLeft(ContextStep, [used |-> 0, chosen |-> <<>>, closed |-> FALSE], hits)

\* One more argument is typed.
RdType ==
    /\ Len(rdCmd) < RdMaxArgs
    /\ \E a \in RdArgs : rdCmd' = Append(rdCmd, a)
    /\ UNCHANGED <<rdData, rdTime, rdLock, rdTenant, rdConn, rdLeft, rdToken, rdEnv, rdJob>>

ReadsNext ==
    \/ rdJob = "serve" /\ \E c \in RdConns :
          \/ RdReceive(c) \/ RdLook(c) \/ RdHot(c) \/ RdStore(c) \/ RdLockConn(c)
          \/ RdCheck(c) \/ RdFinish(c) \/ RdSqlEnd(c) \/ RdUseTenant(c) \/ RdPrinted(c)
    \/ rdJob = "serve" /\ (RdPut \/ RdRemoved \/ RdTick)
    \/ rdJob = "type" /\ RdType

\* ---- What must hold ----

RdDone(op) == {c \in RdConns : RdAt(c, "done") /\ rdConn[c].op = op /\ rdConn[c].out = "ok"}

\* The answers of scoped searches, single or in a batch.
ScopedAnswers(r) ==
    IF r.op = "scoped" THEN {[q |-> r.q, hits |-> r.hits]}
    ELSE {a \in Range(r.lists) : IsScoped(r) /\ a.hits # RdError}
ScopedDone == RdDone("scoped") \cup RdDone("batch")

\* A scoped search mixes rows of up to three statements and the cache of an
\* earlier search, with writers in between; still every document it returns
\* carries the scope and was stored while the command ran, none comes twice,
\* and the limit holds.
ScopedIsHonest ==
    \A c \in ScopedDone : \A a \in ScopedAnswers(rdConn[c]) :
        /\ \A d \in Range(a.hits) : InScope(d, rdConn[c].scope) /\ d \in rdConn[c].ever
        /\ IsInjective(a.hits) /\ Len(a.hits) <= rdConn[c].limit

\* A scoped answer shorter than its limit leaves out no document of the scope
\* that has a word of the query and was stored all along ("so a large global
\* brain cannot hide local project/session facts"), and a document that holds
\* the query verbatim in its title, its uri or its first 512 characters never
\* comes after one that does not hold it at all.
ScopedHidesNothing ==
    \A c \in ScopedDone : \A a \in ScopedAnswers(rdConn[c]) :
        LET r == rdConn[c]
            q == RdQueries[a.q]
            m == fts5_loose_match_query(q)
            owed == {d \in r.whole : InScope(d, r.scope) /\ (m.terms = {} \/ RdMatches(m, d))}
        IN /\ Len(a.hits) < r.limit => owed \subseteq Range(a.hits)
           /\ \A i, j \in DOMAIN a.hits : a.hits[j] \in q.early /\ a.hits[i] \notin q.phrase => j < i

\* The context printed for an agent is the head of the ranking and within the
\* budget, unless the first hit alone exceeds it.
ContextFits ==
    \A c \in RdDone("scoped") :
        LET chosen == print_context(rdConn[c].hits).chosen
            cost == FoldLeft(LAMBDA sum, d : sum + RdDoc[d].cost, 0, chosen)
        IN /\ IsPrefix(chosen, rdConn[c].hits)
           /\ Len(chosen) > 1 => cost <= RdBudget

\* A batch answers every query it was asked, whatever fails on the way, and a
\* request is served only to who may ask it.
BatchAnswersAll ==
    \A c \in RdConns : RdAt(c, "done") =>
        /\ rdConn[c].op = "batch" /\ Served(rdConn[c]) => Len(rdConn[c].lists) = 2
        /\ Served(rdConn[c]) => Auth(rdConn[c].token)

\* A batch and a single search read a command line alike: the same mode, the
\* same key and the same scope if one is named, as long as no option is given
\* twice and no value looks like an option.  When none is named the single
\* search takes SYNAPSE_SCOPE and the batch searches without a scope.
CommandLinesAgree ==
    LET s == parse_scoped_opts(<<"word">> \o rdCmd)
        b == parse_batch_opts(rdCmd)
        at == Starts(rdCmd, SearchOptions)
    IN (/\ s.ok /\ b.ok /\ IsInjective(rdCmd)
        /\ \A i \in 1..Len(rdCmd) : i \in at \/ rdCmd[i] \notin SearchOptions
        /\ ~({"--scope", "-s"} \subseteq Range(rdCmd)))
       => /\ s.mode = b.mode /\ s.key = b.key
          /\ s.scope = IF b.scope = RdNoScope THEN rdEnv ELSE b.scope
          /\ s.words = <<"word">>
=============================================================================
