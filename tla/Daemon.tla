------------------------------- MODULE Daemon -------------------------------
(***************************************************************************)
(* synapsed (crates/synapsed/src/main.rs): the connections of the daemon   *)
(* share one Store behind a mutex and, each behind a lock of its own, a    *)
(* query cache with the file fingerprint it was filled under, a stats      *)
(* cache, the ndarray index lifted out of the store, and the LiveQuery     *)
(* broker.  Other processes write the same brain.db directly.              *)
(*                                                                         *)
(* The Store appears as what it promises: the tables of Brain, one step    *)
(* per committed transaction.  A request is cut into one step per lock its *)
(* handler takes and per file it looks at; the handlers of different       *)
(* connections interleave between any two of them.                         *)
(***************************************************************************)
EXTENDS BrainTypes

CONSTANTS
    Conns,         \* connections the daemon serves
    Queries,       \* lexical queries, each a key of the query cache
    Nobody,        \* the store mutex is free
    NoIndex,       \* the lifted index is not built
    Unset,         \* a cache without a value
    MaxStamp,      \* bound on the changes of the database files
    MaxUnwritten,  \* bound on the documents whose audit event fails to be written
    QlogFlushAt,   \* QLOG_FLUSH_AT: log_query flushes at this many rows
    Ops            \* which requests and outside events happen

\* Requests: "put" (Put), "batch" (PutBatch), "tx" (Transaction), "delete",
\* "merge", "search", "stats".  Outside: "extPut" and "extDelete" (synx and
\* other processes), "checkpoint" (the WAL task), "ttl" (stats_ttl passes),
\* "shutdown" (Shutdown or SIGTERM), "kill" (SIGKILL, a power cut).
OpKinds == {"put", "batch", "tx", "delete", "merge", "search", "stats",
            "extPut", "extDelete", "checkpoint", "ttl", "shutdown", "kill"}

ASSUME DaemonAssumption ==
    /\ IsFiniteSet(Conns)
    /\ Nobody \notin Conns
    /\ Queries # {}
    /\ Unset \notin Nat
    /\ MaxStamp \in Nat
    /\ MaxUnwritten \in Nat
    /\ QlogFlushAt \in Nat \ {0}
    /\ Ops \subseteq OpKinds

VARIABLES
    docs, vecs, seq,  \* the tables, as in Brain
    audited,      \* ids with a write event in audit_events
    stamp,        \* (mtime, len) of brain.db and its -wal: changes with every write
    up,           \* is the daemon running?
    owner,        \* who holds the store mutex
    conn,         \* connection -> the request it is serving, see Request
    qcache,       \* query_cache: query -> Unset or the ids it is answered with
    seen,         \* db_seen: Unset or a stamp
    stats,        \* stats_cache: Unset or [docs, vecs, max, fresh]
    hot,          \* ndarray_idx: NoIndex or id -> embedding
    warm,         \* spawn_turbo_warm: where it stands and the table it has read
    qlog,         \* rows in qlog_buf
    live,         \* ids announced to the LiveQuery broker
    hist          \* history, read by no action, see History

brain == <<docs, vecs, seq>>
disk == <<brain, audited, stamp>>
caches == <<qcache, seen, stats, hot, warm, qlog, live>>
vars == <<disk, up, owner, conn, caches, hist>>

LiveIds == {i \in Ids : docs[i] # NoText}

PcValues == {"idle", "adjust", "hot", "clear", "audit", "emit",
             "lookup", "forget", "get", "query", "log", "install",
             "count", "max", "store"}
Kinds == {"put", "batch", "tx", "delete", "merge"}
Row == [id : Ids, vec : Vecs \cup {NoVec}]
Counts == [docs : 0..MaxId, vecs : 0..MaxId, max : 0..MaxId]

\* What a handler keeps on its stack: its next step, the request it serves,
\* the rows of a put and the one it offers to the lifted index next, the query
\* of a search, the stamp it saw and the ids it found, the counts a stats
\* request read.
Request == [pc : PcValues, kind : Kinds,
            rows : {<<>>} \cup UNION {[1..n -> Row] : n \in 1..MaxBatch}, turn : 1..MaxBatch,
            query : Queries, look : 0..MaxStamp, found : SUBSET Ids, count : Counts]
NoCount == [docs |-> 0, vecs |-> 0, max |-> 0]
Idle == [pc |-> "idle", kind |-> "put", rows |-> <<>>, turn |-> 1,
         query |-> CHOOSE q \in Queries : TRUE, look |-> 0, found |-> {}, count |-> NoCount]

\* foreign: ids other processes wrote while the daemon ran;  shrunk: has a
\* document gone while it ran;  missed: ids offered to the lifted index
\* between the read and the install of the warm one;  excused: ids the daemon
\* owes no audit event, because another process wrote them or their request
\* died with the daemon;  warned: ids whose append to the trail failed with a
\* warning in the log;  dropped: ids whose append failed without one.
History == [foreign : SUBSET Ids, shrunk : BOOLEAN, missed : SUBSET Ids,
            excused : SUBSET Ids, warned : SUBSET Ids, dropped : SUBSET Ids]

\* The steps of a request that writes, in the order its handler takes them.
Follow == [put    |-> [adjust |-> "hot", hot |-> "clear", clear |-> "audit",
                       audit |-> "emit", emit |-> "idle"],
           batch  |-> [adjust |-> "hot", hot |-> "clear", clear |-> "emit",
                       emit |-> "audit", audit |-> "idle"],
           tx     |-> [adjust |-> "hot", hot |-> "clear", clear |-> "audit",
                       audit |-> "idle"],
           delete |-> [audit |-> "clear", clear |-> "idle"],
           merge  |-> [audit |-> "clear", clear |-> "idle"]]

At(c, l) == conn[c].pc = l
Goto(c, l) == conn' = [conn EXCEPT ![c] = IF l = "idle" THEN Idle ELSE [@ EXCEPT !.pc = l]]
Proceed(c) == Goto(c, Follow[conn[c].kind][conn[c].pc])
RowIds(c) == {conn[c].rows[k].id : k \in DOMAIN conn[c].rows}

\* A file change, and the room for n of them besides those of running requests.
Write == stamp' = stamp + 1
Room(n) == stamp + Cardinality({c \in Conns : ~At(c, "idle")}) + n <= MaxStamp

EmptyCache == [q \in Queries |-> Unset]
NoWarm == [at |-> "done", table |-> EmptyVecTable]

Init ==
    /\ docs = [i \in Ids |-> NoText]
    /\ vecs = EmptyVecTable
    /\ seq = 0
    /\ audited = {}
    /\ stamp = 0
    /\ up = FALSE
    /\ owner = Nobody
    /\ conn = [c \in Conns |-> Idle]
    /\ qcache = EmptyCache /\ seen = Unset /\ stats = Unset
    /\ hot = NoIndex /\ warm = NoWarm
    /\ qlog = 0 /\ live = {}
    /\ hist = [foreign |-> {}, shrunk |-> FALSE, missed |-> {},
               excused |-> {}, warned |-> {}, dropped |-> {}]

-----------------------------------------------------------------------------
(* The tables                                                              *)

Stored(t) == \E i \in Ids : docs[i] = t

\* Mutant: a text named twice in a batch is inserted twice.
FreshForgetsBatch(rs) == {k \in DOMAIN rs : ~Stored(rs[k].text)}

Fresh(rs) == {k \in DOMAIN rs : /\ ~Stored(rs[k].text)
                                /\ \A j \in 1..(k - 1) : rs[j].text # rs[k].text}

\* Store::put / put_batch: stored texts keep their row, the others get the
\* next ids in batch order.  IdsOf is what the call returns.
NewId(rs, k) == seq + Cardinality({j \in Fresh(rs) : j <= k})
IdsOf(rs) == [k \in DOMAIN rs |->
    IF Stored(rs[k].text) THEN CHOOSE i \in Ids : docs[i] = rs[k].text
    ELSE NewId(rs, CHOOSE j \in Fresh(rs) : rs[j].text = rs[k].text)]

InsertRows(rs) ==
    LET RowOf(i) == CHOOSE k \in Fresh(rs) : NewId(rs, k) = i
        last == seq + Cardinality(Fresh(rs))
    IN  /\ last <= MaxId
        /\ docs' = [i \in Ids |-> IF i > seq /\ i <= last THEN rs[RowOf(i)].text ELSE docs[i]]
        /\ vecs' = [i \in Ids |-> IF i > seq /\ i <= last THEN rs[RowOf(i)].vec ELSE vecs[i]]
        /\ seq' = last

\* Mutant: the embedding stays behind.
RemoveRowKeepsVector(i) == docs' = [docs EXCEPT ![i] = NoText] /\ UNCHANGED <<vecs, seq>>

RemoveRow(i) ==
    /\ docs' = [docs EXCEPT ![i] = NoText]
    /\ vecs' = [vecs EXCEPT ![i] = NoVec]
    /\ UNCHANGED seq

-----------------------------------------------------------------------------
(* Put, PutBatch, Transaction, Delete, Merge                               *)

\* put_one / put_batch up to the release of the store mutex.  A put whose
\* texts are all stored may still write a raw memory.
PutCommit(c, k, rs) ==
    /\ up /\ At(c, "idle")
    /\ owner = Nobody
    /\ Room(2)
    /\ InsertRows(rs)
    /\ stamp' \in IF Fresh(rs) = {} THEN {stamp, stamp + 1} ELSE {stamp + 1}
    /\ conn' = [conn EXCEPT ![c] = [Idle EXCEPT !.pc = "adjust", !.kind = k,
                  !.rows = [j \in DOMAIN rs |-> [id |-> IdsOf(rs)[j], vec |-> rs[j].vec]]]]
    /\ UNCHANGED <<audited, up, owner, caches, hist>>

\* Mutant: rows the snapshot has counted already are counted again.
AdjustedByAll(s, rs) ==
    [docs  |-> s.docs + Len(rs),
     vecs  |-> s.vecs + Cardinality({k \in DOMAIN rs : rs[k].vec # NoVec}),
     max   |-> s.max,
     fresh |-> TRUE]

\* adjust_stats_cache_after_put / _after_batch on the snapshot s: the loop
\* counts the ids that pass the running maximum.
Adjusted(s, rs) ==
    LET passing == {k \in DOMAIN rs : /\ rs[k].id > s.max
                                      /\ \A j \in 1..(k - 1) : rs[j].id < rs[k].id}
        tops == {s.max} \cup {rs[k].id : k \in DOMAIN rs}
    IN  [docs  |-> s.docs + Cardinality(passing),
         vecs  |-> s.vecs + Cardinality({k \in passing : rs[k].vec # NoVec}),
         max   |-> CHOOSE m \in tops : \A i \in tops : i <= m,
         fresh |-> TRUE]

AdjustStats(c) ==
    /\ At(c, "adjust")
    /\ stats' = IF stats = Unset THEN Unset ELSE Adjusted(stats, conn[c].rows)
    /\ Proceed(c)
    /\ UNCHANGED <<disk, up, owner, qcache, seen, hot, warm, qlog, live, hist>>

\* Mutant: the index is only filled by the warm-up.
HotIgnores(r) == hot

\* update_lifted_ndarray: without an index nothing happens, an id the index
\* holds keeps its vector.
HotWith(r) == IF hot = NoIndex \/ r.vec = NoVec THEN hot
              ELSE [hot EXCEPT ![r.id] = IF @ = NoVec THEN r.vec ELSE @]

\* One row of the loop over update_lifted_ndarray.
HotAdd(c) ==
    LET r == conn[c].rows[conn[c].turn]
    IN  /\ At(c, "hot")
        /\ hot' = HotWith(r)
        /\ hist' = IF r.vec # NoVec /\ hot = NoIndex /\ warm.at = "read"
                   THEN [hist EXCEPT !.missed = @ \cup {r.id}] ELSE hist
        /\ IF conn[c].turn < Len(conn[c].rows)
           THEN conn' = [conn EXCEPT ![c].turn = @ + 1]
           ELSE Proceed(c)
        /\ UNCHANGED <<disk, up, owner, qcache, seen, stats, warm, qlog, live>>

\* clear_query_cache; the handlers of Delete and Merge end with it and drop
\* the store guard their match expression has kept.
ClearCache(c) ==
    /\ At(c, "clear")
    /\ qcache' = EmptyCache
    /\ owner' = IF owner = c THEN Nobody ELSE owner
    /\ Proceed(c)
    /\ UNCHANGED <<disk, up, seen, stats, hot, warm, qlog, live, hist>>

\* What a failed append leaves: audit() logs a warning, the loops of PutBatch
\* and Transaction throw the error away.
Unwritten(c, failed) ==
    IF conn[c].kind = "put" THEN [hist EXCEPT !.warned = @ \cup failed]
                            ELSE [hist EXCEPT !.dropped = @ \cup failed]

MayFail(failed) == Cardinality(failed \cup hist.warned \cup hist.dropped) <= MaxUnwritten

\* Mutant: the first append that fails ends the loop, and a batch is not logged.
AuditStops(c) ==
    \E k \in 0..Len(conn[c].rows) :
        /\ At(c, "audit")
        /\ owner = Nobody
        /\ k < Len(conn[c].rows) => MayFail({conn[c].rows[k + 1].id})
        /\ audited' = audited \cup {conn[c].rows[j].id : j \in 1..k}
        /\ stamp' = IF k = 0 THEN stamp ELSE stamp + 1
        /\ hist' = IF k = Len(conn[c].rows) THEN hist
                   ELSE Unwritten(c, {conn[c].rows[k + 1].id})
        /\ Proceed(c)
        /\ UNCHANGED <<brain, up, owner, caches>>

\* audit() and the audit loops of PutBatch and Transaction lock the store and
\* append one event per row.  An append that fails is passed over: the loop
\* goes on and the request is answered as if it had been written.
Audit(c) ==
    \E failed \in SUBSET RowIds(c) :
        /\ At(c, "audit")
        /\ owner = Nobody
        /\ failed = {} \/ MayFail(failed)
        /\ audited' = audited \cup (RowIds(c) \ failed)
        /\ stamp' = IF RowIds(c) \subseteq failed THEN stamp ELSE stamp + 1
        /\ hist' = Unwritten(c, failed)
        /\ Proceed(c)
        /\ UNCHANGED <<brain, up, owner, caches>>

\* live_broker.emit
Emit(c) ==
    /\ At(c, "emit")
    /\ live' = live \cup RowIds(c)
    /\ Proceed(c)
    /\ UNCHANGED <<disk, up, owner, qcache, seen, stats, hot, warm, qlog, hist>>

\* "match state.store.lock().delete(id)" keeps the guard until the match ends.
DeleteCommit(c, i) ==
    /\ up /\ At(c, "idle")
    /\ owner = Nobody
    /\ Room(2)
    /\ RemoveRow(i)
    /\ Write
    /\ owner' = c
    /\ conn' = [conn EXCEPT ![c].pc = "audit", ![c].kind = "delete"]
    /\ hist' = [hist EXCEPT !.shrunk = @ \/ i \in LiveIds]
    /\ UNCHANGED <<audited, up, caches>>

\* Merge keeps it too.
MergeCommit(c, i) ==
    /\ up /\ At(c, "idle")
    /\ owner = Nobody
    /\ Room(2)
    /\ i \in LiveIds
    /\ Write
    /\ owner' = c
    /\ conn' = [conn EXCEPT ![c].pc = "audit", ![c].kind = "merge"]
    /\ UNCHANGED <<brain, audited, up, caches, hist>>

-----------------------------------------------------------------------------
(* Search: get_cached_hits, fast_lex_from_state, log_query, put_cached_hits *)

\* db_fingerprint, before any lock.
SearchStat(c, q) ==
    /\ up /\ At(c, "idle")
    /\ Room(1)
    /\ conn' = [conn EXCEPT ![c].pc = "lookup", ![c].query = q, ![c].look = stamp]
    /\ UNCHANGED <<disk, up, owner, caches, hist>>

\* Under the db_seen lock.
Lookup(c) ==
    /\ At(c, "lookup")
    /\ seen' = conn[c].look
    /\ conn' = [conn EXCEPT ![c].look = 0,
                            ![c].pc = IF seen = conn[c].look THEN "get" ELSE "forget"]
    /\ UNCHANGED <<disk, up, owner, qcache, stats, hot, warm, qlog, live, hist>>

\* Mutant: the entries of other queries stay.
ForgetNothing(c) ==
    /\ At(c, "forget")
    /\ Goto(c, "query")
    /\ UNCHANGED <<disk, up, owner, caches, hist>>

\* The cache is cleared after db_seen is released.
Forget(c) ==
    /\ At(c, "forget")
    /\ qcache' = EmptyCache
    /\ Goto(c, "query")
    /\ UNCHANGED <<disk, up, owner, seen, stats, hot, warm, qlog, live, hist>>

Get(c) ==
    /\ At(c, "get")
    /\ Goto(c, IF qcache[conn[c].query] = Unset THEN "query" ELSE "idle")
    /\ UNCHANGED <<disk, up, owner, caches, hist>>

\* A lexical search on the read-only connection, outside the store mutex.
Query(c) ==
    /\ At(c, "query")
    /\ conn' = [conn EXCEPT ![c].pc = "log", ![c].found = LiveIds]
    /\ UNCHANGED <<disk, up, owner, caches, hist>>

\* log_query, under the store mutex, writes every QlogFlushAt-th time.
LogQuery(c) ==
    /\ At(c, "log")
    /\ owner = Nobody
    /\ IF qlog + 1 >= QlogFlushAt THEN qlog' = 0 /\ Write
                                  ELSE qlog' = qlog + 1 /\ UNCHANGED stamp
    /\ Goto(c, "install")
    /\ UNCHANGED <<brain, audited, up, owner, qcache, seen, stats, hot, warm, live, hist>>

\* put_cached_hits
Install(c) ==
    /\ At(c, "install")
    /\ qcache' = [qcache EXCEPT ![conn[c].query] = conn[c].found]
    /\ Goto(c, "idle")
    /\ UNCHANGED <<disk, up, owner, seen, stats, hot, warm, qlog, live, hist>>

-----------------------------------------------------------------------------
(* Stats                                                                   *)

\* A snapshot younger than stats_ttl answers at once.
StatsRequest(c) ==
    /\ up /\ At(c, "idle")
    /\ IF stats # Unset /\ stats.fresh THEN UNCHANGED conn ELSE Goto(c, "count")
    /\ UNCHANGED <<disk, up, owner, caches, hist>>

\* Store::stats; the guard lives until the snapshot is stored.
CountDocs(c) ==
    /\ At(c, "count")
    /\ owner = Nobody
    /\ owner' = c
    /\ conn' = [conn EXCEPT ![c].pc = "max", ![c].count =
                  [docs |-> Cardinality(LiveIds), vecs |-> Cardinality(Present(vecs)), max |-> 0]]
    /\ UNCHANGED <<disk, up, caches, hist>>

\* current_max_doc_id, through the read-only connection.
ReadMaxId(c) ==
    /\ At(c, "max")
    /\ \E m \in LiveIds \cup {0} :
          /\ \A i \in LiveIds : i <= m
          /\ conn' = [conn EXCEPT ![c].pc = "store", ![c].count.max = m]
    /\ UNCHANGED <<disk, up, owner, caches, hist>>

\* Mutant: the guard is leaked.
StoreStatsKeepsLock(c) ==
    /\ At(c, "store")
    /\ stats' = [docs |-> conn[c].count.docs, vecs |-> conn[c].count.vecs,
                 max |-> conn[c].count.max, fresh |-> TRUE]
    /\ Goto(c, "idle")
    /\ UNCHANGED <<disk, up, owner, qcache, seen, hot, warm, qlog, live, hist>>

StoreStats(c) ==
    /\ At(c, "store")
    /\ stats' = [docs |-> conn[c].count.docs, vecs |-> conn[c].count.vecs,
                 max |-> conn[c].count.max, fresh |-> TRUE]
    /\ owner' = Nobody
    /\ Goto(c, "idle")
    /\ UNCHANGED <<disk, up, qcache, seen, hot, warm, qlog, live, hist>>

\* stats_ttl passes.
Expire ==
    /\ stats # Unset /\ stats.fresh
    /\ stats' = [stats EXCEPT !.fresh = FALSE]
    /\ UNCHANGED <<disk, up, owner, conn, qcache, seen, hot, warm, qlog, live, hist>>

-----------------------------------------------------------------------------
(* Start, warm-up, exit, and the world outside                             *)

Start ==
    /\ ~up
    /\ up' = TRUE
    /\ warm' = [NoWarm EXCEPT !.at = "start"]
    /\ hist' = [hist EXCEPT !.foreign = {}, !.shrunk = FALSE, !.missed = {}]
    /\ UNCHANGED <<disk, owner, conn, qcache, seen, stats, hot, qlog, live>>

\* from_connection on a connection of its own; it fails on an empty docs_vec.
WarmRead ==
    /\ warm.at = "start"
    /\ warm' = IF Present(vecs) = {} THEN NoWarm ELSE [at |-> "read", table |-> vecs]
    /\ UNCHANGED <<disk, up, owner, conn, qcache, seen, stats, hot, qlog, live, hist>>

WarmInstall ==
    /\ warm.at = "read"
    /\ hot' = warm.table
    /\ warm' = NoWarm
    /\ UNCHANGED <<disk, up, owner, conn, qcache, seen, stats, qlog, live, hist>>

\* The process ends: requests under way die with everything in memory.
Exit ==
    /\ up
    /\ up' = FALSE
    /\ owner' = Nobody
    /\ conn' = [c \in Conns |-> Idle]
    /\ qcache' = EmptyCache /\ seen' = Unset /\ stats' = Unset
    /\ hot' = NoIndex /\ warm' = NoWarm
    /\ qlog' = 0 /\ live' = {}
    /\ UNCHANGED disk

InFlight == UNION {RowIds(c) : c \in Conns}

Kill == /\ Exit
        /\ hist' = [hist EXCEPT !.excused = @ \cup (InFlight \ audited)]

\* Shutdown and SIGTERM wait for the store mutex, flush the ANN sidecar and
\* call process::exit, which drops nothing.
Shutdown ==
    /\ owner = Nobody
    /\ Exit
    /\ hist' = [hist EXCEPT !.excused = @ \cup (InFlight \ audited)]

\* Another process puts or deletes a document.
ExtPut(r) ==
    /\ Room(1)
    /\ ~Stored(r.text)
    /\ InsertRows(<<r>>)
    /\ Write
    /\ hist' = [hist EXCEPT !.foreign = IF up THEN @ \cup {seq'} ELSE @,
                            !.excused = @ \cup {seq'}]
    /\ UNCHANGED <<audited, up, owner, conn, caches>>

ExtDelete(i) ==
    /\ Room(1)
    /\ i \in LiveIds
    /\ RemoveRow(i)
    /\ Write
    /\ hist' = [hist EXCEPT !.shrunk = up \/ @]
    /\ UNCHANGED <<audited, up, owner, conn, caches>>

\* The WAL task moves frames into brain.db.
Checkpoint ==
    /\ up
    /\ Room(1)
    /\ Write
    /\ UNCHANGED <<brain, audited, up, owner, conn, caches, hist>>

-----------------------------------------------------------------------------
Serve(c) ==
    \/ AdjustStats(c) \/ HotAdd(c) \/ ClearCache(c) \/ Audit(c) \/ Emit(c)
    \/ Lookup(c) \/ Forget(c) \/ Get(c) \/ Query(c) \/ LogQuery(c) \/ Install(c)
    \/ CountDocs(c) \/ ReadMaxId(c) \/ StoreStats(c)

Receive(c) ==
    \/ "put" \in Ops /\ \E r \in PutRequest : PutCommit(c, "put", <<r>>)
    \/ \E k \in {"batch", "tx"} \cap Ops, rs \in Batches : PutCommit(c, k, rs)
    \/ "delete" \in Ops /\ \E i \in Ids : DeleteCommit(c, i)
    \/ "merge" \in Ops /\ \E i \in Ids : MergeCommit(c, i)
    \/ "search" \in Ops /\ \E q \in Queries : SearchStat(c, q)
    \/ "stats" \in Ops /\ StatsRequest(c)

Outside ==
    \/ "extPut" \in Ops /\ \E r \in PutRequest : ExtPut(r)
    \/ "extDelete" \in Ops /\ \E i \in Ids : ExtDelete(i)
    \/ "checkpoint" \in Ops /\ Checkpoint
    \/ "ttl" \in Ops /\ Expire
    \/ "kill" \in Ops /\ Kill
    \/ "shutdown" \in Ops /\ Shutdown

Next == \/ \E c \in Conns : Receive(c) \/ Serve(c)
        \/ Start \/ WarmRead \/ WarmInstall
        \/ Outside

Spec == Init /\ [][Next]_vars

\* tokio polls every ready task and parking_lot's mutex is eventually fair:
\* a handler that can take its next step infinitely often takes it.
FairSpec == Spec /\ \A c \in Conns : SF_vars(Serve(c))

B == INSTANCE Brain

-----------------------------------------------------------------------------
(* Properties                                                              *)

\* Every variable of the daemon has its type; the store mutex belongs to the
\* request that is counting, or to one that is waiting for it a second time.
TypeOK ==
    /\ B!BrainType
    /\ audited \in SUBSET Ids
    /\ stamp \in 0..MaxStamp
    /\ up \in BOOLEAN
    /\ owner \in Conns \cup {Nobody}
    /\ conn \in [Conns -> Request]
    /\ qcache \in [Queries -> (SUBSET Ids) \cup {Unset}]
    /\ seen \in 0..MaxStamp \cup {Unset}
    /\ stats \in [docs : Nat, vecs : Nat, max : 0..MaxId, fresh : BOOLEAN] \cup {Unset}
    /\ hot \in VecTable \cup {NoIndex}
    /\ warm \in [at : {"start", "read", "done"}, table : VecTable]
    /\ qlog \in 0..(QlogFlushAt - 1)
    /\ live \in SUBSET Ids
    /\ hist \in History
    /\ \A c \in Conns : owner = c <=>
          \/ conn[c].pc \in {"max", "store"}
          \/ conn[c].pc \in {"audit", "clear"} /\ conn[c].kind \in {"delete", "merge"}

\* The handlers, their caches, crashes and other writers leave the tables a
\* Brain.
DaemonImplementsBrain == B!Spec

Quiet == \A c \in Conns : At(c, "idle")

\* get_cached_hits, "query_cache is then dropped on next read instead of
\* serving stale hits forever": when no request is under way and the next
\* search will not drop the query cache, what the cache holds is what a search
\* would find now, although other processes write without telling the daemon.
NoStaleHitsForever == Quiet /\ seen = stamp => \A q \in Queries : qcache[q] \in {LiveIds, Unset}

\* stats_cache, "daemon-owned writes update this cache exactly": with no
\* foreign writes, no deletes and one connection, an idle daemon's snapshot is
\* the count (two connections can adjust in the opposite order of their
\* commits, which leaves the smaller id uncounted).
StatsExact ==
    Quiet /\ stats # Unset /\ hist.foreign = {} /\ ~hist.shrunk =>
        /\ stats.docs = Cardinality(LiveIds)
        /\ stats.vecs = Cardinality(Present(vecs))

\* However puts of several connections and of other processes interleave with
\* each other and with a recount, the snapshot never counts a document twice:
\* it is at most the number of documents, as long as none was deleted.
StatsNeverOvercount ==
    stats # Unset /\ ~hist.shrunk => stats.docs <= Cardinality(LiveIds)

\* Once the lifted index is installed it holds every row of docs_vec, except
\* rows of other processes, rows whose put is about to add them, and rows that
\* were offered to it while the warm-up held an older snapshot.
HotComplete ==
    hot # NoIndex =>
        \A i \in Present(vecs) \ (hist.foreign \cup hist.missed) :
           \/ hot[i] # NoVec
           \/ \E c \in Conns : conn[c].pc \in {"adjust", "hot"} /\ i \in RowIds(c)

\* A document is missing from the audit trail only while its request is under
\* way, when another process wrote it, when the daemon died in between, or
\* when the append of its own event failed: no failure loses the event of
\* another row.  audit() says "Audit failure degrades to a warning", which
\* hist.warned stands for; the loops of PutBatch and Transaction do not even
\* warn, which hist.dropped stands for.
NoSilentWrites ==
    \A i \in LiveIds : i \in audited \cup hist.excused \cup InFlight
                                \cup hist.warned \cup hist.dropped

\* Every request is answered, unless the daemon exits: no handler waits for
\* the store mutex forever.
RequestsAnswered == \A c \in Conns : ~At(c, "idle") ~> At(c, "idle")
=============================================================================
