# Synapse memory: a TLA+ verification project

Synapse is a local memory store for coding agents.  This directory models it
in TLA+, checks the models with TLC and proves the most important properties
of its core with TLAPS.  Paths below are relative to `src/`.

**Which sources.**  The products link `vendor/synapse-db/crates/synapse-core`
(and its neighbours synapse-ann, synapse-fts); `crates/` holds twins of those
crates, of which most files are identical and `db.rs`, `sota.rs`, `snap.rs`,
`federate.rs` and `temporal.rs` differ in parts.  Findings and hazards about
the store name the vendored lines, which is what runs.  The map in
PROJECT.json names the lines of `crates/` where a definition's code has the
same text in both, so that one tree can be read throughout; parts of which only
the twin has the modelled form (`temporal.rs`, `federate.rs`, parts of `sota.rs`)
are models of the twin.  `snap.rs` is modelled as vendored: its import_magic
verifies signed packs, which the twin's (line 233) does not; the other functions
of the two files differ in size limits only.  `main.rs` without a crate means
`crates/synapsed/src/main.rs`.

## 1. The system

All memory lives in one SQLite file, `brain.db`, in WAL mode.  Several
processes open it: the daemon `synapsed`, the CLI, the MCP server, extraction
workers, `synx`.  Each opens it through a `Store`, which keeps three derived
indexes beside the tables.  The daemon puts one `Store` behind a mutex, serves
many connections and adds caches; the other processes know nothing of those
caches.  Around the store stand components that keep tables or files of their
own (audit, roles, provenance, events, tags, corpus, learning, spaces, media)
and components that answer questions (vector indexes, retrieval, packs).

| Part | Module | State | Operations | What makes it hard |
|---|---|---|---|---|
| docs, docs_vec, docs_fts (`db.rs`) | DocTables, Brain | rows, AUTOINCREMENT sequence, FTS5 rows, trigger docs_ai | put, put_batch(_fast, _deferred_fts), delete, merge_crdt | several processes; the trigger is dropped and recreated in separate transactions |
| raw-memory bridge (`sota.rs`) | DocTables | memories, extraction_queue | ensure_raw_memory(_and_enqueue)(_batch) | runs after the document's commit, in transactions of its own |
| usearch sidecar, ndarray cache | AnnSidecar | in-memory HNSW, file brain.db.usearch, copy of docs_vec | insert, remove, save, load, tail rebuild, add_row | saved only on flush and Drop; stale after a crash |
| tantivy index (synapse-fts) | LexIndex | committed and staged documents, high-water mark, writer lock | add, commit, warm start, search | index and mark are two files; RAM fallback when another process holds the lock |
| daemon writes (`main.rs`) | Daemon | store mutex, query_cache, db_seen, stats_cache, ndarray_idx, audit_events | Put, PutBatch, Transaction, Delete, Merge, Search, Stats, Shutdown, warm-up | every cache has its own lock and is updated after the store mutex is released |
| daemon reads, synx-fast | Reads | shared read connection, deadline, tenant, session | SearchScoped, SearchVec, BatchSearch, Sql, UseTenant, Auth, command lines | statements of one answer interleave with writers and with other readers' settings |
| LiveQuery | LiveQuery | broadcast ring, cursors | subscribe, emit, forward | lagging subscribers lose events |
| typed memories, extraction, lifecycle | Memories, Extraction, WorkQueue | memories, edges, queue status | run_once, promote, supersede, compact, evolve | workers claim nothing; memories and status are separate transactions |
| calendar (`temporal.rs`) | Calendar | a day number | civil dates, ranges, time stamps | leap days, eras, offsets |
| audit, roles, exports | AuditLog, AccessRoles, Compliance | hash chain; grants and a role cache; masking rules | append, verify; enforce_cached; export | damage under later appends; lookups older than a revocation; order of rules |
| identities and keys | Provenance, Keyring | signed records, key files; cached keys | sign, verify_chain; encrypt, rotate | two servers make a key; records replaced under their children |
| model router, learning | MetaRouter, Learning | router.toml; counts, feedback, merged rows | record_outcome; reward, consolidate, export, calibrate | whole-file saves; cut and repeated runs |
| events, decisions, tags | EventLog, DecisionGraph, Tags | event rows, lake; edges; associations | ingest, archive; why, reports; merge, cleanup | check-then-insert; copy-then-delete; merge among taggers |
| graph and datalog | GraphStore | edges, CSR cache; facts and deltas | paths, ranks; evaluate | cache built outside its lock; semi-naive joins |
| media, spaces | Media, Spaces | rows, frames directory, temporary files; drawers | ingest, ask; put, sweep | one directory per process; sweeps cut anywhere |
| corpus | Corpus | documents, chunks, promotions, sources | ingest, promote, sync_due, search | no transaction around a document; starvation; spans |
| freshness, packs, agents | Fresh, ContextPack | shared cache; pack cache; scopes | check; pack; observe, recall | slow fetches; stale packs; names that look alike |
| snapshots, imports, synx files | Transfer | database file, log, packs; chunks | export, import, merge, doctor; write, read | files replaced under readers; kill and power loss |
| vector indexes | VectorIndexes | tiers, codes, graph, router observations, reservations | add, flush, search, route, observe | stages that truncate; a batch that fails half-way |
| retrieval | Retrieval | tables, postings, token vectors | recall, find under a predicate, fuse, rerank | several statements per answer; over-fetch; skipped blocks |
| federation, log, shards | Replicas | documents' blocks, operations, manifests | broadcast, sync_peer, merge, split, search | lost and reordered updates; repeated splits |

What makes each part correct:

* **Tables.** One row per text, ids never reused, an embedding only with its
  document (`Brain`), whoever writes and whatever crashes.
* **Raw and typed memories.** Every document reaches the queue, unless its put
  was cut; a document marked done has its memories; a superseded truth always
  leads to an active one.
* **Indexes.** An index may be rebuilt but must not forget a document for good,
  and must never return one document's vector under another's id.
* **Daemon.** Its caches may lag but not for ever; its counts, lifted index
  and audit trail follow its own writes; every request ends.
* **Records.** What was confirmed stays, once; what was revoked or damaged is
  noticed; interrupted work can be repeated.
* **Answers.** An approximate or staged answer agrees with the plain definition
  as far as it claims to, and an answer assembled from several reads mixes
  nothing that was never true.

## 2. Modules

```
BrainTypes --- Brain                        what the tables promise
   |  \
   |   DocTables - AnnSidecar, LexIndex
   |                    `---- Store - MCStore
   `-- Daemon - MCDaemon                    the daemon on top of a Brain
Memories - Extraction (- WorkQueue) - MCMemory
Calendar AuditLog AccessRoles Provenance Keyring Compliance MetaRouter Learning
EventLog DecisionGraph Tags GraphStore Media Spaces                   - MCRecords
Corpus Fresh ContextPack LiveQuery Transfer VectorIndexes Retrieval
Replicas Reads                                                        - MCKnowledge

NumberFacts                                 lemmas all proofs share
Store - StoreProofs                  Daemon - DaemonProofs
Extraction - ExtractionProofs        MCRecords - RecordsProofs
MCKnowledge - KnowledgeProofs        MCKnowledge - ContextProofs (ContextPack)
Calendar - CalendarProofs (used by RecordsProofs)
```

**Brain** is the abstract specification: a map from row ids to texts and
embeddings with two steps, `Add(n)` (the ids up to n become new, so far
unstored texts) and `Remove(i)`.  Both detailed specifications implement it
with the identity mapping on `docs`, `vecs`, `seq`: `StoreImplementsBrain` and
`DaemonImplementsBrain` are `INSTANCE Brain`'s `Spec`.  Both are also proved;
the first is what lets Daemon use tables that change in one step per put.

**Store** composes the tables, the bridge and the indexes.  A process runs one
operation at a time (`&mut self`); `pc[p]` says where it stands.  An operation
is cut at every commit, because other processes and crashes fall between
commits, and the updates of the process's private indexes at the end are one
step (`Mirror`).  So `put` is `CommitRows`, `RawSelect`, `RawInsert`,
`Enqueue`, `Mirror`; `put_batch_deferred_fts` is `DropTrigger`, `DeferredTx`,
`CreateTrigger`, `RawBatch`, `Mirror`; `open` is `OpenLoad` and `OpenFinish`.
`Crash` can happen anywhere.  A text stands for its blake3 hash; scores,
snippets and metadata are left out.  FTS5's own bookkeeping is modelled as far
as it decides whether a delete is accepted (`ftsRows`, `DeleteAccepted`).

**Daemon** cuts each request at every lock the handler takes and every look at
the file system.  `conn[c]` is the handler's stack, `Follow` the order of steps
after a put, `owner` the holder of the store mutex.  `stamp` stands for the
fingerprint (mtime and length of brain.db and its -wal): every write of
anybody changes it, as in the code.  `qcache` maps queries to cached answers.
A delete FTS5 refuses has no effect and is left out here; a wrong embedding
size is refused by the store, so the lifted index never sees one.  `hist`
is read by no action: it records which rows other processes wrote, which
offers the warm-up missed, what a crash cut, and which appends to the audit
trail failed (at most `MaxUnwritten` documents).

**Extraction** has workers that pop a batch, write a document's memories one
transaction at a time and mark it last; clients that put, delete and promote;
and the mergers of the lifecycle job, which read pairs first and supersede them
later, statement by statement.  **WorkQueue** is what the queue promises, with
weak fairness; `QueueDrains` is its specification under the mapping "waiting is
pending, finished is done or promoted", so it states both that no job waits
again once it is finished and that none waits for ever.

The modules of **MCRecords** and **MCKnowledge** model components that share no
state with each other.  An MC module conjoins their initial states, and the
variable `part`, fixed at the start, names the one component whose actions run;
a property reads `part = "tags" => TagsAreKept`.  This is the disjoint union
of the components' state graphs: nothing is explored twice, and a violation
names its component.  Every variable carries its component's prefix (`ev`, `tg`,
`fr`, ...), as do the constants.

Abstractions of data, by component: a hash or signature is what it covers; a
cipher text is its key and plain text; a vector is a pair of small integers and
every score an exact integer or fixed-point number (`GsUnit`, `RtScale`); a text
is a set or short sequence of words; a page, manifest or event is a record of
the fields that decide a branch; time is a counter.  Calendar is not
abstracted: it computes real dates.

The correspondence of every definition to source lines is in PROJECT.json
under `map`.  Definitions whose name follows a comment `Mutant` are not part
of the model: each is a plausible mistake in the definition below it, used to
show that a property notices.  PROJECT.json lists one mutant for each property of a run; a
property that is a conjunction of named parts has further mutants in the
modules, one for nearly every part.

## 3. Runs

Passing runs (2 workers, 15 to 190 seconds each):

| Run | Instance | Shows |
|---|---|---|
| store_batches | 1 process, all operations, 2 texts, 2 ids, batches of 2, tantivy failing inside put | types; all indexes complete or recoverable, the mark never ahead; no lost memory |
| store_histories | 1 process, 3 texts, 3 ids, 2 embeddings, put/delete/flush/close/search, failing index searches | honest ANN entries, ids never reused, indexes recovered over longer histories of deletes and re-puts; Store implements Brain |
| daemon_puts | 1 connection, batches of 2, transactions, stats, TTL, kill, an append to the audit trail that fails | exact counts, complete lifted index, an audit trail that lacks only what a kill cut or a failed append left out |
| daemon_cache | 1 connection, 2 queries, foreign puts and deletes, checkpoints, restarts | cached answers are current or dropped; Daemon implements Brain |
| daemon_answers | 2 connections, foreign puts, stats, TTL, kill, strong fairness | every request is answered; counts never too high in any order of commits, adjustments and recounts |
| memory_truth | 3 documents, 4 memories, promotions, deletes, compaction, evolution, 1 crash | superseded_by leads to an active row; every supersession has its edge |
| memory_queue | 2 workers, 2 documents that name one entity, crash, deletes, promotions, weak fairness | done means extracted; the queue implements WorkQueue |
| records | 15 components, one at a time | see the table below |
| knowledge | 8 components, one at a time | see below |
| answers | 5 components, one at a time | see below |

The properties of the last three runs; the parts in parentheses are definitions
of the component's module, each with a comment that states it in full.

| Property | What it says |
|---|---|
| CalendarIsRight | day numbers and civil dates agree with counting days one by one, ranges of days, weeks, months and years tile the time line, time stamps read back through every offset (DatesAgree, RangesTile, StampsReadBack) |
| GovernanceHolds | audit_verify notices every change in the middle of the log and no other; the cached role check overlooks a revocation only through a lookup made before it; the export leaves no personal token but the digits the phone rule cuts off, and its CSV reads back (VerifiesIffUntouched, VerifiedIsAppended, QueryPagesTile, CachedCheckAgrees, ExportIsMasked, CsvReadsBack) |
| KeysAreKept | chains end; a record fails only when its key was lost to a race; a parent hash matches no record only when the parent was signed again; what was encrypted can be decrypted under the same master (ChainsHaveAnEnd, BadOnlyByLostKey, OrphansWereReplaced, BlobsReadable) |
| RouterRemembers | router.toml holds the outcomes of calls that did not overlap, through crashes, and never one twice |
| LearningAddsUp | rewards are neither lost nor doubled, duplicates lead to one kept row, training groups are whole, the conformal bound covers |
| EventsAreKept | duplicates of events only by overlapping ingests; what leaves for the lake arrives whole but for late rows and contents over 1 KB; the full-text table has exactly the rows up to 1 KB; sessions follow |
| DecisionsAreExplained | why, why_at and graph_expand are exact; reports add up with each other |
| TagsAreNotLost | an association survives merges, imports and cleanups of other processes |
| DerivationsAreExact | evaluations end in the least model; graph answers equal their definitions, with routes of different lengths between two nodes; an invalidated CSR cache gives the table, a guard a graph, unless a build or a guard was overtaken |
| MediaIsWhole | frames and captions belong to their video; a frame's file is there, and shows the video while no other one is extracted into the directory; temporary files are owned (FamiliesAreWhole, FramesAreThere, TempFilesAreOwned) |
| RoomsKeepAll | drawers hold and list what was put; sweeps that are cut, lose a put or are repeated store every part once as soon as one of them fails nowhere, and repeating that one adds nothing (RoomsListTheirOwn, SweepsAreWhole) |
| CorpusIsWhole | documents once and with all chunks, first verifier stands, no due source waits while another is synced twice, spans read back, fusion is fair |
| FreshnessHolds | no report older than its ttl however processes interleave; versions come from the right lock block |
| ContextsAreSound | a pack that is made accounts for every candidate within its budget, says so, and repeats nothing of a previous pack still cached; a cached one is younger than the writes that drop it and names the ids and tokens it delivers |
| EventsReachListeners | a subscriber gets every matching event in order, or is told how many it lost |
| TransfersAreWhole | a restore is one moment of the source, a merge keeps both sides, imports round-trip, a changed pack is refused, a synx file that opens is whole |
| AgentsStayApart | no agent sees another's observations, whatever their names |
| IndexesAgree | a tiered search answers exactly from memory and the last flush, or with less when its flush failed; code scans and graph agree with an exact scan as far as their codes allow; the router keeps hints; usearch refuses a key for want of room only after a batch that failed in part (TierAnswers, ScansAgree, RouterKeepsHints, UsearchHasRoom) |
| RecallIsExact | among foreign writes a recall names only documents, memories and expansions that were there, and misses an expansion only past its limits; fusions, pipeline and filtered search against their definitions; the block-max index is exact for one term or room for all postings; tokens are no older than the last i8 add (HitsAreHonest, ExpansionIsExact, FusionsAgree, StagesDropNothing, FilterKeepsPromise, SparseIsExact, TokensAreNoOlder) |
| ReplicasConverge | Ok means complete for the documents the node knew; the last writer wins in any merge order; a query over the shards misses a matching document only for want of a shard (broken, or two nearer) or because a filter knows the word in another form (SyncOkIsComplete, LastWriterWins, ShardsFindAll) |
| ReadsAreHonest | scoped answers, alone or in a batch, hold only the scope, hide nothing and put a phrase of the first 512 characters first; contexts fit, batches answer all, both command lines agree but for a scope left to the environment (ScopedIsHonest, ScopedHidesNothing, ContextFits, BatchAnswersAll, CommandLinesAgree) |

Runs that show where a comment of the code promises more than the code does
(the quoted lines are in PROJECT.json under `findings`):

| Run | What happens |
|---|---|
| sidecar_recovery | delete, put, crash: the stale sidecar has the right length, so open() loads nothing and the new row is not found |
| daemon_delete_wedges | Delete holds the store guard of its match while audit() locks the store again |

Further places where the models follow the code and the code departs from a
comment or a doc; the models contain the behaviour, and the properties above
carry the matching exception or are checked on the instance without it:

* `db.rs:1171` (vendored): delete() removes the row from docs_fts itself and
  through the trigger; FTS5 counts both and refuses the delete of the last rows
  (comment at `db.rs:1148`).
* `db.rs:1666` (vendored): search_lex marks rows of another process as indexed
  (comment at `synapse-fts/src/lib.rs:121`), so IndexesComplete is checked for
  one process.
* `db.rs:1080`: a row another process inserts while docs_ai is dropped never
  reaches docs_fts.  `db.rs:587`: mirror_batch_to_tantivy skips the rows after
  a failing add and they are marked later (fault kinds "mirror", "lexCommit").
* `sota.rs:386` (vendored): a batch that names a text twice creates two raw
  memories (`EnqueueBatch`); the comment at `sota.rs:368` calls duplicates
  idempotent.
* `db.rs:931`: put_batch with embeddings for rows put_batch_fast stored writes
  no embedding, the "embed-pass" of the comment at `db.rs:1002`; the embedding
  does enter the ndarray cache.
* `main.rs:1431`: two searches around a foreign write leave an old answer under
  the new fingerprint (comment at `main.rs:148`), so NoStaleHitsForever is
  checked with one connection.
* `main.rs:1323`: two puts can adjust the counts in the opposite order of their
  commits, and the smaller id stays uncounted; the comment at `main.rs:152`
  says "exactly".  `main.rs:1776`: every put renews the age of the counts, so
  a busy daemon does not recount after the TTL.
* `main.rs:579`: a put between the warm-up's read and its install is missing
  from the lifted index (`hist.missed`); a deduplicated put can bring in an
  embedding docs_vec does not hold (`HotWith`).
* `main.rs:822`: Shutdown ends in process::exit and drops buffered query-log
  rows, which `db.rs:86` says are flushed on Drop.
* `main.rs:713` and `main.rs:1033`: PutBatch and Transaction throw the error of
  an audit append away, where `main.rs:1118` says "Audit failure degrades to a
  warning"; a document may lack its event without any trace of it
  (`hist.dropped`; the warned ones are in `hist.warned`).
* `main.rs:1052`: only Sql renews the deadline, but the progress handler
  interrupts every statement of the shared connection; `main.rs:142` says "Per-query".
* `crates/synapse-mcp/src/main.rs:482`: context_remember and session_ingest
  return before the pack cache is dropped, though they are in its list (line 618).
* `crates/synapse-mcp/src/main.rs:2012`: only packs made without prev_pack_id and
  with use_cache are cached, and the ids of a previous pack are looked up among
  cached packs only; the second delta of a conversation therefore names a pack
  that is not there and repeats everything, where lines 293, 298 and 1316 promise
  a pack that "skips already-delivered ids" (Accounts takes `prev` from the
  cache).  `main.rs:1911`: the manifest of a cache hit has empty lists of dropped
  and duplicate ids and of blocks (`HitManifest`); the key is query and budget, so
  a hit also ignores the kinds, the k and the order asked for.
* `crates/synapse-audit/src/lib.rs:173`: append is a read and an insert; with a
  second appending process an untouched chain would be refused.  Fields are
  hashed without separators, so a byte moved to the next field is not noticed.
* `crates/synapse-compliance/src/lib.rs:105`: the phone rule has no word boundary
  and runs before those for cards, tax and passport numbers; of a number with an
  inner 0 it leaves the digits before it, where line 26 says "All PII is
  replaced" (the tokens "card_in0", "tax_in0", "passport_in0").
* `crates/synapse-provenance/src/lib.rs:404`: verify_all's comment says that "every
  parent_hash matches some existing record's chain_hash", and line 5 that
  modifying a parent "breaks the verify pass"; the code checks signatures only.
  A parent that is signed again leaves children whose hash matches nothing, which
  verify_chain reports and verify_all does not (OrphansWereReplaced).
* `crates/synapse-mcp/src/main.rs:2873`: two servers that find no identity both
  make one, and what was signed with the key that is replaced never verifies
  again (`pvMade`); `crates/synapse-rbac/src/lib.rs:339`: a role read before its
  revocation and put after the invalidation works until the next one (`raLate`).
  Both are what the code does; the properties say that nothing else does it.
* `crates/synapse-ultra/src/lake.rs:70` and `:146` disagree about the archive's
  columns; `graph.rs:184`: why_at compares an edge's last time stamp, which an
  upsert renews; `events.rs:628`: a bad line ends the ingest of a file.
* `crates/synapse-ultra/src/lake.rs:144`: the archive copies `content` and never
  `content_zst`, then deletes the row, so an event over 1 KB (compressed by
  default, `events.rs:239`) loses its text where lines 17 and 128 say that rows
  are moved; such a row is not in the full-text table either.  `lake.rs:168`: an
  old event ingested between the copy and the delete is gone (`evGone` has both).
* `crates/synapse-graph/src/csr.rs:195`: a graph built while another thread
  invalidates is stored over the invalidated cache and stays (`gsRaced`), and
  a guard taken just after an invalidate is empty and panics when it is used
  (line 226); relate (`lib.rs:84`) never invalidates, so a cache is as old as its
  owner lets it be (`gsOwed`).
* `crates/synapse-media/src/ingest.rs:94` and `:163`: a frame's row holds the path of
  a file in the one directory of the process, and ffmpeg runs with -y: the next
  video of the process writes over the files, and the first one's frames then
  show the second (`mdUsed`).  FramesAreThere says that nothing else changes them;
  process ids are taken not to be reused.
* `crates/synapse-space/src/mcp.rs:396`: a chunk whose put fails is counted as
  skipped, like one that is there already, so the answer of a sweep does not say
  whether everything is stored; line 395 counts a chunk whose text is stored
  under another uri as inserted and adds nothing.  `mcp.rs:308` says a deleted
  drawer is excluded from the search; wing_search (line 551) and space_search
  have no such condition and return it, and putting or sweeping its text again
  leaves it deleted.
* `crates/synapse-core/src/sota.rs:575` and `:949`: a walk reads 64 edges of a memory
  and 200 memories of a hop, in the order of their keys; what lies behind the
  others is not found, without a word (`RtEdgeCap`, `RtHopCap`).
  `crates/synapse-colbert/src/store.rs:173`: i8 vectors are tried first, so the
  float vectors of a later add_colbert do not count while an i8 row exists.
* `crates/synapse-splade/src/block_max.rs:104`: the bound of a block is that of
  one term at a time, so with several terms the answer is approximate.
* `crates/synapse-router/src/lib.rs:18`: a timed-out CLI keeps its temporary file.
* `crates/synapse-core/src/corpus.rs:344`: a document whose chunk INSERT fails keeps its
  row and the chunks before it, and every later fetch finds the row and stops
  (`cpCut`).  `corpus.rs:385`: a source that cannot be fetched keeps
  its time and with it the head of every round; with a limit the others wait
  until it can.  EverySourceGetsItsTurn counts completed syncs.
* `snap.rs:277` (vendored): a restore writes the database file and
  leaves a -wal that is there, whose pages then lie over the restored ones;
  RestoredAsSaved is about restores that find none.  `snap.rs:226`: a row of the
  second pack whose text the first has under another uri is ignored, and its uri
  and CRDT updates with it (Arrived); the comment at line 141 speaks of merging
  meta_crdt "per doc".
* `crates/synapse-cli/src/synx_io.rs:350`: the export to .json writes one object per
  line, which import_json (line 216) parses as a single value: it refuses the
  export of an empty brain or of more than one row (`JsonParses`), so the round
  trip of ImportsRoundTrip holds for .json files of one row only.
* `crates/synapse-core/src/turbo/tiered.rs:84`: a flush builds the disk index from
  the waiting documents alone, so the second one drops those of the first
  (`viGone`), where line 4 says that "all subsequent docs spill to SPANN".
  `tiered.rs:200`: a search throws the error of its flush away and answers without
  the waiting documents.  `crates/synapse-spann/src/posting.rs:50` says that the process "must
  not truncate while mmap is live"; a flush writes the new lists into the files
  the open index has mapped, and when it fails half way that index goes on with
  them (`viTorn`).
* `crates/synapse-ann/src/usearch_backend.rs:202`: a parallel batch of which one add
  fails leaves the others uncounted, and ensure_capacity reckons from the count:
  a later insert can still be refused, where line 224 says that the call
  "prevents" it (`viLost.drift`).
* `crates/synapse-core/src/federate.rs:187`: sync_peer exchanges document after
  document on one connection, of which the peer serves the first message.  It
  asks for the documents this node knows: one that only the peer has is never
  asked for, and a node without documents answers Ok at once (lines 200-206),
  where line 187 speaks of a "Full sync".
* `crates/synapse-core/src/shard.rs:264`: the filter of a shard holds the words of
  its texts as they stand, while the shard's own search folds case and reads
  titles too, so a filter that claims the word hides the other shards
  (line 113); of the candidates the two nearest are asked (line 131), and one
  that cannot be opened counts as one without hits (line 136).
* `crates/synapsed/src/bin/synx_fast.rs:359`: a single search without --scope takes
  SYNAPSE_SCOPE; a batch (line 299) does not, and searches without a scope.
  run_batch (line 452) never sends Auth, so a daemon with a token refuses it.
  `crates/synapsed/src/main.rs:40` and `:1655`: a verbatim match past the first
  512 characters of a text does not count, unless the hit comes from
  Store::search (`early`, `full`).

**Small simplifications.**  No property turns on these.  open()'s warm start commits the
tantivy index and writes its mark in one step (`OpenDisk`; `db.rs:531` and `:1520` do one after
the other, and a crash between them only indexes the same rows again).  An
enqueue that meets a locked database is only logged (`db.rs:753`); the model has the
crash and the rollback there, which lose the same row.  `synapsed/src/main.rs:788`
takes the number of documents for the greatest id when that cannot be read.
`crates/synapse-learn/src/consolidate.rs:99` counts a pair as merged though its
UPDATE failed.  `crates/synapse-pack/src/lib.rs:290` compares a simhash with those
kept so far; `KeptOf` does the same in the same order, with documents in classes of
near duplicates, whereas the distance is not transitive.  Agents without events do
not appear in a report (`crates/synapse-ultra/src/observe.rs:340`), and the model's
reports, too, start from the events.

**Bounds.**  `MaxId` bounds the ids ever given, so it also bounds the length of
histories: 2 ids give a put, a delete and a re-put of the same text, 3 give
the delete-then-put histories in which a stale sidecar or mark has the right
size; because FTS5's row total refuses repeated deletes, more ids add few new
situations.  Batches of 2 contain both the duplicate inside a batch and the
mixture of new and stored texts.  Two processes, connections, servers or
threads are enough for the races here, which all take place between two
actors; Media has three workers in two processes, because its directory is
shared inside a process only.  `MaxStamp` bounds file changes: 4 to 6 leaves
room for a foreign write, a put with its audit event and a checkpoint; a request
whose appends fail needs none.
`QlogFlushAt = 2` stands for QLOG_FLUSH_AT, so that both the buffered and the
flushing call occur; capacities (`LqCapacity`, `CkCap`, `GsRelWidth`,
`ViReserve`) are small in the same way, so that each is exceeded.  Calendar walks 800
days from dates before each kind of century, leap day and era.  `MaxSteps`,
`...MaxCalls`, `...MaxTime` end histories; each is large enough that the mutants of
the component's parts are found.  Store runs
use one process; what several processes do to the tables is covered for any
number of them by the theorems.  Symmetry is used on processes, connections, texts and
embeddings, which the specifications never order; queries are not permuted,
because an idle handler holds a chosen one, and the liveness runs use no
symmetry.

**Deadlock.**  The Store and Daemon runs check it.  The others turn it off,
because a component stops when its bounds are used up.

**Fairness.**  daemon_answers and daemon_delete_wedges assume strong fairness of
the next step of each handler: each connection is a tokio task that is polled
whenever it is ready, and parking_lot mutexes are eventually fair, so a handler
that finds the mutex free again and again gets it.  memory_queue assumes weak
fairness of each worker's next step: the worker is a loop on a timer that opens
the database anew each time and logs a failed pass.  New requests, clients,
foreign writers, mergers, the TTL and crashes are not fair.

## 4. Proofs

TLAPS proves the following for every value of the constants: any number of
processes, connections, workers, documents, batches and crashes.  Each theorem
is `Spec => []P` for the property P that a run checks on a small instance,
unless the table says otherwise.

| Theorem | Property | Module |
|---|---|---|
| TypeCorrect | Store's TypeOK; includes that the deficit of open() never underflows | StoreProofs |
| AnnHitsAreHonest | AnnNeverLies | StoreProofs |
| IdsAreForever | RowIdsNeverReused (an action property) | StoreProofs |
| MemoryIsKept | OnlyCutPutsLoseMemory | StoreProofs |
| StoreIsABrain | StoreImplementsBrain (refinement) | StoreProofs |
| IndexesAreComplete | IndexesComplete, for one process whose usearch adds, tantivy batch adds and deferred commits succeed | StoreProofs |
| DaemonTypeCorrect | Daemon's TypeOK, with the owner of the store mutex | DaemonProofs |
| DaemonIsABrain | DaemonImplementsBrain (refinement) | DaemonProofs |
| WritesAreAudited | NoSilentWrites | DaemonProofs |
| LiftedIndexIsComplete | HotComplete | DaemonProofs |
| StatsAreBounded | StatsNeverOvercount | DaemonProofs |
| StatsAreExact | StatsExact, for one connection | DaemonProofs |
| NoStaleHits | NoStaleHitsForever, for one connection | DaemonProofs |
| MemoryTypeCorrect | types of the memory tables, and that superseded_by names rows that exist | ExtractionProofs |
| EdgesAreExplained | EdgesExplain | ExtractionProofs |
| TruthIsKept | TruthSurvives | ExtractionProofs |
| ExtractionIsWhole | DoneMeansExtracted | ExtractionProofs |
| QueueIsOnce | the queue implements WorkQueue without its fairness | ExtractionProofs |
| KeysAreNeverLost | KeysAreKept (identities, chains, encrypted blobs) | RecordsProofs |
| CachedRolesAgree | CachedCheckAgrees, a part of GovernanceHolds | RecordsProofs |
| EventsAreNeverLost | EventsAreKept | RecordsProofs |
| AssociationsAreNeverLost | TagsAreNotLost | RecordsProofs |
| MediaFamiliesAreWhole | MediaIsWhole | RecordsProofs |
| RouterNeverForgets | RouterRemembers | RecordsProofs |
| LearningIsExact | LearningAddsUp | RecordsProofs |
| DatesAreRight | CalendarIsRight | RecordsProofs |
| VerifiedLogsWereAppended | VerifiedIsAppended, a part of GovernanceHolds | RecordsProofs |
| EventsAreSentOrLost | EventsReachListeners | KnowledgeProofs |
| AnswersAreNotStale | AnswersAreRecent, a part of FreshnessHolds | KnowledgeProofs |
| CorpusDocumentsAreWhole | DocumentsAreWhole and FirstVerifierStands, parts of CorpusIsWhole | KnowledgeProofs |
| SourcesGetTheirTurn | EverySourceGetsItsTurn, a part of CorpusIsWhole | KnowledgeProofs |
| CachedPacksAreFresh | ServedFresh, a part of ContextsAreSound | ContextProofs |
| ContextPacksAreSound | ContextsAreSound | ContextProofs |
| AgentsNeverMix | AgentsStayApart | ContextProofs |
| ReplicasAgree | ReplicasConverge | KnowledgeProofs |
| BackupsAreWhole | RestoredAsSaved, MergeKeepsBoth and ImportsRoundTrip, parts of TransfersAreWhole | KnowledgeProofs |

**Assumptions.**  `BrainAssumption`, `ConstantsAssumption`: bounds are positive
and the markers for "no text" and "no vector" are not values.
`DaemonAssumption`: finitely many connections, at least one query.
`MemAssumption`, `ExtractionAssumption`: natural bounds; a document's items are
a sequence.  `ProvAssumption`, `TagsAssumption`: finitely many documents, names
and rules.  `EventLogAssumption`: a file is a sequence of lines.
`LiveAssumption`: the broadcast channel has room for an event (tokio refuses
any other).  `FreshAssumption`: times to live are natural numbers.
`MediaAssumption`: every worker has a process, ffmpeg extracts at least one
frame of a video it accepts, and token counts are natural numbers.
`MetaAssumption`: the shipped router configuration has rules and lists none
twice.  `LearnAssumption`: finitely many processes and kinds, a similar pair has
two documents, alpha lies between 0 and 1 (new() asserts it; the model counts
tenths).  `CorpusAssumption`: "none" is no host.  `SyncAssumption`: finitely many
sources, positive intervals (upsert_corpus_sync_source refuses others).
`ContextAssumption`: the pack cache has room for a pack.  `PackAssumption`: finitely
many documents with ids of their own, whole scores (hundredths) and token counts
that are natural numbers.  `AgentAssumption`: names
are sequences of characters, queries have finitely many terms, and token counts,
limits and budgets are natural numbers.  `ReplicasAssumption`: finitely many
documents; time stamps and operation ids are numbers.  `CalendarAssumption`: the
clock starts on a date of the years 1 to 9999, stamps are taken at seconds of the
day, and offsets are whole seconds.  `TransferAssumption`: rows have the columns
of docs, and a peer's pack repeats no uri and no text (both are UNIQUE,
`db.rs:571`).  TLC evaluates each of
them.  The hypotheses stated in the theorems themselves are not technical: with
a second process, a failing "ann" or "mirror" add or a failing "lexCommit" an
index does lose a document, and with a second connection a stale hit or an
uncounted row does survive (section 3 lists the lines).

**The inductive invariants.**  None of the properties is inductive: each speaks
of states at rest, and what makes it true is what the operations under way
still hold or owe.

* *Store.*  A put adds to the usearch index the vectors of its own list of rows,
  steps after it committed them, and the id it commits must not be in a stale
  sidecar already.  `AnnInv` adds `UnusedAboveSeq` (above sqlite_sequence there is no
  row, vector or index entry anywhere) and `RowsCommitted` (the fresh rows a
  process holds have ids up to seq and agree with docs_vec as long as their
  document lives).  *IdsAreForever* and *StoreIsABrain* follow from it through
  `CommitFacts`, what one put transaction does position by position.  `MemInv` adds
  `RawPhase`: what has been done for the rows of a put at each of its steps.
* *Indexes.*  `IdxInv` says of each index that it lacks at most the fresh rows of
  the put under way: the sidecar is a prefix of docs_vec and open()'s deficit counts exactly
  what it lacks (`SideInv`), the trigger docs_ai is missing only inside a
  deferred batch or after a crash in one (`FtsInv`), the mark is never above
  sqlite_sequence and a single process never meets the writer lock (`LexInv`).
* *Daemon.*  `TypeInv` carries the handler's stack and who may hold the mutex
  (`Control`) and that every write finds a stamp (`StampRoom`).  `AuditInv`: a put that has
  reached "emit" has tried its append.  `HotInv`: a missing row is owed by a put that
  will still offer it, also in the table the warm-up has read and not yet installed.
  `StatsInv`: the adjustments still to come and the snapshot together never
  exceed the table; a recount and an adjustment meet through the greatest id
  each has seen.  `TablesInv` bounds every id by sqlite_sequence; `ExactInv` and
  `CacheInv` follow the one connection step by step.
* *Extraction.*  `MemInv` types rows, workers and mergers and says that references are
  never dangling although ids are used again; `EdgesInv` that a missing edge is
  about to be written or was cut; `TruthInv` that superseded_by has no circle
  as long as no merger acted on rows that changed since it read them; a finite
  relation without a circle and without a dangling reference ends, which is the
  property.  `DoneInv` counts what a worker has written of the document it is at.
* *Records.*  `KeyInv`: every cached key, and every key a thread carries between
  its miss and its insert, is derived from the running master.  `ProvInv`: a
  record covers its parents' hashes, so a chain can be measured by how deep the
  hashes nest; an agent has one key unless two servers raced.  `ParentInv`: the parent
  a record, or a call about to insert one, names is in the table or was replaced.  `RoleInv`: an
  entry differs from the roles only if an invalidation is outstanding or it was
  put back by an older lookup.  `LogInv`: what a running ingest has seen and an
  archive has copied, whole if the row is plain text (`LakeFits`).  `TagInv`: ids are never reused, so the id an operation
  read earlier belongs to the name it read it under or to no tag.  `MdInv`: the
  calls under way have parents of their own, the frames stored so far under each
  are numbered without a gap, and a directory is never longer than the only
  video extracted into it.  `RouterInv`: while no two calls overlapped, the one under
  way saves the file it read plus its own outcome, through a temporary file of
  its own; every saved configuration lists a rule once and counts at most the
  three totals of each call.  `RewardInv`: the rewards left in a call under way are
  those its feedback rows wait for, so rows = accepted + owing + killed at most.
  `MergeInv`: merged_into leads to a smaller id (so it has no circle), and a pair
  a run has been at has a marked member.  `RecallInv` and `ExportInv` only type
  what is sorted; what a sort by rank returns is `RanksSort`.  `CalInv`: the number
  of the day is that of the date on the wall.  The work is in CalendarProofs: years
  that begin in March split a day into era, century, quad, year and day, the
  divisions of civil_from_days find each part again (leap days at the end of a
  quad, a century and an era included), and tomorrow's number is one more.
  `AuditInv` (of the audit chain): an appended row was hashed onto the hash it
  names, and no edit makes a hash that was not once an appended row's; a hash is
  as long as its chain, so a verified log cannot hold a row twice.
* *Knowledge.*  `LiveInv`: what was sent and what was lost partition the matching
  events up to the subscriber's position.  `FreshInv`: a row of the shared cache,
  and an answer on its way there, is stamped no later than the registry was asked.
  `CorpusInv`: an unfinished document is held by the host that writes it.
  `SyncInv`: a waiting source is still due, and every source that passed it did
  so once, now sorts behind it and is not ahead of it in the round under way; a round
  starts with the sources that sort first, so a source that was passed by
  another stays ahead of it.  `PacksInv`: the cache has one entry per key, all of
  the current generation.  `AccountsInv`: the pack answered last and every cached
  one accounts for its candidates, and no cached pack has the empty id that stands
  for no previous pack, so what is cached was made without one.  Under it lie a
  sorted listing (`RankedIsSorted`), its split into kept candidates and duplicates
  (`PartsShareOut`), the greedy walk over the kept ones with what it has placed and
  dropped so far (`GreedyTallies`), the last resort of one line (`ChosenIsSettled`)
  and the order of the blocks (`SerialReorders`).  `AgentInv`: every document carries the scope of who
  wrote it, and the last reply lists documents of the asker's scope, each once.
  That scopes tell agents apart is `ScopesDiffer`: scope_component writes each
  character so that it can be read back and never writes a bare slash, so the
  slashes of a scope are the ones agent_scope put there.  `FederationInv`: a block
  anywhere is no newer than its client, whose node, while it runs, has it; a
  handshake owes only documents it has still to ask for.  `OpsInv`: for every
  operation heard of, a log keeps one of its document that is not older, and ids
  tell operations apart; a merge scans the log position by position
  (`WinnersAfter`).  `ShardInv`: a saved manifest, and a split under way as far as
  it got, leads to each of its documents.  `FilesInv`: a running backup has copied
  rows as they are now, because it starts over after a commit, a whole pack's hash
  is that of one moment, and a restore that found no log finds none later.
  `SnapInv`: the copies of running SnapMerge requests are nested, each holds what
  the oldest running one came with, and so does the shared file once it is
  written.  `RowsInv`: the rows imported so far are the first ones of the file,
  and the import is not behind them.  `MergesPacks` says what a merge returns:
  a row once merged stays merged (`StaysSettled`), so merging again changes nothing.
  A merge repeats no uri and no text if its first pack does not; it can, when the
  pack was made of a database restored under a left-over log (section 3).

Facts on recursive functions and finite sets (NumberFacts) are proved by taking
a least counterexample, since the induction theorems of the library cannot be
instantiated here.  `UpTo` states the result for the members of a set, a form
the provers can use; `RanksNumber` and `RanksSort` say that listing a finite set by
how many members come before each lists it sorted and whole; `Iterated` says
from it that a function defined by recursion over the natural numbers satisfies
its equation.

**Only model-checked.**

* Liveness: RequestsAnswered, and that QueueDrains drains (fairness is outside
  the prover's reach).
* Results of folds, sorts and searches over data, which need induction over
  sequences: DecisionsAreExplained,
  DerivationsAreExact, RoomsKeepAll, chunk spans and fusion (CorpusIsWhole),
  the synx files of TransfersAreWhole, IndexesAgree,
  RecallIsExact, ReadsAreHonest, and the rest of
  FreshnessHolds (its answers are filtered with SelectSeq, of which the provers
  know nothing).
* GovernanceHolds beyond the role cache and VerifiedIsAppended:
  VerifiesIffUntouched names the one shape a verified log can have after the few
  edits the run allows (after more there are others, all of them allowed by
  VerifiedIsAppended), pages are cut with SelectSeq, exports range over texts.

## 5. Not modelled

Scores as real numbers, snippets and the embedders; regular expressions, feed
and HTML parsing and the other recognisers of text; random sampling from the
learned posteriors; TLS and wire encodings; and the parts listed as
not_modelled in PROJECT.json, each with its reason: most are vendored crates
that no product of this workspace links (cluster, ring, change capture, LSM
store, analytics), the rest numeric kernels and bindings.  SQLite, FTS5,
tantivy, usearch, yrs, ffmpeg and the operating system appear as the code uses
them: a transaction is atomic and durable once committed, a killed process
loses its memory and its locks, a loss of power also what was not synced.

## 6. Plan

1. Proofs still worth their effort: the synx container (OpensOnlyWhole of Transfer), pools of Reads.
2. Models still open: idle timeout and embedder initialisation of the daemon,
   the query log, a second appending process of the audit chain.
