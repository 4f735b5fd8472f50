------------------------------ MODULE Replicas ------------------------------
(***************************************************************************)
(* One brain in several places (crates/synapse-core):                      *)
(*                                                                         *)
(*  - federate.rs: nodes that hold CRDT documents in memory, broadcast     *)
(*    signed updates and catch up by a state-vector handshake;             *)
(*  - sync/: operation logs merged with the last writer winning, and the   *)
(*    exchange of whole logs (a feature; without it the payload is empty); *)
(*  - shard.rs: a brain split into shard files by clusters, a manifest     *)
(*    with a bloom filter per shard, and queries over the shards.          *)
(*                                                                         *)
(* The three share no state; rpJob says which of them runs.  A CRDT        *)
(* document is the set of blocks <<client, number>> it received; a block   *)
(* is integrated once all its client's earlier blocks are there.           *)
(***************************************************************************)
EXTENDS Integers, Sequences, FiniteSets, SequencesExt, FiniteSetsExt

CONSTANTS FdNodes, FdDocs,
          FdMaxEdits, FdMaxRestarts, FdMaxSyncs,
          OpReplicas,
          OpChoices,       \* operations [id, doc, ts, kind] a replica may log
          OpPayloads,      \* feature automerge-crdt compiled in
          ShCount,         \* number of clusters
          ShTexts,         \* document -> words of its text, as they stand
          ShTitles,        \* document -> words of its title
          ShFold,          \* word -> the term FTS5 makes of it
          ShUnembedded,    \* documents without a row in docs_vec
          ShMaxSplits

\* Finitely many documents; time stamps and operation ids are numbers.
ASSUME ReplicasAssumption ==
    /\ IsFiniteSet(FdDocs)
    /\ \A op \in OpChoices : op.id \in Int /\ op.ts \in Int
    /\ ShCount \in Nat

VARIABLES rpJob,
          fdStore,   \* node -> (document -> blocks), documents it has an entry for
          fdClient,  \* node -> client id of the documents of this process
          fdNet,     \* update frames on the way: [to, doc, block]
          fdSync,    \* node -> its sync_peer in progress
          fdCount,   \* edits, restarts and syncs so far
          opLog, opSeen,
          shSource, shFiles, shManifest, shSplit, shCovered, shSplits

fdVars == <<fdStore, fdClient, fdNet, fdSync, fdCount>>
opVars == <<opLog, opSeen>>
shVars == <<shSource, shFiles, shManifest, shSplit, shCovered, shSplits>>
rpVars == <<rpJob, fdVars, opVars, shVars>>

NoSync == [at |-> "none"]
NoSplit == [assign |-> <<>>, next |-> 0, metas |-> <<>>]
NoManifest == <<[shard |-> 0, bloom |-> {}]>>

ReplicasInit ==
    /\ rpJob \in {"federation", "ops", "shards"}
    /\ fdStore = [n \in FdNodes |-> <<>>]
    /\ fdClient = [n \in FdNodes |-> <<n, 0>>]
    /\ fdNet = {}
    /\ fdSync = [n \in FdNodes |-> NoSync]
    /\ fdCount = [edits |-> 0, restarts |-> 0, syncs |-> 0]
    /\ opLog = [r \in OpReplicas |-> <<>>]
    /\ opSeen = [r \in OpReplicas |-> {}]
    /\ shSource = {} /\ shFiles = [i \in 1..ShCount |-> {}]
    /\ shManifest = NoManifest /\ shSplit = NoSplit
    /\ shCovered = {} /\ shSplits = 0

-----------------------------------------------------------------------------
(* Federation                                                              *)

Held(n, d) == IF d \in DOMAIN fdStore[n] THEN fdStore[n][d] ELSE {}

\* DocStore::apply_update, with the entry made when there is none.
apply_update(store, d, blocks) ==
    [x \in DOMAIN store \cup {d} |->
        (IF x = d THEN blocks ELSE {}) \cup (IF x \in DOMAIN store THEN store[x] ELSE {})]

Integrated(blocks) == {b \in blocks : \A i \in 1..b[2] : <<b[1], i>> \in blocks}

\* Mutant: a client's highest block stands for all before it.
StateVectorHighest(blocks) ==
    UNION {{<<b[1], i>> : i \in 1..b[2]} : b \in blocks}

state_vector(blocks) == Integrated(blocks)

\* Everything held that the vector does not cover, waiting blocks included.
diff_since(blocks, sv) == blocks \ sv

\* merge_and_broadcast: applied here, then one connection per peer; a peer
\* that cannot be reached is only warned about, so its frame is lost.
merge_and_broadcast(n, d) ==
    LET mine == {b \in Held(n, d) : b[1] = fdClient[n]}
        block == <<fdClient[n], Cardinality(mine) + 1>> IN
    /\ fdCount.edits < FdMaxEdits
    /\ fdCount' = [fdCount EXCEPT !.edits = @ + 1]
    /\ fdStore' = [fdStore EXCEPT ![n] = apply_update(@, d, {block})]
    /\ \E reached \in SUBSET (FdNodes \ {n}) :
          fdNet' = fdNet \cup {[to |-> m, doc |-> d, block |-> block] : m \in reached}
    /\ UNCHANGED <<fdClient, fdSync>>

\* A connection's thread hands the frame to handle_stream; threads race.
FrameArrives(f) ==
    /\ fdNet' = fdNet \ {f}
    /\ fdStore' = [fdStore EXCEPT ![f.to] = apply_update(@, f.doc, {f.block})]
    /\ UNCHANGED <<fdClient, fdSync, fdCount>>

\* Documents live in memory: a node that restarts has none, and its next
\* documents have another client id.
NodeRestart(n) ==
    /\ fdCount.restarts < FdMaxRestarts
    /\ fdCount' = [fdCount EXCEPT !.restarts = @ + 1]
    /\ fdStore' = [fdStore EXCEPT ![n] = <<>>]
    /\ fdClient' = [fdClient EXCEPT ![n] = <<n, @[2] + 1>>]
    /\ fdNet' = {f \in fdNet : f.to # n}
    /\ fdSync' = [m \in FdNodes |-> IF m = n \/ (fdSync[m].at \in {"ask", "serve"} /\ fdSync[m].peer = n)
                                    THEN NoSync ELSE fdSync[m]]

\* sync_peer of a node that has no document is done, without asking.
SyncNothing(n) ==
    /\ fdSync[n].at = "none" /\ DOMAIN fdStore[n] = {} /\ fdCount.syncs < FdMaxSyncs
    /\ fdCount' = [fdCount EXCEPT !.syncs = @ + 1]
    /\ fdSync' = [fdSync EXCEPT ![n] = [at |-> "ok", all |-> {}, owed |-> <<>>]]
    /\ UNCHANGED <<fdStore, fdClient, fdNet>>

\* Otherwise: the documents it has now, over one connection.
SyncConnect(n, m) ==
    /\ fdSync[n].at = "none" /\ DOMAIN fdStore[n] # {} /\ fdCount.syncs < FdMaxSyncs
    /\ fdCount' = [fdCount EXCEPT !.syncs = @ + 1]
    /\ \E docs \in SetToSeqs(DOMAIN fdStore[n]) :
          fdSync' = [fdSync EXCEPT ![n] = [at |-> "ask", peer |-> m, docs |-> docs, all |-> ToSet(docs),
                                           sv |-> {}, open |-> TRUE, reply |-> {}, owed |-> [d \in ToSet(docs) |-> Held(m, d)]]]
    /\ UNCHANGED <<fdStore, fdClient, fdNet>>

SyncStep1(n) ==
    /\ fdSync[n].at = "ask" /\ fdSync[n].docs # <<>> /\ fdSync[n].open
    /\ fdSync' = [fdSync EXCEPT ![n].at = "serve", ![n].sv = state_vector(Held(n, Head(fdSync[n].docs)))]
    /\ UNCHANGED <<fdStore, fdClient, fdNet, fdCount>>

\* handle_stream at the peer: one message, then the connection closes.  The
\* peer now has an entry for the document too.
SyncServe(n) ==
    LET m == fdSync[n].peer
        d == Head(fdSync[n].docs) IN
    /\ fdSync[n].at = "serve"
    /\ fdStore' = [fdStore EXCEPT ![m] = apply_update(@, d, {})]
    /\ fdSync' = [fdSync EXCEPT ![n].at = "reply", ![n].open = FALSE,
                                ![n].reply = diff_since(Held(m, d), fdSync[n].sv),
                                ![n].owed[d] = Held(m, d)]
    /\ UNCHANGED <<fdClient, fdNet, fdCount>>

SyncStep2(n) ==
    LET d == Head(fdSync[n].docs) IN
    /\ fdSync[n].at = "reply"
    /\ fdStore' = [fdStore EXCEPT ![n] = apply_update(@, d, fdSync[n].reply)]
    /\ fdSync' = [fdSync EXCEPT ![n].at = "ask", ![n].docs = Tail(@)]
    /\ UNCHANGED <<fdClient, fdNet, fdCount>>

\* Mutant: a closed connection ends the loop as if it were done.
SyncedOnceOpen(s) == s.docs = <<>> \/ ~s.open

Synced(s) == s.docs = <<>>

\* The end of sync_peer: Ok after the last document, an error (which
\* sync_all logs and drops) on a connection the peer has closed.
SyncEnd(n) ==
    /\ fdSync[n].at = "ask" /\ (fdSync[n].docs = <<>> \/ ~fdSync[n].open)
    /\ fdSync' = [fdSync EXCEPT ![n] = IF Synced(@) THEN [at |-> "ok", all |-> @.all, owed |-> @.owed] ELSE NoSync]
    /\ UNCHANGED <<fdStore, fdClient, fdNet, fdCount>>

SyncReturn(n) ==
    /\ fdSync[n].at = "ok"
    /\ fdSync' = [fdSync EXCEPT ![n] = NoSync]
    /\ UNCHANGED <<fdStore, fdClient, fdNet, fdCount>>

-----------------------------------------------------------------------------
(* Operation logs                                                          *)

\* Mutant: among operations of one time stamp the first one seen stays.
KeepsCurrentOnTie(cur, op) == cur.ts >= op.ts

KeepsCurrent(cur, op) == cur.ts > op.ts \/ (cur.ts = op.ts /\ cur.id > op.id)

\* Sorted by id.
IdAt(ops, k) == CHOOSE op \in ops : Cardinality({o \in ops : o.id < op.id}) = k - 1
ById(ops) == [k \in 1..Cardinality(ops) |-> IdAt(ops, k)]

\* Local operations, then the remote ones, each against its document's winner.
Offered(winners, op) ==
    LET cur == {w \in winners : w.doc = op.doc} IN
    IF cur # {} /\ \A w \in cur : KeepsCurrent(w, op) THEN winners ELSE (winners \ cur) \cup {op}
WinnersAfter(ops) ==
    LET after[k \in 0..Len(ops)] == IF k = 0 THEN {} ELSE Offered(after[k - 1], ops[k]) IN after
merge_lww(local, remote) == LET ops == local \o remote IN ById(WinnersAfter(ops)[Len(ops)])

LogOp(r, op) ==
    /\ \A q \in OpReplicas : \A seen \in opSeen[q] : seen.id # op.id
    /\ opLog' = [opLog EXCEPT ![r] = Append(@, op)]
    /\ opSeen' = [opSeen EXCEPT ![r] = @ \cup {op}]

\* r pulls q's operations and keeps the winners.
MergeOps(r, q) ==
    /\ opLog' = [opLog EXCEPT ![r] = merge_lww(@, opLog[q])]
    /\ opSeen' = [opSeen EXCEPT ![r] = @ \cup opSeen[q]]

\* encode_ops at q, merge_payload at r: the union of both by id.
MergePayload(r, q) ==
    IF OpPayloads
    THEN /\ opLog' = [opLog EXCEPT ![r] = ById(ToSet(@) \cup ToSet(opLog[q]))]
         /\ opSeen' = [opSeen EXCEPT ![r] = @ \cup opSeen[q]]
    ELSE UNCHANGED opVars

-----------------------------------------------------------------------------
(* Shards                                                                  *)

ShardPut(d) == /\ shSource' = shSource \cup {d}
               /\ UNCHANGED <<shFiles, shManifest, shSplit, shCovered, shSplits>>

\* split reads the embedded documents and clusters them, somehow.
SplitStart ==
    /\ shSplit = NoSplit /\ shSplits < ShMaxSplits /\ shSource \ ShUnembedded # {}
    /\ shSplits' = shSplits + 1
    /\ \E assign \in [shSource \ ShUnembedded -> 1..ShCount] :
          shSplit' = [assign |-> assign, next |-> 1, metas |-> <<>>]
    /\ UNCHANGED <<shSource, shFiles, shManifest, shCovered>>

\* Mutant: the filter takes only a document's first token.
BloomOfFirst(docs) == {CHOOSE t \in ShTexts[d] : TRUE : d \in docs}

\* The filter takes the words of the texts as they stand, and no title.
BloomOf(docs) == UNION {ShTexts[d] : d \in docs}

\* One cluster: its file is opened as it is and the documents are added in
\* one transaction; an empty cluster gets neither file nor entry.
SplitShard ==
    LET i == shSplit.next
        docs == {d \in DOMAIN shSplit.assign : shSplit.assign[d] = i} IN
    /\ shSplit # NoSplit /\ i <= ShCount
    /\ shFiles' = [shFiles EXCEPT ![i] = @ \cup docs]
    /\ shSplit' = [shSplit EXCEPT !.next = i + 1,
                                  !.metas = IF docs = {} THEN @ ELSE Append(@, [shard |-> i, bloom |-> BloomOf(docs)])]
    /\ UNCHANGED <<shSource, shManifest, shCovered, shSplits>>

\* Mutant: the manifest may be saved before the last shard is written.
SplitDoneEarly == shSplit.metas # <<>>

SplitDone == shSplit.next > ShCount

\* manifest.save writes in place; a kill there leaves no readable manifest.
SplitSave ==
    /\ shSplit # NoSplit /\ SplitDone
    /\ shManifest' = shSplit.metas
    /\ shCovered' = DOMAIN shSplit.assign
    /\ shSplit' = NoSplit
    /\ UNCHANGED <<shSource, shFiles, shSplits>>

SplitKill ==
    /\ shSplit # NoSplit
    /\ shManifest' \in (IF SplitDone THEN {shManifest, NoManifest} ELSE {shManifest})
    /\ shSplit' = NoSplit
    /\ UNCHANGED <<shSource, shFiles, shCovered, shSplits>>

\* ShardManager::query for one word: the shards whose filter may hold it as it
\* stands (`lies` are false positives), or all of them ...
Claims(i, word, lies) == word \in shManifest[i].bloom \/ i \in lies
Candidates(word, lies) ==
    LET may == {i \in DOMAIN shManifest : Claims(i, word, lies)} IN IF may = {} THEN DOMAIN shManifest ELSE may

\* ... of these the two whose centroids are nearest ...
AskedSets(candidates) ==
    IF Cardinality(candidates) <= 2 THEN {candidates} ELSE {S \in SUBSET candidates : Cardinality(S) = 2}

\* ... and their hits, before the limits, by terms of text and title.  A shard
\* that cannot be searched (`down`) counts as one without hits.
Matches(word, d) == ShFold[word] \in {ShFold[w] : w \in ShTexts[d] \cup ShTitles[d]}
ShardHits(word, asked, down) ==
    UNION {{d \in shFiles[shManifest[i].shard] : Matches(word, d)} : i \in asked \ down}

-----------------------------------------------------------------------------
ReplicasNext ==
    /\ UNCHANGED rpJob
    /\ \/ /\ rpJob = "federation" /\ UNCHANGED <<opVars, shVars>>
          /\ \/ \E n \in FdNodes, d \in FdDocs : merge_and_broadcast(n, d)
             \/ \E f \in fdNet : FrameArrives(f)
             \/ \E n \in FdNodes : \/ NodeRestart(n) \/ SyncNothing(n) \/ SyncStep1(n) \/ SyncServe(n) \/ SyncStep2(n)
                                   \/ SyncEnd(n) \/ SyncReturn(n)
                                   \/ \E m \in FdNodes \ {n} : SyncConnect(n, m)
       \/ /\ rpJob = "ops" /\ UNCHANGED <<fdVars, shVars>>
          /\ \E r \in OpReplicas :
                \/ \E op \in OpChoices : LogOp(r, op)
                \/ \E q \in OpReplicas \ {r} : MergeOps(r, q) \/ MergePayload(r, q)
       \/ /\ rpJob = "shards" /\ UNCHANGED <<fdVars, opVars>>
          /\ (\E d \in DOMAIN ShTexts : ShardPut(d)) \/ SplitStart \/ SplitShard \/ SplitSave \/ SplitKill

-----------------------------------------------------------------------------
(* Properties                                                              *)

\* When sync_peer answers Ok, this node holds all that the peer had, when it
\* was asked, of every document this node knew when it began, although updates
\* arrived out of order, were lost or were made on both sides during the
\* handshake; and no block is held that its client did not make before it.
\* (Documents only the peer knows are not asked for: federate.rs:200-206.)
SyncOkIsComplete ==
    \A n \in FdNodes :
        /\ fdSync[n].at = "ok" => \A d \in fdSync[n].all :
              /\ fdSync[n].owed[d] \subseteq Held(n, d)
              /\ Integrated(fdSync[n].owed[d]) \subseteq Integrated(Held(n, d))
        /\ \A d \in FdDocs : \A b \in Held(n, d) : b[1] = fdClient[b[1][1]] =>
              b \in Held(b[1][1], d)

\* Whatever the order and the grouping of the merges, and however often one
\* is repeated, a replica's winner for a document is the newest operation of
\* all it has heard of, ties going to the greater id: replicas that heard the
\* same agree.
LastWriterWins ==
    \A r \in OpReplicas :
        LET winners == ToSet(merge_lww(opLog[r], <<>>)) IN
        /\ {w.doc : w \in winners} = {op.doc : op \in opSeen[r]}
        /\ \A w \in winners : \A op \in opSeen[r] : op.doc = w.doc =>
              op.ts < w.ts \/ (op.ts = w.ts /\ op.id <= w.id)

\* A manifest that can be read finds every matching document of the split that
\* wrote it, over any number of splits into the same directory, finished or
\* not, unless a shard with the document could not be searched or two others
\* were nearer (shard.rs:131, 136), or the word does not stand in its text as
\* it was asked for while some filter claims that it has it (shard.rs:113, 264).
Passed(i, asked, down) == i \in down \/ (Cardinality(asked) = 2 /\ i \notin asked)
ShardsFindAll ==
    shManifest # NoManifest =>
        \A word \in DOMAIN ShFold, lies \in SUBSET DOMAIN shManifest : \A asked \in AskedSets(Candidates(word, lies)) :
        \A down \in SUBSET asked, d \in {e \in shCovered : Matches(word, e)} :
            \/ d \in ShardHits(word, asked, down)
            \/ \E i \in Candidates(word, lies) : d \in shFiles[shManifest[i].shard] /\ Passed(i, asked, down)
            \/ word \notin ShTexts[d] /\ \E i \in DOMAIN shManifest : Claims(i, word, lies)
=============================================================================
