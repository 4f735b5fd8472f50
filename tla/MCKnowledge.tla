---------------------------- MODULE MCKnowledge -----------------------------
(***************************************************************************)
(* The components that take knowledge in, find it and hand it out: corpus  *)
(* and its synchronisation and search, dependency freshness, context       *)
(* packs, agent tools, live queries, backups and imports, synx files,      *)
(* vector indexes, retrieval, replicas and the daemon's read side.  They   *)
(* share no state, so a behaviour explores one of them, the one `part`     *)
(* names, and the others stay where they started.                          *)
(***************************************************************************)
EXTENDS Corpus, Fresh, ContextPack,
        LiveQuery, Transfer, VectorIndexes, Retrieval, Replicas, Reads

CONSTANT Parts    \* the components to explore

VARIABLE part

-----------------------------------------------------------------------------
(* Corpus: a feed of which items lack a guid, a link or both, a later      *)
(* version of it with other content, a page, and an empty page.            *)
FeedItem(guid, link, body) == [guid |-> guid, link |-> link, body |-> body]
Page(type, body, items) == [uri |-> "u", ctype |-> type, looks |-> type, body |-> body, items |-> items]
Pages == {Page("rss", 0, <<FeedItem("g", "", 2), FeedItem("", "l", 0), FeedItem("", "", 1)>>),
          Page("rss", 0, <<FeedItem("g", "", 1)>>),
          Page("html", 1, <<>>), Page("html", 0, <<>>)}
StoredDocs == <<[body |-> 2, ts |-> 1], [body |-> 0, ts |-> 2]>>

(* Chunks: every text of up to six characters, and every pair of           *)
(* rankings of three chunks of which two have the same words.              *)
ChunkTexts == UNION {[1..n -> {"x", " ", "n"}] : n \in 1..6}
ChunkTokens == (1 :> {"a", "b"}) @@ (2 :> {"a", "b"}) @@ (3 :> {"c"})
ChunkLists == {s \in UNION {[1..n -> 1..3] : n \in 0..3} : \A i, j \in DOMAIN s : s[i] = s[j] => i = j}

(* Fresh: a dependency in two manifests, one without a version, one in a   *)
(* directory that is skipped; a lock file with two versions of one package *)
(* and packages without a version.                                         *)
Dep(n, v) == [name |-> n, declared |-> v]
ManifestFile(depth, skipped, deps) == [depth |-> depth, skipped |-> skipped, manifest |-> TRUE, deps |-> deps]
Projects ==
    {[files |-> <<ManifestFile(0, FALSE, <<Dep("a", 1), Dep("b", -1)>>), ManifestFile(1, FALSE, <<Dep("a", 2)>>),
                  ManifestFile(1, TRUE, <<Dep("c", 2)>>)>>,
      lock |-> <<<<"version", 4>>, <<"package">>, <<"name", "a">>,
                 <<"package">>, <<"name", "b">>, <<"version", 1>>, <<"other">>,
                 <<"package">>, <<"name", "b">>, <<"version", 2>>,
                 <<"package">>, <<"name", "c">>>>,
      scan_subprojects |-> TRUE]}

(* ContextPack: two near duplicates and a larger document.                 *)
PackDoc(i, k, s, sim, t) == [id |-> i, kind |-> k, score |-> s, sim |-> sim, toks |-> t, noise |-> FALSE]
PackDocs == {PackDoc(1, "known-fact", 10, 1, <<5, 3, 2, 1>>), PackDoc(2, "chat", 14, 1, <<4, 2, 2, 1>>),
             PackDoc(3, "chat", 12, 2, <<7, 6, 4, 3>>)}

(* ContextPack, the agents: names that differ only before escaping.       *)
AgentNames == {<<"a", "/", "a">>, <<"a", "%", "2", "F", "a">>}
AgentTexts == {[words |-> {"x"}, toks |-> 12, snip |-> 1], [words |-> {}, toks |-> 3, snip |-> 2]}
AgentTerms == {{"x"}, {}}

(* LiveQuery: an event with a title and one with a uri.                    *)
LiveEvents == {[title |-> "x", uri |-> "none"], [title |-> "none", uri |-> "u"]}

(* Transfer: rows that share a uri or a text with a row of the peer.       *)
TfRow(u, t, m, c) == [uri |-> u, text |-> t, title |-> 0, meta |-> m, sig |-> 0, crdt |-> c]
OwnRows == {TfRow(1, 2, 1, {"x"}), TfRow(0, 0, 1, {})}
PeerFiles == {(1 :> TfRow(1, 3, 0, {"y"})) @@ (2 :> TfRow(0, 2, 0, {"z"})),
              (1 :> TfRow(2, 2, 0, {})) @@ (2 :> TfRow(0, 4, 0, {}))}

(* VectorIndexes: vectors of one length in three directions; hints around  *)
(* the limits of the router.                                               *)
Vectors == {<<3, 4>>, <<-3, 4>>, <<0, -5>>}
RouterHints == {[n |-> n, budget |-> b, recall |-> r] :
                   n \in {100, 20000, 300000, 60000000}, b \in {0, 2000}, r \in {0, 96}}

(* Retrieval: predicates of every kind; memories of three documents, one   *)
(* superseded, linked in a chain, one with more edges than are read;       *)
(* sparse vectors over two terms.                                          *)
Pred(op, v, args) == [op |-> op, v |-> v, args |-> args]
Predicates == <<Pred("eq", 1, <<>>), Pred("gt", 1, <<>>), Pred("not", 0, <<1>>), Pred("and", 0, <<3, 2>>),
                Pred("or", 0, <<1, 2>>), Pred("in", 0, <<1, 2>>), Pred("ne", 1, <<>>)>>
Mem(d, s, f, o, e) == [doc |-> d, sup |-> s, fact |-> f, old |-> o, ent |-> e]
MemTable == <<Mem(1, 0, TRUE, FALSE, TRUE), Mem(2, 0, FALSE, TRUE, FALSE),
              Mem(3, 0, FALSE, FALSE, FALSE), Mem(1, 1, FALSE, FALSE, FALSE)>>
EdgeTable == {<<1, 2>>, <<2, 4>>, <<4, 3>>, <<3, 1>>, <<3, 2>>, <<3, 4>>}
SparseVectors == [{1, 2} -> {0, 1, 3}]
SparseQueries == <<<<1, 0>>, <<2, 1>>>>

(* Replicas: operations of one time, of one replica, and deletions; shards *)
(* of documents that share words, in other case or in a title, one without *)
(* an embedding.                                                           *)
Op(i, d, t, k) == [id |-> i, doc |-> d, ts |-> t, kind |-> k]
Operations == {Op(1, 1, 1, "put"), Op(2, 1, 1, "delete"), Op(3, 1, 2, "put"), Op(3, 2, 1, "rename")}
ShardTexts == (1 :> {"a", "b"}) @@ (2 :> {"b"}) @@ (3 :> {"A"}) @@ (4 :> {"c"})
ShardTitles == (1 :> {}) @@ (2 :> {"a"}) @@ (3 :> {}) @@ (4 :> {"b"})
Folded == ("a" :> "a") @@ ("A" :> "a") @@ ("b" :> "b") @@ ("c" :> "c")

(* Reads: documents inside and outside a scope, one whose meta is no       *)
(* object; a phrase that the document bm25 prefers does not hold, and one  *)
(* that a document holds past its first characters.                        *)
ReadDoc(m, f, t, h, r, k) == [meta |-> m, flag |-> f, terms |-> t, head |-> h, rank |-> r, cost |-> k]
ReadDocs == <<ReadDoc("none", "s", {"a", "b"}, {"a", "b"}, 3, 2), ReadDoc("x", "s", {"a", "b"}, {"a"}, 1, 3),
              ReadDoc("none", "none", {"a", "b"}, {"a", "b"}, 4, 1), ReadDoc("not an object", "s", {"a"}, {"a"}, 2, 1)>>
ReadQueries == <<[words |-> <<"a", "b">>, plain |-> TRUE, phrase |-> {2, 3}, early |-> {2, 3}],
                 [words |-> <<"b">>, plain |-> FALSE, phrase |-> {1, 2, 3}, early |-> {1, 3}]>>
ReadForms == {<<"scoped", "Lex", "s", 1>>, <<"scoped", "Vec", "s", 2>>, <<"scoped", "Hybrid", "s", 1>>,
              <<"searchVec", "Vec", "none", 1>>, <<"batch", "Lex", "none", 1>>,
              <<"batch", "Hybrid", "s", 2>>, <<"sql", "Lex", "none", 1>>, <<"tenant", "Lex", "none", 1>>}
NearestFirst == <<3, 1, 2, 4>>

-----------------------------------------------------------------------------
\* A component with several initial states has one of them while it rests.
Init ==
    /\ part \in Parts
    /\ CorpusInit /\ SyncInit /\ FreshInit
    /\ IF part = "search" THEN SearchInit ELSE cxText = <<>> /\ cxLex = <<>> /\ cxVec = <<>>
    /\ ContextInit /\ (part = "context" \/ ckLive = {})
    /\ AgentInit
    /\ LiveInit /\ (part = "live" \/ lqAuthOn)
    /\ TransferInit /\ (part = "transfer" \/ tfJob = "rows")
    /\ SynxInit
    /\ VectorInit /\ (part = "vectors" \/ (viJob = "tier" /\ \A t \in ViThresholds : viLimit <= t))
    /\ RetrievalInit /\ (part = "retrieval" \/ rtJob = "recall")
    /\ ReplicasInit /\ (part = "replicas" \/ rpJob = "ops")
    /\ ReadsInit /\ (part = "reads" \/ (rdJob = "type" /\ rdEnv = RdNoScope))

\* Only component p moves.
Only(p) ==
    /\ part = p /\ UNCHANGED part
    /\ p = "corpus"    \/ UNCHANGED cpVars
    /\ p = "sync"      \/ UNCHANGED csVars
    /\ p = "search"    \/ UNCHANGED cxVars
    /\ p = "fresh"     \/ UNCHANGED frVars
    /\ p = "context"   \/ UNCHANGED ckVars
    /\ p = "agents"    \/ UNCHANGED agVars
    /\ p = "live"      \/ UNCHANGED lqVars
    /\ p = "transfer"  \/ UNCHANGED tfVars
    /\ p = "synx"      \/ UNCHANGED sxVars
    /\ p = "vectors"   \/ UNCHANGED viVars
    /\ p = "retrieval" \/ UNCHANGED rtVars
    /\ p = "replicas"  \/ UNCHANGED rpVars
    /\ p = "reads"     \/ UNCHANGED rdVars

Next ==
    \/ Only("corpus") /\ CorpusNext
    \/ Only("sync") /\ SyncNext
    \/ Only("search") /\ SearchNext
    \/ Only("fresh") /\ FreshNext
    \/ Only("context") /\ ContextNext
    \/ Only("agents") /\ AgentNext
    \/ Only("live") /\ LiveNext
    \/ Only("transfer") /\ TransferNext
    \/ Only("synx") /\ SynxNext
    \/ Only("vectors") /\ VectorNext
    \/ Only("retrieval") /\ RetrievalNext
    \/ Only("replicas") /\ ReplicasNext
    \/ Only("reads") /\ ReadsNext

vars == <<part, cpVars, csVars, cxVars, frVars, ckVars, agVars, lqVars, tfVars, sxVars,
          viVars, rtVars, rpVars, rdVars>>
Spec == Init /\ [][Next]_vars

-----------------------------------------------------------------------------
(* Properties: what each component promises, while it is the one explored. *)
(* The named parts are stated and explained in the component's module.     *)

\* Corpus: a stored document has the chunks of one fetch of it unless its
\* put was cut, the first verifier of a promotion stands, no due source waits
\* while another is synced twice, a chunk's span reads back as its text, and
\* hybrid search returns top_k different chunks in the fused order.
CorpusIsWhole ==
    /\ part = "corpus" => DocumentsAreWhole /\ FirstVerifierStands
    /\ part = "sync" => EverySourceGetsItsTurn
    /\ part = "search" => SpansReadBack /\ FusionIsFair

\* fresh.rs: no answer is older than its time to live, whoever fetched it and
\* however long the fetch took, and the local version is the locked one.
FreshnessHolds ==
    part = "fresh" => AnswersAreRecent /\ LocalIsLocked

\* A context pack that is made accounts for every candidate once within its
\* budget and its manifest says so; one from the cache is young, made after the
\* last write that dropped the cache, and names the ids and tokens it delivers.
ContextsAreSound ==
    part = "context" => PackAccounts /\ ServedFresh

\* No agent's recall ever returns a document of another agent, whatever their
\* names look like once they are escaped into one scope string.
AgentsStayApart ==
    part = "agents" => AgentsAreApart

\* Every event emitted while a subscriber listens is sent to it, in order, or
\* was overwritten because it lagged more than the channel holds.
EventsReachListeners ==
    part = "live" => SentOrLost

\* Backups, imports and synx files: a restore gives back a database that was
\* saved, a merge keeps both sides, an import reads what an export wrote, and
\* a pack or a synx file that was cut or changed is refused.
TransfersAreWhole ==
    /\ part = "transfer" => RestoredAsSaved /\ MergeKeepsBoth /\ ImportsRoundTrip
    /\ part = "synx" => OpensOnlyWhole

\* Vector indexes: a tiered search answers from memory and the last flush, and
\* leaves rows waiting only if its own flush failed; the quantised scans agree
\* with the exact one when nothing is cut; the router keeps the caller's limits;
\* and usearch is asked to add beyond its capacity only after a parallel batch
\* that failed in part.
IndexesAgree ==
    part = "vectors" => TierAnswers /\ ScansAgree /\ RouterKeepsHints /\ UsearchHasRoom

\* Recall: hits are stored documents; expansion brings in only what the edges
\* reach, and all of it within its limits; the fusions agree; no stage drops
\* what its cut admits; the filter returns only matches; pruning changes no
\* answer to a sparse query of one term, nor one with room for all postings,
\* and raises no score; tokens are no older than the last completed i8 add.
RecallIsExact ==
    part = "retrieval" => /\ HitsAreHonest /\ ExpansionIsExact /\ FusionsAgree /\ StagesDropNothing
                          /\ FilterKeepsPromise /\ SparseIsExact /\ TokensAreNoOlder

\* Replicas: a sync that reports success has brought everything the peer had of
\* the documents this node knew, replicas with the same operations have the
\* same state, and a query over the shards misses a matching document only for
\* a reason it can be told: a shard too far or broken, or another form of a word.
ReplicasConverge ==
    part = "replicas" => SyncOkIsComplete /\ LastWriterWins /\ ShardsFindAll

\* The daemon's reads: a scoped search, alone or in a batch, returns its scope
\* and hides none of it, packs fit the budget, a batch answers every query, and
\* both clients read a command line the same way but for a scope it leaves out.
ReadsAreHonest ==
    part = "reads" => /\ ScopedIsHonest /\ ScopedHidesNothing /\ ContextFits
                      /\ BatchAnswersAll /\ CommandLinesAgree
=============================================================================
