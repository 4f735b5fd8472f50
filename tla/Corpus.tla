------------------------------- MODULE Corpus -------------------------------
(***************************************************************************)
(* The reading corpus (crates/synapse-core/src/corpus.rs): sources, their  *)
(* documents and chunks, and the promotions of chunks.  No transaction     *)
(* surrounds the statements of an ingest: two hosts on one database        *)
(* interleave between any two of them, and a statement may fail, or a host *)
(* die, there.  A fetch gives a page or feed; what it becomes is decided   *)
(* by content type, address and first bytes.                               *)
(***************************************************************************)
EXTENDS Integers, Sequences, SequencesExt, FiniteSets, FiniteSetsExt

CONSTANTS CpHosts,
          CpFetched,       \* what the address can answer, see Plan
          CpStored,        \* the store's docs in id order: [body, ts]
          CpMaxDocs,       \* bound on documents
          CpMaxFetches, CpMaxPromotions, CpMaxCrashes

ASSUME CorpusAssumption == "none" \notin CpHosts

VARIABLES cpSources,    \* the kinds the address has a row of synapse_corpus_sources for
          cpDocs,       \* rows of documents in id order: [kind, ext, body, chunks]
          cpProms,      \* promotions in id order: [doc, status, verifier]
          cpHost,       \* host -> the ingest it is in
          cpFetches, cpCrashes,
          cpCut,        \* documents whose ingest was cut short, by a failing INSERT or a crash
          cpFirst       \* promotion -> who verified it first

cpVars == <<cpSources, cpDocs, cpProms, cpHost, cpFetches, cpCrashes, cpCut, cpFirst>>

NoHost == [at |-> "idle", todo |-> <<>>]

CorpusInit ==
    /\ cpSources = {} /\ cpDocs = <<>> /\ cpProms = <<>> /\ cpFirst = <<>>
    /\ cpHost = [h \in CpHosts |-> NoHost]
    /\ cpFetches = 0 /\ cpCrashes = 0 /\ cpCut = {}

\* ParsedRssItem::into_doc.  An item without content and description is no
\* document; its identity is its guid, else its link, else a hash of it.
into_doc(item) ==
    IF item.body = 0 THEN <<>>
    ELSE <<[kind |-> "rss", body |-> item.body,
            ext |-> IF item.guid # "" THEN <<item.guid, 0>> ELSE IF item.link # "" THEN <<item.link, 0>> ELSE <<"#", item.body>>]>>

\* ingest_rss_xml: its items, in order; any item outside the feed syntax is
\* ignored, so a page that is no feed gives none.
RssDocs(f) == FlattenSeq([i \in DOMAIN f.items |-> into_doc(f.items[i])])
OneDoc(kind, f) == <<[kind |-> kind, ext |-> <<f.uri, 0>>, body |-> f.body]>>

\* ingest_fetched_document: which parser takes the bytes, and the documents
\* it makes.  "error": nothing is stored and the caller is told.
IsFeed(f) == f.ctype \in {"rss", "atom", "+xml"} \/ f.looks = "rss"
Error == <<[kind |-> "error", ext |-> <<"", 0>>, body |-> 0]>>
Plan(f) ==
    IF f.looks = "empty" THEN Error
    ELSE IF IsFeed(f) THEN RssDocs(f)
    ELSE IF f.ctype = "pdf" \/ f.uri = "x.pdf" THEN (IF f.body = 0 THEN Error ELSE OneDoc("pdf", f))
    ELSE IF f.ctype = "html" \/ f.looks = "html" THEN (IF f.body = 0 THEN Error ELSE OneDoc("web", f))
    ELSE IF f.body = 0 THEN Error ELSE OneDoc("text", f)

\* A body is the number of paragraphs it has: one chunk each.
CpChunks(d) == d.body

CorpusFetch(h, f) ==
    /\ cpHost[h] = NoHost /\ cpFetches < CpMaxFetches
    /\ cpFetches' = cpFetches + 1
    /\ cpHost' = [cpHost EXCEPT ![h] =
          IF Plan(f) = Error THEN NoHost ELSE [at |-> "source", todo |-> Plan(f)]]
    /\ UNCHANGED <<cpSources, cpDocs, cpProms, cpCrashes, cpCut, cpFirst>>

\* import_synapse_docs_to_corpus: the newest limit documents of the store that
\* are not blank, each known by its own row id.
import_synapse_docs_to_corpus(limit) ==
    LET newest == SetToSortSeq(DOMAIN CpStored, LAMBDA i, j :
                     CpStored[i].ts > CpStored[j].ts \/ (CpStored[i].ts = CpStored[j].ts /\ i > j))
        taken == SubSeq(newest, 1, IF limit < Len(newest) THEN limit ELSE Len(newest))
        kept == SelectSeq(taken, LAMBDA i : CpStored[i].body # 0)
    IN [n \in DOMAIN kept |-> [kind |-> "text", ext |-> <<"synapse-doc", kept[n]>>, body |-> CpStored[kept[n]].body]]
CorpusImport(h, limit) ==
    /\ cpHost[h] = NoHost /\ cpFetches < CpMaxFetches
    /\ cpFetches' = cpFetches + 1
    /\ cpHost' = [cpHost EXCEPT ![h] = [at |-> "source", todo |-> import_synapse_docs_to_corpus(limit)]]
    /\ UNCHANGED <<cpSources, cpDocs, cpProms, cpCrashes, cpCut, cpFirst>>

\* Mutant of HasDoc.
HasDocSameBody(d) == \E i \in DOMAIN cpDocs : cpDocs[i].kind = d.kind /\ cpDocs[i].ext = d.ext /\ cpDocs[i].body = d.body

\* put_corpus_document, statement by statement.  First the source's row
\* (ON CONFLICT only its title changes), then the look for the document.
HasDoc(d) == \E i \in DOMAIN cpDocs : cpDocs[i].kind = d.kind /\ cpDocs[i].ext = d.ext
Next1(h) == [at |-> "source", todo |-> Tail(cpHost[h].todo)]

UpsertSource(h) ==
    /\ cpHost[h].at = "source"
    /\ IF cpHost[h].todo = <<>>
       THEN /\ cpHost' = [cpHost EXCEPT ![h] = NoHost]
            /\ UNCHANGED cpSources
       ELSE /\ cpSources' = cpSources \cup {cpHost[h].todo[1].kind}
            /\ cpHost' = [cpHost EXCEPT ![h].at = "look"]
    /\ UNCHANGED <<cpDocs, cpProms, cpFetches, cpCrashes, cpCut, cpFirst>>

LookForDocument(h) ==
    /\ cpHost[h].at = "look"
    /\ cpHost' = [cpHost EXCEPT ![h] = IF HasDoc(@.todo[1]) THEN Next1(h) ELSE [@ EXCEPT !.at = "insert"]]
    /\ UNCHANGED <<cpSources, cpDocs, cpProms, cpFetches, cpCrashes, cpCut, cpFirst>>

\* The INSERT fails on UNIQUE(source_id, external_id) when another host was
\* first; the error ends the whole ingest.
InsertDocument(h) ==
    LET d == cpHost[h].todo[1] IN
    /\ cpHost[h].at = "insert"
    /\ IF HasDoc(d)
       THEN cpHost' = [cpHost EXCEPT ![h] = NoHost] /\ UNCHANGED cpDocs
       ELSE /\ Len(cpDocs) < CpMaxDocs
            /\ cpDocs' = Append(cpDocs, [kind |-> d.kind, ext |-> d.ext, body |-> d.body, chunks |-> 0])
            /\ cpHost' = [cpHost EXCEPT ![h] = [at |-> "chunks", todo |-> @.todo, doc |-> Len(cpDocs) + 1]]
    /\ UNCHANGED <<cpSources, cpProms, cpFetches, cpCrashes, cpCut, cpFirst>>

\* One INSERT per chunk; its trigger indexes the chunk.
InsertChunk(h) ==
    LET i == cpHost[h].doc IN
    /\ cpHost[h].at = "chunks"
    /\ IF cpDocs[i].chunks = CpChunks(cpDocs[i])
       THEN cpHost' = [cpHost EXCEPT ![h] = Next1(h)] /\ UNCHANGED cpDocs
       ELSE cpDocs' = [cpDocs EXCEPT ![i].chunks = @ + 1] /\ UNCHANGED cpHost
    /\ UNCHANGED <<cpSources, cpProms, cpFetches, cpCrashes, cpCut, cpFirst>>

\* A statement fails and its "?" ends the ingest, or the host dies: what the
\* statements before it stored stays.
CorpusCut(h) ==
    /\ cpHost[h] # NoHost /\ cpCrashes < CpMaxCrashes
    /\ cpCrashes' = cpCrashes + 1
    /\ cpCut' = IF cpHost[h].at = "chunks" THEN cpCut \cup {cpHost[h].doc} ELSE cpCut
    /\ cpHost' = [cpHost EXCEPT ![h] = NoHost]
    /\ UNCHANGED <<cpSources, cpDocs, cpProms, cpFetches, cpFirst>>

\* queue_promotion needs the chunk; verify_promotion takes a pending one.
QueuePromotion(i) ==
    /\ Len(cpProms) < CpMaxPromotions
    /\ cpDocs[i].chunks > 0
    /\ cpProms' = Append(cpProms, [doc |-> i, status |-> "pending", verifier |-> "none"])
    /\ cpFirst' = Append(cpFirst, "none")
    /\ UNCHANGED <<cpSources, cpDocs, cpHost, cpFetches, cpCrashes, cpCut>>

\* Mutant of Pending.
PendingAlways(p) == cpProms[p].status \in {"pending", "verified"}

Pending(p) == cpProms[p].status = "pending"
VerifyPromotion(h, p) ==
    /\ Pending(p)
    /\ cpProms' = [cpProms EXCEPT ![p].status = "verified", ![p].verifier = h]
    /\ cpFirst' = [cpFirst EXCEPT ![p] = IF @ = "none" THEN h ELSE @]
    /\ UNCHANGED <<cpSources, cpDocs, cpHost, cpFetches, cpCrashes, cpCut>>
ready_promotions == {p \in DOMAIN cpProms : cpProms[p].status = "verified"}

CorpusNext ==
    \/ \E h \in CpHosts :
          \/ \E f \in CpFetched : CorpusFetch(h, f)
          \/ \E limit \in 1..Len(CpStored) : CorpusImport(h, limit)
          \/ UpsertSource(h) \/ LookForDocument(h) \/ InsertDocument(h) \/ InsertChunk(h) \/ CorpusCut(h)
          \/ \E p \in DOMAIN cpProms : VerifyPromotion(h, p)
    \/ \E i \in DOMAIN cpDocs : QueuePromotion(i)

-----------------------------------------------------------------------------
BeingWritten(i) == \E h \in CpHosts : cpHost[h].at = "chunks" /\ cpHost[h].doc = i

(* A document is in the corpus once per source and external id, however     *)
(* often and from however many hosts it is fetched, and has all its chunks  *)
(* once its ingest is over: searching never misses a part of a document,    *)
(* unless a failing INSERT or a crash cut its ingest short (then no later   *)
(* fetch repairs it, the row being there).                                  *)
DocumentsAreWhole ==
    /\ \A i, j \in DOMAIN cpDocs : cpDocs[i].kind = cpDocs[j].kind /\ cpDocs[i].ext = cpDocs[j].ext => i = j
    /\ \A i \in DOMAIN cpDocs : cpDocs[i].chunks = CpChunks(cpDocs[i]) \/ BeingWritten(i) \/ i \in cpCut

(* A promotion that is ready was verified, and keeps the verifier that was  *)
(* first: verifying it again, from another host, changes nothing.           *)
FirstVerifierStands == \A p \in DOMAIN cpProms : cpProms[p].verifier = cpFirst[p] /\ (p \in ready_promotions <=> cpFirst[p] # "none")

-----------------------------------------------------------------------------
(***************************************************************************)
(* The sync schedule of corpus sources (crates/synapse-core/src/corpus.rs):*)
(* a host asks for the due sources, fetches them in the order given and    *)
(* marks each one it could fetch.  Sources may be registered again at any  *)
(* time.  The host is not part of the repository.                          *)
(***************************************************************************)

CONSTANTS CsIds,         \* source ids, naturals
          CsIntervals,   \* the intervals a source may be registered with
          CsLimit,       \* limit of a round
          CsMaxTime

ASSUME SyncAssumption ==
    /\ CsIds \subseteq Nat /\ IsFiniteSet(CsIds)
    /\ CsIntervals \subseteq Nat \ {0} /\ CsLimit \in Nat

VARIABLES csSource,    \* id -> [interval, last]; 0: not registered for sync; -1: never synced
          csClock,
          csRound,     \* sources of the running round still to be fetched
          csPassed     \* history: id -> how often each other source was synced since it became due or had its turn

csVars == <<csSource, csClock, csRound, csPassed>>

NotPassed == [t \in CsIds |-> 0]

SyncInit ==
    /\ csSource = [s \in CsIds |-> [interval |-> 0, last |-> -1]]
    /\ csClock = 1 /\ csRound = <<>>        \* seconds since 1970: never 0
    /\ csPassed = [s \in CsIds |-> NotPassed]

CsDue(s) == csSource[s].interval > 0 /\ (csSource[s].last = -1 \/ csSource[s].last + csSource[s].interval <= csClock)

\* upsert_corpus_sync_source: interval > 0; an existing row keeps last_sync_ts.
SyncRegister(s) ==
    /\ \E i \in CsIntervals \ {csSource[s].interval} : csSource' = [csSource EXCEPT ![s].interval = i]
    /\ UNCHANGED <<csClock, csRound>>
    /\ csPassed' = [csPassed EXCEPT ![s] = IF CsDue(s)' THEN @ ELSE NotPassed]

\* due_corpus_sync_sources: ORDER BY COALESCE(last_sync_ts, 0), id LIMIT.
LastOrZero(s) == IF csSource[s].last = -1 THEN 0 ELSE csSource[s].last
\* Mutant of Sooner.
SoonerById(a, b) == a < b

Sooner(a, b) == LastOrZero(a) < LastOrZero(b) \/ (LastOrZero(a) = LastOrZero(b) /\ a < b)
AllDue == {s \in CsIds : CsDue(s)}
Place(s) == Cardinality({t \in AllDue : Sooner(t, s)})
due_corpus_sync_sources ==
    [n \in 1..(IF Cardinality(AllDue) < CsLimit THEN Cardinality(AllDue) ELSE CsLimit) |->
        CHOOSE s \in AllDue : Place(s) = n - 1]

SyncRound ==
    /\ csRound = <<>> /\ due_corpus_sync_sources # <<>>
    /\ csRound' = due_corpus_sync_sources
    /\ UNCHANGED <<csSource, csClock, csPassed>>

\* mark_corpus_source_synced after the ingest.
MarkSynced ==
    /\ csRound # <<>>
    /\ csRound' = Tail(csRound)
    /\ csSource' = [csSource EXCEPT ![Head(csRound)].last = csClock]
    /\ csPassed' = [s \in CsIds |-> IF s = Head(csRound) \/ ~CsDue(s) THEN NotPassed
                                   ELSE [csPassed[s] EXCEPT ![Head(csRound)] = @ + 1]]
    /\ UNCHANGED csClock

\* The source cannot be fetched and keeps its row.
SyncFailed ==
    /\ csRound # <<>>
    /\ csRound' = Tail(csRound)
    /\ csPassed' = [csPassed EXCEPT ![Head(csRound)] = NotPassed]
    /\ UNCHANGED <<csSource, csClock>>

SyncTick ==
    /\ csClock < CsMaxTime
    /\ csClock' = csClock + 1
    /\ UNCHANGED <<csSource, csRound, csPassed>>

SyncNext == (\E s \in CsIds : SyncRegister(s)) \/ SyncRound \/ MarkSynced \/ SyncFailed \/ SyncTick

-----------------------------------------------------------------------------
(* Every source that is due gets its turn: however intervals, limit and     *)
(* clock run, however often sources are registered again and whichever the  *)
(* host fails to fetch, no source waits while another one is synced twice.  *)
EverySourceGetsItsTurn == \A s, t \in CsIds : csPassed[s][t] <= 1

-----------------------------------------------------------------------------
(***************************************************************************)
(* The pure parts of crates/synapse-core/src/corpus.rs: cutting a text     *)
(* into chunks with their spans, fusing the two candidate lists of a       *)
(* search, diversifying them, and the report the evaluation gate compares. *)
(* A text is a sequence of character classes: "x" (not white space), " "   *)
(* and "n" (line end).  Scores are integers: the fractions of the code     *)
(* over a common denominator.                                              *)
(***************************************************************************)

CONSTANTS CxTexts,       \* texts to cut
          CxChunks,      \* chunk ids
          CxTokens,      \* chunk -> its tokens (at most 3)
          CxLists        \* candidate lists: sequences of distinct chunk ids

VARIABLES cxText, cxLex, cxVec

cxVars == <<cxText, cxLex, cxVec>>

\* text.split("\n\n"): first and last index of every piece.
Pieces(t) ==
    LET step(acc, i) == IF t[i] = "n" /\ i > acc.from /\ t[i - 1] = "n"
                        THEN [from |-> i + 1, done |-> Append(acc.done, <<acc.from, i - 2>>)] ELSE acc
        all == FoldLeft(step, [from |-> 1, done |-> <<>>], [i \in 1..Len(t) |-> i]) IN
    Append(all.done, <<all.from, Len(t)>>)

\* chunks_with_spans: trim every piece; the cursor counts the bytes before
\* a piece, its two line ends included.
Solid(s) == {i \in DOMAIN s : s[i] = "x"}
\* Mutant of ChunkStep.
ChunkStepOneLineEnd(acc, raw) ==
    LET kept == Solid(raw) IN
    IF kept = {} THEN [acc EXCEPT !.cursor = @ + Len(raw) + 1]
    ELSE [cursor |-> acc.cursor + Len(raw) + 2,
          chunks |-> Append(acc.chunks, [text |-> SubSeq(raw, Min(kept), Max(kept)), start |-> acc.cursor + Min(kept) - 1,
                                         end |-> acc.cursor + Max(kept)])]

ChunkStep(acc, raw) ==
    LET kept == Solid(raw)
        next == acc.cursor + Len(raw) + 2 IN
    IF kept = {} THEN [acc EXCEPT !.cursor = next]
    ELSE LET local_start == Min(kept) - 1
             trimmed == SubSeq(raw, Min(kept), Max(kept)) IN
         [cursor |-> next,
          chunks |-> Append(acc.chunks, [text |-> trimmed, start |-> acc.cursor + local_start,
                                         end |-> acc.cursor + local_start + Len(trimmed)])]
chunks_with_spans(t) ==
    LET ps == Pieces(t) IN
    FoldLeft(ChunkStep, [cursor |-> 0, chunks |-> <<>>], [i \in DOMAIN ps |-> SubSeq(t, ps[i][1], ps[i][2])]).chunks

\* rrf_score, over 61 * 62 * 63 * 64, for the first four ranks.
Unit == 61 * 62 * 63 * 64
rrf_score(rank) == Unit \div (60 + rank)      \* rank counts from 1 here
PartScore(list, c) == IF \E i \in DOMAIN list : list[i] = c THEN rrf_score(CHOOSE i \in DOMAIN list : list[i] = c) ELSE 0
Score(lex, vec, c) == PartScore(lex, c) + PartScore(vec, c)

\* search_corpus: both lists one after the other, stably sorted by score;
\* dedup and fetch_hits keep the first of each chunk.
Before(all, lex, vec, i, j) ==
    \/ Score(lex, vec, all[i]) > Score(lex, vec, all[j])
    \/ Score(lex, vec, all[i]) = Score(lex, vec, all[j]) /\ i < j
Fused(lex, vec) ==
    LET all == lex \o vec
        order == SetToSortSeq(DOMAIN all, LAMBDA i, j : Before(all, lex, vec, i, j))
        sorted == [k \in DOMAIN order |-> all[order[k]]] IN
    SelectSeq([k \in DOMAIN sorted |-> IF \E j \in 1..(k - 1) : sorted[j] = sorted[k] THEN 0 ELSE sorted[k]], LAMBDA c : c # 0)

\* jaccard over 12 (unions have at most four tokens here).
jaccard(a, b) == IF CxTokens[a] \cup CxTokens[b] = {} THEN 0
                 ELSE (12 * Cardinality(CxTokens[a] \cap CxTokens[b])) \div Cardinality(CxTokens[a] \cup CxTokens[b])

\* mmr_diversify: 0.72 of relevance minus 0.28 of the likeness to a hit
\* already taken; the first of the best, ties broken by the score.
Similarity(c, taken) == IF taken = <<>> THEN 0 ELSE Max({jaccard(c, taken[i]) : i \in DOMAIN taken})
MmrScore(lex, vec, top, c, taken) == 72 * 12 * Score(lex, vec, c) - 28 * top * Similarity(c, taken)
\* Mutant of MmrPick: a hit that was taken may be taken again.
MmrPickAgain(hits, lex, vec, taken) ==
    LET top == Max({Score(lex, vec, hits[i]) : i \in DOMAIN hits})
        v(i) == MmrScore(lex, vec, top, hits[i], taken) IN
    hits[Min({i \in DOMAIN hits : \A j \in DOMAIN hits : v(j) <= v(i)})]

MmrPick(hits, lex, vec, taken) ==
    LET top == Max({Score(lex, vec, hits[i]) : i \in DOMAIN hits})
        v(i) == MmrScore(lex, vec, top, hits[i], taken)
        free == {i \in DOMAIN hits : \A j \in DOMAIN taken : taken[j] # hits[i]}
        best == {i \in free : \A j \in free : v(j) <= v(i)} IN
    hits[Min({i \in best : \A j \in best : Score(lex, vec, hits[j]) <= Score(lex, vec, hits[i])})]
mmr_diversify(hits, lex, vec, k) ==
    IF Len(hits) <= k THEN hits
    ELSE FoldLeft(LAMBDA taken, i : Append(taken, MmrPick(hits, lex, vec, taken)), <<>>, [i \in 1..k |-> i])
search_corpus(lex, vec, k) == IF k = 0 THEN <<>> ELSE mmr_diversify(Fused(lex, vec), lex, vec, k)

\* evaluate_rankings for one gold question with one relevant chunk: recall
\* at 5, reciprocal rank over 12, false hits in the top 5.
Top5(r) == SubSeq(r, 1, IF Len(r) < 5 THEN Len(r) ELSE 5)
RankOf(r, c) == IF \E i \in DOMAIN r : r[i] = c THEN CHOOSE i \in DOMAIN r : r[i] = c ELSE 0
evaluate_rankings(r, c) ==
    [recall_at_5 |-> IF RankOf(Top5(r), c) > 0 THEN 1 ELSE 0,
     mrr |-> IF RankOf(r, c) = 0 THEN 0 ELSE 12 \div RankOf(r, c),
     false_returned |-> Len(Top5(r)) - (IF RankOf(Top5(r), c) > 0 THEN 1 ELSE 0), returned |-> Len(Top5(r))]

\* evaluate_rankings_gate: better on all three; a rate over nothing is 0.
FalseRateLess(a, b) ==
    IF b.returned = 0 THEN FALSE ELSE IF a.returned = 0 THEN b.false_returned > 0
    ELSE a.false_returned * b.returned < b.false_returned * a.returned
Passes(base, cand, c) ==
    LET b == evaluate_rankings(base, c)
        a == evaluate_rankings(cand, c) IN
    a.recall_at_5 > b.recall_at_5 /\ a.mrr > b.mrr /\ FalseRateLess(a, b)

\* An input is a text or a pair of lists.
SearchInit == \/ cxText \in CxTexts /\ cxLex = <<>> /\ cxVec = <<>>
              \/ cxText = <<>> /\ cxLex \in CxLists /\ cxVec \in CxLists
SearchNext == UNCHANGED cxVars

-----------------------------------------------------------------------------
(* The span stored with a chunk is where its text is: reading the document  *)
(* at [start, end) gives the chunk, the chunks follow each other without    *)
(* overlapping and every character that is not white space is in one.       *)
SpansReadBack ==
    LET cs == chunks_with_spans(cxText) IN
    /\ \A k \in DOMAIN cs : SubSeq(cxText, cs[k].start + 1, cs[k].end) = cs[k].text
    /\ \A k \in DOMAIN cs : k > 1 => cs[k - 1].end < cs[k].start
    /\ Solid(cxText) = UNION {Solid(cxText) \cap ((cs[k].start + 1)..cs[k].end) : k \in DOMAIN cs}

(* A search returns top_k different chunks, or all candidates when there    *)
(* are fewer, the best fused one first; before diversifying, a chunk that   *)
(* is ahead of another in both lists is ahead of it in the fused order; and *)
(* the gate never lets a ranking pass that does not find the chunk.         *)
FusionIsFair ==
    LET hits == Fused(cxLex, cxVec)
        at(l, c) == IF RankOf(l, c) = 0 THEN 99 ELSE RankOf(l, c) IN
    /\ \A a, b \in ToSet(hits) :
          at(cxLex, a) < at(cxLex, b) /\ at(cxVec, a) <= at(cxVec, b) => RankOf(hits, a) < RankOf(hits, b)
    /\ \A k \in 0..4 : LET out == search_corpus(cxLex, cxVec, k) IN
          /\ Len(out) = IF Len(hits) < k THEN Len(hits) ELSE k
          /\ Cardinality(ToSet(out)) = Len(out)
          /\ ToSet(out) \subseteq ToSet(cxLex) \cup ToSet(cxVec)
          /\ out # <<>> => out[1] = hits[1]
          /\ \A c \in CxChunks : Passes(cxLex, out, c) => RankOf(out, c) > 0 /\ RankOf(cxLex, c) = 0
=============================================================================
