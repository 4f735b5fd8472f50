---------------------------- MODULE ContextPack -----------------------------
(***************************************************************************)
(* The context tools of the MCP server (synapse-mcp: context_pack,         *)
(* context_feedback, context_remember, context_state, session_ingest,      *)
(* session_replay and the tools that write) and the packer they call       *)
(* (synapse-pack).  The server answers one request at a time over stdio;   *)
(* other processes write to the same daemon at any moment.                 *)
(*                                                                         *)
(* A document is [id, kind, score, sim, toks, noise]: sim is the class of  *)
(* texts whose simhashes are at most 3 bits apart, toks[t] the estimated   *)
(* tokens of the block at tier t.                                          *)
(***************************************************************************)
EXTENDS Integers, Sequences, SequencesExt, FiniteSets, FiniteSetsExt

CONSTANTS CkDocs,             \* documents that can come and go
          CkQueries, CkBudgets,
          CkHeader,           \* header_reserve: 64
          CkCap,              \* PACK_CACHE_CAP: 64
          CkTtl,              \* PACK_CACHE_TTL: 60 s
          CkPackTtl,          \* how long an unanswered pack counts: 3600 s
          CkFew, CkMany,      \* 3 and 6 unanswered packs
          CkFloor,            \* 512 tokens
          CkMaxTime, CkMaxCalls

\* Row ids are unique and recall_candidates merges hits by id; counts of
\* tokens are unsigned.
ASSUME ContextAssumption == CkCap \in Nat \ {0}
ASSUME PackAssumption ==
    /\ IsFiniteSet(CkDocs) /\ CkBudgets \subseteq Nat /\ CkHeader \in Nat /\ CkFloor \in Nat
    /\ \A d \in CkDocs : d.id \in Int /\ d.score \in Int /\ \A t \in 1..4 : d.toks[t] \in Nat
    /\ \A c, d \in CkDocs : c.id = d.id => c = d

VARIABLES ckLive,      \* the daemon's documents
          ckCache,     \* PACK_CACHE, least recently used first
          ckPacks,     \* FEEDBACK_STATE: pack id -> [ts, fb]
          ckClock, ckCalls,
          ckRewards,   \* kind -> <<passes, fails>> of the learn store
          ckOwn,       \* history: successful writes of tools that drop the cache
          ckReply      \* history: the last pack and what it was made from

ckVars == <<ckLive, ckCache, ckPacks, ckClock, ckCalls, ckRewards, ckOwn, ckReply>>

-----------------------------------------------------------------------------
(* synapse-pack                                                            *)

Tiers == <<"Full", "Signatures", "FactDelta", "OneLine">>       \* Tier::ladder
KindFloor(kind) == IF kind \in {"known-fact", "decision", "session-summary", "codebase-map"} THEN 2 ELSE 4

\* trust_prior, in hundredths like the scores.
trust_prior(kind) == CASE kind = "known-fact" -> 5 [] kind = "decision" -> 3
                       [] kind \in {"session-summary", "codebase-map"} -> 2 [] kind = "chat" -> -1 [] OTHER -> 0
Better(a, b) == LET sa == a.score + trust_prior(a.kind)  sb == b.score + trust_prior(b.kind)
                IN sa > sb \/ (sa = sb /\ a.id < b.id)

Ranked(cands) == [n \in 1..Cardinality(cands) |-> CHOOSE c \in cands : Cardinality({d \in cands : Better(d, c)}) = n - 1]

\* The entries of a list at the given positions.
Retained(s, kept) == [n \in 1..Cardinality(kept) |-> s[CHOOSE i \in kept : Cardinality({j \in kept : j <= i}) = n]]

\* The best-ranked one of every class of near duplicates is kept.
KeptOf(ranked) == {i \in DOMAIN ranked : \A j \in 1..(i - 1) : ranked[j].sim # ranked[i].sim}

\* Mutant of PlaceBlock: the header is reserved for the first block only.
PlaceBlockPastBudget(avail, st, c) ==
    LET fits == {t \in 1..KindFloor(c.kind) : c.toks[t] <= avail} IN
    IF fits = {} THEN [st EXCEPT !.dropped = Append(@, c.id)]
    ELSE [used |-> st.used + c.toks[Min(fits)], dropped |-> st.dropped,
          chosen |-> Append(st.chosen, [id |-> c.id, tier |-> Tiers[Min(fits)]])]

\* Greedy with a compression ladder, no lower than the kind's floor.
PlaceBlock(avail, st, c) ==
    LET fits == {t \in 1..KindFloor(c.kind) : st.used + c.toks[t] <= avail} IN
    IF fits = {} THEN [st EXCEPT !.dropped = Append(@, c.id)]
    ELSE [used |-> st.used + c.toks[Min(fits)], dropped |-> st.dropped,
          chosen |-> Append(st.chosen, [id |-> c.id, tier |-> Tiers[Min(fits)]])]

\* All of kept in turn.
Greedy(avail, kept) ==
    LET state[n \in 0..Len(kept)] == IF n = 0 THEN [used |-> 0, chosen |-> <<>>, dropped |-> <<>>]
                                     ELSE PlaceBlock(avail, state[n - 1], kept[n])
    IN state[Len(kept)]

\* First and second best at the ends, the weakest in the middle.
serial_position_order(s) == IF Len(s) <= 2 THEN s ELSE <<s[1]>> \o SubSeq(s, 3, Len(s)) \o <<s[2]>>
cache_stable_order(s, prev) ==
    Retained(s, {i \in DOMAIN s : s[i].id \in prev})
        \o serial_position_order(Retained(s, {i \in DOMAIN s : s[i].id \notin prev}))

Ids(s) == [i \in DOMAIN s |-> s[i].id]

pack(cands, budget, prev, stable) ==
    LET ranked == Ranked(cands)
        kept == Retained(ranked, KeptOf(ranked))
        header == Min({CkHeader, budget \div 4})
        greedy == Greedy(budget - header, kept)
        \* Nothing fits: the top document on one line, floor or no floor.
        last == greedy.chosen = <<>> /\ kept # <<>> /\ kept[1].toks[4] <= budget
        chosen == IF last THEN <<[id |-> kept[1].id, tier |-> "OneLine"]>> ELSE greedy.chosen
    IN [blocks |-> IF stable /\ prev # {} THEN cache_stable_order(chosen, prev) ELSE serial_position_order(chosen),
        used |-> IF last THEN kept[1].toks[4] ELSE greedy.used,
        dropped |-> IF last THEN Tail(greedy.dropped) ELSE greedy.dropped,
        deduped |-> Ids(Retained(ranked, DOMAIN ranked \ KeptOf(ranked))),
        skipped |-> {}]

\* pack_delta: what the previous pack delivered is left out.
pack_delta(cands, budget, prev) ==
    [pack({c \in cands : c.id \notin prev}, budget, {}, FALSE) EXCEPT !.skipped = {c.id : c \in cands} \cap prev]

-----------------------------------------------------------------------------
\* The manifest of a fresh pack lists what became of every candidate; that of
\* a pack from the cache keeps the ids and tokens delivered and no other list.
PackManifest(p) == [ids |-> Ids(p.blocks), used |-> p.used, dropped |-> p.dropped, deduped |-> p.deduped, skipped |-> p.skipped]
HitManifest(e) == [ids |-> e.ids, used |-> e.used, dropped |-> <<>>, deduped |-> <<>>, skipped |-> {}]

\* pack: what was delivered, and (history) what was left out when it was made.
NoReply == [q |-> "none", cands |-> {}, prev |-> {}, budget |-> 0, pack |-> pack({}, 0, {}, FALSE),
            told |-> PackManifest(pack({}, 0, {}, FALSE)), hit |-> FALSE, age |-> 0, own |-> 0]

ContextInit ==
    /\ ckLive \in SUBSET CkDocs
    /\ ckCache = <<>> /\ ckPacks = <<>>
    /\ ckClock = 0 /\ ckCalls = 0 /\ ckOwn = 0
    /\ ckRewards = [k \in {d.kind : d \in CkDocs} |-> <<0, 0>>]
    /\ ckReply = NoReply

Call == ckCalls < CkMaxCalls /\ ckCalls' = ckCalls + 1

\* FeedbackState::budget_factor
budget_factor(requested) ==
    LET open == Cardinality({p \in DOMAIN ckPacks : ~ckPacks[p].fb}) IN
    IF open >= CkMany THEN Max({(requested * 2) \div 5, CkFloor})
    ELSE IF open >= CkFew THEN Max({(requested * 3) \div 5, CkFloor}) ELSE requested

\* register_pack forgets packs of an hour ago.
register_pack(pid) ==
    LET all == [p \in DOMAIN ckPacks \cup {pid} |-> IF p = pid THEN [ts |-> ckClock, fb |-> FALSE] ELSE ckPacks[p]]
    IN [p \in {x \in DOMAIN all : all[x].ts > ckClock - CkPackTtl} |-> all[p]]

\* PackCache::get and put.
Without(cache, key) == Retained(cache, {i \in DOMAIN cache : cache[i].key # key})
\* Mutant of Cached: an entry never grows old.
CachedForever(key) == {e \in Range(ckCache) : e.key = key}
Cached(key) == {e \in Range(ckCache) : e.key = key /\ ckClock - e.at < CkTtl}
CachePut(cache, e) ==
    LET room == IF Len(cache) >= CkCap /\ e.key \notin {x.key : x \in Range(cache)} THEN Tail(cache) ELSE cache
    IN Append(Without(room, e.key), e)

\* recall_candidates: two hybrid searches, merged by id, noise dropped.  The
\* searches may miss documents.
recall_candidates == SUBSET {d \in ckLive : ~d.noise}

\* context_pack with a fresh pack.  prev is found only among cached packs.
ContextPackBuild(q, requested, pid, kinds, stable, use_cache) ==
    LET budget == budget_factor(requested)
        key == <<q, budget>>
        prev == UNION {Range(e.ids) : e \in {x \in Range(ckCache) : x.pid = pid}} IN
    /\ Call
    /\ ~(use_cache /\ pid = <<>> /\ Cached(key) # {})
    /\ \E hits \in recall_candidates :
          LET cands == {d \in hits : d.kind \in kinds}
              p == IF prev = {} THEN pack(cands, budget, prev, stable) ELSE pack_delta(cands, budget, prev)
              new == <<q, Ids(p.blocks)>>
              e == [key |-> key, ids |-> Ids(p.blocks), used |-> p.used, pid |-> new, at |-> ckClock, own |-> ckOwn, pack |-> p, cands |-> cands]
          IN /\ ckCache' = IF use_cache /\ pid = <<>> THEN CachePut(Without(ckCache, key), e) ELSE ckCache
             /\ ckPacks' = register_pack(new)
             /\ ckReply' = [q |-> q, cands |-> cands, prev |-> prev, budget |-> budget, pack |-> p, told |-> PackManifest(p),
                            hit |-> FALSE, age |-> 0, own |-> ckOwn]
    /\ UNCHANGED <<ckLive, ckClock, ckRewards, ckOwn>>

\* context_pack answered from the cache: the entry moves to the end.  Neither
\* the kinds asked for nor the order wanted are looked at.
ContextPackHit(q, requested) ==
    LET budget == budget_factor(requested) IN
    /\ Call
    /\ \E e \in Cached(<<q, budget>>) :
          /\ ckCache' = Append(Without(ckCache, e.key), e)
          /\ ckReply' = [q |-> q, cands |-> e.cands, prev |-> {}, budget |-> budget, pack |-> e.pack, told |-> HitManifest(e),
                         hit |-> TRUE, age |-> ckClock - e.at, own |-> e.own]
    /\ UNCHANGED <<ckLive, ckPacks, ckClock, ckRewards, ckOwn>>

\* memory_save, put, memory_delete, merge, synapse_merge: an answer of the
\* daemon drops the cache; a broken connection does not, written or not.
Write(answered) ==
    /\ Call
    /\ \E d \in CkDocs : ckLive' \in {ckLive \cup {d}, ckLive \ {d}} \cup (IF answered THEN {} ELSE {ckLive})
    /\ ckCache' = IF answered THEN <<>> ELSE ckCache
    /\ ckOwn' = IF answered THEN ckOwn + 1 ELSE ckOwn
    /\ UNCHANGED <<ckPacks, ckClock, ckRewards, ckReply>>

\* context_remember, session_ingest, agent_observe and agent_feedback return
\* before tool_call comes to the cache.
Remember ==
    /\ Call
    /\ \E d \in CkDocs \ ckLive : ckLive' = ckLive \cup {d}
    /\ UNCHANGED <<ckCache, ckPacks, ckClock, ckRewards, ckOwn, ckReply>>

\* context_feedback: rewards the kinds of the used documents, marks the pack
\* answered, then puts a feedback document, which may fail.
ContextFeedback(pid, used, gate) ==
    /\ Call
    /\ ckRewards' = [k \in DOMAIN ckRewards |->
          LET n == Cardinality({d \in ckLive : d.kind = k /\ d.id \in used}) IN
          CASE gate = "pass" -> <<ckRewards[k][1] + n, ckRewards[k][2]>>
            [] gate = "fail" -> <<ckRewards[k][1], ckRewards[k][2] + n>>
            [] OTHER -> ckRewards[k]]
    /\ ckPacks' = [p \in DOMAIN ckPacks |-> IF p = pid THEN [ckPacks[p] EXCEPT !.fb = TRUE] ELSE ckPacks[p]]
    /\ UNCHANGED <<ckLive, ckCache, ckClock, ckOwn, ckReply>>

\* Another process writes.
ElsewhereWrite ==
    /\ Call
    /\ \E d \in CkDocs : ckLive' \in {ckLive \cup {d}, ckLive \ {d}}
    /\ UNCHANGED <<ckCache, ckPacks, ckClock, ckRewards, ckOwn, ckReply>>

ContextTick ==
    /\ ckClock < CkMaxTime
    /\ ckClock' = ckClock + 1
    /\ UNCHANGED <<ckLive, ckCache, ckPacks, ckCalls, ckRewards, ckOwn, ckReply>>

KindFilters == {{d.kind : d \in CkDocs}, {"known-fact"}}
PackIds == {e.pid : e \in Range(ckCache)} \cup DOMAIN ckPacks

ContextNext ==
    \/ \E q \in CkQueries, b \in CkBudgets, pid \in PackIds \cup {<<>>}, kinds \in KindFilters, stable, use_cache \in BOOLEAN :
          ContextPackBuild(q, b, pid, kinds, stable, use_cache)
    \/ \E q \in CkQueries, b \in CkBudgets : ContextPackHit(q, b)
    \/ \E answered \in BOOLEAN : Write(answered)
    \/ Remember
    \/ \E pid \in PackIds, gate \in {"pass", "fail", "unknown"} : ContextFeedback(pid, Range(pid[2]), gate)
    \/ ElsewhereWrite
    \/ ContextTick

-----------------------------------------------------------------------------
(* Every pack that is made accounts for every candidate exactly once (in a  *)
(* block, dropped for space, a near duplicate, or delivered before), spends *)
(* no more than its budget, leads with the best document that got in,       *)
(* repeats nothing of the previous pack as long as that one is in the       *)
(* cache, and drops a duplicate only for a better one that it considered.   *)
(* Its manifest says all this.  A pack from the cache is one that was made  *)
(* so: its manifest names the ids and the tokens it delivers, but no longer *)
(* what was left out of it.                                                 *)
Accounts(p, cands, prev, budget) ==
    LET placed == Range(Ids(p.blocks))
        byId(i) == CHOOSE c \in cands : c.id = i IN
    /\ placed \cup Range(p.dropped) \cup Range(p.deduped) \cup p.skipped = {c.id : c \in cands}
    /\ Len(p.blocks) + Len(p.dropped) + Len(p.deduped) + Cardinality(p.skipped) = Cardinality(cands)
    /\ p.used <= budget
    /\ placed \cap prev = {}
    /\ \A i \in Range(p.deduped) : \E j \in placed \cup Range(p.dropped) :
          byId(j).sim = byId(i).sim /\ Better(byId(j), byId(i))
    /\ prev = {} /\ p.blocks # <<>> => \A i \in placed \ {p.blocks[1].id} : Better(byId(p.blocks[1].id), byId(i))
ManifestTells(r) ==
    /\ r.told.ids = Ids(r.pack.blocks) /\ r.told.used = r.pack.used
    /\ ~r.hit => r.told = PackManifest(r.pack)
PackAccounts ==
    /\ Accounts(ckReply.pack, ckReply.cands, ckReply.prev, ckReply.budget)
    /\ ManifestTells(ckReply)

(* A pack from the cache is younger than the time to live, and was made     *)
(* after the last write that this process was told about through a tool     *)
(* that drops the cache; so is every pack still in the cache.  The cache    *)
(* never outgrows its capacity and holds one pack per key.                  *)
ServedFresh ==
    /\ ckReply.hit => ckReply.age < CkTtl
    /\ \A i \in DOMAIN ckCache : ckCache[i].own = ckOwn
    /\ Len(ckCache) <= CkCap
    /\ \A i, j \in DOMAIN ckCache : ckCache[i].key = ckCache[j].key => i = j

-----------------------------------------------------------------------------
(***************************************************************************)
(* The scoped agent memory of the MCP server (synapse-mcp: agent_observe,  *)
(* agent_search_index, agent_get_observations, agent_context and           *)
(* agent_feedback) and the loop that answers JSON-RPC lines.  All agents   *)
(* write into one table; what keeps them apart is the scope string in the  *)
(* metadata of a document.  A name is the sequence of its characters.      *)
(***************************************************************************)

CONSTANTS AgNames,       \* agent ids and project names
          AgTexts,       \* [words, toks, snip]: words it contains, tokens of the text and of its snippet
          AgTerms,       \* sets of query terms
          AgLimits, AgBudgets,
          AgTermWeight,  \* 10_000: an overlapping term counts as much as so many ids
          AgReserve,     \* 64 tokens and the query's
          AgPerHit,      \* 18 tokens
          AgMaxDocs, AgMaxLines

\* Texts are estimated, terms counted, and names are sequences of characters.
AgChars == UNION {Range(name) : name \in AgNames}
ASSUME AgentAssumption ==
    /\ AgNames \subseteq Seq(AgChars)
    /\ \A t \in AgTexts : t.toks \in Nat /\ t.snip \in Nat
    /\ \A terms \in AgTerms : IsFiniteSet(terms)
    /\ AgLimits \subseteq Nat /\ AgBudgets \subseteq Nat
    /\ AgTermWeight \in Nat /\ AgReserve \in Nat /\ AgPerHit \in Nat

VARIABLES agDocs,        \* docs: id -> [scope, text], with who wrote it as history
          agReply,       \* history: who asked last, what for and what it got
          agIn, agOut    \* lines read and replies written

agVars == <<agDocs, agReply, agIn, agOut>>

NoProject == <<>>
Nobody == [who |-> <<<<>>, <<>>>>, ids |-> <<>>, full |-> <<>>, tokens |-> 0, budget |-> 0]

AgentInit == agDocs = <<>> /\ agReply = Nobody /\ agIn = <<>> /\ agOut = <<>>

\* Mutant of scope_component: the escape character is not escaped.
ScopeSlashOnly(value) == FlattenSeq([i \in DOMAIN value |-> IF value[i] = "/" THEN <<"%", "2", "F">> ELSE <<value[i]>>])

EscapedChar(c) == IF c = "%" THEN <<"%", "2", "5">> ELSE IF c = "/" THEN <<"%", "2", "F">> ELSE <<c>>
scope_component(value) == FlattenSeq([i \in DOMAIN value |-> EscapedChar(value[i])])

agent_scope(who) ==
    IF who[2] = NoProject THEN <<"agent", "/">> \o scope_component(who[1])
    ELSE <<"agent", "/">> \o scope_component(who[2]) \o <<"/">> \o scope_component(who[1])

\* agent_feedback stores the outcome of a recall as a document of its own,
\* in the agent's scope, without an embedding.
AgentFeedback(who) ==
    /\ Len(agDocs) < AgMaxDocs
    /\ agDocs' = Append(agDocs, [scope |-> agent_scope(who), who |-> who, text |-> [words |-> {}, toks |-> 1, snip |-> 1]])
    /\ UNCHANGED agReply

\* agent_observe
AgentPut(who) ==
    /\ Len(agDocs) < AgMaxDocs
    /\ \E t \in AgTexts : agDocs' = Append(agDocs, [scope |-> agent_scope(who), text |-> t, who |-> who])
    /\ UNCHANGED agReply

\* rank_docs: exact match is left out.  The sort is stable: a tie keeps the
\* order of the rows, those that match first, the newest first.
Points(id, terms) == AgTermWeight * Cardinality(terms \cap agDocs[id].text.words) + id
MatchesTerms(id, terms) == agDocs[id].text.words \cap terms # {}
RowBefore(a, b, terms) ==
    \/ MatchesTerms(a, terms) /\ ~MatchesTerms(b, terms)
    \/ (MatchesTerms(a, terms) <=> MatchesTerms(b, terms)) /\ a > b
RankedBefore(a, b, terms) ==
    \/ Points(a, terms) > Points(b, terms)
    \/ Points(a, terms) = Points(b, terms) /\ RowBefore(a, b, terms)
rank_docs(ids, terms) ==
    [n \in 1..Cardinality(ids) |->
        CHOOSE i \in ids : Cardinality({j \in ids : RankedBefore(j, i, terms)}) = n - 1]

\* The newest n of a set of ids: ORDER BY id DESC LIMIT n.
Newest(ids, n) == {i \in ids : Cardinality({j \in ids : j > i}) < n}
FirstOf(s, n) == SubSeq(s, 1, IF Len(s) < n THEN Len(s) ELSE n)

\* agent_search_index: the newest matching and the newest at all, ranked.
SearchIndex(who, terms, limit, fetch) ==
    LET mine == {i \in DOMAIN agDocs : agDocs[i].scope = agent_scope(who)}
        matching == {i \in mine : MatchesTerms(i, terms)}
    IN FirstOf(rank_docs(Newest(matching, fetch) \cup Newest(mine, fetch), terms), limit)

\* agent_get_observations: by id, scope checked row by row, in the order
\* asked, each once.
GetObservations(who, ids) ==
    Retained(ids, {k \in DOMAIN ids : /\ ids[k] \in DOMAIN agDocs /\ agDocs[ids[k]].scope = agent_scope(who)
                                      /\ \A h \in 1..(k - 1) : ids[h] # ids[k]})

\* agent_context: hits while they fit, then full texts of the first full_k,
\* clipped to what is left if more than 8 tokens are left.
IndexStep(budget, st, i) ==
    LET t == agDocs[i].text.snip + AgPerHit IN
    IF st.stop \/ (st.index # <<>> /\ st.used + t > budget) THEN [st EXCEPT !.stop = TRUE]
    ELSE IF st.used + t > budget THEN st
    ELSE [st EXCEPT !.used = @ + t, !.index = Append(@, i)]
Indexed(budget, raw) ==
    LET after[n \in 0..Len(raw)] == IF n = 0 THEN [used |-> AgReserve, index |-> <<>>, stop |-> FALSE]
                                    ELSE IndexStep(budget, after[n - 1], raw[n])
    IN after

\* clip is what a clipped text is estimated to cost; docs are those found.
FullStep(budget, clip, docs, st, i) ==
    LET t == agDocs[i].text.toks IN
    IF i \notin docs THEN st
    ELSE IF st.used + t <= budget THEN [st EXCEPT !.used = @ + t, !.full = Append(@, i)]
    ELSE IF budget - st.used <= 8 \/ clip >= t \/ st.used + clip > budget THEN st
    ELSE [st EXCEPT !.used = @ + clip, !.full = Append(@, i)]
Selected(budget, clip, docs, used, hits) ==
    LET after[n \in 0..Len(hits)] == IF n = 0 THEN [used |-> used, full |-> <<>>]
                                     ELSE FullStep(budget, clip, docs, after[n - 1], hits[n])
    IN after

AgentContext(who, terms, limit, budget, full_k, clip) ==
    LET raw == SearchIndex(who, terms, limit, AgMaxDocs)
        index == Indexed(budget, raw)[Len(raw)]
        hits == FirstOf(index.index, full_k)
        docs == Range(GetObservations(who, index.index))
        got == Selected(budget, clip, docs, index.used, hits)[Len(hits)]
    IN [who |-> who, ids |-> index.index, full |-> got.full, tokens |-> got.used, budget |-> budget]

\* Which tool of the agent family a request calls.
AgentCall(who) ==
    \/ AgentPut(who)
    \/ AgentFeedback(who)
    \/ /\ UNCHANGED agDocs
       /\ \/ \E terms \in AgTerms, limit \in AgLimits, fetch \in {1, AgMaxDocs} :
                agReply' = [Nobody EXCEPT !.who = who, !.ids = SearchIndex(who, terms, limit, fetch)]
          \/ \E i, j \in 1..AgMaxDocs : \E ids \in {<<i, j>>, [k \in DOMAIN agDocs |-> k]} :
                agReply' = [Nobody EXCEPT !.who = who, !.full = GetObservations(who, ids)]
          \/ \E terms \in AgTerms, limit \in AgLimits, budget \in AgBudgets, full_k \in 1..2, clip \in {1, 9} :
                agReply' = AgentContext(who, terms, limit, budget, full_k, clip)

\* main: an empty line or one that is no request is skipped, a notification
\* is handled and not answered, a failing tool is answered with an error.
AgentLine ==
    /\ Len(agIn) < AgMaxLines
    /\ \E line \in {"empty", "garbage", "notification", "request"} :
          /\ agIn' = Append(agIn, line)
          /\ IF line \in {"empty", "garbage"} THEN UNCHANGED <<agDocs, agReply>>
             ELSE \/ \E a \in AgNames, p \in AgNames \cup {NoProject} : AgentCall(<<a, p>>)
                  \/ UNCHANGED <<agDocs, agReply>>        \* an error: arguments, daemon
          /\ agOut' = IF line = "request" THEN Append(agOut, Len(agIn) + 1) ELSE agOut

AgentNext == AgentLine

-----------------------------------------------------------------------------
(* No agent is shown what another agent, or the same agent in another       *)
(* project, observed, whatever characters their names have; no list of hits *)
(* or of full texts has a document twice; and the context an agent gets is  *)
(* estimated at no more than its budget, or the fixed part of the frame if  *)
(* that is more.                                                            *)
AgentsAreApart ==
    LET got == agReply.ids \o agReply.full IN
    /\ \A k \in DOMAIN got : agDocs[got[k]].who = agReply.who
    /\ Cardinality(Range(agReply.ids)) = Len(agReply.ids)
    /\ Cardinality(Range(agReply.full)) = Len(agReply.full)
    /\ agReply.tokens <= Max({agReply.budget, AgReserve})
    /\ Len(agReply.full) > 0 /\ agReply.budget > 0 => Range(agReply.full) \subseteq Range(agReply.ids)
=============================================================================
