-------------------------------- MODULE Spaces --------------------------------
(***************************************************************************)
(* Wings, rooms and drawers over one store (crates/synapse-space: lib.rs,  *)
(* mcp.rs).  A uri is <<wing, room, uid>>; a drawer's text is a value, a   *)
(* chunk of a session the stretch of a message or paragraphs it holds.     *)
(* Every call opens the store anew; the server may be restarted.           *)
(***************************************************************************)
EXTENDS Integers, Sequences, SequencesExt, FiniteSets, FiniteSetsExt, Functions

CONSTANTS SpPlaces,      \* <<wing, room>>, of one letter each; LIKE reads "_" as any letter
          SpTexts,       \* texts of drawer_put
          SpSessions,    \* sessions to sweep: [kind, items], items of [ok, id, len]
          SpWindow, SpOverlap, SpThreshold,   \* 400, 50, 1000
          SpTarget, SpMax,                    \* 2048, 4096
          SpMaxCalls, SpMaxKills, SpMaxFails   \* bounds on calls, kills and failing puts

VARIABLES spDocs,     \* docs in id order: [uri, text, live]
          spCtr,      \* monotonic_uid, a static of the process
          spSweep,    \* the sweep under way: [w, r, session, chunks, inserted, skipped], or NoSweep;
                      \* and of its history, grew, failed: documents it added, puts that failed
          spPut,      \* history: the drawers drawer_put answered with: [w, r, text, id, new]
          spSwept,    \* history: sweeps that came to their end, in order, as spSweep
          spTally     \* calls, kills and failing puts so far: [calls, kills, fails]

spVars == <<spDocs, spCtr, spSweep, spPut, spSwept, spTally>>

NoSweep == [none |-> TRUE]
SpacesInit ==
    /\ spDocs = <<>> /\ spCtr = 1 /\ spSweep = NoSweep
    /\ spPut = {} /\ spSwept = <<>>
    /\ spTally = [calls |-> 0, kills |-> 0, fails |-> 0]

SpaceCall == spTally.calls < SpMaxCalls /\ spTally' = [spTally EXCEPT !.calls = @ + 1]

\* Mutant of IdOf: the uri decides whether a text is known.
IdOfUri(uri, text) == {i \in DOMAIN spDocs : spDocs[i].uri = uri}

\* Store::put: a known text is answered with its document, whatever its uri.
IdOf(uri, text) == {i \in DOMAIN spDocs : spDocs[i].text = text}
UriTaken(uri) == \E i \in DOMAIN spDocs : spDocs[i].uri = uri
NewDoc(uri, text) == Append(spDocs, [uri |-> uri, text |-> text, live |-> TRUE])

\* drawer_put and Room::put; a uri of an earlier process makes it fail.
DrawerPut ==
    /\ SpaceCall
    /\ spCtr' = spCtr + 1
    /\ \E wr \in SpPlaces, t \in SpTexts :
          LET w == wr[1] r == wr[2]
              uri == <<w, r, [n |-> spCtr]>> known == IdOf(uri, t) IN
          \/ known # {} /\ spPut' = spPut \cup {[w |-> w, r |-> r, text |-> t, id |-> Min(known), new |-> FALSE]} /\ UNCHANGED spDocs
          \/ known = {} /\ UriTaken(uri) /\ UNCHANGED <<spDocs, spPut>>
          \/ /\ known = {} /\ ~UriTaken(uri)
             /\ spDocs' = NewDoc(uri, t)
             /\ spPut' = spPut \cup {[w |-> w, r |-> r, text |-> t, id |-> Len(spDocs) + 1, new |-> TRUE]}
    /\ UNCHANGED <<spSweep, spSwept>>

\* drawer_delete: a mark in meta.
DrawerDelete ==
    /\ SpaceCall
    /\ \E i \in DOMAIN spDocs : spDocs' = [spDocs EXCEPT ![i].live = FALSE]
    /\ UNCHANGED <<spCtr, spSweep, spPut, spSwept>>

\* The server ends, in the middle of a sweep perhaps, and is started again.
SpaceRestart ==
    /\ spTally.kills < SpMaxKills /\ spTally' = [spTally EXCEPT !.kills = @ + 1]
    /\ spCtr' = 1 /\ spSweep' = NoSweep
    /\ UNCHANGED <<spDocs, spPut, spSwept>>

-----------------------------------------------------------------------------
Stretch(kind, msg, id, a, b) == [kind |-> kind, msg |-> msg, id |-> id, from |-> a, to |-> b]

\* Mutant of WindowStep: the next window starts after the overlap.
WindowStepPast == SpWindow + SpOverlap

WindowStep == SpWindow - SpOverlap
\* split_message_content: the whole message, or windows until one ends with it.
split_message_content(msg, id, len) ==
    IF len <= SpThreshold THEN <<Stretch("message", msg, id, 1, len)>>
    ELSE LET k == Min({j \in 0 .. len : j * WindowStep + SpWindow >= len}) IN
         [j \in 1 .. k + 1 |-> Stretch("message", msg, id, (j - 1) * WindowStep + 1, Min({(j - 1) * WindowStep + SpWindow, len}))]

\* Mutant of ParaStep: a full buffer is pushed without the paragraph that overflows it.
ParaStepDrops(s, i, len) ==
    IF s.len > 0 /\ s.len + len + 2 > SpMax THEN [out |-> Append(s.out, s.buf), buf |-> <<>>, len |-> 0]
    ELSE [out |-> s.out, buf |-> Append(s.buf, i), len |-> s.len + len + (IF s.len > 0 THEN 2 ELSE 0)]

\* The paragraph fallback: a buffer of paragraphs, pushed at TARGET or before MAX.
ParaStep(s, i, len) ==
    LET over == s.len > 0 /\ s.len + len + 2 > SpMax
        out == IF over THEN Append(s.out, s.buf) ELSE s.out
        buf == IF over THEN <<i>> ELSE Append(s.buf, i)
        n == IF over \/ s.len = 0 THEN len ELSE s.len + len + 2
    IN IF n >= SpTarget THEN [out |-> Append(out, buf), buf |-> <<>>, len |-> 0]
       ELSE [out |-> out, buf |-> buf, len |-> n]
Paragraphs(items) ==
    LET s == FoldLeft(LAMBDA acc, i : ParaStep(acc, i, items[i].len), [out |-> <<>>, buf |-> <<>>, len |-> 0],
                      SelectSeq([i \in DOMAIN items |-> i], LAMBDA i : items[i].len > 0))
        all == IF s.buf = <<>> THEN s.out ELSE Append(s.out, s.buf)
    IN [j \in DOMAIN all |-> Stretch("paragraphs", 0, items[all[j][1]].id, all[j][1], Last(all[j]))]

\* An item without role, content, or with blank content is passed over.
Usable(item) == item.ok /\ item.len > 0
chunk_session(session) ==
    LET items == session.items
        parsed == FlattenSeq([i \in DOMAIN items |-> IF Usable(items[i]) THEN split_message_content(i, items[i].id, items[i].len) ELSE <<>>])
    IN IF session.kind = "text" THEN Paragraphs(items)
       ELSE IF parsed # <<>> THEN parsed
       ELSE <<Stretch("paragraphs", 0, items[1].id, 1, Len(items))>>

\* space_sweep: chunk by chunk, each its own transaction.
SweepStart ==
    /\ spSweep = NoSweep /\ SpaceCall
    /\ \E wr \in SpPlaces, s \in SpSessions :
          spSweep' = [w |-> wr[1], r |-> wr[2], session |-> s, chunks |-> chunk_session(s),
                      inserted |-> 0, skipped |-> 0, grew |-> 0, failed |-> 0]
    /\ UNCHANGED <<spDocs, spCtr, spPut, spSwept>>

\* The uri is the hash of wing, room and chunk: one that is there is skipped, and
\* a put that answers counts as inserted, with a document it found too.
SweepUri(c) == <<spSweep.w, spSweep.r, [sweep |-> c]>>
SweepChunk ==
    /\ spSweep # NoSweep /\ spSweep.chunks # <<>>
    /\ LET c == Head(spSweep.chunks) uri == SweepUri(c) known == IdOf(uri, c) # {} IN
       IF UriTaken(uri)
       THEN spDocs' = spDocs /\ spSweep' = [spSweep EXCEPT !.chunks = Tail(@), !.skipped = @ + 1]
       ELSE /\ spDocs' = IF known THEN spDocs ELSE NewDoc(uri, c)
            /\ spSweep' = [spSweep EXCEPT !.chunks = Tail(@), !.inserted = @ + 1, !.grew = IF known THEN @ ELSE @ + 1]
    /\ UNCHANGED <<spCtr, spPut, spSwept, spTally>>
\* A put that fails counts as skipped, and the sweep goes on.
SweepPutFails ==
    /\ spSweep # NoSweep /\ spSweep.chunks # <<>> /\ ~UriTaken(SweepUri(Head(spSweep.chunks)))
    /\ spTally.fails < SpMaxFails /\ spTally' = [spTally EXCEPT !.fails = @ + 1]
    /\ spSweep' = [spSweep EXCEPT !.chunks = Tail(@), !.skipped = @ + 1, !.failed = @ + 1]
    /\ UNCHANGED <<spDocs, spCtr, spPut, spSwept>>
SweepEnd ==
    /\ spSweep # NoSweep /\ spSweep.chunks = <<>>
    /\ spSwept' = Append(spSwept, spSweep)
    /\ spSweep' = NoSweep
    /\ UNCHANGED <<spDocs, spCtr, spPut, spTally>>

SpacesNext == DrawerPut \/ DrawerDelete \/ SpaceRestart \/ SweepStart \/ SweepChunk \/ SweepPutFails \/ SweepEnd

-----------------------------------------------------------------------------
Like(pattern, name) == pattern = name \/ pattern = "_"
\* drawer_list, page by page from the newest; wing_search among the best 4 k of a ranking.
drawer_list(w, r, limit, offset) ==
    LET rows == SelectSeq(Reverse([i \in DOMAIN spDocs |-> i]), LAMBDA i : spDocs[i].live /\ Like(w, spDocs[i].uri[1]) /\ Like(r, spDocs[i].uri[2])) IN
    SubSeq(rows, offset + 1, Min({offset + limit, Len(rows)}))
wing_search(w, ranking, k) ==
    LET hits == SelectSeq(SubSeq(ranking, 1, Min({4 * k, Len(ranking)})), LAMBDA i : Like(w, spDocs[i].uri[1])) IN
    SubSeq(hits, 1, Min({k, Len(hits)}))

\* The drawers drawer_put answered with hold the text that was put, for good; a
\* new one is listed in its room, on one page only, until it is deleted, and in
\* no other room but one whose name LIKE reads as a pattern.
RoomsListTheirOwn ==
    \A p \in spPut :
        /\ spDocs[p.id].text = p.text
        /\ p.new => \A wr \in SpPlaces :
              LET w == wr[1] r == wr[2]
                  pages == [j \in 0 .. Len(spDocs) |-> drawer_list(w, r, 1, j)]
                  on == {j \in DOMAIN pages : pages[j] = <<p.id>>} IN
              IF ~spDocs[p.id].live THEN on = {}
              ELSE IF w = p.w /\ r = p.r THEN Cardinality(on) = 1
              ELSE on # {} => "_" \in {w, r}

\* Every letter of a usable message, every paragraph, of a swept session.
SweptKept(s) ==
    LET held == {spDocs[i].text : i \in DOMAIN spDocs}
        msgs == {i \in DOMAIN s.items : Usable(s.items[i])} IN
    IF s.kind # "text" /\ msgs # {}
    THEN \A i \in msgs : \A x \in 1 .. s.items[i].len :
            \E c \in held : "kind" \in DOMAIN c /\ c.kind = "message" /\ c.msg = i /\ c.id = s.items[i].id /\ c.from <= x /\ x <= c.to
    ELSE \A i \in DOMAIN s.items : s.items[i].len > 0 =>
            \E c \in held : "kind" \in DOMAIN c /\ c.kind = "paragraphs" /\ c.from <= i /\ i <= c.to

\* A sweep that answers, after sweeps of the same session that were cut by a
\* kill or left out chunks whose put failed, has stored every part of the
\* session unless a put of its own failed, which its counts show only as a chunk
\* "skipped"; a sweep of a session that was swept without a failure adds nothing,
\* into whichever room, and into the same room skips every chunk.
SweepsAreWhole ==
    \A m \in DOMAIN spSwept :
        LET s == spSwept[m] IN
        /\ s.failed = 0 \/ s.skipped = 0 => SweptKept(s.session)
        /\ s.inserted + s.skipped = Len(chunk_session(s.session))
        /\ \A n \in DOMAIN spSwept : n < m /\ spSwept[n].session = s.session /\ spSwept[n].failed = 0 =>
              /\ s.grew = 0
              /\ s.w = spSwept[n].w /\ s.r = spSwept[n].r /\ spSwept[n].grew = spSwept[n].inserted => s.inserted = 0

(* A space forgets nothing it was given: drawers hold and list what was     *)
(* put; sweeps, cut, failing in part and repeated, are made whole by one    *)
(* that succeeds and store nothing twice; and a search in a wing finds one  *)
(* of its drawers, deleted ones too, if the ranking's first 4 k have one.   *)
SpacesKeepAll ==
    /\ RoomsListTheirOwn
    /\ SweepsAreWhole
    /\ \A i, j \in DOMAIN spDocs : i # j => spDocs[i].text # spDocs[j].text
    /\ \A w \in {p[1] : p \in SpPlaces} : Len(spDocs) <= 4 =>
          LET hits == wing_search(w, [i \in DOMAIN spDocs |-> i], 1) IN
          hits = <<>> <=> ~\E i \in DOMAIN spDocs : Like(w, spDocs[i].uri[1])
=============================================================================
