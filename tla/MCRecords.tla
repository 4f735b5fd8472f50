----------------------------- MODULE MCRecords ------------------------------
(***************************************************************************)
(* The components that keep records about and around the documents:        *)
(* calendar, audit chain, roles, signatures, keys, exports, routing and    *)
(* learning statistics, event log, decision graph, tags, rules, graph,     *)
(* media and spaces.  They share no state, so a behaviour explores one of  *)
(* them, the one `part` names, and the others stay where they started.     *)
(***************************************************************************)
EXTENDS Calendar, AuditLog, AccessRoles, Provenance, Keyring, Compliance,
        MetaRouter, Learning, EventLog, DecisionGraph, Tags,
        GraphStore, Media, Spaces

CONSTANT Parts    \* the components to explore

VARIABLE part

-----------------------------------------------------------------------------
(* Calendar: the turn of a year, of a leap century and of the last year.   *)
Starts == {Date(1, 1, 1), Date(1899, 12, 1), Date(1969, 11, 1), Date(1999, 11, 20),
           Date(2023, 11, 1), Date(2100, 1, 1), Date(9998, 12, 1)}
Zones == {-86340, -3600, 0, 19800, 86340}

(* AuditLog: the second and the third event hash the same bytes as the     *)
(* first with a field moved or emptied.                                    *)
AuditedFields ==
    LET F(action, space, meta) == [actor |-> <<"a">>, action |-> <<action>>, target |-> <<"t">>,
                                   space |-> space, meta |-> meta]
    IN {F("write", <<"s">>, <<>>), F("write", <<>>, <<"s">>), F("delete", <<>>, <<>>)}

(* Compliance: every personal token between two plain words; every field   *)
(* of up to two characters that a CSV writer must care about.              *)
ExportTexts == {<<x[1], "word", "word">> : x \in Whole}
CsvFields == UNION {[1..n -> {"a", ",", "\"", "\n"}] : n \in 0..2}

(* MetaRouter: what the file ships with.                                   *)
Shipped == <<[shape |-> "code", model |-> "codex", wins |-> 1, losses |-> 1]>>

(* Learning: near-duplicates in a ring with a tail.                        *)
AlikePairs == {{1, 2}, {2, 3}, {1, 3}, {3, 4}}

(* EventLog: the same body twice with two timestamps, one that is          *)
(* compressed; files with a repetition and with a bad line.                *)
Ev(t, s, b, g) == [ts |-> t, session |-> s, body |-> b, big |-> g]
LoggedEvents == {Ev(1, 1, 1, FALSE), Ev(2, 1, 1, FALSE), Ev(2, 0, 2, TRUE)}
JsonlFiles == {<<Ev(1, 1, 1, FALSE), Ev(2, 1, 1, FALSE), Ev(3, 1, 3, FALSE)>>,
               <<Ev(1, 2, 3, FALSE), BadLine>>}

(* DecisionGraph: decisions that trigger each other in a cycle.            *)
Dn(t, a, u, y, s, g) == [ts |-> t, session |-> 1, agent |-> a, uri |-> u, why |-> y, source |-> s, target |-> g]
LoggedDecisions == {Dn(1, 1, 1, 1, 2, 3), Dn(2, 2, 3, 1, 1, 2), Dn(0, 1, 1, 2, 0, 3)}
AddedEdges == {[from |-> 4, to |-> 3, rel |-> "depends_on", ts |-> 1],
               [from |-> 1, to |-> 4, rel |-> "related", ts |-> 0],
               [from |-> 2, to |-> 1, rel |-> "caused", ts |-> 2]}
AgentEvents == {[ts |-> 0, session |-> 1, agent |-> 1], [ts |-> 2, session |-> 1, agent |-> 2]}
AgentCosts == {[ts |-> 0, session |-> 1, agent |-> 2, usd |-> 1],
               [ts |-> 2, session |-> 1, agent |-> 1, usd |-> 2]}

(* Tags: one document that one rule matches, one that none does.           *)
TagRules == {<<1, "b">>}
TagWords == <<{1}, {}>>

(* Datalog: non-linear recursion, a repeated variable, constants in a body *)
(* and in a head, and a relation that is both given and derived.           *)
Var(x) == [var |-> x]
Val(c) == [val |-> c]
Lit(n, a) == [name |-> n, args |-> a]
DatalogRules ==
    << [head |-> Lit("p", <<Var("x"), Var("y")>>), body |-> <<Lit("e", <<Var("x"), Var("y")>>)>>],
       [head |-> Lit("p", <<Var("x"), Var("z")>>),
        body |-> <<Lit("p", <<Var("x"), Var("y")>>), Lit("p", <<Var("y"), Var("z")>>)>>],
       [head |-> Lit("q", <<Var("x")>>),
        body |-> <<Lit("p", <<Var("x"), Var("x")>>), Lit("f", <<Var("x"), Val(1)>>)>>],
       [head |-> Lit("e", <<Var("x"), Val(2)>>), body |-> <<Lit("q", <<Var("x")>>)>>] >>
DatalogFacts == {Lit("e", <<1, 2>>), Lit("e", <<2, 3>>), Lit("e", <<3, 1>>), Lit("f", <<3, 1>>),
                 Lit("f", <<1, 2>>), Lit("p", <<2, 4>>), Lit("q", <<4>>)}

(* GraphStore: parallel edges, a weight of zero, a cycle and a loop; two   *)
(* routes, of which the longer costs less, and a three-edge one that does. *)
Ge(f, t, r, w) == [from |-> f, to |-> t, rel |-> r, w |-> w]
GraphCalls == {Ge(1, 2, "a", 1), Ge(1, 2, "a", 2), Ge(2, 3, "b", 2), Ge(1, 3, "a", 0),
               Ge(1, 3, "c", 1), Ge(3, 2, "a", 1), Ge(2, 2, "b", 1)}
GraphTables == {<<>>, <<Ge(1, 2, "a", 1)>>, <<Ge(1, 3, "a", 0)>>, <<Ge(2, 3, "b", 2), Ge(3, 2, "a", 1)>>,
                <<Ge(1, 2, "a", 2), Ge(2, 3, "b", 2), Ge(1, 3, "a", 1)>>,
                <<Ge(1, 4, "a", 0), Ge(1, 2, "a", 2), Ge(2, 3, "b", 2), Ge(3, 4, "a", 1)>>}

(* Media: two workers of one process and one of another.                   *)
ProcessOf == [w \in {1, 2, 3} |-> IF w = 3 THEN 2 ELSE 1]
FramesIn == [short |-> 1, long |-> 2]

(* Spaces: a wing whose name is a LIKE wildcard; a session with a bad      *)
(* line and a long message, and a plain text with a blank paragraph.       *)
Places == {<<"w", "r">>, <<"_", "r">>}
Drawers == {[n |-> 1], [n |-> 2]}
Message(ok, id, len) == [ok |-> ok, id |-> id, len |-> len]
Sessions == {[kind |-> "json", items |-> <<Message(TRUE, 1, 7), Message(FALSE, 2, 3)>>],
             [kind |-> "text", items |-> <<Message(TRUE, 4, 2), Message(TRUE, 4, 0), Message(TRUE, 4, 6)>>]}

-----------------------------------------------------------------------------
\* A component with several initial states has one of them while it rests.
Init ==
    /\ part \in Parts
    /\ CalInit /\ (part = "calendar" \/ wall = Date(2023, 11, 1))
    /\ AuditInit /\ AccessInit /\ ProvInit /\ KeyringInit
    /\ ComplianceInit /\ (part = "compliance" \/ cmRow = BlankRow)
    /\ MetaInit
    /\ LearnInit /\ (part = "learning" \/ lnJob = "merge")
    /\ EventLogInit /\ (part = "events" \/ evCols = 8)
    /\ DecisionInit /\ TagsInit /\ DatalogInit /\ MediaInit /\ SpacesInit
    /\ GraphInit /\ (part \in {"graph", "csr"} \/ gsEdges = <<>>)

\* Only component p moves.
Only(p) ==
    /\ part = p /\ UNCHANGED part
    /\ p = "calendar"   \/ UNCHANGED calVars
    /\ p = "audit"      \/ UNCHANGED auVars
    /\ p = "access"     \/ UNCHANGED raVars
    /\ p = "provenance" \/ UNCHANGED pvVars
    /\ p = "keyring"    \/ UNCHANGED krVars
    /\ p = "compliance" \/ UNCHANGED cmVars
    /\ p = "router"     \/ UNCHANGED mrVars
    /\ p = "learning"   \/ UNCHANGED lnVars
    /\ p = "events"     \/ UNCHANGED evVars
    /\ p = "decisions"  \/ UNCHANGED dgVars
    /\ p = "tags"       \/ UNCHANGED tgVars
    /\ p = "datalog"    \/ UNCHANGED dlVars
    /\ p \in {"graph", "csr"} \/ UNCHANGED gsVars
    /\ p = "media"      \/ UNCHANGED mdVars
    /\ p = "spaces"     \/ UNCHANGED spVars

Next ==
    \/ Only("calendar") /\ CalTick
    \/ Only("audit") /\ AuditNext
    \/ Only("access") /\ AccessNext
    \/ Only("provenance") /\ ProvNext
    \/ Only("keyring") /\ KeyringNext
    \/ Only("compliance") /\ ComplianceNext
    \/ Only("router") /\ MetaNext
    \/ Only("learning") /\ LearnNext
    \/ Only("events") /\ EventLogNext
    \/ Only("decisions") /\ DecisionNext
    \/ Only("tags") /\ TagsNext
    \/ Only("datalog") /\ DatalogNext
    \/ Only("graph") /\ GraphNext
    \/ Only("csr") /\ CsrNext
    \/ Only("media") /\ MediaNext
    \/ Only("spaces") /\ SpacesNext

vars == <<part, calVars, auVars, raVars, pvVars, krVars, cmVars, mrVars, lnVars, evVars,
          dgVars, tgVars, dlVars, gsVars, mdVars, spVars>>
Spec == Init /\ [][Next]_vars

-----------------------------------------------------------------------------
(* Properties: what each component promises, while it is the one explored. *)
(* The named parts are stated and explained in the component's module.     *)

\* ask's dates: civil_from_days and its inverse follow the calendar, the
\* ranges parse_temporal makes of neighbouring words tile the time line, and
\* an RFC 3339 stamp reads back as the second it was written from.
CalendarIsRight ==
    part = "calendar" => DatesAgree /\ RangesTile /\ StampsReadBack

\* Governance: verify_chain accepts exactly the trails nobody edited, pages of
\* query_range neither overlap nor skip; enforce_cached answers what the table
\* says, up to the entry an interleaved check put back; an export leaves no
\* personal data readable and its CSV parses back to the fields.
GovernanceHolds ==
    /\ part = "audit" => VerifiesIffUntouched /\ VerifiedIsAppended /\ QueryPagesTile
    /\ part = "access" => CachedCheckAgrees
    /\ part = "compliance" => ExportIsMasked /\ CsvReadsBack

\* Keys: a walk up the provenance chain ends, a signature fails only because
\* its key file was lost to another server, a parent is missing only because it
\* was signed again; every blob can be decrypted by
\* the keyring that wrote it, through rotations and races for the cache.
KeysAreKept ==
    /\ part = "provenance" => ChainsHaveAnEnd /\ BadOnlyByLostKey /\ OrphansWereReplaced
    /\ part = "keyring" => BlobsReadable

\* record_outcome reaches router.toml through load, change and rename; what
\* two processes write is lost only where their calls overlap and is never
\* counted twice.
RouterRemembers ==
    part = "router" => OutcomesAreKept /\ NothingCountedTwice

\* learn.db: rewards add up over crashes between their statements, merged
\* duplicates keep exactly one row, exported click groups are whole, and the
\* conformal bound covers the share it promises.
LearningAddsUp ==
    part = "learning" => /\ RewardsAddUp /\ DuplicatesKeepOne
                         /\ ExportIsGrouped /\ BoundCovers

\* synapse-ultra's log: an event is stored twice only by overlapping
\* processes, archive() deletes uncopied rows only if they came late and
\* loses a content only if it was over 1 KB, and the full-text index has every
\* row up to 1 KB.
EventsAreKept ==
    part = "events" => /\ TwiceOnlyByOverlap /\ GoneOnlyIfLate /\ LogIsSearchable

\* why and graph_expand return exactly what is reachable within the depth,
\* in cycles too, and timeline, trace and summary agree with the tables.
DecisionsAreExplained ==
    part = "decisions" => WhyIsExact /\ ReportsAddUp

\* A tag somebody set stays on its document through merges, renames, imports
\* and clean-ups by another process, until somebody takes it off.
TagsAreNotLost ==
    part = "tags" => TagsAreKept

\* Derived relations: the semi-naive fixpoint is the least one, and the graph
\* queries over SQL and over the CSR cache give what the edges say.
DerivationsAreExact ==
    /\ part = "datalog" => FixpointIsExact
    /\ part = "graph" => GraphAnswers
    /\ part = "csr" => CsrMirrors

\* Media: a frame belongs to the video whose row its worker inserted, all frames
\* of a video have rows whose files show it until its process extracts another
\* video, and the router removes no temporary file a command still reads.
MediaIsWhole ==
    part = "media" => FamiliesAreWhole /\ FramesAreThere /\ TempFilesAreOwned

\* Everything put into a room or swept from a session can be found again in
\* its room, across restarts, deletions and repeated sweeps.
RoomsKeepAll ==
    part = "spaces" => SpacesKeepAll
=============================================================================
