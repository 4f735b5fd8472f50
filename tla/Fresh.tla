------------------------------- MODULE Fresh --------------------------------
(***************************************************************************)
(* The version guard (synapse-core/src/fresh.rs): find the manifests of a  *)
(* project, read the declared and the locked versions of its dependencies, *)
(* ask the registry for the latest ones through a cache that several       *)
(* processes share (~/.synapse/fresh_context.db), and report.              *)
(***************************************************************************)
EXTENDS Integers, Sequences, SequencesExt, FiniteSets, TLC

CONSTANTS FrProcs,
          FrProjects,       \* [files, lock, scan_subprojects], see nearest_manifests and toml_lock
          FrVersions,       \* what the registry may answer
          FrTerms,          \* sets of query terms a prompt may have
          FrTtl, FrNegTtl, FrMaxDeps, FrMaxRegistry, FrMaxManifests, FrMaxDepth,
          FrMaxTime         \* bound on the clock

\* Unsigned seconds, from the environment.
ASSUME FreshAssumption == FrTtl \in Nat /\ FrNegTtl \in Nat

VARIABLES frProject, frClock,
          frTable,          \* registry_cache: the key of a row -> the row
          frProc            \* process -> the report it builds

frVars == <<frProject, frClock, frTable, frProc>>

\* Versions: 0 is none, n is exact, -n is a range that is no exact version.
Unknown == 0
exact_version(v) == v > 0

NoAnswer == [latest |-> Unknown, ts |-> 0, read |-> 0]

-----------------------------------------------------------------------------
\* nearest_manifests and walk_manifests.  files is every file walk_manifests
\* comes by, in its order; one of depth 0 lies in the root.
Wanted(f) == f.manifest /\ f.depth <= FrMaxDepth /\ ~f.skipped
nearest_manifests(prj) ==
    LET root == SelectSeq(prj.files, LAMBDA f : f.manifest /\ f.depth = 0)
        deep == SelectSeq(prj.files, LAMBDA f : Wanted(f) /\ f.depth > 0)
        all == IF root # <<>> /\ ~prj.scan_subprojects THEN root ELSE root \o deep
    IN SubSeq(all, 1, IF Len(all) < FrMaxManifests THEN Len(all) ELSE FrMaxManifests)

\* Mutant of Flushed.
FlushedKeeps(st) == [st EXCEPT !.out = IF st.name # "" /\ st.version # Unknown THEN (st.name :> st.version) @@ st.out ELSE st.out]

\* parse_package_toml_lock, one line at a time: <<"package">>, <<"name", n>>,
\* <<"version", v>> or <<"other">>; flush_lock_pkg takes both fields.
Flushed(st) == [out |-> IF st.name # "" /\ st.version # Unknown THEN (st.name :> st.version) @@ st.out ELSE st.out,
                name |-> "", version |-> Unknown]
LockLine(st, line) ==
    CASE line[1] = "package" -> Flushed(st)
      [] line[1] = "name" -> [st EXCEPT !.name = line[2]]
      [] line[1] = "version" -> [st EXCEPT !.version = line[2]]
      [] OTHER -> st
parse_package_toml_lock(lines) ==
    Flushed(FoldLeft(LockLine, [out |-> <<>>, name |-> "", version |-> Unknown], lines)).out

\* collect_project_deps: the first declaration of a name wins, its resolved
\* version comes from the lock file, the prompt's terms select if they can.
Take(s, n) == SubSeq(s, 1, IF Len(s) < n THEN Len(s) ELSE n)
collect_project_deps(prj, terms) ==
    LET declared == FlattenSeq([i \in DOMAIN nearest_manifests(prj) |-> nearest_manifests(prj)[i].deps])
        firsts == {i \in DOMAIN declared : \A j \in 1..(i - 1) : declared[j].name # declared[i].name}
        resolved == parse_package_toml_lock(prj.lock)
        dep(d) == [name |-> d.name, local |-> IF d.name \in DOMAIN resolved THEN resolved[d.name] ELSE d.declared]
        out == [k \in 1..Cardinality(firsts) |-> dep(declared[SetToSortSeq(firsts, <)[k]])]
        selected == SelectSeq(out, LAMBDA d : d.name \in terms)
    IN Take(IF selected # <<>> THEN selected ELSE out, FrMaxDeps)

version_slip(local, latest) ==
    IF latest = Unknown THEN "latest_unknown"
    ELSE IF exact_version(local) /\ local # latest THEN "pinned_differs" ELSE "ok_or_range"

-----------------------------------------------------------------------------
Idle == [at |-> "idle", cache |-> FALSE, deps |-> <<>>, now |-> 0, got |-> NoAnswer, report |-> <<>>]

FreshInit ==
    /\ frProject \in FrProjects
    /\ frClock = 0
    /\ frTable = <<>>
    /\ frProc = [p \in FrProcs |-> Idle]

\* FreshCache::get at time now.
FreshHit(name, now) ==
    LET row == frTable[name]
        age == IF now > row.ts THEN now - row.ts ELSE 0
    IN name \in DOMAIN frTable /\ age < (IF row.latest # Unknown THEN FrTtl ELSE FrNegTtl)

\* One FreshDepStatus; read (a history variable) is when the registry said so.
Reported(me, source, latest, read) ==
    LET d == me.deps[Len(me.report) + 1] IN
    [me EXCEPT !.at = "next", !.got = NoAnswer,
               !.report = Append(@, [dep |-> d, source |-> source, latest |-> latest,
                                     status |-> version_slip(d.local, latest), now |-> me.now, read |-> read])]

\* build_fresh_report: the cache may not open; no dependencies, no report.
FreshStart(p) ==
    /\ frProc[p].at = "idle"
    /\ \E terms \in FrTerms, cache \in BOOLEAN :
          LET deps == collect_project_deps(frProject, terms) IN
          /\ deps # <<>>
          /\ frProc' = [frProc EXCEPT ![p] = [Idle EXCEPT !.at = "next", !.cache = cache, !.deps = deps]]
    /\ UNCHANGED <<frProject, frClock, frTable>>

\* fetch_registry_latest reads the clock once, before it asks anybody.
FreshLookup(p) ==
    LET me == [frProc[p] EXCEPT !.now = frClock]
        n == Len(me.report) + 1
        name == me.deps[n].name IN
    /\ me.at = "next" /\ n <= Len(me.deps)
    /\ frProc' = [frProc EXCEPT ![p] =
          IF n > FrMaxRegistry THEN Reported(me, "not_checked", Unknown, frClock)
          ELSE IF me.cache /\ FreshHit(name, frClock) THEN Reported(me, "cache", frTable[name].latest, frTable[name].read)
          ELSE [me EXCEPT !.at = "fetch"]]
    /\ UNCHANGED <<frProject, frClock, frTable>>

\* fetch_registry_uncached: whatever the registry says now, nothing on any error.
FreshFetch(p) ==
    LET me == frProc[p] IN
    /\ me.at = "fetch"
    /\ \E v \in FrVersions \cup {Unknown} :
          LET got == [latest |-> v, ts |-> me.now, read |-> frClock] IN
          frProc' = [frProc EXCEPT ![p] = IF me.cache THEN [me EXCEPT !.at = "put", !.got = got]
                                          ELSE Reported(me, "registry", v, frClock)]
    /\ UNCHANGED <<frProject, frClock, frTable>>

\* INSERT OR REPLACE.
Replaced(name, row) == [n \in DOMAIN frTable \cup {name} |-> IF n = name THEN row ELSE frTable[n]]

\* Mutant of FreshPut.
PutStampsNow(p) ==
    LET me == frProc[p]
        name == me.deps[Len(me.report) + 1].name IN
    /\ me.at = "put"
    /\ frTable' \in {frTable, Replaced(name, [me.got EXCEPT !.ts = frClock])}
    /\ frProc' = [frProc EXCEPT ![p] = Reported(me, "registry", me.got.latest, me.got.read)]
    /\ UNCHANGED <<frProject, frClock>>

\* FreshCache::put, whose failure is dropped.
FreshPut(p) ==
    LET me == frProc[p]
        name == me.deps[Len(me.report) + 1].name IN
    /\ me.at = "put"
    /\ frTable' \in {frTable, Replaced(name, me.got)}
    /\ frProc' = [frProc EXCEPT ![p] = Reported(me, "registry", me.got.latest, me.got.read)]
    /\ UNCHANGED <<frProject, frClock>>

FreshDone(p) ==
    /\ frProc[p].at = "next" /\ Len(frProc[p].report) = Len(frProc[p].deps)
    /\ frProc' = [frProc EXCEPT ![p] = Idle]
    /\ UNCHANGED <<frProject, frClock, frTable>>

FreshTick ==
    /\ frClock < FrMaxTime
    /\ frClock' = frClock + 1
    /\ UNCHANGED <<frProject, frTable, frProc>>

FreshNext ==
    \/ FreshTick
    \/ \E p \in FrProcs : FreshStart(p) \/ FreshLookup(p) \/ FreshFetch(p) \/ FreshPut(p) \/ FreshDone(p)

-----------------------------------------------------------------------------
(* However two processes interleave their lookups, fetches and puts in the  *)
(* shared cache, no report shows a version the registry last gave more than *)
(* the ttl ago, and no failure to reach the registry is repeated after the  *)
(* negative ttl: a slow fetch is stamped with the time before it.           *)
AnswersAreRecent ==
    \A p \in FrProcs : \A i \in DOMAIN frProc[p].report :
        LET s == frProc[p].report[i] IN
        s.read >= s.now \/ s.now - s.read < (IF s.latest # Unknown THEN FrTtl ELSE FrNegTtl)

\* The package blocks of a lock file, each the lines up to the next header.
BlockOf(lines, i) == {j \in i..Len(lines) : ~\E h \in (i + 1)..j : lines[h][1] = "package"}

(* A dependency is judged by the version its own package block locks, by    *)
(* the last such block; never by the file's own version line or by a        *)
(* neighbour's.  One without a locked version is judged by its declaration. *)
LocalIsLocked ==
    \A p \in FrProcs : \A i \in DOMAIN frProc[p].deps :
        LET d == frProc[p].deps[i]
            lines == frProject.lock
            locked == {k \in DOMAIN lines : lines[k] = <<"package">> /\
                          /\ <<"name", d.name>> \in {lines[j] : j \in BlockOf(lines, k)}
                          /\ \E j \in BlockOf(lines, k) : lines[j][1] = "version"}
        IN IF locked = {} THEN \E f \in Range(frProject.files) : [name |-> d.name, declared |-> d.local] \in Range(f.deps)
           ELSE LET k == CHOOSE x \in locked : \A y \in locked : y <= x
                IN <<"version", d.local>> \in {lines[j] : j \in BlockOf(lines, k)}
=============================================================================
