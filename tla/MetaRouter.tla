----------------------------- MODULE MetaRouter -----------------------------
(***************************************************************************)
(* The routing bandit of crates/synapse-meta.  router.toml is shared by    *)
(* the processes that record outcomes: every meta_record_outcome of an MCP *)
(* server loads the file, counts the outcome and saves the file, through   *)
(* one temporary file that all of them share.  tick, the daemon's part,    *)
(* saves the configuration it loaded when it started.                      *)
(***************************************************************************)
EXTENDS Integers, Sequences, SequencesExt, FiniteSets, FiniteSetsExt, Functions

CONSTANTS MrProcs, MrShapes, MrModels,
          MrDefault,      \* RouterConfig::default: its rules, in order
          MrMaxOps        \* bound on outcomes and ticks

\* RouterConfig::default has rules, none of them twice.
ASSUME MetaAssumption ==
    /\ MrDefault \in Seq([shape : MrShapes, model : MrModels, wins : Nat, losses : Nat]) /\ MrDefault # <<>>
    /\ \A i, j \in DOMAIN MrDefault :
          MrDefault[i].shape = MrDefault[j].shape /\ MrDefault[i].model = MrDefault[j].model => i = j

VARIABLES mrFile,      \* router.toml: its rules, NoFile, or TornFile
          mrTmp,       \* router.toml.tmp
          mrProc,      \* process -> what it is doing
          mrDone,      \* outcomes whose call returned, as <<shape, model, success>> in order
          mrOps,
          mrOverlap    \* two calls have overlapped

mrVars == <<mrFile, mrTmp, mrProc, mrDone, mrOps, mrOverlap>>

NoFile == <<>>                     \* a saved configuration has rules
TornFile == <<[torn |-> TRUE]>>   \* truncated: does not parse
MrIdle == [at |-> "idle"]
Outcomes == MrShapes \X MrModels \X BOOLEAN

\* RouterConfig::load.
load(f) == IF f = NoFile THEN MrDefault ELSE f

\* RouterConfig::record_outcome: the first rule of the shape and model
\* counts; a new rule starts from one win and one loss.
Counting(rule, ok) ==
    IF ok THEN [rule EXCEPT !.wins = @ + 1] ELSE [rule EXCEPT !.losses = @ + 1]
\* Mutant of record_outcome.
RecordAlwaysPushes(rules, o) ==
    Append(rules, Counting([shape |-> o[1], model |-> o[2], wins |-> 1, losses |-> 1], o[3]))

record_outcome(rules, o) ==
    LET of == {i \in DOMAIN rules : rules[i].shape = o[1] /\ rules[i].model = o[2]} IN
    IF of # {} THEN [rules EXCEPT ![Min(of)] = Counting(@, o[3])]
    ELSE Append(rules, Counting([shape |-> o[1], model |-> o[2], wins |-> 1, losses |-> 1], o[3]))

\* match_rule takes the most wins, the last of equals (max_by_key);
\* sample_model draws among the shape's rules, or falls back.
RulesOf(rules, shape) == {i \in DOMAIN rules : rules[i].shape = shape}
match_rule(rules, shape) ==
    LET r == RulesOf(rules, shape) IN
    Max({i \in r : \A j \in r : rules[j].wins <= rules[i].wins})
Sampled(rules, shape) ==
    IF RulesOf(rules, shape) = {} THEN {"fallback"} ELSE {rules[i].model : i \in RulesOf(rules, shape)}
\* The totals of meta_health, rule by rule.
Total(f, len) == LET sum[n \in 0..len] == IF n = 0 THEN 0 ELSE sum[n - 1] + f[n] IN sum[len]
total_wins(rules) == Total([i \in DOMAIN rules |-> rules[i].wins], Len(rules))
total_losses(rules) == Total([i \in DOMAIN rules |-> rules[i].losses], Len(rules))

MetaInit ==
    /\ mrFile = NoFile /\ mrTmp = NoFile
    /\ mrProc = [p \in MrProcs |-> MrIdle]
    /\ mrDone = <<>> /\ mrOps = 0 /\ mrOverlap = FALSE

\* MetaLoop::new, then the update under the lock; a file that does not
\* parse fails the call.  o = <<>>: a tick, which changes no counter.
MetaStart(p, o) ==
    /\ mrProc[p] = MrIdle /\ mrOps < MrMaxOps
    /\ mrFile # TornFile
    /\ mrOps' = mrOps + 1
    /\ LET cfg == IF o = <<>> THEN load(mrFile) ELSE record_outcome(load(mrFile), o) IN
       mrProc' = [mrProc EXCEPT ![p] = [at |-> "truncate", cfg |-> cfg, o |-> o]]
    /\ mrOverlap' = (mrOverlap \/ \E q \in MrProcs : mrProc[q] # MrIdle)
    /\ UNCHANGED <<mrFile, mrTmp, mrDone>>

\* Mutant of MetaWrite.
WriteInPlace(p) ==
    /\ mrProc[p].at \in {"truncate", "fill"}
    /\ mrFile' = IF mrProc[p].at = "truncate" THEN TornFile ELSE mrProc[p].cfg
    /\ mrTmp' = mrFile'
    /\ mrProc' = [mrProc EXCEPT ![p].at = IF @ = "truncate" THEN "fill" ELSE "rename"]
    /\ UNCHANGED <<mrDone, mrOps, mrOverlap>>

\* RouterConfig::save: fs::write truncates the temporary file and fills it.
MetaWrite(p) ==
    /\ \/ /\ mrProc[p].at = "truncate"
          /\ mrTmp' = TornFile
          /\ mrProc' = [mrProc EXCEPT ![p].at = "fill"]
       \/ /\ mrProc[p].at = "fill"
          /\ mrTmp' = mrProc[p].cfg
          /\ mrProc' = [mrProc EXCEPT ![p].at = "rename"]
    /\ UNCHANGED <<mrFile, mrDone, mrOps, mrOverlap>>

\* The rename; it fails when another process has renamed the file away.
MetaRename(p) ==
    /\ mrProc[p].at = "rename"
    /\ mrProc' = [mrProc EXCEPT ![p] = MrIdle]
    /\ IF mrTmp = NoFile THEN UNCHANGED <<mrFile, mrTmp, mrDone>>
       ELSE /\ mrFile' = mrTmp
            /\ mrTmp' = NoFile
            /\ mrDone' = IF mrProc[p].o = <<>> THEN mrDone ELSE Append(mrDone, mrProc[p].o)
    /\ UNCHANGED <<mrOps, mrOverlap>>

MetaCrash(p) ==
    /\ mrProc[p].at \in {"fill", "rename"}
    /\ mrProc' = [mrProc EXCEPT ![p] = MrIdle]
    /\ UNCHANGED <<mrFile, mrTmp, mrDone, mrOps, mrOverlap>>

MetaNext ==
    \E p \in MrProcs :
        \/ \E o \in Outcomes \cup {<<>>} : MetaStart(p, o)
        \/ MetaWrite(p) \/ MetaRename(p) \/ MetaCrash(p)

-----------------------------------------------------------------------------
\* The shipped rules after each of the outcomes recorded.
Replay(done) ==
    LET cfg[n \in 0..Len(done)] == IF n = 0 THEN MrDefault ELSE record_outcome(cfg[n - 1], done[n]) IN cfg
Replayed == Replay(mrDone)[Len(mrDone)]

(* While no two calls have overlapped, router.toml is readable and holds    *)
(* exactly the outcomes whose calls returned, whatever crashes a save was   *)
(* cut by and however many processes took turns: the temporary file and the *)
(* rename make one save atomic (they do not make two of them so).           *)
OutcomesAreKept == mrOverlap \/ load(mrFile) = Replayed

(* The totals meta_health reports grow by one outcome each: whatever was    *)
(* lost, no outcome is counted twice and no rule is listed twice.           *)
NothingCountedTwice ==
    mrFile \notin {NoFile, TornFile} =>
        /\ total_wins(mrFile) + total_losses(mrFile) <= total_wins(MrDefault) + total_losses(MrDefault) + 3 * mrOps
        /\ \A i, j \in DOMAIN mrFile : <<mrFile[i].shape, mrFile[i].model>> = <<mrFile[j].shape, mrFile[j].model>> => i = j
=============================================================================
