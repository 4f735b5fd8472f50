-------------------------------- MODULE Tags --------------------------------
(***************************************************************************)
(* Tags, associations and auto-tag rules (crates/synapse-ultra/src/tags.rs *)
(* and the tags commands of its binary).  Each statement is a transaction  *)
(* of its own: tagging, merging, importing and exporting interleave        *)
(* between processes at every statement.  foreign_keys is ON.              *)
(***************************************************************************)
EXTENDS Integers, Sequences, SequencesExt, FiniteSets

CONSTANTS TgProcs, TgDocs, TgNames,
          TgWords,       \* TgWords[d]: the keywords document d contains
          TgRules,       \* rules that may be added: <<keyword, name>>
          TgOps,         \* the operations of the instance
          TgMaxId        \* bound on tags ever created

ASSUME TagsAssumption ==
    /\ IsFiniteSet(TgDocs) /\ IsFiniteSet(TgNames) /\ IsFiniteSet(TgRules)
    /\ \A r \in TgRules : r = <<r[1], r[2]>>

VARIABLES tgTags,     \* name -> id
          tgNext,     \* AUTOINCREMENT of tags
          tgDocs,     \* doc_tags: set of <<doc, tag id>>
          tgRules,    \* tag_rules: <<keyword, name>> -> enabled
          tgPc,       \* process -> the operation it is in
          tgFile,     \* the last export
          tgOwed      \* history: <<doc, name>> confirmed and neither untagged nor given up by a merge

tgVars == <<tgTags, tgNext, tgDocs, tgRules, tgPc, tgFile, tgOwed>>

TgIdle == [at |-> "idle"]
NoExport == [tags |-> {}, docs |-> <<>>, rules |-> <<>>]

TagsInit ==
    /\ tgTags = <<>> /\ tgNext = 1 /\ tgDocs = {} /\ tgRules = <<>>
    /\ tgPc = [p \in TgProcs |-> TgIdle]
    /\ tgFile = NoExport /\ tgOwed = {}

\* INSERT OR IGNORE INTO tags, and the SELECT of its id.
WithTag(n) == IF n \in DOMAIN tgTags THEN tgTags ELSE [x \in DOMAIN tgTags \cup {n} |-> IF x = n THEN tgNext ELSE tgTags[x]]
create_tag(n) ==
    /\ n \in DOMAIN tgTags \/ tgNext <= TgMaxId
    /\ tgTags' = WithTag(n)
    /\ tgNext' = IF n \in DOMAIN tgTags THEN tgNext ELSE tgNext + 1

LiveIds == {tgTags[n] : n \in DOMAIN tgTags}
Goto(p, next) == tgPc' = [tgPc EXCEPT ![p] = next]
Tagging(items) == IF items = <<>> THEN TgIdle ELSE [at |-> "create", todo |-> items]

-----------------------------------------------------------------------------
\* tag_doc, bulk_tag over every document, and apply_rules of a document.
TagStart(p) ==
    /\ tgPc[p] = TgIdle
    /\ \/ "tag" \in TgOps /\ \E d \in TgDocs, n \in TgNames : Goto(p, Tagging(<<<<d, n>>>>))
       \/ "bulk" \in TgOps /\ \E n \in TgNames : Goto(p, Tagging(SetToSeq({<<d, n>> : d \in TgDocs})))
       \/ "rules" \in TgOps /\ \E d \in TgDocs :
             LET hits == {r \in DOMAIN tgRules : tgRules[r] /\ r[1] \in TgWords[d]} IN
             /\ hits # {}
             /\ Goto(p, Tagging(SetToSeq({<<d, r[2]>> : r \in hits})))
    /\ UNCHANGED <<tgTags, tgNext, tgDocs, tgRules, tgFile, tgOwed>>

TagCreate(p) ==
    /\ tgPc[p].at = "create"
    /\ create_tag(Head(tgPc[p].todo)[2])
    /\ Goto(p, [at |-> "insert", todo |-> tgPc[p].todo, id |-> WithTag(Head(tgPc[p].todo)[2])[Head(tgPc[p].todo)[2]]])
    /\ UNCHANGED <<tgDocs, tgRules, tgFile, tgOwed>>

\* INSERT OR IGNORE INTO doc_tags; IGNORE does not cover the foreign key, so
\* a tag deleted meanwhile ends the operation with an error.
TagInsert(p) ==
    /\ tgPc[p].at = "insert"
    /\ LET item == Head(tgPc[p].todo) IN
       \/ /\ tgPc[p].id \in LiveIds
          /\ tgDocs' = tgDocs \cup {<<item[1], tgPc[p].id>>}
          /\ tgOwed' = tgOwed \cup {item}
          /\ Goto(p, Tagging(Tail(tgPc[p].todo)))
       \/ /\ tgPc[p].id \notin LiveIds
          /\ Goto(p, TgIdle)
          /\ UNCHANGED <<tgDocs, tgOwed>>
    /\ UNCHANGED <<tgTags, tgNext, tgRules, tgFile>>

untag_doc(d, n) ==
    /\ "untag" \in TgOps
    /\ n \in DOMAIN tgTags /\ <<d, tgTags[n]>> \in tgDocs
    /\ tgDocs' = tgDocs \ {<<d, tgTags[n]>>}
    /\ tgOwed' = tgOwed \ {<<d, n>>}
    /\ UNCHANGED <<tgTags, tgNext, tgRules, tgPc, tgFile>>

\* add_rule: the tag, then the rule (two statements, the first idempotent).
add_rule(r, on) ==
    /\ create_tag(r[2])
    /\ tgRules' = [x \in DOMAIN tgRules \cup {r} |-> IF x \in DOMAIN tgRules THEN tgRules[x] /\ (x = r => on) ELSE on]

AddRule ==
    /\ "rules" \in TgOps
    /\ \E r \in TgRules \ DOMAIN tgRules : add_rule(r, TRUE)
    /\ UNCHANGED <<tgDocs, tgPc, tgFile, tgOwed>>

\* Mutant of Orphans: rules keep tags, associations do not.
OrphansOfRules == {n \in DOMAIN tgTags : \A r \in DOMAIN tgRules : r[2] # n}

\* cleanup_orphans: the tags no association names; rules do not keep a tag.
Orphans == {n \in DOMAIN tgTags : \A d \in TgDocs : <<d, tgTags[n]>> \notin tgDocs}
Without(names) == [n \in DOMAIN tgTags \ names |-> tgTags[n]]
OfTags(names) == {x \in tgDocs : \E n \in names : x[2] = tgTags[n]}
Cleanup ==
    /\ "cleanup" \in TgOps /\ Orphans # {}
    /\ tgTags' = Without(Orphans)
    /\ tgDocs' = tgDocs \ OfTags(Orphans)    \* ON DELETE CASCADE
    /\ UNCHANGED <<tgNext, tgRules, tgPc, tgFile, tgOwed>>

-----------------------------------------------------------------------------
\* merge_tags: the SELECT of from, ...
MergeLook(p) ==
    /\ tgPc[p] = TgIdle /\ "merge" \in TgOps
    /\ \E f \in DOMAIN tgTags, n \in TgNames :
          Goto(p, [at |-> "into", from |-> f, id |-> tgTags[f], into |-> n])
    /\ UNCHANGED <<tgTags, tgNext, tgDocs, tgRules, tgFile, tgOwed>>

\* ... create_tag(into), ...
MergeInto(p) ==
    /\ tgPc[p].at = "into"
    /\ create_tag(tgPc[p].into)
    /\ Goto(p, [at |-> "move", from |-> tgPc[p].from, id |-> tgPc[p].id, into |-> tgPc[p].into, to |-> WithTag(tgPc[p].into)[tgPc[p].into]])
    /\ UNCHANGED <<tgDocs, tgRules, tgFile, tgOwed>>

\* Mutant of Repointed: OR IGNORE without the move of the other documents.
RepointedOnlyShared(id, to) == {x \in tgDocs : x[2] = to \/ x[2] # id \/ <<x[1], to>> \in tgDocs}

\* ... UPDATE OR IGNORE of the documents that lack the target, ...
Repointed(id, to) ==
    {x \in tgDocs : x[2] # id \/ <<x[1], to>> \in tgDocs}
      \cup {<<x[1], to>> : x \in {y \in tgDocs : y[2] = id}}

\* An UPDATE to a target deleted meanwhile fails the foreign key, if it has a row to move.
MergeMove(p) ==
    /\ tgPc[p].at = "move"
    /\ LET pc == tgPc[p]
           mine == {x \in tgDocs : x[2] = pc.id} IN
       \/ /\ mine = {} \/ pc.to \in LiveIds
          /\ tgDocs' = IF mine = {} THEN tgDocs ELSE Repointed(pc.id, pc.to)
          /\ tgOwed' = {IF o[2] = pc.from /\ <<o[1], pc.id>> \in tgDocs THEN <<o[1], pc.into>> ELSE o : o \in tgOwed}
          /\ Goto(p, [at |-> "drop", from |-> pc.from, id |-> pc.id])
       \/ /\ mine # {} /\ pc.to \notin LiveIds
          /\ Goto(p, TgIdle)
          /\ UNCHANGED <<tgDocs, tgOwed>>
    /\ UNCHANGED <<tgTags, tgNext, tgRules, tgFile>>

\* What was promised under the tag a merge is dropping is given up: it was
\* tagged after the move, or the tag is merged into itself.
Kept(id) == {o \in tgOwed : ~(o[2] \in DOMAIN tgTags /\ tgTags[o[2]] = id)}

\* ... DELETE of what is left under from, ...
MergeDrop(p) ==
    /\ tgPc[p].at = "drop"
    /\ tgDocs' = {x \in tgDocs : x[2] # tgPc[p].id}
    /\ tgOwed' = Kept(tgPc[p].id)
    /\ Goto(p, [at |-> "tag", id |-> tgPc[p].id])
    /\ UNCHANGED <<tgTags, tgNext, tgRules, tgFile>>

\* ... and of the tag, with what was associated since (ON DELETE CASCADE).
MergeTag(p) ==
    /\ tgPc[p].at = "tag"
    /\ LET names == {n \in DOMAIN tgTags : tgTags[n] = tgPc[p].id} IN
       tgTags' = Without(names) /\ tgDocs' = tgDocs \ OfTags(names)
    /\ tgOwed' = Kept(tgPc[p].id)
    /\ Goto(p, TgIdle)
    /\ UNCHANGED <<tgNext, tgRules, tgFile>>

-----------------------------------------------------------------------------
\* export: the names, the associations with their names, and the rules, each
\* read by a SELECT of its own.
ExportNames(p) ==
    /\ tgPc[p] = TgIdle /\ "export" \in TgOps /\ tgFile = NoExport /\ tgDocs # {}
    /\ Goto(p, [at |-> "export", tags |-> DOMAIN tgTags])
    /\ UNCHANGED <<tgTags, tgNext, tgDocs, tgRules, tgFile, tgOwed>>

ExportRest(p) ==
    /\ tgPc[p].at = "export"
    /\ tgFile' = [tags |-> tgPc[p].tags, rules |-> tgRules,
                  docs |-> SetToSeq({x \in TgDocs \X DOMAIN tgTags : <<x[1], tgTags[x[2]]>> \in tgDocs})]
    /\ Goto(p, TgIdle)
    /\ UNCHANGED <<tgTags, tgNext, tgDocs, tgRules, tgOwed>>

\* import: tags and rules first, then the associations by name.
ImportTags(p) ==
    /\ tgPc[p] = TgIdle /\ tgFile # NoExport
    /\ LET names == tgFile.tags \cup {r[2] : r \in DOMAIN tgFile.rules}
           new == SetToSeq(names \ DOMAIN tgTags) IN
       /\ tgNext + Len(new) <= TgMaxId + 1
       /\ tgTags' = [n \in DOMAIN tgTags \cup names |->
                        IF n \in DOMAIN tgTags THEN tgTags[n] ELSE tgNext - 1 + CHOOSE i \in DOMAIN new : new[i] = n]
       /\ tgNext' = tgNext + Len(new)
    /\ tgRules' = [r \in DOMAIN tgRules \cup DOMAIN tgFile.rules |->
                      IF r \in DOMAIN tgFile.rules
                      THEN tgFile.rules[r] /\ (r \in DOMAIN tgRules => tgRules[r]) ELSE tgRules[r]]
    /\ Goto(p, Tagging(tgFile.docs))
    /\ UNCHANGED <<tgDocs, tgFile, tgOwed>>

TagsNext ==
    \/ AddRule \/ Cleanup
    \/ \E d \in TgDocs, n \in TgNames : untag_doc(d, n)
    \/ \E p \in TgProcs :
          \/ TagStart(p) \/ TagCreate(p) \/ TagInsert(p)
          \/ MergeLook(p) \/ MergeInto(p) \/ MergeMove(p) \/ MergeDrop(p) \/ MergeTag(p)
          \/ ExportNames(p) \/ ExportRest(p) \/ ImportTags(p)

-----------------------------------------------------------------------------
Held(o) == o[2] \in DOMAIN tgTags /\ <<o[1], tgTags[o[2]]>> \in tgDocs

(* A confirmed association stays, under the name a merge gave it, until it  *)
(* is untagged: every document tagged before a merge moves the associations *)
(* has the merged tag ever after, whatever the other processes tag, import, *)
(* merge or clean up meanwhile.  Only a document tagged with the old name   *)
(* between the move and the end of the merge loses it, and a tag merged into*)
(* itself loses all of its documents.                                       *)
TagsAreKept == \A o \in tgOwed : Held(o)
=============================================================================
