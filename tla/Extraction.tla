----------------------------- MODULE Extraction -----------------------------
(***************************************************************************)
(* Who writes typed memories: extraction workers (synapse-extract: worker, *)
(* run_once), the nightly compaction (lifecycle, sota_pipeline::compact),  *)
(* evolve_on_ingest, and clients that put, delete and promote documents.   *)
(* Each is a process with its own connection; every step is one statement  *)
(* or one transaction, so anything can happen between two steps.           *)
(***************************************************************************)
EXTENDS Memories, SequencesExt

CONSTANTS Workers,
          Items,       \* document -> the entities its extracted items name
          Blank,       \* documents whose text is empty
          Similar,     \* pairs of documents over the Jaccard threshold
          BatchSize,
          MaxCrashes,
          Targets,     \* documents a promotion or an evolution may supersede; 0 is none
          Ops          \* which clients and jobs run besides the workers

ASSUME ExtractionAssumption == /\ Items \in [Docs -> Seq(Names \cup {NoName})]
                               /\ BatchSize \in Nat

Mergers == {"compact", "evolve"}

VARIABLES
    pc,       \* worker -> where it stands
    batch,    \* worker -> documents popped and not yet marked
    item,     \* worker -> index of the item it writes
    mpc,      \* merger -> where it stands
    pairs,    \* merger -> supersessions to do: <<old, new, doc of old, doc of new>>
    cur,      \* merger -> the one it is doing
    crashes,
    \* History variables, read by no action:
    raced,    \* has a merger superseded a row that had changed since it looked?
    unlinked  \* rows whose supersession was cut before its edge

workVars == <<pc, batch, item>>
mergeVars == <<mpc, pairs, cur>>
histVars == <<raced, unlinked>>
vars == <<memVars, workVars, mergeVars, crashes, histVars>>

Init ==
    /\ MemInit
    /\ pc = [w \in Workers |-> "idle"]
    /\ batch = [w \in Workers |-> <<>>]
    /\ item = [w \in Workers |-> 0]
    /\ mpc = [p \in Mergers |-> "idle"]
    /\ pairs = [p \in Mergers |-> {}]
    /\ cur = [p \in Mergers |-> <<>>]
    /\ crashes = 0
    /\ raced = FALSE
    /\ unlinked = {}

Rest == <<mergeVars, crashes, histVars>>

-----------------------------------------------------------------------------
(* Extraction workers                                                      *)

Pending == {d \in Docs : queue[d] = "pending"}

\* ORDER BY enqueued_ts LIMIT n; ids are given out in time order.
Oldest(n) ==
    [k \in 1..Min({n, Cardinality(Pending)}) |->
        CHOOSE d \in Pending : Cardinality({e \in Pending : e <= d}) = k]

\* worker main loop and pop_extraction_batch: nothing is claimed.
StartPass(w) ==
    /\ pc[w] = "idle"
    /\ Pending # {}
    /\ batch' = [batch EXCEPT ![w] = Oldest(BatchSize)]
    /\ pc' = [pc EXCEPT ![w] = "next"]
    /\ UNCHANGED <<memVars, item, Rest>>

\* Err out of run_once: the loop logs it and starts again later.
AbortPass(w) ==
    /\ pc' = [pc EXCEPT ![w] = "idle"]
    /\ batch' = [batch EXCEPT ![w] = <<>>]
    /\ item' = [item EXCEPT ![w] = 0]

EndPass(w) ==
    /\ pc[w] = "next"
    /\ batch[w] = <<>>
    /\ AbortPass(w)
    /\ UNCHANGED <<memVars, Rest>>

\* SELECT text, then the extractor, which may fail (model or HTTP).
ReadText(w) ==
    /\ pc[w] = "next"
    /\ batch[w] # <<>>
    /\ LET d == Head(batch[w]) IN
       \E l \in IF d \notin live \/ d \in Blank THEN {"skipped"} ELSE {"item", "error"} :
          pc' = [pc EXCEPT ![w] = l]
    /\ item' = [item EXCEPT ![w] = 1]
    /\ UNCHANGED <<memVars, batch, Rest>>

\* upsert_entity's SELECT, if the item names an entity.
LookUpEntity(w) ==
    LET list == Items[Head(batch[w])] IN
    /\ pc[w] = "item"
    /\ pc' = [pc EXCEPT ![w] =
                IF item[w] > Len(list) THEN "done"
                ELSE IF list[item[w]] \in entities \cup {NoName} THEN "put" ELSE "entity"]
    /\ UNCHANGED <<memVars, batch, item, Rest>>

\* Mutant: a lost race for the name drops the item instead of the pass.
InsertEntityDropsItem(w) ==
    /\ pc[w] = "entity"
    /\ LET name == Items[Head(batch[w])][item[w]] IN
       IF name \in entities
       THEN /\ item' = [item EXCEPT ![w] = @ + 1]
            /\ pc' = [pc EXCEPT ![w] = "item"]
            /\ UNCHANGED <<entities, batch>>
       ELSE /\ entities' = entities \cup {name}
            /\ pc' = [pc EXCEPT ![w] = "put"]
            /\ UNCHANGED <<batch, item>>
    /\ UNCHANGED <<live, lastDoc, mems, edges, queue, Rest>>

\* upsert_entity's INSERT; canonical_name is UNIQUE.
InsertEntity(w) ==
    /\ pc[w] = "entity"
    /\ LET name == Items[Head(batch[w])][item[w]] IN
       IF name \in entities
       THEN AbortPass(w) /\ UNCHANGED entities
       ELSE /\ entities' = entities \cup {name}
            /\ pc' = [pc EXCEPT ![w] = "put"]
            /\ UNCHANGED <<batch, item>>
    /\ UNCHANGED <<live, lastDoc, mems, edges, queue, Rest>>

\* put_memory, and relate_extracted, whose errors are dropped: its entities
\* are there afterwards or they are not.
WriteItem(w) ==
    LET d == Head(batch[w]) IN
    /\ pc[w] = "put"
    /\ NextMem <= MaxMem
    /\ IF d \notin live
       THEN AbortPass(w) /\ UNCHANGED <<mems, entities>>
       ELSE /\ mems' = WithMemory(mems, NextMem, NewRow(d, "fact", Items[d][item[w]], item[w]))
            /\ entities' \in {entities, entities \cup Names}
            /\ item' = [item EXCEPT ![w] = @ + 1]
            /\ pc' = [pc EXCEPT ![w] = "item"]
            /\ UNCHANGED batch
    /\ UNCHANGED <<live, lastDoc, edges, queue, Rest>>

\* Mutant: a failed document goes back into the queue.
MarkStatusRequeues(w) ==
    /\ pc[w] \in {"done", "error", "skipped"}
    /\ queue' = SetStatus(queue, Head(batch[w]), IF pc[w] = "error" THEN "pending" ELSE pc[w])
    /\ batch' = [batch EXCEPT ![w] = Tail(@)]
    /\ pc' = [pc EXCEPT ![w] = "next"]
    /\ item' = [item EXCEPT ![w] = 0]
    /\ UNCHANGED <<live, lastDoc, mems, edges, entities, Rest>>

\* mark_status
MarkStatus(w) ==
    /\ pc[w] \in {"done", "error", "skipped"}
    /\ queue' = SetStatus(queue, Head(batch[w]), pc[w])
    /\ batch' = [batch EXCEPT ![w] = Tail(@)]
    /\ pc' = [pc EXCEPT ![w] = "next"]
    /\ item' = [item EXCEPT ![w] = 0]
    /\ UNCHANGED <<live, lastDoc, mems, edges, entities, Rest>>

WorkerCrash(w) ==
    /\ pc[w] # "idle"
    /\ crashes < MaxCrashes
    /\ crashes' = crashes + 1
    /\ AbortPass(w)
    /\ UNCHANGED <<memVars, mergeVars, histVars>>

WorkerStep(w) ==
    \/ StartPass(w) \/ EndPass(w) \/ ReadText(w) \/ LookUpEntity(w)
    \/ InsertEntity(w) \/ WriteItem(w) \/ MarkStatus(w)

-----------------------------------------------------------------------------
(* Compaction and evolution                                                *)

\* cluster_for_compact: single-link clusters of the active rows.  Rows of
\* one document have the same text (a blank one has no tokens to share).
Alike(a, b) == LET da == mems[a].doc  db == mems[b].doc IN
    {da, db} \cap Blank = {} /\ (da = db \/ <<da, db>> \in Similar \/ <<db, da>> \in Similar)

ClusterOf(m) ==
    LET act == {x \in DOMAIN mems : Active(x)}
        grow(S) == S \cup {x \in act : \E y \in S : Alike(x, y)}
        reach[n \in 0..Cardinality(act)] == IF n = 0 THEN {m} ELSE grow(reach[n - 1])
    IN reach[Cardinality(act)]

Pair(old, new) == <<old, new, mems[old].doc, mems[new].doc>>

\* Mutant: rows that are already superseded are clustered too.
CompactEverything ==
    /\ "compact" \in Ops
    /\ mpc["compact"] = "idle"
    /\ LET m == DOMAIN mems IN
       pairs' = [pairs EXCEPT !["compact"] =
                   {Pair(x, Max(m)) : x \in m \ {Max(m)}}]
    /\ mpc' = [mpc EXCEPT !["compact"] = "update"]
    /\ UNCHANGED <<memVars, workVars, cur, crashes, histVars>>

\* compact: every cluster goes under its youngest row.
CompactStart ==
    /\ "compact" \in Ops
    /\ mpc["compact"] = "idle"
    /\ pairs' = [pairs EXCEPT !["compact"] =
         {Pair(m, Max(ClusterOf(m))) : m \in {x \in DOMAIN mems : Active(x) /\ x # Max(ClusterOf(x))}}]
    /\ pairs'["compact"] # {}
    /\ mpc' = [mpc EXCEPT !["compact"] = "update"]
    /\ UNCHANGED <<memVars, workVars, cur, crashes, histVars>>

\* find_evolve_target: a document with an active row, inside the window of
\* similarity (the best of them: any, as Similar does not grade); 0 for none.
find_evolve_target(d) ==
    LET near == {t \in Docs \ {d} : t \in live /\ ActiveOf(t) # {} /\ <<d, t>> \in Similar}
    IN IF near = {} THEN {0} ELSE near

\* evolve_on_ingest: find a similar document, insert the new row ...
EvolveInsert(d, target) ==
    /\ "evolve" \in Ops
    /\ mpc["evolve"] = "idle"
    /\ d \in live
    /\ NextMem <= MaxMem
    /\ target \in find_evolve_target(d)
    /\ mems' = WithMemory(mems, NextMem, NewRow(d, "fact", NoName, 0))
    /\ pairs' = [pairs EXCEPT !["evolve"] =
                   IF target = 0 THEN {} ELSE {<<0, NextMem, target, d>>}]
    /\ mpc' = [mpc EXCEPT !["evolve"] = IF target = 0 THEN "idle" ELSE "select"]
    /\ UNCHANGED <<live, lastDoc, edges, entities, queue, workVars, cur, crashes, histVars>>

\* ... then look up the newest active row of the target, if there still is one.
EvolveSelect ==
    /\ mpc["evolve"] = "select"
    /\ \E pr \in pairs["evolve"] :
         IF ActiveOf(pr[3]) = {}
         THEN /\ pairs' = [pairs EXCEPT !["evolve"] = {}]
              /\ mpc' = [mpc EXCEPT !["evolve"] = "idle"]
         ELSE \E o \in ActiveOf(pr[3]) :
              /\ pairs' = [pairs EXCEPT !["evolve"] = {<<o, pr[2], pr[3], pr[4]>>}]
              /\ mpc' = [mpc EXCEPT !["evolve"] = "update"]
    /\ UNCHANGED <<memVars, workVars, cur, crashes, histVars>>

\* A failing statement ends the job; so does a crash.
EndMerge(p) == /\ mpc' = [mpc EXCEPT ![p] = "idle"]
               /\ pairs' = [pairs EXCEPT ![p] = {}]
               /\ cur' = [cur EXCEPT ![p] = <<>>]

Unchanged(pr) == /\ Active(pr[1]) /\ mems[pr[1]].doc = pr[3]
                 /\ Active(pr[2]) /\ mems[pr[2]].doc = pr[4]

\* supersede: the UPDATE, with no look at what has happened meanwhile ...
SupersedeUpdate(p) ==
    /\ mpc[p] = "update"
    /\ \E pr \in pairs[p] :
         IF pr[1] \in DOMAIN mems /\ pr[2] \notin DOMAIN mems
         THEN EndMerge(p) /\ UNCHANGED <<mems, raced>>
         ELSE /\ mems' = Superseded(mems, pr[1], pr[2])
              /\ raced' = (raced \/ ~Unchanged(pr))
              /\ cur' = [cur EXCEPT ![p] = pr]
              /\ pairs' = [pairs EXCEPT ![p] = @ \ {pr}]
              /\ mpc' = [mpc EXCEPT ![p] = "edge"]
    /\ UNCHANGED <<live, lastDoc, edges, entities, queue, workVars, crashes, unlinked>>

\* Mutant: the edge points from the old memory to the new one.
SupersedeEdgeReversed(p) ==
    /\ mpc[p] = "edge"
    /\ IF {cur[p][1], cur[p][2]} \subseteq DOMAIN mems
       THEN /\ edges' = edges \cup {<<cur[p][1], cur[p][2]>>}
            /\ cur' = [cur EXCEPT ![p] = <<>>]
            /\ mpc' = [mpc EXCEPT ![p] = IF pairs[p] = {} THEN "idle" ELSE "update"]
            /\ UNCHANGED pairs
       ELSE EndMerge(p) /\ UNCHANGED edges
    /\ UNCHANGED <<live, lastDoc, mems, entities, queue, workVars, crashes, histVars>>

\* ... and the INSERT of the edge.
SupersedeEdge(p) ==
    /\ mpc[p] = "edge"
    /\ IF {cur[p][1], cur[p][2]} \subseteq DOMAIN mems
       THEN /\ edges' = edges \cup {<<cur[p][2], cur[p][1]>>}
            /\ cur' = [cur EXCEPT ![p] = <<>>]
            /\ mpc' = [mpc EXCEPT ![p] = IF pairs[p] = {} THEN "idle" ELSE "update"]
            /\ UNCHANGED pairs
       ELSE EndMerge(p) /\ UNCHANGED edges
    /\ UNCHANGED <<live, lastDoc, mems, entities, queue, workVars, crashes, histVars>>

MergerCrash(p) ==
    /\ mpc[p] # "idle"
    /\ crashes < MaxCrashes
    /\ crashes' = crashes + 1
    /\ EndMerge(p)
    /\ unlinked' = IF mpc[p] = "edge" THEN unlinked \cup {cur[p][1]} ELSE unlinked
    /\ UNCHANGED <<memVars, workVars, raced>>

-----------------------------------------------------------------------------
(* Clients                                                                 *)

Client == UNCHANGED <<workVars, mergeVars, crashes, histVars>>
Put == (\E cut \in {FALSE, "cut" \in Ops} : PutDoc(cut)) /\ Client
Delete(d) == "delete" \in Ops /\ DeleteDoc(d) /\ Client
Promote(d, old) == "promote" \in Ops /\ PromoteDoc(d, old) /\ Client

Next ==
    \/ Put
    \/ \E d \in Docs : Delete(d)
    \/ \E d \in Docs, old \in Targets : Promote(d, old) \/ EvolveInsert(d, old)
    \/ \E w \in Workers : WorkerStep(w) \/ WorkerCrash(w)
    \/ CompactStart
    \/ EvolveSelect
    \/ \E p \in Mergers : SupersedeUpdate(p) \/ SupersedeEdge(p) \/ MergerCrash(p)

Spec == Init /\ [][Next]_vars

\* A worker is a loop on a timer that nothing stops (see the README).
FairSpec == Spec /\ \A w \in Workers : WF_vars(WorkerStep(w))

-----------------------------------------------------------------------------
(* Properties                                                              *)

TypeOK ==
    /\ live \subseteq 1..lastDoc /\ lastDoc \in 0..MaxDoc
    /\ DOMAIN mems \subseteq 1..MaxMem /\ \A m \in DOMAIN mems : mems[m] \in MemRow
    /\ edges \subseteq (1..MaxMem) \X (1..MaxMem)
    /\ queue \in [Docs -> Statuses]

\* A document run_once has marked done has a memory for every item that was
\* extracted from it, whatever other workers, crashes, aborted passes and
\* promotions have done to it meanwhile.
DoneMeansExtracted ==
    \A d \in live : queue[d] = "done" =>
        \A k \in DOMAIN Items[d] : \E m \in DOMAIN mems : mems[m].doc = d /\ mems[m].item = k

\* Supersession never loses the truth: following superseded_by from any row
\* ends in an active one, through promotions, deletes, compactions and
\* evolutions, as long as no merger acted on rows that had changed since it
\* read them (supersede does not look again).
TruthSurvives ==
    ~raced => \A m \in DOMAIN mems : \E s \in Successors(m) : Active(s)

\* Every supersession has its edge, except between the two statements of
\* supersede and after a crash there.
EdgesExplain ==
    \A m \in DOMAIN mems :
        \/ mems[m].superseded_by = NoMem
        \/ <<mems[m].superseded_by, m>> \in edges
        \/ m \in unlinked
        \/ \E p \in Mergers : mpc[p] = "edge" /\ cur[p][1] = m

\* The queue table keeps the promise of a work queue: no document is finished
\* twice or waits again after it was finished, and none waits for ever.
WQ == INSTANCE WorkQueue WITH
        Jobs <- Docs,
        waiting <- {d \in Docs : queue[d] = "pending"},
        finished <- {d \in Docs : queue[d] \notin {"none", "pending"}}

QueueDrains == WQ!Spec
=============================================================================
