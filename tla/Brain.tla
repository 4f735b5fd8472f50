------------------------------- MODULE Brain --------------------------------
(***************************************************************************)
(* What a brain.db promises to everyone who reads it: a content-addressed  *)
(* map from row ids to documents.  A write adds documents nobody has       *)
(* stored under the next unused ids, a delete takes one document out with  *)
(* its embedding, and nothing else ever happens to a row.  Store           *)
(* implements this specification; the daemon relies on it.                 *)
(***************************************************************************)
EXTENDS BrainTypes

VARIABLES
    docs,      \* row id -> text, NoText where there is no row
    vecs,      \* row id -> embedding
    seq        \* the largest id ever given

brain == <<docs, vecs, seq>>

Init ==
    /\ docs = [i \in Ids |-> NoText]
    /\ vecs = [i \in Ids |-> NoVec]
    /\ seq = 0

\* A committed put or batch: the ids up to n are new documents.
Add(n) ==
    /\ seq' = n
    /\ \A i \in Ids : i <= seq \/ i > n => docs'[i] = docs[i] /\ vecs'[i] = vecs[i]
    /\ \A i \in Ids : i > seq /\ i <= n =>
          /\ docs'[i] \in Texts
          /\ vecs'[i] \in Vecs \cup {NoVec}
          /\ \A j \in Ids : docs'[j] = docs'[i] => j = i
    /\ DOMAIN docs' = Ids /\ DOMAIN vecs' = Ids

\* A committed delete.
Remove(i) ==
    /\ docs' = [docs EXCEPT ![i] = NoText]
    /\ vecs' = [vecs EXCEPT ![i] = NoVec]
    /\ UNCHANGED seq

Next == (\E n \in (seq + 1)..MaxId : Add(n)) \/ (\E i \in Ids : Remove(i))

Spec == Init /\ [][Next]_brain

-----------------------------------------------------------------------------
BrainType ==
    /\ docs \in [Ids -> Texts \cup {NoText}]
    /\ vecs \in [Ids -> Vecs \cup {NoVec}]
    /\ seq \in 0..MaxId

\* No document is stored under two ids, whoever wrote it.
TextsUnique == \A i, j \in Ids : docs[i] # NoText /\ docs[i] = docs[j] => i = j

\* An embedding belongs to a stored document.
NoOrphanVectors == \A i \in Ids : vecs[i] # NoVec => docs[i] # NoText
=============================================================================
