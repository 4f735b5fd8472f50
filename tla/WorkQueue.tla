----------------------------- MODULE WorkQueue ------------------------------
(***************************************************************************)
(* What the extraction queue promises: a job that waits is finished or     *)
(* withdrawn exactly once and never waits again, and if somebody works,    *)
(* no job waits for ever.                                                  *)
(***************************************************************************)
CONSTANT Jobs

VARIABLES waiting, finished

queueVars == <<waiting, finished>>

Init == waiting = {} /\ finished = {}

Submit(j) == /\ j \notin waiting \cup finished
             /\ waiting' = waiting \cup {j}
             /\ UNCHANGED finished

\* A job can be finished without having waited (its owner did it himself).
Finish(j) == /\ j \notin finished
             /\ waiting' = waiting \ {j}
             /\ finished' = finished \cup {j}

Withdraw(j) == /\ j \in waiting \cup finished
               /\ waiting' = waiting \ {j}
               /\ finished' = finished \ {j}

Next == \E j \in Jobs : Submit(j) \/ Finish(j) \/ Withdraw(j)

Spec == Init /\ [][Next]_queueVars /\ \A j \in Jobs : WF_queueVars(Finish(j) /\ j \in waiting)
=============================================================================
