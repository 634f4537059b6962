----------------------------- MODULE JobLedger ------------------------------
(***************************************************************************)
(* What the job table promises its readers (the Active Jobs card, the      *)
(* extensions), whatever threads work on it: a submission is opened once,  *)
(* is closed once, and no job stays open.                                  *)
(***************************************************************************)
CONSTANT Jobs

VARIABLE phase

Init == phase = [j \in Jobs |-> "new"]

Open(j) ==
    /\ phase[j] = "new"
    /\ phase' = [phase EXCEPT ![j] = "open"]

\* Deleting an element, or the end of the process, closes several jobs at once.
Close(S) ==
    /\ S # {}
    /\ \A j \in S : phase[j] = "open"
    /\ phase' = [j \in Jobs |-> IF j \in S THEN "closed" ELSE phase[j]]

Next ==
    \/ \E j \in Jobs : Open(j)
    \/ \E S \in SUBSET Jobs : Close(S)

CloseJob(j) == \E S \in SUBSET Jobs : j \in S /\ Close(S)

Spec == Init /\ [][Next]_phase /\ \A j \in Jobs : WF_phase(CloseJob(j))
=============================================================================
