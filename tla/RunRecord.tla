----------------------------- MODULE RunRecord -----------------------------
(***************************************************************************)
(* What an Experiment promises to everything that reads it (campaigns,     *)
(* drives, benchmark runs): a record that stays open while Jobs come and   *)
(* go, and is closed with the outcome the Job in place had reached. A      *)
(* closed record is touched only by a keeper who has not seen it closed,   *)
(* and not even by that one while the Job is there. Nothing here is        *)
(* Kubernetes: no caches, no pods, no retries.                             *)
(***************************************************************************)

Outcomes == {"Succeeded", "Failed"}

VARIABLES
    running,   \* the outcome of the last Job, or "Open" while it has none
    record,    \* the outcome the Experiment reports, or "Open"
    kept,      \* the Job whose outcome is recorded is still there
    blind      \* the keeper at work looked at the record before it changed

vars == <<running, record, kept, blind>>

Init == running = "Open" /\ record = "Open" /\ kept = FALSE /\ blind = FALSE

\* What may be done to a record: all of it while it is open; once it is closed,
\* only where its Job is gone and the keeper has not seen it.
MayChange == record = "Open" \/ (blind /\ ~kept)

\* The keeper takes a look, or is done.
Look ==
    /\ blind' \in BOOLEAN
    /\ UNCHANGED <<running, record, kept>>

\* The Job reaches its outcome.
Finish ==
    /\ running = "Open"
    /\ running' \in Outcomes
    /\ UNCHANGED <<record, kept, blind>>

\* The outcome of the last Job is recorded; the Job may be gone by then.
Close ==
    /\ MayChange
    /\ running \in Outcomes
    /\ record' = running
    /\ kept' \in BOOLEAN
    /\ blind' \in BOOLEAN
    /\ UNCHANGED running

\* The Job whose outcome is recorded is deleted.
Lose ==
    /\ kept
    /\ kept' = FALSE
    /\ UNCHANGED <<running, record, blind>>

\* A Job that is gone is run again.
Relaunch ==
    /\ MayChange
    /\ running # "Open"
    /\ running' = "Open"
    /\ UNCHANGED <<record, kept, blind>>

\* A closed record is opened by a keeper who takes it for open.
Reopen ==
    /\ MayChange
    /\ record' = "Open"
    /\ blind' \in BOOLEAN
    /\ UNCHANGED <<running, kept>>

Next == Look \/ Finish \/ Close \/ Lose \/ Relaunch \/ Reopen

Spec == Init /\ [][Next]_vars
=============================================================================
