------------------------------ MODULE Proposer ------------------------------
(***************************************************************************)
(* A drive whose proposer is an agent harness in a Job                      *)
(* (athena/src/proposer_harness.rs, and propose_and_create of               *)
(* drive_reconciler.rs around it). A pass starts the Job, later passes poll *)
(* it and the one that finds it finished reads the proposal and creates its *)
(* campaigns. What the pass does besides is in Drive.                       *)
(* A Job is named by the proposal id, which the pass computes from how many *)
(* proposals the status records and how many campaigns have been folded.    *)
(* What Drive has by the same name is called Harness... here, or h...: a    *)
(* module may extend both.                                                  *)
(***************************************************************************)
EXTENDS Naturals, FiniteSets

CONSTANTS
    HarnessRingCap, \* MAX_PROPOSAL_RECORDS: the proposals that the status keeps
    MaxEnded,       \* bound: how many campaigns end
    MaxFaults       \* bound: API calls that fail, passes cut off, Jobs deleted by hand

ASSUME HarnessBoundsAssumption == {HarnessRingCap, MaxEnded, MaxFaults} \subseteq Nat

Ids == 1 .. HarnessRingCap + 1 + MaxEnded

VARIABLES
    jobs,    \* the harness Job of each id
    ended,   \* how many campaigns of the drive have ended
    hstatus, \* the drive's status
    hpass,   \* the reconcile pass in progress
    faults   \* how many faults there have been

harnessVars == <<jobs, ended, hstatus, hpass, faults>>

\* A Job is `Proposed` when it has succeeded with a proposal in its termination
\* message, and `Dead` when it failed, or left an error or no message.
\* `settled` says that what the Job came to is in the drive's status.
JobRecords == [state : {"Absent", "Running", "Proposed", "Dead"}, settled : BOOLEAN]

\* `records` proposals are in the ring, `completed` campaigns were folded, `pending`
\* is pendingProposalJob, 0 for none.
HarnessStatuses ==
    [records : 0 .. HarnessRingCap, completed : 0 .. MaxEnded, pending : {0} \cup Ids]

\* `st` is the pass's copy of the status, `id` its proposal id, `job` the finished Job
\* it looks at, `settles` the Job that the status it is to write has settled.
HarnessPasses ==
    [step : {"Idle", "Poll", "Create", "Message", "Apply", "Write"},
     st : HarnessStatuses, id : {0} \cup Ids, job : {0} \cup Ids, settles : {0} \cup Ids]

NoJob == [state |-> "Absent", settled |-> FALSE]

FirstStatus == [records |-> 0, completed |-> 0, pending |-> 0]

NoHarnessPass ==
    [step |-> "Idle", st |-> FirstStatus, id |-> 0, job |-> 0, settles |-> 0]

HarnessTypeOK ==
    /\ jobs \in [Ids -> JobRecords]
    /\ ended \in 0 .. MaxEnded
    /\ hstatus \in HarnessStatuses
    /\ hpass \in HarnessPasses
    /\ faults \in 0 .. MaxFaults

HarnessInit ==
    /\ jobs = [i \in Ids |-> NoJob]
    /\ ended = 0
    /\ hstatus = FirstStatus
    /\ hpass = NoHarnessPass
    /\ faults = 0

-----------------------------------------------------------------------------
(* The pass. A definition marked Slip is a faulty variant of the one after.   *)

Fault == faults < MaxFaults /\ faults' = faults + 1

\* proposals.len() + 1 + campaigns_completed
ProposalId(st) == st.records + 1 + st.completed

\* push_proposal: the oldest record goes when the ring is full.
Pushed(st) ==
    [st EXCEPT !.records = IF @ < HarnessRingCap THEN @ + 1 ELSE HarnessRingCap]

\* The campaigns that have ended are folded. `proposing` says whether the phase is
\* Proposing and a branch is free.
Begin(proposing) ==
    LET st == [hstatus EXCEPT !.completed = ended] IN
    /\ hpass.step = "Idle"
    /\ hpass' = [NoHarnessPass EXCEPT
                  !.step = IF ~proposing THEN "Write"
                           ELSE IF st.pending = 0 THEN "Create" ELSE "Poll",
                  !.st = st,
                  !.id = ProposalId(st)]
    /\ UNCHANGED <<jobs, ended, hstatus, faults>>

\* The pointer is cleared before the message is read.
Looked(st) == [st EXCEPT !.pending = 0]

\* Slip: a Job that is gone is waited for.
GoneWaits(p) == [p EXCEPT !.step = "Write"]

\* "Deleted out from under us": start over.
Gone(p) == [p EXCEPT !.step = "Create", !.st.pending = 0]

\* The pending Job is looked up: it is gone, or it runs, or it has finished.
Poll ==
    LET job == hpass.st.pending
        state == jobs[job].state IN
    /\ hpass.step = "Poll"
    /\ \/ state = "Absent" /\ hpass' = Gone(hpass)
       \/ state = "Running" /\ hpass' = [hpass EXCEPT !.step = "Write"]
       \/ /\ state \in {"Proposed", "Dead"}
          /\ hpass' = [hpass EXCEPT !.step = "Message", !.st = Looked(@), !.job = job]
    /\ UNCHANGED <<jobs, ended, hstatus, faults>>

\* The message of the finished Job: a proposal to carry out, or a Rejected record.
Message ==
    /\ hpass.step = "Message"
    /\ hpass' =
         IF jobs[hpass.job].state = "Proposed"
         THEN [hpass EXCEPT !.step = "Apply"]
         ELSE [hpass EXCEPT !.step = "Write", !.st = Pushed(@), !.settles = hpass.job]
    /\ UNCHANGED <<jobs, ended, hstatus, faults>>

\* The campaigns of the proposal are created and the proposal is recorded.
Apply ==
    /\ hpass.step = "Apply"
    /\ hpass' = [hpass EXCEPT !.step = "Write", !.st = Pushed(@), !.settles = hpass.job]
    /\ UNCHANGED <<jobs, ended, hstatus, faults>>

\* Creating a campaign fails: that is an error of the pass, and nothing is recorded.
ApplyFails ==
    /\ hpass.step = "Apply"
    /\ Fault
    /\ hpass' = [hpass EXCEPT !.step = "Write"]
    /\ UNCHANGED <<jobs, ended, hstatus>>

Started(id) == [jobs EXCEPT ![id].state = "Running"]

Remembered(st, id) == [st EXCEPT !.pending = id]

\* The Job is created; one of the same name is adopted.
Create ==
    /\ hpass.step = "Create"
    /\ jobs' = IF jobs[hpass.id].state = "Absent" THEN Started(hpass.id) ELSE jobs
    /\ hpass' = [hpass EXCEPT !.step = "Write", !.st = Remembered(@, hpass.id)]
    /\ UNCHANGED <<ended, hstatus, faults>>

\* Whatever call of the harness fails, the proposal counts as rejected: also when
\* only the answer was lost and the Job has been created.
CallFails ==
    /\ hpass.step \in {"Poll", "Message", "Create"}
    /\ Fault
    /\ \/ UNCHANGED jobs
       \/ /\ hpass.step = "Create"
          /\ jobs[hpass.id].state = "Absent"
          /\ jobs' = Started(hpass.id)
    /\ hpass' = [hpass EXCEPT !.step = "Write", !.st = Pushed(@), !.settles = hpass.job]
    /\ UNCHANGED <<ended, hstatus>>

\* Slip: a merge patch leaves an optional key that is None as it is.
WrittenMerged(st) ==
    IF st.pending = 0 THEN [st EXCEPT !.pending = hstatus.pending] ELSE st

\* write_status: an explicit null clears the pointer.
Written(st) == st

HarnessWrite ==
    /\ hpass.step = "Write"
    /\ hstatus' = Written(hpass.st)
    /\ jobs' = IF hpass.settles = 0 THEN jobs
               ELSE [jobs EXCEPT ![hpass.settles].settled = TRUE]
    /\ hpass' = NoHarnessPass
    /\ UNCHANGED <<ended, faults>>

\* The pass is cut off, its status never written.
HarnessAbort ==
    /\ hpass.step # "Idle"
    /\ Fault
    /\ hpass' = NoHarnessPass
    /\ UNCHANGED <<jobs, ended, hstatus>>

HarnessPassStep ==
    Begin(TRUE) \/ Begin(FALSE) \/ Poll \/ Message \/ Apply \/ Create \/ HarnessWrite

-----------------------------------------------------------------------------
(* The Jobs and the campaigns.                                               *)

Finish(i) ==
    /\ jobs[i].state = "Running"
    /\ \E state \in {"Proposed", "Dead"} : jobs' = [jobs EXCEPT ![i].state = state]
    /\ UNCHANGED <<ended, hstatus, hpass, faults>>

\* ttlSecondsAfterFinished, an hour.
Expire(i) ==
    /\ jobs[i].state \in {"Proposed", "Dead"}
    /\ jobs' = [jobs EXCEPT ![i] = NoJob]
    /\ UNCHANGED <<ended, hstatus, hpass, faults>>

\* Someone deletes the Job.
DeleteHarness(i) ==
    /\ jobs[i].state = "Running"
    /\ Fault
    /\ jobs' = [jobs EXCEPT ![i] = NoJob]
    /\ UNCHANGED <<ended, hstatus, hpass>>

EndCampaign ==
    /\ ended < MaxEnded
    /\ ended' = ended + 1
    /\ UNCHANGED <<jobs, hstatus, hpass, faults>>

HarnessNext ==
    \/ HarnessPassStep
    \/ ApplyFails
    \/ CallFails
    \/ HarnessAbort
    \/ \E i \in Ids : Finish(i) \/ Expire(i) \/ DeleteHarness(i)
    \/ EndCampaign

HarnessSpec == HarnessInit /\ [][HarnessNext]_harnessVars

\* A pass goes on, the drive wants a proposal again and again, a Job meets its
\* deadline and a finished one its time to live.
HarnessFairSpec ==
    /\ HarnessSpec
    /\ WF_harnessVars(Poll \/ Message \/ Apply \/ Create \/ HarnessWrite)
    /\ SF_harnessVars(Begin(TRUE))
    /\ \A i \in Ids : WF_harnessVars(Finish(i)) /\ WF_harnessVars(Expire(i))

-----------------------------------------------------------------------------
(* Properties.                                                               *)

\* "The loop spins forever on one failed attempt" is what the Rejected record is to
\* prevent, and the null of write_status: what a Job came to is read no second time
\* once it is in the status, whatever calls fail and passes are cut off. It holds
\* for as long as the ring of records is not full.
ReadOnce ==
    hpass.step = "Message" /\ hstatus.records < HarnessRingCap
        => ~jobs[hpass.job].settled

\* No fault and no full ring ends the loop: Jobs are started for ever.
KeepsAsking == []<>(\E i \in Ids : jobs[i].state = "Running")
=============================================================================
