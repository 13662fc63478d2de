------------------------------- MODULE Drive -------------------------------
(***************************************************************************)
(* The ResearchDrive controller (athena/src/drive_reconciler.rs), for a    *)
(* drive without curriculum: it folds the campaigns that have ended into   *)
(* its status, decides whether it may go on, asks the proposer, and        *)
(* creates the campaigns proposed. Everything a pass decides lives in its  *)
(* copy of the status until the one write at its end; campaigns and        *)
(* reports are created on the way. What the proposer answers is arbitrary. *)
(***************************************************************************)
EXTENDS Naturals, FiniteSets, Sequences

CONSTANTS
    Campaigns,    \* the names the proposer may give a branch
    Specs,        \* the specs the drive may have
    RingCap,      \* MAX_PROPOSAL_RECORDS
    MaxActions,   \* actions of a proposal that are looked at (4)
    MaxTroubles   \* bound: how many passes are cut off or begin from an old copy,
                  \* and how often a person pauses, resumes or deletes

Policies == {"RequireApproval", "Auto"}

ASSUME CampaignsAssumption == IsFiniteSet(Campaigns)
\* The ledger of folded campaigns (FOLDED_LEDGER_CAP) is never full here.
ASSUME LedgerAssumption == Cardinality(Campaigns) <= 200
ASSUME SpecsAssumption ==
    Specs \subseteq [maxActiveBranches : Nat, maxCampaigns : Nat, window : Nat,
                     policy : Policies]
ASSUME BoundsAssumption ==
    /\ RingCap \in Nat \ {0}
    /\ MaxActions \in Nat
    /\ MaxTroubles \in Nat

VARIABLES
    spec,         \* the drive's limits and policy, which nobody edits here
    paused,       \* spec.paused
    troubles,     \* how often that has happened
    annotation,   \* the id in the approve-proposal annotation; `fresh`: set
                  \* since the last structural proposal was recorded (history)
    camps,        \* the campaigns with the drive's label
    reports,      \* the campaigns that have a ResearchReport
    orphans,      \* history: campaigns in flight that a pass did not know of
    ids,          \* history: the highest id of the structural proposals recorded;
                  \* whether the last of them has one that is no higher than another
    status,       \* the drive's status
    seen,         \* the status in the watch cache
    pass          \* the reconcile pass in progress

vars == <<spec, paused, troubles, annotation, camps, reports, orphans, ids, status,
          seen, pass>>
human == <<paused, troubles, annotation>>

\* "Ended" is Completed (or CanaryFailed, for a campaign labelled by hand).
CampaignPhases == {"Absent", "Active", "Ended"}
Phases == {"Idle", "CampaignRunning", "Proposing", "AwaitingApproval",
           "NeedsHuman", "Paused"}
Decisions == {"Accepted", "Rejected", "AwaitingApproval", "Approved"}
Steps == {"Idle", "Fold", "Propose", "Write"}

Proposals == [id : Nat, decision : Decisions]

Annotations == [id : Nat, fresh : BOOLEAN]

\* `memory`: the condition MemoryHealthy, "Unknown" when it is not written.
Statuses == [phase : Phases, current : Seq(Campaigns), folded : SUBSET Campaigns,
             completed : Nat, stagnation : Nat, proposals : Seq(Proposals),
             memory : {"Unknown", "True", "False"}]

\* `paused` and `annotation` are the pass's copies, `st` its status, `fresh` says
\* whether it began as a copy of the stored one (history); `active` are the campaigns
\* it saw in flight, `todo` those it has still to fold.
Passes == [step : Steps, fresh : BOOLEAN, active : SUBSET Campaigns,
           todo : SUBSET Campaigns, paused : BOOLEAN, annotation : Annotations,
           st : Statuses, phase : Phases, asked : BOOLEAN, made : Seq(Campaigns),
           actions : Nat, decision : Decisions]

NoStatus == [phase |-> "Idle", current |-> <<>>, folded |-> {}, completed |-> 0,
             stagnation |-> 0, proposals |-> <<>>, memory |-> "Unknown"]

NoAnnotation == [id |-> 0, fresh |-> FALSE]

NoPass == [step |-> "Idle", fresh |-> FALSE, active |-> {}, todo |-> {},
           paused |-> FALSE, annotation |-> NoAnnotation, st |-> NoStatus,
           phase |-> "Idle", asked |-> FALSE, made |-> <<>>, actions |-> 0,
           decision |-> "Accepted"]

TypeOK ==
    /\ spec \in Specs
    /\ paused \in BOOLEAN
    /\ troubles \in Nat
    /\ annotation \in Annotations
    /\ camps \in [Campaigns -> CampaignPhases]
    /\ reports \in SUBSET Campaigns
    /\ orphans \in SUBSET Campaigns
    /\ ids \in [highest : Nat, repeated : BOOLEAN]
    /\ status \in Statuses
    /\ seen \in Statuses
    /\ Len(status.proposals) <= RingCap
    /\ pass \in Passes

Init ==
    /\ spec \in Specs
    /\ paused = FALSE
    /\ troubles = 0
    /\ annotation = NoAnnotation
    /\ camps = [c \in Campaigns |-> "Absent"]
    /\ reports = {}
    /\ orphans = {}
    /\ ids = [highest |-> 0, repeated |-> FALSE]
    /\ status = NoStatus
    /\ seen = NoStatus
    /\ pass = NoPass

-----------------------------------------------------------------------------
(* The decisions of a pass. A definition marked Slip is a faulty variant of   *)
(* the one that follows it.                                                  *)

Names(list) == {list[i] : i \in DOMAIN list}

Active == {c \in Campaigns : camps[c] = "Active"}
Over == {c \in Campaigns : camps[c] = "Ended"}

\* Slip: the guard that the comment on the ledger tells of, membership in the
\* branch list, which depends on a status write surviving.
UnfoldedOfCurrent == Over \cap Names(seen.current)

\* Slip: every campaign that has ended is folded, pass after pass.
UnfoldedAll == Over

\* terminal_unfolded.
Unfolded == Over \ seen.folded

\* Vec::retain, of a list of branches.
Retained(list, kept) ==
    LET upTo[n \in 0..Len(list)] ==
            IF n = 0 THEN <<>>
            ELSE IF list[n] \in kept THEN Append(upTo[n - 1], list[n]) ELSE upTo[n - 1]
    IN upTo[Len(list)]

\* fold_campaign and the bookkeeping around it. How the score compares with the
\* best so far is left open: it is better, it is not, or nothing ever ran.
Folded(st, c, outcome) ==
    [st EXCEPT !.current = Retained(@, Campaigns \ {c}),
               !.folded = @ \cup {c},
               !.completed = @ + 1,
               !.stagnation = IF outcome = "Better" THEN 0
                              ELSE IF outcome = "NotBetter" THEN @ + 1 ELSE @]

\* The approval of the proposals that await one, by the annotation.
Approved(proposals, note) ==
    [i \in DOMAIN proposals |->
        IF proposals[i].decision = "AwaitingApproval" /\ proposals[i].id = note.id
        THEN [proposals[i] EXCEPT !.decision = "Approved"]
        ELSE proposals[i]]

Awaiting(proposals) ==
    {proposals[i].id : i \in {j \in DOMAIN proposals :
                                 proposals[j].decision = "AwaitingApproval"}}

\* at_campaign_cap.
AtCap(st) == st.completed >= spec.maxCampaigns

\* Slip: a proposal that awaits its approval does not stop the drive.
HeldNever(st) == FALSE

\* The drive waits for a human to approve a structural proposal.
Held(st) == spec.policy = "RequireApproval" /\ Awaiting(st.proposals) # {}

\* active.len() < max_active_branches.
HasRoom(st) == Cardinality(pass.active) < spec.maxActiveBranches

\* The phase decision.
PhaseOf(st) ==
    IF pass.paused THEN "Paused"
    ELSE IF Held(st) THEN "AwaitingApproval"
    ELSE IF AtCap(st) \/ st.stagnation >= spec.window THEN "NeedsHuman"
    ELSE IF HasRoom(st) THEN "Proposing" ELSE "CampaignRunning"

\* free_slots, saturating_sub.
FreeSlots(st) ==
    IF Len(st.current) <= spec.maxActiveBranches
    THEN spec.maxActiveBranches - Len(st.current) ELSE 0

\* push_proposal.
Push(proposals, p) ==
    Append(IF Len(proposals) = RingCap THEN Tail(proposals) ELSE proposals, p)

\* proposal_id.
NextId(st) == Len(st.proposals) + 1 + st.completed

Record(decision) == [id |-> NextId(pass.st), decision |-> decision]

\* The folded campaigns without report.
Unwritten(st) == st.folded \ reports

-----------------------------------------------------------------------------
(* The reconcile pass. *)

\* The campaigns are listed; the drive itself is the cached object the pass was
\* given.
List ==
    /\ pass.step = "Idle"
    /\ pass' = [NoPass EXCEPT !.step = "Fold", !.fresh = (seen = status),
                              !.active = Active,
                              !.todo = Unfolded, !.paused = paused,
                              !.annotation = annotation, !.st = seen]
    /\ orphans' = orphans \cup (Active \ Names(seen.current))
    /\ \/ seen = status /\ UNCHANGED troubles
       \/ seen # status /\ troubles < MaxTroubles /\ troubles' = troubles + 1
    /\ UNCHANGED <<spec, paused, annotation, camps, reports, ids, status, seen>>

\* A campaign that has ended is folded, and its report is authored, unless there
\* is one; a failure of that is only logged. (The report of a campaign that has
\* been deleted goes the way of its owner.)
Fold(c) ==
    /\ pass.step = "Fold"
    /\ c \in pass.todo
    /\ \E outcome \in {"Better", "NotBetter", "NeverRan"} :
          pass' = [pass EXCEPT !.st = Folded(@, c, outcome), !.todo = @ \ {c}]
    /\ \E authored \in BOOLEAN :
          reports' = IF authored /\ camps[c] # "Absent"
                     THEN reports \cup {c} ELSE reports
    /\ UNCHANGED <<spec, human, camps, orphans, ids, status, seen>>

\* All are folded: the branch list is pruned, approvals are taken, and the phase
\* is decided.
Decide ==
    /\ pass.step = "Fold"
    /\ pass.todo = {}
    /\ LET st == [pass.st EXCEPT
                    !.current = Retained(@, pass.active),
                    !.proposals = Approved(@, pass.annotation)] IN
       pass' = [pass EXCEPT
                  !.st = st,
                  !.phase = PhaseOf(st),
                  !.step = IF PhaseOf(st) = "Proposing"
                                /\ Len(st.current) < spec.maxActiveBranches
                           THEN "Propose" ELSE "Write"]
    /\ UNCHANGED <<spec, human, camps, reports, orphans, ids, status, seen>>

\* No proposal: the call fails, or the harness Job still runs, or it has ended
\* with nothing, which is recorded. The status is written without the rest.
NoProposal ==
    /\ pass.step = "Propose"
    /\ pass.actions = 0
    /\ \E recorded \in BOOLEAN :
          pass' = [pass EXCEPT
                     !.step = "Write", !.asked = TRUE,
                     !.st.proposals = IF recorded THEN Push(@, Record("Rejected"))
                                                  ELSE @]
    /\ UNCHANGED <<spec, human, camps, reports, orphans, ids, status, seen>>

\* The next action of the proposal is looked at.
Acting ==
    /\ pass.step = "Propose"
    /\ pass.actions < MaxActions

Structural ==
    /\ Acting
    /\ pass' = [pass EXCEPT !.actions = @ + 1,
                            !.decision = IF spec.policy = "RequireApproval"
                                         THEN "AwaitingApproval" ELSE "Approved"]
    /\ UNCHANGED <<spec, human, camps, reports, orphans, ids, status, seen>>

\* An action of an unknown type, or a fork when no slot is free, or one whose
\* name is taken.
Skip ==
    /\ Acting
    /\ pass' = [pass EXCEPT !.actions = @ + 1]
    /\ UNCHANGED <<spec, human, camps, reports, orphans, ids, status, seen>>

\* A fork that build_campaign rejects.
Invalid ==
    /\ Acting
    /\ Len(pass.made) < FreeSlots(pass.st)
    /\ pass' = [pass EXCEPT !.actions = @ + 1, !.decision = "Rejected"]
    /\ UNCHANGED <<spec, human, camps, reports, orphans, ids, status, seen>>

\* Slip: the slots are counted once, before the actions.
ForkUncounted(c) ==
    /\ Acting
    /\ FreeSlots(pass.st) > 0
    /\ camps[c] = "Absent"
    /\ camps' = [camps EXCEPT ![c] = "Active"]
    /\ orphans' = orphans \ {c}
    /\ pass' = [pass EXCEPT !.actions = @ + 1, !.made = Append(@, c)]
    /\ UNCHANGED <<spec, human, reports, ids, status, seen>>

Fork(c) ==
    /\ Acting
    /\ Len(pass.made) < FreeSlots(pass.st)
    /\ camps[c] = "Absent"
    /\ camps' = [camps EXCEPT ![c] = "Active"]
    /\ orphans' = orphans \ {c}
    /\ pass' = [pass EXCEPT !.actions = @ + 1, !.made = Append(@, c)]
    /\ UNCHANGED <<spec, human, reports, ids, status, seen>>

\* The API server refuses a creation: propose_and_create returns the error, the
\* branches it has created so far and the proposal are not recorded.
ForkFails ==
    /\ Acting
    /\ Len(pass.made) < FreeSlots(pass.st)
    /\ pass' = [pass EXCEPT !.step = "Write", !.asked = TRUE, !.made = <<>>]
    /\ UNCHANGED <<spec, human, camps, reports, orphans, ids, status, seen>>

\* The actions are done: branches and proposal are recorded.
Conclude ==
    /\ pass.step = "Propose"
    /\ LET decision == IF pass.made = <<>> /\ pass.decision = "Accepted"
                       THEN "Rejected" ELSE pass.decision IN
       pass' = [pass EXCEPT
                  !.step = "Write",
                  !.phase = IF pass.made = <<>> THEN @ ELSE "CampaignRunning",
                  !.st.current = @ \o pass.made,
                  !.st.proposals = Push(@, Record(decision))]
    /\ UNCHANGED <<spec, human, camps, reports, orphans, ids, status, seen>>

\* The id of the structural proposal that the pass records, if it does.
Asked ==
    IF pass.decision = "AwaitingApproval" /\ ~pass.asked
    THEN Awaiting(pass.st.proposals) ELSE {}

\* The reports are listed, for the condition MemoryHealthy, unless the list fails
\* or the proposer was asked in vain; the status is written as a whole.
Write ==
    /\ pass.step = "Write"
    /\ \E listed \in BOOLEAN :
          status' = [pass.st EXCEPT
                       !.phase = pass.phase,
                       !.memory = IF pass.asked \/ ~listed THEN "Unknown"
                                  ELSE IF Unwritten(pass.st) = {} THEN "True"
                                  ELSE "False"]
    /\ annotation' = [annotation EXCEPT !.fresh = @ /\ Asked = {}]
    /\ \/ Asked = {} /\ UNCHANGED ids
       \/ \E id \in Asked :
             ids' = [highest |-> IF id <= ids.highest THEN ids.highest ELSE id,
                     repeated |-> id <= ids.highest]
    /\ pass' = NoPass
    /\ UNCHANGED <<spec, paused, troubles, camps, reports, orphans, seen>>

\* A call fails, or the operator dies: the rest of the pass is lost.
Abort ==
    /\ pass.step # "Idle"
    /\ troubles < MaxTroubles
    /\ troubles' = troubles + 1
    /\ pass' = NoPass
    /\ UNCHANGED <<spec, paused, annotation, camps, reports, orphans, ids, status,
                   seen>>

PassStep ==
    \/ List
    \/ \E c \in Campaigns : Fold(c) \/ Fork(c)
    \/ Decide
    \/ NoProposal
    \/ Structural
    \/ Skip
    \/ Invalid
    \/ ForkFails
    \/ Conclude
    \/ Write

-----------------------------------------------------------------------------
(* What happens around the pass. *)

\* The campaign spends its budget (module Campaign).
End(c) ==
    /\ camps[c] = "Active"
    /\ camps' = [camps EXCEPT ![c] = "Ended"]
    /\ UNCHANGED <<spec, human, reports, orphans, ids, status, seen, pass>>

\* A person deletes a campaign, and with it the report it owns.
Delete(c) ==
    /\ camps[c] # "Absent"
    /\ camps' = [camps EXCEPT ![c] = "Absent"]
    /\ reports' = reports \ {c}
    /\ troubles < MaxTroubles
    /\ troubles' = troubles + 1
    /\ UNCHANGED <<spec, paused, annotation, orphans, ids, status, seen, pass>>

\* A person approves a proposal that awaits it.
Approve ==
    /\ \E i \in DOMAIN status.proposals :
          /\ status.proposals[i].decision = "AwaitingApproval"
          /\ annotation' = [id |-> status.proposals[i].id, fresh |-> TRUE]
    /\ seen' = status
    /\ UNCHANGED <<spec, paused, troubles, camps, reports, orphans, ids, status, pass>>

\* The manual brake.
Pause ==
    /\ troubles < MaxTroubles
    /\ troubles' = troubles + 1
    /\ paused' = ~paused
    /\ seen' = status
    /\ UNCHANGED <<spec, annotation, camps, reports, orphans, ids, status, pass>>

\* The watch catches up. (A pass that sees what a person edited has seen the
\* writes before it; one that does not is as good as one before the edit.)
Sync ==
    /\ seen # status
    /\ seen' = status
    /\ UNCHANGED <<spec, human, camps, reports, orphans, ids, status, pass>>

Environment ==
    \/ \E c \in Campaigns : End(c) \/ Delete(c)
    \/ Approve
    \/ Pause

Next == PassStep \/ Abort \/ Sync \/ Environment

Spec == Init /\ [][Next]_vars

\* The requeue keeps passes coming, of which a bounded number is cut off, and the
\* watch catches up. Nothing is assumed of the proposer, who may fail in every
\* pass, nor of the people around.
FairSpec ==
    /\ Spec
    /\ WF_vars(PassStep)
    /\ WF_vars(Sync)

-----------------------------------------------------------------------------
(* Properties. *)

\* "Fold each campaign EXACTLY once": the lifetime count is that of the campaigns
\* folded, whatever passes are cut off between a fold and the write.
CountedOnce == status.completed = Cardinality(status.folded)

\* The campaigns the drive has in flight, those aside that it has lost sight of
\* because the write that was to list them was lost, are never more than
\* limits.maxActiveBranches, whatever the proposer asks for.
WithinBranches ==
    Cardinality(Active \ orphans) <= spec.maxActiveBranches

\* "Structural proposals pause the drive in AwaitingApproval until a human sets the
\* approval annotation": nothing is started while one that is recorded awaits its
\* approval, but by a pass that has read the approval of it. Two ways round that the
\* code has are excepted: a pass that began from an older status than the stored one,
\* and a proposal whose id is not above those before it, for which the approval of
\* one of these is taken.
NothingUnapproved ==
    [][\A c \in Campaigns :
          (/\ camps[c] = "Absent"
           /\ camps'[c] = "Active"
           /\ spec.policy = "RequireApproval"
           /\ pass.fresh) =>
              \A id \in Awaiting(status.proposals) :
                  /\ pass.annotation.id = id
                  /\ pass.annotation.fresh \/ ids.repeated]_vars

\* Every campaign that ends is folded in the end, unless it is deleted: also one
\* that no status ever listed.
EveryEndIsFolded ==
    \A c \in Campaigns :
        camps[c] = "Ended" ~> c \in status.folded \/ camps[c] = "Absent"

=============================================================================
