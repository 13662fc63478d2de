----------------------------- MODULE Campaign -----------------------------
(***************************************************************************)
(* The ResearchCampaign controller (athena/src/campaign_reconciler.rs):    *)
(* what it generates and when. A pass lists the campaign's Experiments,    *)
(* and acts on that list, one API call per step, while the Experiments     *)
(* move on: the canary gate, the experiment budget, the concurrency limit, *)
(* the inference backend, the phase. Which parameters an Experiment gets,  *)
(* and which one is the incumbent, is the business of Selection.           *)
(***************************************************************************)
EXTENDS Integers, FiniteSets

CONSTANTS
    Canary,           \* the Experiment <campaign>-canary
    Hands,            \* Experiments written by hand with this campaignRef
    MaxExperiments,   \* spec.budget.maxExperiments
    Concurrency,      \* spec.concurrency, or populationSize for pbt
    Specs,            \* the other parts of spec the campaign may have
    MaxTroubles       \* bound: how many Experiments are written by hand, lose
                      \* their Job, or times the inference backend goes down

Backends == {"None", "Mesh", "Cluster"}

\* The Experiments <campaign>-000, -001, ... by their index. No index above
\* the budget is ever used (CampaignProofs).
Slots == 0 .. MaxExperiments

ASSUME NamesAssumption ==
    /\ Canary \notin Hands \cup Slots
    /\ Hands \cap Slots = {}
    /\ IsFiniteSet(Hands)
ASSUME NumbersAssumption ==
    /\ MaxExperiments \in Nat
    /\ Concurrency \in Nat \ {0}
    /\ MaxTroubles \in Nat
\* `gated`: a benchmark suite, its own or the campaign's, rules on the canary.
ASSUME SpecsAssumption ==
    Specs \subseteq [canary : BOOLEAN, gated : BOOLEAN, backend : Backends]

Names == Slots \cup Hands \cup {Canary}

VARIABLES
    spec,        \* the campaign's spec, which nobody edits here
    exps,        \* the phase of every Experiment, "Absent" if there is none
    adopted,     \* the hand-written Experiments that carry the label
    verdict,     \* status.decision of the canary
    bench,       \* the canary's BenchmarkRun exists
    inference,   \* the inference Deployment, or RayJob
    upsets,      \* how often it went down
    relaunched,  \* history: Experiments whose Job was lost and run again
    status,      \* the campaign's status
    pass         \* the reconcile pass in progress

vars == <<spec, exps, adopted, verdict, bench, inference, upsets, relaunched,
          status, pass>>
objects == <<exps, adopted, verdict, bench, relaunched>>
backend == <<inference, upsets>>

\* Pending, Preparing and Running are one: "Live".
Phases == {"Absent", "Live", "Succeeded", "Failed", "Error"}
Verdicts == {"None", "Keep", "Discard"}
InferenceStates == {"Absent", "Starting", "Ready", "Failed"}
CampaignPhases == {"New", "Running", "InferenceFailed", "Completed", "CanaryFailed"}
Steps == {"Idle", "Adopt", "Bench", "Inference", "Canary", "Generate", "Status"}

\* `seen` and `verdict` are the pass's copies; `ready` and `broken` what it found
\* of the backend; `left` the creations it still owes, `next` the next index.
Passes == [step : Steps, seen : [Names -> Phases], verdict : Verdicts,
           ready : BOOLEAN, broken : BOOLEAN, left : Nat, next : Nat, made : Nat]

\* The counts of the status are only shown.
Statuses == [phase : CampaignPhases]

Nothing == [e \in Names |-> "Absent"]

NoPass == [step |-> "Idle", seen |-> Nothing, verdict |-> "None",
           ready |-> FALSE, broken |-> FALSE, left |-> 0, next |-> 0, made |-> 0]

TypeOK ==
    /\ spec \in Specs
    /\ exps \in [Names -> Phases]
    /\ adopted \in SUBSET Hands
    /\ verdict \in Verdicts
    /\ bench \in BOOLEAN
    /\ inference \in InferenceStates
    /\ upsets \in Nat
    /\ relaunched \in SUBSET Names
    /\ status \in Statuses
    /\ pass \in Passes

Init ==
    /\ spec \in Specs
    /\ exps = Nothing
    /\ adopted = {}
    /\ verdict = "None"
    /\ bench = FALSE
    /\ inference = "Absent"
    /\ upsets = 0
    /\ relaunched = {}
    /\ status = [phase |-> "New"]
    /\ pass = NoPass

-----------------------------------------------------------------------------
(* The decisions of a pass, from the list `seen`. A definition marked Slip is *)
(* a faulty variant of the one that follows it.                               *)

Listed(seen) == {e \in Names : seen[e] # "Absent"}
Running(seen) == {e \in Names : seen[e] = "Live"}

\* Slip: the suite is forgotten, a canary that trained to the end is enough.
GateUngated(seen, ruling) ==
    IF ~spec.canary \/ seen[Canary] = "Succeeded" THEN "Unblock"
    ELSE IF seen[Canary] = "Absent" THEN "CreateCanary"
    ELSE IF seen[Canary] \in {"Failed", "Error"} THEN "CanaryFailed"
    ELSE "Hold"

\* canary_gate.
Gate(seen, ruling) ==
    LET passed == seen[Canary] = "Succeeded" IN
    IF ~spec.canary THEN "Unblock"
    ELSE IF seen[Canary] = "Absent" THEN "CreateCanary"
    ELSE IF seen[Canary] \in {"Failed", "Error"} THEN "CanaryFailed"
    ELSE IF passed /\ (~spec.gated \/ ruling = "Keep") THEN "Unblock"
    ELSE IF passed /\ ruling = "Discard" THEN "CanaryFailed"
    ELSE "Hold"

CanaryDead == Gate(pass.seen, pass.verdict) = "CanaryFailed"

\* budgeted_total: the canary is a probe outside the budget.
Budgeted(seen) ==
    Cardinality(Listed(seen) \ (IF spec.canary THEN {Canary} ELSE {}))

AtBudget == Budgeted(pass.seen) >= MaxExperiments

\* Slip: "done generating" is taken for "done".
AllDoneAtBudget == AtBudget \/ CanaryDead

AllDone == (AtBudget \/ CanaryDead) /\ Running(pass.seen) = {}

\* Slip: a full population is generated whatever runs already.
WantPopulation(seen) == Concurrency

\* concurrency.saturating_sub(running).
Want(seen) ==
    IF Cardinality(Running(seen)) <= Concurrency
    THEN Concurrency - Cardinality(Running(seen)) ELSE 0

\* Slip: the batch is not cut at the budget.
BatchUncut(seen) == Want(seen)

\* want.min(budget_left), of a campaign that is not at its budget.
Batch(seen) ==
    IF Want(seen) <= MaxExperiments - Budgeted(seen) THEN Want(seen)
    ELSE MaxExperiments - Budgeted(seen)

\* Slip: the last index is taken for the next one.
NextIndexLast(seen) ==
    IF Listed(seen) = {} THEN 0 ELSE Cardinality(Listed(seen)) - 1

\* idx = total + i: counted from everything listed, canary and adopted included.
NextIndex(seen) == Cardinality(Listed(seen))

\* The arm of the match on the gate that a pass enters when the inference
\* backend answers as given.
Generation(ready) ==
    LET gate == Gate(pass.seen, pass.verdict) IN
    IF gate = "CreateCanary" /\ ready THEN "Canary"
    ELSE IF gate = "Unblock" /\ ready /\ ~AtBudget THEN "Generate"
    ELSE "Status"

\* Where it goes on, with the creations of the batch and the first index.
AfterInference(ready, broken) ==
    LET batch == IF Generation(ready) = "Generate" THEN Batch(pass.seen) ELSE 0 IN
    [pass EXCEPT !.ready = ready, !.broken = broken,
                 !.step = IF Generation(ready) = "Generate" /\ batch = 0
                          THEN "Status" ELSE Generation(ready),
                 !.left = batch,
                 !.next = NextIndex(pass.seen)]

\* The phase written at the end of the pass.
PhaseOf ==
    IF CanaryDead THEN "CanaryFailed"
    ELSE IF AtBudget THEN "Completed"
    ELSE IF pass.broken /\ Running(pass.seen) = {} /\ pass.made = 0
    THEN "InferenceFailed"
    ELSE "Running"

-----------------------------------------------------------------------------
(* The reconcile pass. *)

\* The list by label: everything the campaign created, and what it adopted.
List ==
    /\ pass.step = "Idle"
    /\ pass' = [NoPass EXCEPT
                  !.step = "Adopt",
                  !.seen = [e \in Names |-> IF e \in Hands \ adopted
                                            THEN "Absent" ELSE exps[e]],
                  !.verdict = verdict]
    /\ UNCHANGED <<spec, objects, backend, status>>

\* The list without selector, filtered by campaignRef: what it adds is labelled,
\* as far as the patches succeed, and counted in any case.
Adopt ==
    /\ pass.step = "Adopt"
    /\ LET seen == [e \in Names |-> IF pass.seen[e] = "Absent" THEN exps[e]
                                    ELSE pass.seen[e]] IN
       /\ pass' = [pass EXCEPT
                     !.seen = seen,
                     !.step = IF spec.canary /\ spec.gated
                                   /\ seen[Canary] = "Succeeded"
                              THEN "Bench" ELSE "Inference"]
       /\ \E stamped \in SUBSET {e \in Hands \ adopted : exps[e] # "Absent"} :
             adopted' = adopted \cup stamped
    /\ UNCHANGED <<spec, exps, verdict, bench, relaunched, backend, status>>

\* ensure_benchmark_run for the canary: a failed creation is only logged.
EnsureBenchmark ==
    /\ pass.step = "Bench"
    /\ \E ok \in BOOLEAN : bench' = (bench \/ ok)
    /\ pass' = [pass EXCEPT !.step = "Inference"]
    /\ UNCHANGED <<spec, exps, adopted, verdict, relaunched, backend, status>>

\* No backend is configured: nothing to wait for.
NoInference ==
    /\ pass.step = "Inference"
    /\ spec.backend = "None"
    /\ pass' = AfterInference(TRUE, FALSE)
    /\ UNCHANGED <<spec, objects, backend, status>>

\* teardown_mesh, teardown_vllm_cluster.
TearDown ==
    /\ pass.step = "Inference"
    /\ spec.backend # "None"
    /\ AllDone
    /\ inference' = "Absent"
    /\ pass' = AfterInference(TRUE, FALSE)
    /\ UNCHANGED <<spec, objects, upsets, status>>

\* ensure_mesh, ensure_vllm_cluster: created when it is absent, else looked at.
\* A failed RayJob is there, so it is not created again.
EnsureInference ==
    /\ pass.step = "Inference"
    /\ spec.backend # "None"
    /\ ~AllDone
    /\ inference' = IF inference = "Absent" THEN "Starting" ELSE inference
    /\ pass' = AfterInference(inference = "Ready", inference = "Failed")
    /\ UNCHANGED <<spec, objects, upsets, status>>

\* The creation of the canary: a conflict is ignored, another error logged.
CreateCanary ==
    /\ pass.step = "Canary"
    /\ \/ /\ exps[Canary] = "Absent"
          /\ exps' = [exps EXCEPT ![Canary] = "Live"]
          /\ pass' = [pass EXCEPT !.step = "Status", !.made = 1]
       \/ /\ pass' = [pass EXCEPT !.step = "Status"]
          /\ UNCHANGED exps
    /\ UNCHANGED <<spec, adopted, verdict, bench, relaunched, backend, status>>

\* On to the next index of the batch, or to the status.
Proceed(made) ==
    [pass EXCEPT !.left = @ - 1, !.next = @ + 1, !.made = @ + made,
                 !.step = IF pass.left > 1 THEN "Generate" ELSE "Status"]

Generate ==
    /\ pass.step = "Generate"
    /\ exps[pass.next] = "Absent"
    /\ exps' = [exps EXCEPT ![pass.next] = "Live"]
    /\ pass' = Proceed(1)
    /\ UNCHANGED <<spec, adopted, verdict, bench, relaunched, backend, status>>

\* The name is taken, or the API server refuses: logged, and on to the next.
GenerateFails ==
    /\ pass.step = "Generate"
    /\ pass' = Proceed(0)
    /\ UNCHANGED <<spec, objects, backend, status>>

WriteStatus ==
    /\ pass.step = "Status"
    /\ status' = [phase |-> PhaseOf]
    /\ pass' = NoPass
    /\ UNCHANGED <<spec, objects, backend>>

\* An API call fails, or the operator dies: the rest of the pass is lost.
Abort ==
    /\ pass.step # "Idle"
    /\ pass' = NoPass
    /\ UNCHANGED <<spec, objects, backend, status>>

PassStep ==
    \/ List
    \/ Adopt
    \/ EnsureBenchmark
    \/ NoInference
    \/ TearDown
    \/ EnsureInference
    \/ CreateCanary
    \/ Generate
    \/ GenerateFails
    \/ WriteStatus

-----------------------------------------------------------------------------
(* What happens around the pass. *)

\* What has gone out of the ordinary so far.
Troubles ==
    Cardinality({h \in Hands : exps[h] # "Absent"})
      + Cardinality(relaunched \cup {e \in Names : exps[e] = "Error"})
      + upsets

\* Someone writes an Experiment with this campaignRef and no label.
Submit(h) ==
    /\ exps[h] = "Absent"
    /\ Troubles < MaxTroubles
    /\ exps' = [exps EXCEPT ![h] = "Live"]
    /\ UNCHANGED <<spec, adopted, verdict, bench, relaunched, backend, status, pass>>

\* The Experiment controller closes the record (module Experiment).
Finish(e) ==
    /\ exps[e] = "Live"
    /\ \E outcome \in {"Succeeded", "Failed"} :
          exps' = [exps EXCEPT ![e] = outcome]
    /\ UNCHANGED <<spec, adopted, verdict, bench, relaunched, backend, status, pass>>

\* It finds the Job gone, and marks the Experiment in error ...
LoseJob(e) ==
    /\ exps[e] = "Live"
    /\ Troubles < MaxTroubles
    /\ exps' = [exps EXCEPT ![e] = "Error"]
    /\ UNCHANGED <<spec, adopted, verdict, bench, relaunched, backend, status, pass>>

\* ... and creates it again on its next pass; if that pass is cut off before it
\* says so, what the campaign sees next may be the outcome.
Relaunch(e) ==
    /\ exps[e] = "Error"
    /\ \E phase \in {"Live", "Succeeded", "Failed"} :
          exps' = [exps EXCEPT ![e] = phase]
    /\ relaunched' = relaunched \cup {e}
    /\ UNCHANGED <<spec, adopted, verdict, bench, backend, status, pass>>

\* The canary's BenchmarkRun, or a person, rules on it.
Rule ==
    /\ bench
    /\ exps[Canary] = "Succeeded"
    /\ verdict = "None"
    /\ verdict' \in {"Keep", "Discard"}
    /\ UNCHANGED <<spec, exps, adopted, bench, relaunched, backend, status, pass>>

InferenceUp ==
    /\ inference = "Starting"
    /\ inference' = "Ready"
    /\ UNCHANGED <<spec, objects, upsets, status, pass>>

\* The replica is lost and comes back by itself, or the RayJob fails for good.
InferenceDown ==
    /\ inference \in {"Starting", "Ready"}
    /\ Troubles < MaxTroubles
    /\ upsets' = upsets + 1
    /\ \/ inference' = "Starting"
       \/ spec.backend = "Cluster" /\ inference' = "Failed"
    /\ UNCHANGED <<spec, objects, status, pass>>

\* "Deleting the RayJob retries": done by hand.
DeleteRayJob ==
    /\ inference = "Failed"
    /\ inference' = "Absent"
    /\ UNCHANGED <<spec, objects, upsets, status, pass>>

Environment ==
    \/ \E h \in Hands : Submit(h)
    \/ \E e \in Names : Finish(e) \/ LoseJob(e) \/ Relaunch(e)
    \/ Rule
    \/ InferenceUp \/ InferenceDown \/ DeleteRayJob

Next == PassStep \/ Abort \/ Environment

Spec == Init /\ [][Next]_vars

\* The requeue keeps passes coming, and an API call that is tried again and
\* again succeeds in the end, or is answered with a conflict. Experiments end
\* (module Experiment: Settles), lost Jobs are run again, the backend comes up.
\* Nothing is assumed of the people who write Experiments, rule on canaries and
\* delete RayJobs.
FairSpec ==
    /\ Spec
    /\ WF_vars(List)
    /\ SF_vars(Adopt)
    /\ SF_vars(EnsureBenchmark)
    /\ SF_vars(NoInference \/ TearDown \/ EnsureInference)
    /\ SF_vars(CreateCanary /\ exps' # exps)
    /\ SF_vars(Generate)
    /\ SF_vars(GenerateFails /\ exps[pass.next] # "Absent")
    /\ SF_vars(WriteStatus)
    /\ \A e \in Names : WF_vars(Finish(e)) /\ WF_vars(Relaunch(e))
    /\ WF_vars(InferenceUp)

-----------------------------------------------------------------------------
(* Properties. *)

Generated == {s \in Slots : exps[s] # "Absent"}
LiveRuns == {e \in Slots \cup {Canary} : exps[e] = "Live"}

CanaryPassed ==
    exps[Canary] = "Succeeded" /\ (spec.gated => verdict = "Keep")

\* "While it hasn't passed, NOTHING else is generated": no pass, however old its
\* list, generates an Experiment of a canary campaign before the canary has
\* succeeded and, when a suite gates it, has been kept.
CanaryFirst == spec.canary /\ Generated # {} => CanaryPassed

\* The campaign never generates more than budget.maxExperiments Experiments,
\* whatever passes are cut off, creations fail, or Experiments written by hand.
WithinBudget == Cardinality(Generated) <= MaxExperiments

\* The campaign never has more than `concurrency` runs going, those aside that
\* were written off when their Job was lost and have come back since.
WithinConcurrency == Cardinality(LiveRuns \ relaunched) <= Concurrency

\* How many Experiments the budget has gone to.
Spent == Cardinality({e \in Slots \cup Hands : exps[e] # "Absent"})

\* "Hold experiment creation until it is Ready so the first prover Jobs don't
\* launch against a dead LLM_BASE_URL", and "tear down only once nothing is left
\* running": no run of the campaign lives without its mesh, those aside that were
\* written off (as above).
EndpointForAll ==
    spec.backend = "Mesh" /\ LiveRuns \ relaunched # {} => inference # "Absent"

\* So it is, but for a canary that is created when Experiments written by hand
\* have used up the budget already: that pass tears the mesh down, and takes it
\* for ready.
RunsHaveTheirEndpoint ==
    EndpointForAll \/ (exps[Canary] = "Live" /\ Spent >= MaxExperiments)

\* Completed is reported only when the whole budget has been spent on
\* Experiments other than the canary, the ones written by hand included.
CompletedIsSpent == status.phase = "Completed" => Spent >= MaxExperiments

\* The indices a pass would try next, with nothing running: they are counted from
\* the number of Experiments, the canary and those written by hand included.
NextIndices ==
    LET total == Cardinality({e \in Names : exps[e] # "Absent"})
        left == MaxExperiments - Spent
        batch == IF Concurrency <= left THEN Concurrency ELSE left
    IN  {total + i : i \in 0 .. batch - 1}

\* There is budget left, and every one of these indices is taken: whenever the
\* campaign comes back to them, their creation is refused.
Wedged == Spent < MaxExperiments /\ NextIndices \subseteq Generated

\* The campaign comes to its end: all runs over, the status says so, nothing left
\* of the backend. Otherwise a gated canary waits for its verdict, a failed
\* RayJob for its deletion, or the campaign is wedged by its own indices, which
\* takes a creation that failed in mid-batch or a list that missed an Experiment.
Ended ==
    /\ LiveRuns = {}
    /\ status.phase \in {"Completed", "CanaryFailed"}
    /\ inference = "Absent"
Waits ==
    \/ spec.canary /\ spec.gated /\ exps[Canary] = "Succeeded" /\ verdict = "None"
    \/ inference = "Failed"
    \/ Wedged
Completes == <>[](Ended \/ Waits)

=============================================================================
