----------------------------- MODULE Benchmark -----------------------------
(***************************************************************************)
(* The BenchmarkRun controller (athena/src/benchmark_reconciler.rs): one   *)
(* run, its Jobs (one per test, a task with a seed), and the Experiment it *)
(* promotes, which is the canary of a campaign that waits for the verdict. *)
(* A pass makes the missing Jobs, reads every Job and then its pods, judges *)
(* what it read, writes the verdict to the Experiment and last its status. *)
(***************************************************************************)
EXTENDS Integers, FiniteSets, FiniteSetsExt, Sequences

CONSTANTS
    Tasks,        \* the names a suite may give its tasks
    Seeds,        \* the seeds; 0 is the one used when nothing gives any
    Value,        \* what a report says of the metric, a function to Int
    LongTasks,    \* tasks whose Job has a name of more than 63 characters
    Setups,       \* the suites and runs considered
    MaxFaults,    \* bound: failed calls and restarts
    MaxMeddling   \* bound: what a person does to the run or the Experiment

Operators == {">=", ">", "<=", "<"}
Tests == Tasks \X Seeds

ASSUME SeedsAssumption == 0 \in Seeds /\ IsFiniteSet(Seeds)
ASSUME TasksAssumption == IsFiniteSet(Tasks) /\ LongTasks \subseteq Tasks
ASSUME ValueAssumption ==
    /\ Value \in [DOMAIN Value -> Int]
    /\ DOMAIN Value \cap {"Bare", "Mute", "Live", "Pending", "Preparing",
                          "Running", "Failed"} = {}
\* The suite: `tasks`, their `seeds`, the tasks that require the metric, the
\* gates on its mean, the `scale` that normalizes it. The run: the tasks it
\* selects by name and by label, its seed matrix, its retries, the promotion
\* policy, and whether its target is an Experiment. The profile: whether it has
\* a Kueue queue. `ttl`: finished Jobs are deleted. `refs`: all it names exists.
ASSUME SetupsAssumption ==
    Setups \subseteq
        [tasks : SUBSET Tasks, seeds : [Tasks -> SUBSET Seeds],
         required : SUBSET Tasks, gates : SUBSET [op : Operators, value : Int],
         scale : [multiply : Int, offset : Int],
         names : SUBSET Tasks, labelled : SUBSET Tasks, matrix : SUBSET Seeds,
         retries : Nat, promote : BOOLEAN, experiment : BOOLEAN,
         queue : BOOLEAN, claim : BOOLEAN, ttl : BOOLEAN, refs : BOOLEAN]
ASSUME BoundsAssumption == MaxFaults \in Nat /\ MaxMeddling \in Nat

VARIABLES
    setup,      \* the suite, the run's spec and the profile; nobody edits them
    claim,      \* the workspace claim exists
    run,        \* the BenchmarkRun: that it exists, spec.suspend
    status,     \* its status: the phase
    jobs,       \* the Jobs and the messages of their pods, in list order
    exp,        \* the Experiment: phase, decision, whose metrics it shows
    gate,       \* what the campaign's canary gate last said
    reported,   \* history: everything the pods of a test reported
    faults,     \* bound: faults so far
    meddling,   \* bound: what a person has done so far
    pass        \* the pass in progress

vars == <<setup, claim, run, status, jobs, exp, gate, reported, faults, meddling,
          pass>>
bounds == <<faults, meddling>>

\* "Bare": JSON without the metric; "Mute": no JSON.
Reports == DOMAIN Value \cup {"Bare"}
Messages == Reports \cup {"Mute"}
Phases == {"Pending", "Preparing", "Running", "Succeeded", "Failed", "Skipped"}
JobStates == {"Absent", "Suspended", "Waiting", "Running", "Complete", "Failed"}
Decisions == {"None", "Keep", "Discard", "NeedsReview"}

NoJob == [state |-> "Absent", pods |-> <<>>]

NoPass == [step |-> "Idle", todo |-> {}, job |-> "Absent", phase |-> "Pending",
           seen |-> <<>>]

\* What a pass concludes of a test: a report, when it succeeded.
Conclusions == Reports \cup {"Pending", "Preparing", "Running", "Failed"}

Passes == [step : {"Idle", "Ensure", "Job", "Pods", "Promote", "Write"},
           todo : SUBSET Tests, job : JobStates, phase : Phases,
           seen : UNION {[tests -> Conclusions] : tests \in SUBSET Tests}]

\* The types, with what the steps of a pass have left to do.
TypeOK ==
    /\ setup \in Setups
    /\ claim \in BOOLEAN
    /\ run \in [exists : BOOLEAN, suspend : BOOLEAN]
    /\ status \in Phases
    /\ jobs \in [Tests -> [state : JobStates, pods : Seq(Messages \cup {"Live"})]]
    /\ exp \in [phase : {"Running", "Succeeded", "Failed"}, decision : Decisions,
                metrics : {"Training", "Benchmark"}]
    /\ gate \in {"Hold", "Unblock", "CanaryFailed"}
    /\ reported \in [Tests -> SUBSET Reports]
    /\ faults \in Nat
    /\ meddling \in Nat
    /\ pass \in Passes
    /\ pass.step \in {"Job", "Pods"} => pass.todo # {}
    /\ pass.step = "Pods" => pass.job # "Absent"

Init ==
    /\ setup \in Setups
    /\ claim = FALSE
    /\ run = [exists |-> FALSE, suspend |-> FALSE]
    /\ status = "Pending"
    /\ jobs = [t \in Tests |-> NoJob]
    /\ exp = [phase |-> "Running", decision |-> "None", metrics |-> "Training"]
    /\ gate = "Hold"
    /\ reported = [t \in Tests |-> {}]
    /\ faults = 0
    /\ meddling = 0
    /\ pass = NoPass

-----------------------------------------------------------------------------
(* What a pass decides. A definition marked Slip is a faulty variant of the   *)
(* one that follows it.                                                      *)

\* selected_tasks.
Selected == {t \in setup.tasks :
                (setup.names = {} \/ t \in setup.names) /\ t \in setup.labelled}

\* seeds_for_task.
SeedsOf(task) == IF setup.matrix # {} THEN setup.matrix
                 ELSE IF setup.seeds[task] # {} THEN setup.seeds[task]
                 ELSE {0}

\* The tests of the run.
Chosen == {t \in Tests : t[1] \in Selected /\ t[2] \in SeedsOf(t[1])}

\* The pod at i is the first whose message reads as JSON.
Speaks(pods, i) ==
    pods[i] \in Reports /\ \A j \in 1..(i - 1) : pods[j] \notin Reports

\* build_job: a Job for a Kueue queue starts suspended.
NewJob == [state |-> IF setup.queue THEN "Suspended" ELSE "Waiting", pods |-> <<>>]

\* get_suite, get_profile, get_metric_sources, and the profile is a batch job's.
Resolved == setup.refs

\* ensure_workspace_claim.
Claimed == claim \/ setup.claim

\* termination_metrics_json over the pods.
Report(pods) ==
    IF \E i \in DOMAIN pods : Speaks(pods, i)
    THEN pods[CHOOSE i \in DOMAIN pods : Speaks(pods, i)]
    ELSE "Mute"

\* task_status.
TaskStatus(task, state, pods) ==
    LET report == Report(pods) IN
    IF state = "Failed" THEN "Failed"
    ELSE IF state # "Complete"
    THEN IF \E i \in DOMAIN pods : pods[i] = "Live" THEN "Running" ELSE "Preparing"
    ELSE IF report = "Mute" \/ (report = "Bare" /\ task \in setup.required)
    THEN "Failed"
    ELSE report

\* normalize_metrics: the metric, by the suite's source.
Number(suite, report) == Value[report] * suite.scale.multiply + suite.scale.offset

\* aggregate_metrics and evaluate_gates: the mean over the tests that succeeded
\* and gave the metric. Without one, no gate passes.
GatesPass(suite, tests, seen) ==
    LET known == {t \in tests : seen[t] \in DOMAIN Value}
        number(t) == Number(suite, seen[t])
        sum == MapThenSumSet(number, known)
        n == Cardinality(known)
    IN  \A g \in suite.gates :
            /\ known # {}
            /\ \/ g.op = ">=" /\ sum >= g.value * n
               \/ g.op = ">" /\ sum > g.value * n
               \/ g.op = "<=" /\ sum <= g.value * n
               \/ g.op = "<" /\ sum < g.value * n

\* Slip: a test that is not over does not hold the verdict back.
JudgeEarly(tests, seen) ==
    IF (\E t \in tests : seen[t] = "Failed") \/ ~GatesPass(setup, tests, seen) THEN "Failed"
    ELSE IF ~\E t \in tests : seen[t] \in Reports THEN "Preparing"
    ELSE "Succeeded"

\* The phase of the run, of what was concluded of every test.
Judge(tests, seen) ==
    IF (\E t \in tests : seen[t] = "Failed") \/ ~GatesPass(setup, tests, seen)
    THEN "Failed"
    ELSE IF \E t \in tests : seen[t] = "Running" THEN "Running"
    ELSE IF tests = {} \/ \E t \in tests : seen[t] \notin Reports THEN "Preparing"
    ELSE "Succeeded"

Promotes == setup.promote /\ setup.experiment

\* canary_gate, for a canary that a suite gates.
Gate(e) ==
    IF e.phase = "Failed" \/ (e.phase = "Succeeded" /\ e.decision = "Discard")
    THEN "CanaryFailed"
    ELSE IF e.phase = "Succeeded" /\ e.decision = "Keep" THEN "Unblock"
    ELSE "Hold"

-----------------------------------------------------------------------------
(* A pass of the controller, one action per call to the API server.          *)

BeginSuspended ==
    /\ pass.step = "Idle"
    /\ run.exists /\ run.suspend
    /\ status' = "Skipped"
    /\ UNCHANGED <<setup, claim, run, jobs, exp, gate, reported, bounds, pass>>

\* Slip: a run that reads Succeeded or Failed is taken for over.
BeginUnlessOver ==
    /\ pass.step = "Idle"
    /\ run.exists /\ ~run.suspend
    /\ status \notin {"Succeeded", "Failed"}
    /\ Resolved
    /\ claim' = Claimed
    /\ pass' = [NoPass EXCEPT !.step = "Ensure", !.todo = Chosen,
                               !.seen = [t \in Chosen |-> "Pending"]]
    /\ UNCHANGED <<setup, run, status, jobs, exp, gate, reported, bounds>>

\* The references are resolved and the claim is made.
Begin ==
    /\ pass.step = "Idle"
    /\ run.exists /\ ~run.suspend
    /\ Resolved
    /\ claim' = Claimed
    /\ pass' = [NoPass EXCEPT !.step = "Ensure", !.todo = Chosen,
                               !.seen = [t \in Chosen |-> "Pending"]]
    /\ UNCHANGED <<setup, run, status, jobs, exp, gate, reported, bounds>>

\* ensure_jobs for one test. The Job of a deleted run goes with its owner.
EnsureJob ==
    /\ pass.step = "Ensure"
    /\ pass.todo # {}
    /\ LET t == CHOOSE t \in pass.todo : TRUE IN
        /\ jobs[t].state = "Absent" => t[1] \notin LongTasks
        /\ jobs' = IF jobs[t].state = "Absent" /\ run.exists
                   THEN [jobs EXCEPT ![t] = NewJob] ELSE jobs
        /\ pass' = [pass EXCEPT !.todo = @ \ {t}]
    /\ UNCHANGED <<setup, claim, run, status, exp, gate, reported, bounds>>

\* Slip: the Experiment is told when the status already reads Succeeded.
JudgedAfterStatus(p) ==
    IF p.todo # {} THEN p
    ELSE LET phase == Judge(Chosen, p.seen) IN
         [p EXCEPT !.phase = phase,
                   !.step = IF phase = "Succeeded" /\ status = phase /\ Promotes
                            THEN "Promote" ELSE "Write"]

\* What is decided once every test has been looked at.
Judged(p) ==
    IF p.todo # {} THEN p
    ELSE LET phase == Judge(Chosen, p.seen) IN
         [p EXCEPT !.phase = phase,
                   !.step = IF phase = "Succeeded" /\ Promotes
                            THEN "Promote" ELSE "Write"]

Ensured ==
    /\ pass.step = "Ensure"
    /\ pass.todo = {}
    /\ pass' = Judged([pass EXCEPT !.step = "Job", !.todo = Chosen])
    /\ UNCHANGED <<setup, claim, run, status, jobs, exp, gate, reported, bounds>>

\* observed_status reads the Job of a test, then, in another call, its pods.
ReadJob ==
    /\ pass.step = "Job"
    /\ LET t == CHOOSE t \in pass.todo : TRUE IN
       pass' = IF jobs[t].state = "Absent"
               THEN Judged([pass EXCEPT !.todo = @ \ {t}])
               ELSE [pass EXCEPT !.step = "Pods", !.job = jobs[t].state]
    /\ UNCHANGED <<setup, claim, run, status, jobs, exp, gate, reported, bounds>>

ReadPods ==
    /\ pass.step = "Pods"
    /\ LET t == CHOOSE t \in pass.todo : TRUE IN
       pass' = Judged([pass EXCEPT
                    !.step = "Job", !.todo = @ \ {t},
                    !.seen[t] = TaskStatus(t[1], pass.job, jobs[t].pods)])
    /\ UNCHANGED <<setup, claim, run, status, jobs, exp, gate, reported, bounds>>

\* promote_experiment: the means take the place of the training metrics.
Promote ==
    /\ pass.step = "Promote"
    /\ exp' = [exp EXCEPT !.decision = "Keep", !.metrics = "Benchmark"]
    /\ pass' = [pass EXCEPT !.step = "Write"]
    /\ UNCHANGED <<setup, claim, run, status, jobs, gate, reported, bounds>>

Write ==
    /\ pass.step = "Write"
    /\ status' = IF run.exists THEN pass.phase ELSE status
    /\ pass' = NoPass
    /\ UNCHANGED <<setup, claim, run, jobs, exp, gate, reported, bounds>>

\* A call fails, or the operator is restarted: the pass is dropped.
Abort ==
    /\ pass.step # "Idle"
    /\ faults < MaxFaults
    /\ faults' = faults + 1
    /\ pass' = NoPass
    /\ UNCHANGED <<setup, claim, run, status, jobs, exp, gate, reported, meddling>>

\* The API server refuses a Job with a long name, time and again.
Refused ==
    /\ pass.step = "Ensure"
    /\ pass.todo # {}
    /\ LET t == CHOOSE t \in pass.todo : TRUE IN
       jobs[t].state = "Absent" /\ t[1] \in LongTasks
    /\ pass' = NoPass
    /\ UNCHANGED <<setup, claim, run, status, jobs, exp, gate, reported, bounds>>

Reconcile == \/ BeginSuspended \/ Begin \/ EnsureJob \/ Ensured \/ ReadJob
             \/ ReadPods \/ Promote \/ Write \/ Refused

-----------------------------------------------------------------------------
(* The Jobs, the Experiment, the campaign and people.                        *)

\* Kueue admits a Job.
Admit(t) ==
    /\ jobs[t].state = "Suspended"
    /\ jobs' = [jobs EXCEPT ![t].state = "Waiting"]
    /\ UNCHANGED <<setup, claim, run, status, exp, gate, reported, bounds, pass>>

\* A pod is listed by its name, which has a random end: before or after the
\* pods of earlier attempts.
Start(t) ==
    /\ jobs[t].state = "Waiting"
    /\ claim
    /\ \E pods \in {<<"Live">> \o jobs[t].pods, Append(jobs[t].pods, "Live")} :
        jobs' = [jobs EXCEPT ![t] = [state |-> "Running", pods |-> pods]]
    /\ UNCHANGED <<setup, claim, run, status, exp, gate, reported, bounds, pass>>

\* The pod ends with message m, as a success or as a failure.
End(t, m) ==
    /\ jobs[t].state = "Running"
    /\ LET pods == [i \in DOMAIN jobs[t].pods |->
                        IF jobs[t].pods[i] = "Live" THEN m ELSE jobs[t].pods[i]]
           failed == IF Len(pods) > setup.retries THEN "Failed" ELSE "Waiting"
       IN  \E state \in {"Complete", failed} :
           jobs' = [jobs EXCEPT ![t] = [state |-> state, pods |-> pods]]
    /\ reported' = [reported EXCEPT ![t] = @ \cup ({m} \cap Reports)]
    /\ UNCHANGED <<setup, claim, run, status, exp, gate, bounds, pass>>

\* ttlSecondsAfterFinished: a finished Job is deleted, with its pods, and the next
\* pass makes it again.
Expire(t) ==
    /\ setup.ttl
    /\ jobs[t].state \in {"Complete", "Failed"}
    /\ jobs' = [jobs EXCEPT ![t] = NoJob]
    /\ UNCHANGED <<setup, claim, run, status, exp, gate, reported, bounds, pass>>

Train ==
    /\ exp.phase = "Running"
    /\ \E phase \in {"Succeeded", "Failed"} : exp' = [exp EXCEPT !.phase = phase]
    /\ UNCHANGED <<setup, claim, run, status, jobs, gate, reported, bounds, pass>>

\* The campaign makes the run of a canary that succeeded, with
\* ensure_benchmark_run, whose creation may fail, and asks the gate.
Campaign ==
    /\ run' \in {run} \cup (IF exp.phase = "Succeeded"
                            THEN {[run EXCEPT !.exists = TRUE]} ELSE {})
    /\ gate' = Gate(exp)
    /\ <<run', gate'>> # <<run, gate>>
    /\ UNCHANGED <<setup, claim, status, jobs, exp, reported, bounds, pass>>

\* A person suspends, resumes or deletes the run, or rules on the Experiment.
Meddle ==
    /\ meddling < MaxMeddling
    /\ meddling' = meddling + 1
    /\ \/ /\ run.exists
          /\ run' = [run EXCEPT !.suspend = ~@]
          /\ UNCHANGED <<status, jobs, exp>>
       \/ /\ run.exists
          /\ run' = [exists |-> FALSE, suspend |-> FALSE]
          /\ status' = "Pending"
          /\ jobs' = [t \in Tests |-> NoJob]
          /\ UNCHANGED exp
       \/ /\ exp.phase = "Succeeded"
          /\ \E d \in {"NeedsReview", "Discard"} : exp' = [exp EXCEPT !.decision = d]
          /\ UNCHANGED <<run, status, jobs>>
    /\ UNCHANGED <<setup, claim, gate, reported, faults, pass>>

World == \E t \in Tests : Admit(t) \/ Start(t) \/ \E m \in Messages : End(t, m)

Next == \/ Reconcile \/ Abort \/ World \/ Train \/ Campaign \/ Meddle
        \/ \E t \in Tests : Expire(t)

Spec == Init /\ [][Next]_vars

\* A run is requeued after every pass. Nothing is assumed of its Jobs: they carry no
\* deadline, and what a TTL deletes it deletes again.
FairSpec == Spec /\ WF_vars(Reconcile)

-----------------------------------------------------------------------------
(* Properties.                                                               *)

\* The refinement: a Keep rests on a report of every test of the run, and these
\* pass every gate (promote_experiment, on what observed_status read).
V == INSTANCE Verdict WITH Rules <- Setups, rules <- setup, required <- Chosen,
                           decision <- exp.decision, Passes <- GatesPass

ImplementsVerdict == V!Spec

\* A run that reads Succeeded has told its Experiment: the promotion precedes
\* the status, so that a pass cut off between the two is made again (97-103).
VerdictDelivered ==
    status = "Succeeded" /\ Promotes => exp.metrics = "Benchmark"

\* The run is wanted, and everything it needs is there.
Wanted == run.exists /\ ~run.suspend /\ Resolved /\ Selected \cap LongTasks = {}

Over == \A t \in Chosen : jobs[t].state \in {"Complete", "Failed"}

\* The phase says what the Jobs have come to.
Decided ==
    status = Judge(Chosen, [t \in Tests |->
                       TaskStatus(t[1], jobs[t].state, jobs[t].pods)])

\* Whatever passes are cut off, and whatever the status said before: when the Jobs
\* are over, it comes to say what they came to, unless one is deleted first (the
\* requeue of 106).
Settles == Wanted /\ Over ~> Decided \/ ~Over \/ ~Wanted

=============================================================================
