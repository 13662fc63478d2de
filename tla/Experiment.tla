---------------------------- MODULE Experiment ----------------------------
(***************************************************************************)
(* The Experiment controller (athena/src/reconciler.rs): one Experiment,   *)
(* the Kubernetes Job it owns under a fixed name, the Job's pods, and the  *)
(* reconcile pass, which reads a cached copy of the Experiment, makes one  *)
(* API call per step, and may be cut off by an error after any of them.    *)
(* kube-rs never runs two passes for the same object at once.              *)
(***************************************************************************)
EXTENDS Naturals, FiniteSets

CONSTANTS
    Images,           \* the container images the RuntimeProfile may name
    NoImage,          \* status.environment.image absent
    Pods,             \* identities of the pods the Jobs may start
    Keys,             \* names of the metrics a pod may report
    Messages,         \* for each pod, the sets of metrics it may report
    NoMetrics,        \* a metric that is not in status.metrics
    MaxJobs,          \* bound: how many times the Job may be created
    BackoffLimit      \* backoffLimit of the Job

ASSUME ImagesAssumption == NoImage \notin Images
ASSUME PodsAssumption == NoMetrics \notin Pods
ASSUME MessagesAssumption == Messages \in [Pods -> SUBSET SUBSET Keys]
ASSUME BoundsAssumption ==
    /\ MaxJobs \in Nat
    /\ BackoffLimit \in Nat

VARIABLES
    exp,      \* the Experiment's status in the API server
    cache,    \* the controller's copy of it
    job,      \* the Job; its last incarnation once it is gone
    pods,     \* the pods, by identity
    pass,     \* the reconcile pass in progress
    decided   \* history: the Job whose verdict closed the record, 0 if none did

vars == <<exp, cache, job, pods, pass, decided>>
cluster == <<job, pods>>

Terminal == {"Succeeded", "Failed"}
\* "Pending" is the phase of an Experiment whose status is absent.
Phases == {"Pending", "Preparing", "Running", "Error"} \cup Terminal

\* The part of ExperimentStatus the controller acts on. `lost`: a condition
\* has the reason JobMissing. `stamped`: workspacePath and artifacts are set.
\* `metrics`: for each name the pod whose value is stored, since every pod
\* reports values of its own.
Metrics == [Keys -> Pods \cup {NoMetrics}]
NoneYet == [k \in Keys |-> NoMetrics]

Statuses == [phase : Phases, lost : BOOLEAN, stamped : BOOLEAN,
             image : Images \cup {NoImage}, metrics : Metrics]

NoStatus == [phase |-> "Pending", lost |-> FALSE, stamped |-> FALSE,
             image |-> NoImage, metrics |-> NoneYet]

Jobs == [exists : BOOLEAN, uid : Nat, image : Images \cup {NoImage},
         outcome : {"Open"} \cup Terminal]

PodStates == {"Absent", "Pending", "Unschedulable", "Running", "Succeeded",
              "Failed", "Disrupted", "Gone"}

\* `report`: the metrics of its termination message, none if it left no JSON.
PodRecords == [state : PodStates, uid : Nat, report : SUBSET Keys]

Steps == {"Idle", "Ensure", "Stamp", "GetJob", "ListPods"}

\* `fresh` is history: the copy the pass began with was the stored one.
Passes == [step : Steps, snap : Statuses, job : Jobs, active : BOOLEAN,
           fresh : BOOLEAN]

NoJob == [exists |-> FALSE, uid |-> 0, image |-> NoImage, outcome |-> "Open"]

NoPass == [step |-> "Idle", snap |-> NoStatus, job |-> NoJob, active |-> FALSE,
           fresh |-> TRUE]

TypeOK ==
    /\ exp \in Statuses
    /\ cache \in Statuses
    /\ job \in Jobs
    /\ pods \in [Pods -> PodRecords]
    /\ pass \in Passes
    /\ decided \in Nat

Init ==
    /\ exp = NoStatus
    /\ cache = NoStatus
    /\ job = NoJob
    /\ pods = [p \in Pods |-> [state |-> "Absent", uid |-> 0, report |-> {}]]
    /\ pass = NoPass
    /\ decided = 0

-----------------------------------------------------------------------------
(* The decisions of a pass. A definition marked Slip is a faulty variant of   *)
(* the one that follows it: with it in place the properties below fail.      *)

\* The metrics of `over` on top of those of `under`.
Overlay(under, over) ==
    [k \in Keys |-> IF over[k] = NoMetrics THEN under[k] ELSE over[k]]

\* patch_experiment_status: a JSON merge patch. Fields left None are skipped
\* when the patch is serialised, so the stored value survives; metrics are
\* merged name by name, so those the patch does not have survive too.
Merge(stored, patch) ==
    [phase |-> patch.phase,
     lost |-> patch.lost,
     stamped |-> stored.stamped \/ patch.stamped,
     image |-> IF patch.image = NoImage THEN stored.image ELSE patch.image,
     metrics |-> Overlay(stored.metrics, patch.metrics)]

\* Slip: an Experiment in error is written off, whatever the reason.
JobVanishedNever(s) == FALSE

\* job_vanished: `error` with the reason JobMissing.
JobVanished(s) == s.phase = "Error" /\ s.lost

\* should_ensure_job.
ShouldEnsureJob(s) == s.phase \in {"Pending", "Preparing"} \/ JobVanished(s)

\* Slip: without the early return, a record is reconciled like any Experiment.
IsRecordNever(s) == FALSE

\* The early return of reconcile_experiment_status.
IsRecord(s) == s.phase \in Terminal

\* Slip: pods are taken by the job-name label alone.
PodsForJobByName(j) == {p \in Pods : pods[p].state \notin {"Absent", "Gone"}}

\* pods_for_job: those of this incarnation, by the controller-uid label.
PodsForJob(j) ==
    {p \in Pods : pods[p].uid = j.uid /\ pods[p].state \notin {"Absent", "Gone"}}

LivePods(j) ==
    {p \in PodsForJob(j) :
        pods[p].state \in {"Pending", "Unschedulable", "Running"}}

\* Slip: a failed pod fails the Experiment while the Job still has retries left.
StatusWithoutRetries(j, active, listed) ==
    IF j.outcome = "Succeeded" THEN "Succeeded"
    ELSE IF \E p \in listed : pods[p].state = "Failed" THEN "Failed"
    ELSE "Running"

\* status_from_job_and_pods: the phase that a Job, as it was read with its
\* count of active pods, and the pods listed after it give.
StatusFromJobAndPods(j, active, listed) ==
    LET Some(state) == \E p \in listed : pods[p].state = state IN
    IF j.outcome = "Succeeded" THEN "Succeeded"
    ELSE IF j.outcome # "Failed" /\ Some("Disrupted") THEN "Running"
    ELSE IF j.outcome = "Failed" THEN "Failed"
    ELSE IF Some("Unschedulable") THEN "Preparing"
    ELSE IF Some("Running") \/ (active /\ ~Some("Pending")) THEN "Running"
    ELSE "Preparing"

\* The status written when the Job is not found: the copy the pass holds, as
\* error / JobMissing.
MarkLost(s) == [s EXCEPT !.phase = "Error", !.lost = TRUE]

\* termination_metrics_json over the pods in the order they are listed, which
\* the API server does not fix: any pod that ended with a JSON message.
Reports(listed) == {p \in listed : pods[p].report # {}}

\* merge_terminal_metrics: what a pod reports, on top of the copy's metrics.
Reported(p) == [k \in Keys |-> IF k \in pods[p].report THEN p ELSE NoMetrics]

\* The metrics a pass over these pods may send.
Readings(copy, listed) ==
    IF Reports(listed) = {} THEN {copy}
    ELSE {Overlay(copy, Reported(p)) : p \in Reports(listed)}

-----------------------------------------------------------------------------
(* The reconcile pass. *)

\* reconcile: dispatched with the cached object, on a watch event or the
\* requeue. A pass over a terminal record does nothing.
Begin ==
    /\ pass.step = "Idle"
    /\ ~IsRecord(cache)
    /\ pass' = [step |-> IF ShouldEnsureJob(cache) THEN "Ensure" ELSE "GetJob",
                snap |-> cache, job |-> NoJob, active |-> FALSE,
                fresh |-> cache = exp]
    /\ UNCHANGED <<exp, cache, cluster, decided>>

\* ensure_experiment_job, the Job is there: its status is not stamped again.
EnsureFindsJob ==
    /\ pass.step = "Ensure"
    /\ job.exists
    /\ pass' = [pass EXCEPT !.step = "GetJob"]
    /\ UNCHANGED <<exp, cache, cluster, decided>>

\* ensure_experiment_job, no Job: it is built from the RuntimeProfile, which
\* names some image at that time, and created.
EnsureCreatesJob ==
    /\ pass.step = "Ensure"
    /\ ~job.exists
    /\ job.uid < MaxJobs
    /\ \E image \in Images :
          job' = [exists |-> TRUE, uid |-> job.uid + 1, image |-> image,
                  outcome |-> "Open"]
    /\ pass' = [pass EXCEPT !.step = "Stamp", !.job = job']
    /\ UNCHANGED <<exp, cache, pods, decided>>

\* ensure_experiment_job, the patch that follows the creation.
StampStatus ==
    /\ pass.step = "Stamp"
    /\ exp' = Merge(exp, [phase |-> "Running", lost |-> FALSE, stamped |-> TRUE,
                          image |-> pass.job.image, metrics |-> NoneYet])
    /\ decided' = 0
    /\ pass' = [pass EXCEPT !.step = "GetJob"]
    /\ UNCHANGED <<cache, cluster>>

\* reconcile_experiment_status, the Job is not found: an Experiment that has a
\* status is marked error / JobMissing, with the rest of the copy sent back.
JobMissing ==
    /\ pass.step = "GetJob"
    /\ ~job.exists
    /\ IF pass.snap.phase = "Pending" THEN UNCHANGED <<exp, decided>>
       ELSE /\ exp' = Merge(exp, MarkLost(pass.snap))
            /\ decided' = 0
    /\ pass' = NoPass
    /\ UNCHANGED <<cache, cluster>>

GetJob ==
    /\ pass.step = "GetJob"
    /\ job.exists
    /\ pass' = [pass EXCEPT !.step = "ListPods", !.job = job,
                          !.active = LivePods(job) # {}]
    /\ UNCHANGED <<exp, cache, cluster, decided>>

\* The patch of reconcile_experiment_status: the verdict of the Job as it was
\* read and of the pods as they are listed now; every other field is the copy's.
Observe ==
    /\ pass.step = "ListPods"
    /\ LET listed == PodsForJob(pass.job) IN
       \E m \in Readings(pass.snap.metrics, listed) :
          exp' = Merge(exp, [pass.snap EXCEPT
                               !.phase = StatusFromJobAndPods(
                                             pass.job, pass.active, listed),
                               !.lost = FALSE,
                               !.metrics = m])
    /\ decided' = IF exp'.phase \in Terminal THEN pass.job.uid ELSE 0
    /\ pass' = NoPass
    /\ UNCHANGED <<cache, cluster>>

\* An API call fails, or the operator dies: the rest of the pass is lost.
Abort ==
    /\ pass.step # "Idle"
    /\ pass' = NoPass
    /\ UNCHANGED <<exp, cache, cluster, decided>>

\* The watch delivers the Experiment to the controller's store.
Sync ==
    /\ cache # exp
    /\ cache' = exp
    /\ UNCHANGED <<exp, cluster, pass, decided>>

PassStep ==
    \/ EnsureFindsJob
    \/ EnsureCreatesJob
    \/ StampStatus
    \/ JobMissing
    \/ GetJob
    \/ Observe

-----------------------------------------------------------------------------
(* The cluster: the Job controller and the nodes. *)

Failures(j) == Cardinality({p \in Pods : pods[p].uid = j.uid
                                /\ pods[p].state \in {"Failed", "Disrupted", "Gone"}})

StartPod(p) ==
    /\ pods[p].state = "Absent"
    /\ job.exists /\ job.outcome = "Open"
    /\ LivePods(job) = {}
    /\ ~\E q \in PodsForJob(job) : pods[q].state = "Succeeded"
    /\ Failures(job) <= BackoffLimit
    /\ \E s \in {"Pending", "Unschedulable"} :
          pods' = [pods EXCEPT ![p] = [state |-> s, uid |-> job.uid,
                                       report |-> {}]]
    /\ UNCHANGED <<exp, cache, job, pass, decided>>

RunPod(p) ==
    /\ pods[p].state \in {"Pending", "Unschedulable"}
    /\ pods' = [pods EXCEPT ![p].state = "Running"]
    /\ UNCHANGED <<exp, cache, job, pass, decided>>

\* The pod ends: by itself, by preemption or eviction, or without a trace when
\* its node goes. It may have left its JSON summary as termination message.
EndPod(p) ==
    /\ pods[p].state = "Running"
    /\ \/ \E s \in {"Succeeded", "Failed", "Disrupted"}, r \in Messages[p] :
             pods' = [pods EXCEPT ![p].state = s, ![p].report = r]
       \/ pods' = [pods EXCEPT ![p].state = "Gone"]
    /\ UNCHANGED <<exp, cache, job, pass, decided>>

\* The Job controller closes the Job: a pod succeeded, or the backoff limit or
\* activeDeadlineSeconds is exceeded, which ends the pods that are left.
FinishJob ==
    /\ job.exists /\ job.outcome = "Open"
    /\ \/ /\ \E p \in PodsForJob(job) : pods[p].state = "Succeeded"
          /\ job' = [job EXCEPT !.outcome = "Succeeded"]
          /\ UNCHANGED pods
       \/ /\ ~\E p \in PodsForJob(job) : pods[p].state = "Succeeded"
          /\ job' = [job EXCEPT !.outcome = "Failed"]
          /\ pods' = [p \in Pods |-> IF p \in LivePods(job)
                                     THEN [pods[p] EXCEPT !.state = "Failed"]
                                     ELSE pods[p]]
    /\ UNCHANGED <<exp, cache, pass, decided>>

\* The Job is deleted behind the operator's back, with the node or by hand;
\* some of its pods may be left behind.
LoseJob ==
    /\ job.exists
    /\ job.uid < MaxJobs
    /\ job' = [job EXCEPT !.exists = FALSE]
    /\ \E collected \in SUBSET PodsForJob(job) :
          pods' = [p \in Pods |-> IF p \in collected
                                  THEN [pods[p] EXCEPT !.state = "Gone",
                                                       !.report = {}]
                                  ELSE pods[p]]
    /\ UNCHANGED <<exp, cache, pass, decided>>

Environment ==
    \/ \E p \in Pods : StartPod(p) \/ RunPod(p) \/ EndPod(p)
    \/ FinishJob
    \/ LoseJob

Next == Begin \/ PassStep \/ Abort \/ Sync \/ Environment

Spec == Init /\ [][Next]_vars

\* The 30 s requeue and the retry of failed passes keep passes coming, and an
\* API call that is tried again and again succeeds in the end (strong
\* fairness, because Abort may come first any number of times). The watch
\* delivers, and a Job ends: it carries a deadline.
FairSpec ==
    /\ Spec
    /\ SF_vars(Begin)
    /\ SF_vars(EnsureFindsJob \/ EnsureCreatesJob)
    /\ SF_vars(StampStatus)
    /\ SF_vars(JobMissing \/ GetJob)
    /\ SF_vars(Observe)
    /\ WF_vars(Sync)
    /\ WF_vars(FinishJob)

-----------------------------------------------------------------------------
(* Properties. *)

\* An Experiment is reported Succeeded or Failed only with the outcome of a Job
\* created for it, and as long as no other Job was created since, that is still
\* the outcome of the Job in place: neither a preempted pod nor a Job read
\* halfway decides it, with fresh and with stale copies.
VerdictIsTheJobs ==
    exp.phase \in Terminal =>
        /\ decided \in 1 .. job.uid
        /\ job.uid = decided => job.outcome = exp.phase

\* "Terminal experiments are immutable records": a pass, however late, moves an
\* Experiment out of Succeeded or Failed only if it began with a copy that does
\* not have the verdict yet, and the Job that gave the verdict is gone.
TerminalIsFinal ==
    [][exp.phase \in Terminal /\ exp'.phase # exp.phase
         => ~pass.fresh /\ ~(job.exists /\ job.uid = decided)]_vars

\* The workspace and artifact addresses stamped when the Job is created survive
\* every later status patch, although most patches are built from a copy of the
\* Experiment that was taken before the stamp.
AddressesSurvive == [][exp.stamped => exp'.stamped]_vars

\* A metric that a pass changes comes from a pod of the Job incarnation that the
\* pass read, never from one a lost Job of the same name left behind; or it is
\* the value of the copy the pass began with, which is sent back.
MetricsAreTheJobs ==
    [][\A k \in Keys :
         exp'.metrics[k] \notin {exp.metrics[k], pass.snap.metrics[k]}
           => pods[exp'.metrics[k]].uid = pass.job.uid]_vars

\* Whatever is lost on the way (Jobs, pods, passes), the Experiment is decided
\* in the end, and stays so: a stale copy may open it again, but not for ever.
Settles == <>[](exp.phase \in Terminal)

\* The Experiment implements RunRecord.
Open(outcome) == IF outcome \in Terminal THEN outcome ELSE "Open"

Record == INSTANCE RunRecord
            WITH running <- job.outcome, record <- Open(exp.phase),
                 kept <- exp.phase \in Terminal /\ job.exists
                                              /\ job.uid = decided,
                 blind <- ~pass.fresh
ImplementsRunRecord == Record!Spec
=============================================================================
