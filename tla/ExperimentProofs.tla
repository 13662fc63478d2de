-------------------------- MODULE ExperimentProofs --------------------------
(***************************************************************************)
(* Proofs about Experiment for every number of pods, images and Jobs, and  *)
(* about Workload for any Experiments, profiles, inputs and bounds.        *)
(***************************************************************************)
EXTENDS Experiment, Workload, SequenceTheorems, TLAPS

USE ImagesAssumption, PodsAssumption, MessagesAssumption, BoundsAssumption

-----------------------------------------------------------------------------
(* What the decisions of a pass return. *)

\* A merge gives a status, with the phase of the patch, and loses no stamp.
LEMMA MergeType ==
    ASSUME NEW s \in Statuses, NEW t \in Statuses
    PROVE  /\ Merge(s, t) \in Statuses
           /\ Merge(s, t).phase = t.phase
           /\ s.stamped => Merge(s, t).stamped
  BY DEF Merge, Overlay, Statuses, Metrics

\* The verdict of a pass is a phase; a terminal one is the outcome of the Job
\* read, and such an outcome is the verdict.
LEMMA VerdictType ==
    ASSUME NEW j, NEW active, NEW listed
    PROVE  /\ StatusFromJobAndPods(j, active, listed) \in Phases
           /\ StatusFromJobAndPods(j, active, listed) \in Terminal
                => j.outcome = StatusFromJobAndPods(j, active, listed)
           /\ j.outcome \in Terminal
                => StatusFromJobAndPods(j, active, listed) = j.outcome
  BY DEF StatusFromJobAndPods, Phases, Terminal

-----------------------------------------------------------------------------
(* Type correctness. *)

\* An Experiment without a status is of the right type.
THEOREM InitType == Init => TypeOK
  <1> SUFFICES ASSUME Init PROVE TypeOK
    OBVIOUS
  <1>1. NoStatus \in Statuses
    BY DEF NoStatus, NoneYet, Statuses, Metrics, Phases
  <1>2. NoPass \in Passes
    BY <1>1 DEF NoPass, NoJob, Jobs, Passes, Steps
  <1>3. QED
    BY <1>1, <1>2 DEF Init, TypeOK, NoJob, Jobs, PodRecords, PodStates

\* No pass is of the type of a pass.
LEMMA NoPassType == NoPass \in Passes
  BY DEF NoPass, NoStatus, NoneYet, NoJob, Passes, Steps, Statuses, Metrics,
         Phases, Jobs

\* The patch a pass writes over a Job it has read is a status.
LEMMA ObserveType ==
    ASSUME TypeOK, Observe
    PROVE  exp' \in Statuses
  <1>1. PICK m \in Readings(pass.snap.metrics, PodsForJob(pass.job)) :
          exp' = Merge(exp, [pass.snap EXCEPT
                   !.phase = StatusFromJobAndPods(pass.job, pass.active,
                                                  PodsForJob(pass.job)),
                   !.lost = FALSE,
                   !.metrics = m])
    BY DEF Observe
  <1>2. m \in Metrics
    <2>1. pass.snap.metrics \in Metrics
      BY DEF TypeOK, Passes, Statuses
    <2>2. ASSUME NEW p \in Pods PROVE Overlay(pass.snap.metrics, Reported(p)) \in Metrics
      BY <2>1 DEF Overlay, Reported, Metrics
    <2>3. QED
      BY <1>1, <2>1, <2>2 DEF Readings, Reports, PodsForJob
  <1>3. StatusFromJobAndPods(pass.job, pass.active, PodsForJob(pass.job)) \in Phases
    BY VerdictType
  <1>4. [pass.snap EXCEPT
           !.phase = StatusFromJobAndPods(pass.job, pass.active,
                                          PodsForJob(pass.job)),
           !.lost = FALSE,
           !.metrics = m] \in Statuses
    BY <1>2, <1>3 DEF TypeOK, Passes, Statuses
  <1>5. QED
    BY <1>1, <1>4, MergeType DEF TypeOK

\* Every step of the controller and of the cluster keeps the types.
LEMMA NextType == TypeOK /\ [Next]_vars => TypeOK'
  <1> SUFFICES ASSUME TypeOK, [Next]_vars PROVE TypeOK'
    OBVIOUS
  <1>1. CASE Begin
    <2>1. (cache = exp) \in BOOLEAN
      OBVIOUS
    <2>2. QED
      BY <1>1, <2>1 DEF Begin, TypeOK, cluster, Passes, Steps, NoJob, Jobs
  <1>2. CASE EnsureFindsJob
    BY <1>2 DEF EnsureFindsJob, TypeOK, cluster, Passes, Steps
  <1>3. CASE EnsureCreatesJob
    <2>1. job' \in Jobs
      BY <1>3 DEF EnsureCreatesJob, TypeOK, Jobs
    <2>2. pass' \in Passes
      BY <1>3, <2>1 DEF EnsureCreatesJob, TypeOK, Passes, Steps
    <2>3. QED
      BY <1>3, <2>1, <2>2 DEF EnsureCreatesJob, TypeOK
  <1>4. CASE StampStatus
    <2>1. [phase |-> "Running", lost |-> FALSE, stamped |-> TRUE,
           image |-> pass.job.image, metrics |-> NoneYet] \in Statuses
      BY DEF TypeOK, Passes, Jobs, Statuses, Metrics, NoneYet, Phases
    <2>2. exp' \in Statuses
      BY <1>4, <2>1, MergeType DEF StampStatus, TypeOK
    <2>3. QED
      BY <1>4, <2>2 DEF StampStatus, TypeOK, cluster, Passes, Steps
  <1>5. CASE JobMissing
    <2>1. MarkLost(pass.snap) \in Statuses
      BY DEF TypeOK, Passes, MarkLost, Statuses, Phases
    <2>2. exp' \in Statuses
      BY <1>5, <2>1, MergeType DEF JobMissing, TypeOK
    <2>3. QED
      BY <1>5, <2>2, NoPassType DEF JobMissing, TypeOK, cluster
  <1>6. CASE GetJob
    BY <1>6 DEF GetJob, TypeOK, cluster, Passes, Steps
  <1>7. CASE Observe
    <2>1. exp' \in Statuses
      BY <1>7, ObserveType
    <2>2. QED
      BY <1>7, <2>1, NoPassType DEF Observe, TypeOK, cluster, Passes, Jobs
  <1>8. CASE Abort
    BY <1>8, NoPassType DEF Abort, TypeOK, cluster
  <1>9. CASE Sync
    BY <1>9 DEF Sync, TypeOK, cluster
  <1>10. CASE Environment
    <2>1. ASSUME NEW p \in Pods, StartPod(p) PROVE TypeOK'
      BY <2>1 DEF StartPod, TypeOK, PodRecords, PodStates, Jobs
    <2>2. ASSUME NEW p \in Pods, RunPod(p) PROVE TypeOK'
      BY <2>2 DEF RunPod, TypeOK, PodRecords, PodStates
    <2>3. ASSUME NEW p \in Pods, EndPod(p) PROVE TypeOK'
      BY <2>3 DEF EndPod, TypeOK, PodRecords, PodStates
    <2>4. CASE FinishJob
      BY <2>4 DEF FinishJob, TypeOK, Jobs, Terminal, PodRecords, PodStates
    <2>5. CASE LoseJob
      <3>1. job' \in Jobs
        BY <2>5 DEF LoseJob, TypeOK, Jobs
      <3>2. PICK collected \in SUBSET PodsForJob(job) :
              pods' = [p \in Pods |-> IF p \in collected
                                      THEN [pods[p] EXCEPT !.state = "Gone",
                                                           !.report = {}]
                                      ELSE pods[p]]
        BY <2>5 DEF LoseJob
      <3>3. \A p \in Pods : [pods[p] EXCEPT !.state = "Gone",
                                       !.report = {}] \in PodRecords
        <4>1. ASSUME NEW p \in Pods
              PROVE  [pods[p] EXCEPT !.state = "Gone"] \in PodRecords
          BY DEF TypeOK, PodRecords, PodStates
        <4>2. ASSUME NEW q \in PodRecords
              PROVE  [q EXCEPT !.report = {}] \in PodRecords
          BY DEF PodRecords
        <4>3. QED
          BY <4>1, <4>2
      <3>4. pods' \in [Pods -> PodRecords]
        BY <3>2, <3>3 DEF TypeOK
      <3>5. QED
        BY <2>5, <3>1, <3>4 DEF LoseJob, TypeOK
    <2>6. QED
      BY <1>10, <2>1, <2>2, <2>3, <2>4, <2>5 DEF Environment
  <1>11. CASE UNCHANGED vars
    BY <1>11 DEF vars, TypeOK
  <1>12. QED
    BY <1>1, <1>2, <1>3, <1>4, <1>5, <1>6, <1>7, <1>8, <1>9, <1>10, <1>11
       DEF Next, PassStep

\* Every variable keeps its type, with fresh and with stale copies.
THEOREM TypeCorrect == Spec => []TypeOK
  BY InitType, NextType, PTL DEF Spec

-----------------------------------------------------------------------------
(* The verdict. A pass that began with a fresh copy is over an open record,   *)
(* because no other pass writes; one that began with a stale copy may be over *)
(* a closed one, but finds the Job that closed it as it was, or not at all.   *)

FreshOverOpen == pass.step # "Idle" /\ pass.fresh => exp.phase \notin Terminal

\* A Job that exists was created, and the Job a pass has read is the last one.
ReadsTheLastJob ==
    /\ job.exists => job.uid > 0
    /\ pass.step = "ListPods" =>
         /\ pass.job.uid = job.uid /\ job.uid > 0
         /\ pass.job.outcome \in {"Open", job.outcome}

\* Over a closed record, a pass stamps only a Job made since, and has read the
\* Job that closed it after it had ended.
SeesTheVerdict ==
    exp.phase \in Terminal =>
        /\ pass.step = "Stamp" => job.uid # decided
        /\ pass.step = "ListPods" /\ pass.job.uid = decided
             => pass.job.outcome = exp.phase

IInv ==
    /\ TypeOK
    /\ VerdictIsTheJobs
    /\ FreshOverOpen
    /\ ReadsTheLastJob
    /\ SeesTheVerdict

\* The Job whose verdict closed the record is there.
Kept == exp.phase \in Terminal /\ job.exists /\ job.uid = decided

\* The invariant holds before the first pass.
LEMMA InitInv == Init => IInv
  BY InitType DEF IInv, Init, VerdictIsTheJobs, FreshOverOpen, SeesTheVerdict,
                  ReadsTheLastJob, NoStatus, NoPass, NoJob, Terminal

\* What the patch of a pass over the Job does to the phase.
LEMMA ObservePhase ==
    ASSUME TypeOK, Observe
    PROVE  exp'.phase = StatusFromJobAndPods(pass.job, pass.active,
                                             PodsForJob(pass.job))
  BY DEF Observe, Merge, TypeOK, Passes, Statuses

\* A pass that has read the Job writes that Job's verdict, if it writes one, and the
\* recorded one again if the record was closed with it.
LEMMA ObserveVerdict ==
    ASSUME IInv, Observe
    PROVE  /\ exp'.phase \in Terminal =>
                 job.outcome = exp'.phase /\ decided' = job.uid
           /\ Kept => exp'.phase = exp.phase /\ decided' = decided
           /\ job.uid > 0
  <1>1. TypeOK /\ pass.step = "ListPods"
    BY DEF IInv, Observe
  <1>2. /\ pass.job.uid = job.uid /\ job.uid > 0
        /\ pass.job.outcome \in {"Open", job.outcome}
    BY <1>1 DEF IInv, ReadsTheLastJob
  <1>3. exp'.phase \in Terminal =>
          job.outcome = exp'.phase /\ decided' = job.uid
    <2>1. exp'.phase \in Terminal => pass.job.outcome = exp'.phase
      BY <1>1, ObservePhase, VerdictType
    <2>2. QED
      BY <1>2, <2>1 DEF Observe, Terminal
  <1>4. Kept => exp'.phase = exp.phase /\ decided' = decided
    <2> SUFFICES ASSUME Kept PROVE exp'.phase = exp.phase /\ decided' = decided
      OBVIOUS
    <2>1. pass.job.outcome = exp.phase
      BY <1>1, <1>2 DEF IInv, SeesTheVerdict, Kept
    <2>2. exp'.phase = exp.phase
      BY <1>1, <2>1, ObservePhase, VerdictType DEF Kept
    <2>3. QED
      BY <1>2, <2>2 DEF Observe, Kept
  <1>5. QED
    BY <1>2, <1>3, <1>4

\* Every step keeps the invariant.
LEMMA NextInv ==
    ASSUME IInv, [Next]_vars
    PROVE  IInv'
  <1> USE DEF VerdictIsTheJobs, FreshOverOpen, ReadsTheLastJob, SeesTheVerdict
  <1>0. TypeOK /\ TypeOK'
    BY NextType DEF IInv
  <1>1. CASE Begin
    BY <1>0, <1>1 DEF Begin, IInv, IsRecord, cluster
  <1>2. CASE EnsureFindsJob
    BY <1>0, <1>2 DEF EnsureFindsJob, IInv, cluster, TypeOK, Passes
  <1>3. CASE EnsureCreatesJob
    BY <1>0, <1>3 DEF EnsureCreatesJob, IInv, TypeOK, Passes, Jobs
  <1>4. CASE StampStatus
    BY <1>0, <1>4 DEF StampStatus, IInv, cluster, Merge, Terminal, TypeOK, Passes
  <1>5. CASE JobMissing
    <2>1. CASE UNCHANGED <<exp, decided>>
      BY <1>0, <1>5, <2>1 DEF JobMissing, IInv, cluster, NoPass
    <2>2. CASE exp' = Merge(exp, MarkLost(pass.snap))
      <3>1. exp'.phase \notin Terminal
        BY <1>0, <2>2 DEF Merge, MarkLost, Terminal, TypeOK, Passes, Statuses
      <3>2. QED
        BY <1>0, <1>5, <3>1 DEF JobMissing, IInv, cluster, NoPass
    <2>3. QED
      BY <1>5, <2>1, <2>2 DEF JobMissing
  <1>6. CASE GetJob
    BY <1>0, <1>6 DEF GetJob, IInv, cluster, TypeOK, Passes, Jobs
  <1>7. CASE Observe
    <2>1. /\ UNCHANGED job /\ pass'.step = "Idle"
          /\ job.uid \in Nat /\ job.uid > 0
      BY <1>0, <1>7, ObserveVerdict DEF Observe, cluster, NoPass, TypeOK, Jobs
    <2>2. VerdictIsTheJobs'
      BY <1>7, <2>1, ObserveVerdict
    <2>3. QED
      BY <1>0, <2>1, <2>2 DEF IInv
  <1>8. CASE Abort
    BY <1>0, <1>8 DEF Abort, IInv, cluster, NoPass
  <1>9. CASE Sync
    BY <1>0, <1>9 DEF Sync, IInv, cluster
  <1>10. CASE Environment
    <2>1. ASSUME NEW p \in Pods, StartPod(p) \/ RunPod(p) \/ EndPod(p)
          PROVE  UNCHANGED <<exp, job, pass, decided>>
      BY <2>1 DEF StartPod, RunPod, EndPod
    <2>2. CASE FinishJob
      BY <1>0, <2>2 DEF FinishJob, IInv, Terminal, TypeOK, Jobs
    <2>3. CASE LoseJob
      BY <1>0, <2>3 DEF LoseJob, IInv, TypeOK, Jobs
    <2>4. QED
      BY <1>0, <1>10, <2>1, <2>2, <2>3 DEF Environment, IInv
  <1>11. CASE UNCHANGED vars
    BY <1>0, <1>11 DEF vars, IInv
  <1>12. QED
    BY <1>1, <1>2, <1>3, <1>4, <1>5, <1>6, <1>7, <1>8, <1>9, <1>10, <1>11
       DEF Next, PassStep

\* The invariant holds, with fresh and with stale copies.
LEMMA InvCorrect == Spec => []IInv
  <1>1. IInv /\ [Next]_vars => IInv'
    BY NextInv
  <1>2. QED
    BY InitInv, <1>1, PTL DEF Spec

\* An Experiment is reported Succeeded or Failed only with the outcome of a Job
\* created for it, which it keeps in common with the Job in place.
THEOREM VerdictCorrect == Spec => []VerdictIsTheJobs
  <1>1. IInv => VerdictIsTheJobs
    BY DEF IInv
  <1>2. QED
    BY InvCorrect, <1>1, PTL

\* Only a pass with a stale copy touches a closed record, and not while its Job is
\* there.
LEMMA RecordKept ==
    ASSUME IInv, [Next]_vars, exp.phase \in Terminal, exp'.phase # exp.phase
    PROVE  ~pass.fresh /\ ~(job.exists /\ job.uid = decided)
  <1>1. pass.step # "Idle" => ~pass.fresh
    BY DEF IInv, FreshOverOpen
  <1>2. CASE StampStatus
    BY <1>1, <1>2 DEF StampStatus, IInv, SeesTheVerdict
  <1>3. CASE JobMissing
    BY <1>1, <1>3 DEF JobMissing
  <1>4. CASE Observe
    BY <1>1, <1>4, ObserveVerdict DEF Observe, Kept
  <1>5. CASE ~(StampStatus \/ JobMissing \/ Observe)
    BY <1>5 DEF Next, PassStep, Environment, Begin, EnsureFindsJob,
                EnsureCreatesJob, GetJob, Abort, Sync, StartPod, RunPod,
                EndPod, FinishJob, LoseJob, vars
  <1>6. QED
    BY <1>2, <1>3, <1>4, <1>5

\* Terminal Experiments are immutable records, but for passes that began with a
\* copy from before the verdict and find its Job gone.
THEOREM TerminalStays == Spec => TerminalIsFinal
  <1>1. IInv /\ [Next]_vars
          => [exp.phase \in Terminal /\ exp'.phase # exp.phase
                => ~pass.fresh /\ ~(job.exists /\ job.uid = decided)]_vars
    BY RecordKept
  <1>2. QED
    BY InvCorrect, <1>1, PTL DEF Spec, TerminalIsFinal

-----------------------------------------------------------------------------
(* The stamped addresses: kept by the merge, whatever copy a pass holds.     *)

\* No step takes the stamped addresses away.
LEMMA StampKept ==
    ASSUME TypeOK, [Next]_vars, exp.stamped
    PROVE  exp'.stamped
  <1>1. \A patch : Merge(exp, patch).stamped
    BY DEF Merge
  <1>2. exp' = exp \/ \E patch : exp' = Merge(exp, patch)
    <2>1. CASE StampStatus
      BY <2>1 DEF StampStatus
    <2>2. CASE JobMissing
      BY <2>2 DEF JobMissing
    <2>3. CASE Observe
      BY <2>3 DEF Observe
    <2>4. CASE ~(StampStatus \/ JobMissing \/ Observe)
      BY <2>4 DEF Next, PassStep, Environment, Begin, EnsureFindsJob,
                  EnsureCreatesJob, GetJob, Abort, Sync, StartPod, RunPod,
                  EndPod, FinishJob, LoseJob, vars
    <2>5. QED
      BY <2>1, <2>2, <2>3, <2>4
  <1>3. QED
    BY <1>1, <1>2

\* The addresses survive every status patch, with stale copies too.
THEOREM AddressesStay == Spec => AddressesSurvive
  <1>1. TypeOK /\ [Next]_vars => [exp.stamped => exp'.stamped]_vars
    BY StampKept
  <1>2. QED
    BY TypeCorrect, <1>1, PTL DEF Spec, AddressesSurvive

-----------------------------------------------------------------------------
(* The metrics: for each name, a pass writes what its copy has, or what a pod *)
(* of the Job it has read reports.                                            *)

\* A metric that a step changes is that of the copy, or of a pod of that Job.
LEMMA MetricsKept ==
    ASSUME TypeOK, [Next]_vars, NEW k \in Keys,
           exp'.metrics[k] # exp.metrics[k], exp'.metrics[k] # pass.snap.metrics[k]
    PROVE  pods[exp'.metrics[k]].uid = pass.job.uid
  <1>1. ASSUME NEW patch, exp' = Merge(exp, patch)
        PROVE  exp'.metrics[k] = patch.metrics[k] /\ patch.metrics[k] # NoMetrics
    BY <1>1 DEF Merge, Overlay
  <1>2. CASE StampStatus
    BY <1>2 DEF StampStatus, Merge, Overlay, NoneYet
  <1>3. CASE JobMissing
    <2>1. exp' = Merge(exp, MarkLost(pass.snap))
      BY <1>3 DEF JobMissing
    <2>2. MarkLost(pass.snap).metrics = pass.snap.metrics
      BY DEF MarkLost, TypeOK, Passes, Statuses
    <2>3. QED
      BY <1>1, <2>1, <2>2
  <1>4. CASE Observe
    <2> DEFINE listed == PodsForJob(pass.job)
               patch(m) == [pass.snap EXCEPT
                              !.phase = StatusFromJobAndPods(pass.job, pass.active,
                                                             listed),
                              !.lost = FALSE,
                              !.metrics = m]
    <2>1. PICK m \in Readings(pass.snap.metrics, listed) : exp' = Merge(exp, patch(m))
      BY <1>4 DEF Observe
    <2>2. patch(m).metrics = m
      BY DEF TypeOK, Passes, Statuses
    <2>3. exp'.metrics[k] = m[k]
      BY <1>1, <2>1, <2>2
    <2>4. m # pass.snap.metrics
      BY <2>3
    <2>5. PICK p \in Reports(listed) : m = Overlay(pass.snap.metrics, Reported(p))
      BY <2>1, <2>4 DEF Readings
    <2>6. m[k] = p
      BY <2>3, <2>5 DEF Overlay, Reported
    <2>7. QED
      BY <2>3, <2>5, <2>6 DEF Reports, PodsForJob
  <1>5. CASE ~(StampStatus \/ JobMissing \/ Observe)
    BY <1>5 DEF Next, PassStep, Environment, Begin, EnsureFindsJob,
                EnsureCreatesJob, GetJob, Abort, Sync, StartPod, RunPod,
                EndPod, FinishJob, LoseJob, vars
  <1>6. QED
    BY <1>2, <1>3, <1>4, <1>5

\* A metric that changes comes from a pod of the incarnation of the Job that the
\* pass read, or from the pass's copy, and never from a pod that a lost Job left.
THEOREM MetricsHold == Spec => MetricsAreTheJobs
  <1>1. TypeOK /\ [Next]_vars
          => [\A k \in Keys :
                exp'.metrics[k] \notin {exp.metrics[k], pass.snap.metrics[k]}
                  => pods[exp'.metrics[k]].uid = pass.job.uid]_vars
    BY MetricsKept
  <1>2. QED
    BY TypeCorrect, <1>1, PTL DEF Spec, MetricsAreTheJobs

-----------------------------------------------------------------------------
(* The refinement of RunRecord.                                              *)

\* An Experiment without a status is an open record with no outcome.
LEMMA InitRefines == Init => Record!Init
  BY DEF Init, Record!Init, NoJob, NoStatus, NoPass, Open, Terminal

\* Every step is one of RunRecord, or changes nothing of it.
LEMMA NextRefines ==
    ASSUME IInv, [Next]_vars
    PROVE  [Record!Next]_(Record!vars)
  <1> DEFINE blind == ~pass.fresh
             closed == exp.phase \in Terminal
  <1> USE DEF Record!vars, Open
  <1>0. TypeOK /\ TypeOK' /\ IInv'
    BY NextType, NextInv DEF IInv
  <1>1. pass.step # "Idle" /\ ~Kept => Open(exp.phase) = "Open" \/ (blind /\ ~Kept)
    BY DEF IInv, FreshOverOpen
  <1>2. CASE Begin \/ Abort
    <2>1. UNCHANGED <<exp, job, decided>>
      BY <1>2 DEF Begin, Abort, cluster
    <2>2. (~pass.fresh)' \in BOOLEAN
      OBVIOUS
    <2>3. QED
      BY <2>1, <2>2 DEF Record!Next, Record!Look
  <1>3. CASE EnsureCreatesJob
    <2>1. exp' = exp /\ decided' = decided /\ ~job.exists /\ pass.step # "Idle"
      BY <1>3 DEF EnsureCreatesJob
    <2>2. job'.outcome = "Open" /\ job'.uid = job.uid + 1 /\ pass'.fresh = pass.fresh
      BY <1>0, <1>3 DEF EnsureCreatesJob, TypeOK, Passes
    <2>3. closed => job'.uid # decided
      BY <1>0, <2>2 DEF IInv, VerdictIsTheJobs, TypeOK, Jobs
    <2>4. CASE job.outcome = "Open"
      BY <2>1, <2>2, <2>3, <2>4
    <2>5. CASE job.outcome # "Open"
      BY <1>1, <2>1, <2>2, <2>3, <2>5
         DEF Record!Next, Record!Relaunch, Record!MayChange, Kept
    <2>6. QED
      BY <2>4, <2>5
  <1>4. CASE StampStatus
    <2>1. exp'.phase \notin Terminal /\ UNCHANGED job /\ pass.step # "Idle"
      BY <1>4 DEF StampStatus, Merge, Terminal, cluster
    <2>2. ~Kept
      BY <1>4 DEF StampStatus, IInv, SeesTheVerdict, Kept
    <2>3. (~pass.fresh)' \in BOOLEAN
      OBVIOUS
    <2>4. QED
      BY <1>1, <2>1, <2>2, <2>3
         DEF Record!Next, Record!Reopen, Record!MayChange, Kept
  <1>5. CASE JobMissing
    <2>1. UNCHANGED job /\ ~Kept /\ pass.step # "Idle"
      BY <1>5 DEF JobMissing, cluster, Kept
    <2>2. (~pass.fresh)' \in BOOLEAN
      OBVIOUS
    <2>3. CASE UNCHANGED <<exp, decided>>
      BY <2>1, <2>2, <2>3 DEF Record!Next, Record!Look
    <2>4. CASE exp' = Merge(exp, MarkLost(pass.snap))
      <3>1. exp'.phase \notin Terminal
        BY <1>0, <2>4 DEF Merge, MarkLost, Terminal, TypeOK, Passes, Statuses
      <3>2. QED
        BY <1>1, <2>1, <2>2, <3>1
           DEF Record!Next, Record!Reopen, Record!MayChange, Kept
    <2>5. QED
      BY <1>5, <2>3, <2>4 DEF JobMissing
  <1>6. CASE Observe
    <2>1. UNCHANGED job /\ pass.step # "Idle"
      BY <1>6 DEF Observe, cluster
    <2>2. (~pass.fresh)' \in BOOLEAN
      OBVIOUS
    <2>3. CASE Kept
      BY <1>6, <2>1, <2>2, <2>3, ObserveVerdict DEF Record!Next, Record!Look, Kept
    <2>4. CASE ~Kept /\ exp'.phase \in Terminal
      <3>1. job.outcome = exp'.phase
        BY <1>6, <2>4, ObserveVerdict
      <3>2. QED
        BY <1>1, <2>1, <2>2, <2>4, <3>1
           DEF Record!Next, Record!Close, Record!MayChange, Record!Outcomes,
               Kept, Terminal
    <2>5. CASE ~Kept /\ exp'.phase \notin Terminal
      BY <1>1, <2>1, <2>2, <2>5
         DEF Record!Next, Record!Reopen, Record!MayChange, Kept
    <2>6. QED
      BY <2>3, <2>4, <2>5
  <1>7. CASE FinishJob
    <2>1. /\ job.outcome = "Open" /\ job'.outcome \in Terminal
          /\ job'.uid = job.uid /\ job'.exists = job.exists
          /\ UNCHANGED <<exp, pass, decided>>
      BY <1>0, <1>7 DEF FinishJob, TypeOK, Jobs, Terminal
    <2>2. QED
      BY <2>1 DEF Record!Next, Record!Finish, Record!Outcomes, Terminal
  <1>8. CASE LoseJob
    <2>1. /\ job'.outcome = job.outcome /\ job'.uid = job.uid /\ ~job'.exists
          /\ UNCHANGED <<exp, pass, decided>>
      BY <1>0, <1>8 DEF LoseJob, TypeOK, Jobs
    <2>2. QED
      BY <2>1 DEF Record!Next, Record!Lose
  <1>9. CASE ~(Begin \/ Abort \/ EnsureCreatesJob \/ StampStatus \/ JobMissing
                 \/ Observe \/ FinishJob \/ LoseJob)
    <2>1. UNCHANGED <<exp, job, decided>> /\ pass'.fresh = pass.fresh
      BY <1>0, <1>9 DEF Next, PassStep, Environment, EnsureFindsJob, GetJob,
                        Sync, StartPod, RunPod, EndPod, vars, cluster, TypeOK,
                        Passes
    <2>2. QED
      BY <2>1
  <1>10. QED
    BY <1>2, <1>3, <1>4, <1>5, <1>6, <1>7, <1>8, <1>9

\* The Experiment controller implements RunRecord: a record is closed with the
\* outcome of the Job in place, and touched again only by a pass that has not seen
\* it closed, once that Job is gone.
THEOREM Refines == Spec => ImplementsRunRecord
  <1>1. IInv /\ [Next]_vars => [Record!Next]_(Record!vars)
    BY NextRefines
  <1>2. QED
    BY InitRefines, <1>1, InvCorrect, PTL DEF Spec, ImplementsRunRecord, Record!Spec

-----------------------------------------------------------------------------
(* What runs for the Experiments: Workload, for any Experiments, profiles and *)
(* inputs, and any number of passes cut off, pods killed and Jobs deleted.    *)

\* The bounds are numbers.
LEMMA WorkBounds == MaxFaults \in Nat /\ MaxKills \in Nat /\ MaxLost \in Nat
  BY WorkBoundsAssumption

\* A duration gives whole seconds.
LEMMA DeadlineType ==
    ASSUME WorkTypeOK, NEW e \in Exps
    PROVE  Deadline(e) \in Nat /\ profile.ttl * 60 + 900 \in Nat
  <1>1. /\ input[e].deadline \in Durations
        /\ profile.deadline \in Durations
        /\ profile.ttl \in Nat
    BY ProfilesAssumption, InputsAssumption DEF WorkTypeOK
  <1>2. ASSUME NEW d \in Durations PROVE ParseGoDuration(d) \in Nat
    BY DEF ParseGoDuration, Durations
  <1>3. QED
    BY <1>1, <1>2 DEF Deadline, DefaultSeconds

\* Where a run finds a variable: one that the operator does not set comes from the
\* Experiment, if that sets it.
LEMMA EnvLayers ==
    ASSUME NEW e \in Exps
    PROVE  /\ Env(e) \in [Names -> Sources]
           /\ "Url" \in input[e].env => Env(e)["Url"] = "experiment"
  <1> DEFINE own(n) == WithProfile(n)
             layers(n) == IF n \notin input[e].env THEN own(n)
                          ELSE IF own(n) = <<>> THEN <<"experiment">>
                          ELSE [own(n) EXCEPT ![1] = "experiment"]
             found(n) == IF layers(n) = <<>> THEN "none" ELSE layers(n)[Len(layers(n))]
  <1>1. Env(e) = [n \in Names |-> found(n)]
    BY DEF Env
  <1>2. own("Url") = IF "Url" \in profile.env THEN <<"profile">> ELSE <<>>
    <2>1. <<>> \in Seq({"profile"}) /\ <<"profile">> \in Seq({"profile"})
      OBVIOUS
    <2>2. <<>> \o <<>> = <<>> /\ <<>> \o <<"profile">> = <<"profile">>
      BY <2>1, ConcatEmptySeq
    <2>3. QED
      BY <2>2 DEF WithProfile, Operator
  <1>3. own("Own") \in Seq(Sources)
    <2>1. /\ <<"operator">> \in Seq(Sources)
          /\ <<"profile">> \in Seq(Sources)
          /\ <<>> \in Seq(Sources)
      BY DEF Sources
    <2>2. QED
      BY <2>1 DEF WithProfile, Operator
  <1> HIDE DEF own
  <1>4. "Url" \in input[e].env => layers("Url") = <<"experiment">>
    BY <1>2
  <1>5. found("Url") \in Sources
    BY <1>2 DEF Sources
  <1>6. found("Own") \in Sources
    <2>1. <<"experiment">> \in Seq(Sources) /\ "experiment" \in Sources
      BY DEF Sources
    <2>2. own("Own") # <<>> => [own("Own") EXCEPT ![1] = "experiment"] \in Seq(Sources)
      BY <1>3, <2>1
    <2>3. layers("Own") \in Seq(Sources)
      BY <1>3, <2>1, <2>2
    <2>4. QED
      BY <2>3 DEF Sources
  <1>7. QED
    BY <1>1, <1>4, <1>5, <1>6 DEF Names

\* A launcher that has not started its task, or is still to be made.
Unstarted(j) ==
    \/ j.state = "Absent"
    \/ j.script = "Start" /\ j.state \in {"Waiting", "Running"}

\* A Job is made where there is none; a launcher is never retried; and as long as the
\* task may still be started, it was started for Jobs that were lost, and no others.
LaunchInv ==
    \A e \in Exps :
        /\ passes[e] # "Idle" => jobs[e].state = "Absent"
        /\ jobs[e].waits => jobs[e].state # "Absent"
        /\ jobs[e].state # "Absent" => (profile.sky <=> jobs[e].script # "None")
        /\ jobs[e].script # "None" => jobs[e].retries = 0
        /\ profile.sky => jobs[e].state # "Hung"
        /\ starts[e] <= 1 + lost[e]
        /\ Unstarted(jobs[e]) => starts[e] <= lost[e]

WorkInv == WorkTypeOK /\ OverridesWin /\ LaunchInv

\* It holds before anything runs.
LEMMA WorkStarts == WorkInit => WorkInv
  <1> SUFFICES ASSUME WorkInit PROVE WorkInv
    OBVIOUS
  <1>1. /\ NoWorkJob \in WorkJobs /\ NoWorkJob.state = "Absent"
        /\ NoWorkJob.script = "None" /\ ~NoWorkJob.waits
    BY DEF NoWorkJob, WorkJobs, Sources
  <1>2. /\ faults \in 0 .. MaxFaults /\ kills \in 0 .. MaxKills
        /\ lost \in [Exps -> 0 .. MaxLost]
    BY WorkBounds DEF WorkInit
  <1>3. WorkTypeOK
    BY <1>1, <1>2 DEF WorkInit, WorkTypeOK
  <1>4. QED
    BY <1>1, <1>3 DEF WorkInit, WorkInv, OverridesWin, LaunchInv

\* Either Job that is built has the environment of its Experiment.
LEMMA JobBuilt ==
    ASSUME WorkTypeOK, NEW e \in Exps,
           NEW j \in {Launcher(e), DirectJob(e)}
    PROVE  /\ j \in WorkJobs
           /\ "Url" \in input[e].env => j.env["Url"] = "experiment"
  <1>1. profile.queued \in BOOLEAN /\ profile.gpu \in BOOLEAN
    BY ProfilesAssumption DEF WorkTypeOK
  <1>2. /\ Env(e) \in [Names -> Sources]
        /\ "Url" \in input[e].env => Env(e)["Url"] = "experiment"
    BY EnvLayers
  <1>3. Deadline(e) \in Nat /\ profile.ttl * 60 + 900 \in Nat
    BY DeadlineType
  <1>4. CASE j = Launcher(e)
    BY <1>1, <1>2, <1>3, <1>4 DEF Launcher, WorkJobs
  <1>5. CASE j = DirectJob(e)
    BY <1>1, <1>2, <1>3, <1>5 DEF DirectJob, WorkJobs
  <1>6. QED
    BY <1>4, <1>5

\* The Job of one Experiment changes.
LEMMA JobBecomes ==
    ASSUME WorkInv, NEW e \in Exps, NEW j \in WorkJobs, Becomes(e, j),
           UNCHANGED <<profile, input>>,
           j.state # "Absent" /\ "Url" \in input[e].env => j.env["Url"] = "experiment"
    PROVE  /\ jobs' \in [Exps -> WorkJobs]
           /\ OverridesWin'
           /\ \A x \in Exps : jobs'[x] = IF x = e THEN j ELSE jobs[x]
  <1>1. jobs' = [jobs EXCEPT ![e] = j] /\ jobs \in [Exps -> WorkJobs]
    BY DEF WorkInv, WorkTypeOK, Becomes
  <1>2. \A x \in Exps : jobs'[x] = IF x = e THEN j ELSE jobs[x]
    BY <1>1
  <1>3. OverridesWin'
    BY <1>2 DEF WorkInv, OverridesWin
  <1>4. QED
    BY <1>1, <1>2, <1>3

\* A step that neither makes, loses nor starts anything, and leaves no launcher
\* that may start the task where there was none.
LEMMA JobGoesOn ==
    ASSUME WorkInv, NEW e \in Exps, NEW j \in WorkJobs, Becomes(e, j),
           jobs[e].state # "Absent", j.state # "Absent", j.env = jobs[e].env,
           j.script = "None" <=> jobs[e].script = "None",
           j.script # "None" => j.retries = 0,
           profile.sky => j.state # "Hung",
           Unstarted(j) => Unstarted(jobs[e]),
           UNCHANGED <<profile, input, claim, starts, passes, faults, lost>>,
           cloud' \in [Exps -> {"Down", "Busy", "Idle"}],
           abandoned' \in [Exps -> BOOLEAN], kills' \in 0 .. MaxKills
    PROVE  WorkInv'
  <1>1. j.state # "Absent" /\ "Url" \in input[e].env => j.env["Url"] = "experiment"
    BY DEF WorkInv, OverridesWin
  <1>2. /\ jobs' \in [Exps -> WorkJobs] /\ OverridesWin'
        /\ \A x \in Exps : jobs'[x] = IF x = e THEN j ELSE jobs[x]
    BY <1>1, JobBecomes
  <1>3. WorkTypeOK'
    BY <1>2 DEF WorkInv, WorkTypeOK
  <1>4. LaunchInv'
    <2>1. LaunchInv
      BY DEF WorkInv
    <2>2. \A x \in Exps : x # e => jobs'[x] = jobs[x]
      BY <1>2
    <2>3. jobs'[e] = j
      BY <1>2
    <2>4. QED
      BY <2>1, <2>2, <2>3 DEF LaunchInv
  <1>5. QED
    BY <1>2, <1>3, <1>4 DEF WorkInv

\* A Job under way is taken away, and starts over or is gone.
LEMMA JobTaken ==
    ASSUME WorkInv, NEW e \in Exps, NEW j \in WorkJobs, Lose(e), Becomes(e, j),
           j.state # "Absent" /\ "Url" \in input[e].env => j.env["Url"] = "experiment",
           j.waits => j.state # "Absent",
           j.state # "Absent" => (profile.sky <=> j.script # "None"),
           j.script # "None" => j.retries = 0,
           j.state # "Hung"
    PROVE  WorkInv'
  <1>1. /\ jobs[e].state # "Absent" /\ Abandon(e)
        /\ lost' = [lost EXCEPT ![e] = @ + 1] /\ lost[e] < MaxLost
        /\ UNCHANGED <<profile, input, claim, cloud, starts, passes, faults, kills>>
    BY DEF Lose, given
  <1>2. WorkTypeOK /\ LaunchInv /\ MaxLost \in Nat
    BY WorkBounds DEF WorkInv
  <1>3. /\ jobs' \in [Exps -> WorkJobs] /\ OverridesWin'
        /\ \A x \in Exps : jobs'[x] = IF x = e THEN j ELSE jobs[x]
    BY <1>1, JobBecomes
  <1>4. /\ lost' \in [Exps -> 0 .. MaxLost]
        /\ lost'[e] = lost[e] + 1
        /\ \A x \in Exps : x # e => lost'[x] = lost[x] /\ jobs'[x] = jobs[x]
        /\ jobs'[e] = j
    BY <1>1, <1>2, <1>3 DEF WorkTypeOK
  <1>5. WorkTypeOK'
    BY <1>1, <1>2, <1>3, <1>4 DEF WorkTypeOK, Abandon
  <1>6. lost \in [Exps -> Nat] /\ starts \in [Exps -> Nat]
    BY <1>2 DEF WorkTypeOK
  <1>7. LaunchInv'
    BY <1>1, <1>2, <1>4, <1>6 DEF LaunchInv
  <1>8. QED
    BY <1>3, <1>5, <1>7 DEF WorkInv

\* Every step of a pass, of the cluster and of a burst keeps the invariant.
LEMMA WorkStep ==
    ASSUME WorkInv, [WorkNext]_workVars
    PROVE  WorkInv'
  <1> USE DEF WorkInv, given, burst, counts
  <1>0. /\ WorkTypeOK /\ OverridesWin /\ LaunchInv
        /\ MaxFaults \in Nat /\ MaxKills \in Nat /\ MaxLost \in Nat
    BY WorkBounds
  <1>1. CASE ProvideClaim
    BY <1>0, <1>1 DEF ProvideClaim, WorkTypeOK, OverridesWin, LaunchInv
  <1>2. ASSUME NEW e \in Exps,
               WorkBegin(e) \/ FindClaim(e) \/ MakeClaim(e) \/ RenderFails(e)
                 \/ WorkAbort(e)
        PROVE  WorkInv'
    <2>1. claim' \in BOOLEAN
      BY <1>0, <1>2
         DEF WorkBegin, FindClaim, MakeClaim, RenderFails, WorkAbort, WorkTypeOK
    <2>2. faults' \in 0 .. MaxFaults
      BY <1>0, <1>2
         DEF WorkBegin, FindClaim, MakeClaim, RenderFails, WorkAbort, WorkTypeOK
    <2>3. UNCHANGED <<profile, input, jobs, cloud, starts, abandoned, kills, lost>>
      BY <1>2 DEF WorkBegin, FindClaim, MakeClaim, RenderFails, WorkAbort
    <2>4. PICK step \in {"Idle", "FindClaim", "MakeClaim", "MakeJob"} :
              passes' = [passes EXCEPT ![e] = step]
      BY <1>2 DEF WorkBegin, FindClaim, MakeClaim, RenderFails, WorkAbort, To
    <2>5. jobs[e].state = "Absent"
      BY <1>0, <1>2
         DEF WorkBegin, FindClaim, MakeClaim, RenderFails, WorkAbort, LaunchInv
    <2>6. QED
      BY <1>0, <2>1, <2>2, <2>3, <2>4, <2>5
         DEF WorkTypeOK, OverridesWin, LaunchInv
  <1>3. ASSUME NEW e \in Exps, MakeJob(e) PROVE WorkInv'
    <2> DEFINE j == IF profile.sky THEN Launcher(e) ELSE DirectJob(e)
    <2>1. j \in {Launcher(e), DirectJob(e)}
      OBVIOUS
    <2>2. /\ j.state = "Waiting"
          /\ profile.sky <=> j.script # "None"
          /\ j.script # "None" => j.retries = 0
      BY DEF Launcher, DirectJob
    <2>3. /\ Becomes(e, j) /\ To(e, "Idle") /\ passes[e] = "MakeJob"
          /\ UNCHANGED <<profile, input, claim, cloud, starts, abandoned, faults,
               kills, lost>>
      BY <1>3 DEF MakeJob, Becomes
    <2>4. /\ j \in WorkJobs
          /\ "Url" \in input[e].env => j.env["Url"] = "experiment"
      BY <1>0, <2>1, JobBuilt
    <2> HIDE DEF j
    <2>5. /\ jobs' \in [Exps -> WorkJobs] /\ OverridesWin'
          /\ \A x \in Exps : jobs'[x] = IF x = e THEN j ELSE jobs[x]
      BY <2>3, <2>4, JobBecomes
    <2>6. WorkTypeOK'
      BY <1>0, <2>3, <2>5 DEF WorkTypeOK, To
    <2>7. LaunchInv'
      <3>1. /\ \A x \in Exps : x # e => jobs'[x] = jobs[x] /\ passes'[x] = passes[x]
            /\ jobs'[e] = j /\ passes'[e] = "Idle"
        BY <1>0, <2>3, <2>5 DEF WorkTypeOK, To
      <3>2. jobs[e].state = "Absent"
        BY <1>0, <2>3 DEF LaunchInv
      <3>3. Unstarted(jobs[e])
        BY <3>2 DEF Unstarted
      <3>4. QED
        BY <1>0, <2>2, <2>3, <3>1, <3>3 DEF LaunchInv
    <2>8. QED
      BY <2>5, <2>6, <2>7
  <1>4. ASSUME NEW e \in Exps,
               Admit(e) \/ PodStarts(e) \/ Train(e) \/ DeadlinePasses(e)
                 \/ LaunchReturns(e) \/ Timeout(e) \/ SkyDown(e)
        PROVE  WorkInv'
    <2>1. jobs[e].state # "Absent"
      BY <1>0, <1>4 DEF Admit, PodStarts, Train, DeadlinePasses, LaunchReturns, Timeout,
                        SkyDown, At, LaunchInv
    <2>2. /\ jobs[e] \in WorkJobs
          /\ profile.sky <=> jobs[e].script # "None"
          /\ jobs[e].script # "None" => jobs[e].retries = 0
          /\ profile.sky => jobs[e].state # "Hung"
          /\ kills \in 0 .. MaxKills
          /\ cloud \in [Exps -> {"Down", "Busy", "Idle"}]
          /\ abandoned \in [Exps -> BOOLEAN]
      BY <1>0, <2>1 DEF LaunchInv, WorkTypeOK
    <2>3. CASE Admit(e)
      BY <2>1, <2>2, <2>3, JobGoesOn DEF Admit, WorkJobs, Unstarted
    <2>4. CASE PodStarts(e)
      BY <2>1, <2>2, <2>4, JobGoesOn DEF PodStarts, WorkJobs, Unstarted
    <2>5. CASE Train(e)
      BY <2>1, <2>2, <2>5, JobGoesOn DEF Train, WorkJobs, Unstarted
    <2>6. CASE DeadlinePasses(e)
      BY <2>1, <2>2, <2>6, JobGoesOn
         DEF DeadlinePasses, Abandon, WorkJobs, Unstarted
    <2>7. CASE LaunchReturns(e)
      BY <2>1, <2>2, <2>7, JobGoesOn
         DEF LaunchReturns, At, WorkJobs, Unstarted
    <2>8. CASE Timeout(e)
      BY <2>1, <2>2, <2>8, JobGoesOn DEF Timeout, At, WorkJobs, Unstarted
    <2>9. CASE SkyDown(e)
      <3> DEFINE j == [jobs[e] EXCEPT !.state = "Done"]
      <3>1. /\ j \in WorkJobs /\ j.state = "Done" /\ j.env = jobs[e].env
            /\ j.script = jobs[e].script /\ j.retries = jobs[e].retries
            /\ ~Unstarted(j)
        BY <2>2 DEF WorkJobs, Unstarted
      <3>2. /\ Becomes(e, j)
            /\ UNCHANGED <<profile, input, claim, starts, passes, faults, kills, lost>>
        BY <2>9 DEF SkyDown
      <3> HIDE DEF j
      <3>3. /\ cloud' \in [Exps -> {"Down", "Busy", "Idle"}]
            /\ abandoned' \in [Exps -> BOOLEAN]
        BY <2>2, <2>9 DEF SkyDown, Abandon
      <3>4. QED
        BY <2>1, <2>2, <3>1, <3>2, <3>3, JobGoesOn
    <2>10. QED
      BY <1>4, <2>3, <2>4, <2>5, <2>6, <2>7, <2>8, <2>9
  <1>5. ASSUME NEW e \in Exps, KillPod(e) PROVE WorkInv'
    <2> DEFINE j == IF jobs[e].retries = 0 THEN [jobs[e] EXCEPT !.state = "Done"]
                    ELSE [jobs[e] EXCEPT !.state = "Waiting", !.retries = @ - 1,
                                         !.script = IF profile.sky THEN "Start"
                                                    ELSE "None"]
    <2>1. /\ jobs[e].state # "Absent"
          /\ jobs[e] \in WorkJobs
          /\ profile.sky <=> jobs[e].script # "None"
          /\ jobs[e].script # "None" => jobs[e].retries = 0
          /\ profile.sky => jobs[e].state # "Hung"
      BY <1>0, <1>5 DEF KillPod, LaunchInv, WorkTypeOK
    <2>2. j \in WorkJobs /\ j.env = jobs[e].env /\ j.state \in {"Done", "Waiting"}
      <3>1. CASE jobs[e].retries = 0
        BY <2>1, <3>1 DEF WorkJobs
      <3>2. CASE jobs[e].retries # 0
        <4>1. jobs[e].retries - 1 \in 0 .. 3
          BY <2>1, <3>2 DEF WorkJobs
        <4>2. QED
          BY <2>1, <3>2, <4>1 DEF WorkJobs
      <3>3. QED
        BY <3>1, <3>2
    <2>3. /\ j.script = jobs[e].script
          /\ j.script # "None" => j.retries = 0
          /\ Unstarted(j) => Unstarted(jobs[e])
      BY <2>1 DEF WorkJobs, Unstarted
    <2>4. /\ Becomes(e, j) /\ Abandon(e)
          /\ kills' = kills + 1 /\ kills < MaxKills
          /\ UNCHANGED <<profile, input, claim, cloud, starts, passes, faults, lost>>
      BY <1>5 DEF KillPod
    <2> HIDE DEF j
    <2>5. /\ kills' \in 0 .. MaxKills
          /\ cloud' \in [Exps -> {"Down", "Busy", "Idle"}]
          /\ abandoned' \in [Exps -> BOOLEAN]
      BY <1>0, <2>4 DEF WorkTypeOK, Abandon
    <2>6. QED
      BY <2>1, <2>2, <2>3, <2>4, <2>5, JobGoesOn
  <1>6. ASSUME NEW e \in Exps, DeleteJob(e) PROVE WorkInv'
    <2>1. /\ NoWorkJob \in WorkJobs /\ NoWorkJob.state = "Absent"
          /\ NoWorkJob.script = "None" /\ ~NoWorkJob.waits
      BY DEF NoWorkJob, WorkJobs, Sources
    <2>2. QED
      BY <1>6, <2>1, JobTaken DEF DeleteJob
  <1>7. ASSUME NEW e \in Exps, Preempt(e) PROVE WorkInv'
    <2> DEFINE j == [jobs[e] EXCEPT !.state = "Waiting", !.waits = TRUE,
                                    !.script = IF profile.sky THEN "Start"
                                               ELSE "None"]
    <2>1. /\ jobs[e].state # "Absent"
          /\ jobs[e] \in WorkJobs
          /\ profile.sky <=> jobs[e].script # "None"
          /\ jobs[e].script # "None" => jobs[e].retries = 0
      BY <1>0, <1>7 DEF Preempt, Lose, LaunchInv, WorkTypeOK
    <2>2. j \in WorkJobs /\ j.env = jobs[e].env /\ j.state = "Waiting"
      BY <2>1 DEF WorkJobs
    <2>3. /\ j.script = "None" <=> jobs[e].script = "None"
          /\ j.script # "None" => j.retries = 0
      BY <2>1 DEF WorkJobs
    <2>4. Lose(e) /\ Becomes(e, j)
      BY <1>7 DEF Preempt
    <2> HIDE DEF j
    <2>5. /\ "Url" \in input[e].env => j.env["Url"] = "experiment"
          /\ profile.sky <=> j.script # "None"
      BY <1>0, <2>1, <2>2, <2>3 DEF OverridesWin
    <2>6. QED
      BY <2>2, <2>3, <2>4, <2>5, JobTaken
  <1>8. ASSUME NEW e \in Exps, SkyLaunch(e) PROVE WorkInv'
    <2> DEFINE j == [jobs[e] EXCEPT !.script = "Wait"]
    <2>1. /\ jobs[e].state = "Running" /\ jobs[e].script = "Start"
          /\ Becomes(e, j)
          /\ cloud' = [cloud EXCEPT ![e] = "Busy"]
          /\ starts' = [starts EXCEPT ![e] = @ + 1]
          /\ UNCHANGED <<profile, input, claim, abandoned, passes, faults, kills, lost>>
      BY <1>8 DEF SkyLaunch, At
    <2>2. /\ j \in WorkJobs /\ j.env = jobs[e].env /\ j.state = "Running"
          /\ j.script = "Wait" /\ j.retries = jobs[e].retries /\ j.waits = jobs[e].waits
      BY <1>0, <2>1 DEF WorkTypeOK, WorkJobs
    <2> HIDE DEF j
    <2>3. /\ jobs' \in [Exps -> WorkJobs] /\ OverridesWin'
          /\ \A x \in Exps : jobs'[x] = IF x = e THEN j ELSE jobs[x]
      <3>1. j.state # "Absent" /\ "Url" \in input[e].env => j.env["Url"] = "experiment"
        BY <1>0, <2>1, <2>2 DEF OverridesWin
      <3>2. QED
        BY <2>1, <2>2, <3>1, JobBecomes
    <2>4. /\ starts' \in [Exps -> Nat]
          /\ starts'[e] = starts[e] + 1
          /\ \A x \in Exps : x # e => starts'[x] = starts[x] /\ jobs'[x] = jobs[x]
          /\ jobs'[e] = j
      BY <1>0, <2>1, <2>3 DEF WorkTypeOK
    <2>5. WorkTypeOK'
      BY <1>0, <2>1, <2>3, <2>4 DEF WorkTypeOK
    <2>6. starts[e] <= lost[e] /\ starts[e] \in Nat /\ lost[e] \in Nat
      BY <1>0, <2>1 DEF LaunchInv, Unstarted, WorkTypeOK
    <2>7. ~Unstarted(j)
      BY <2>2 DEF Unstarted
    <2>8. LaunchInv'
      BY <1>0, <2>1, <2>2, <2>4, <2>6, <2>7 DEF LaunchInv
    <2>9. QED
      BY <2>3, <2>5, <2>8
  <1>9. ASSUME NEW e \in Exps, TaskEnds(e) \/ Autostop(e) PROVE WorkInv'
    <2>1. /\ cloud' \in [Exps -> {"Down", "Busy", "Idle"}]
          /\ UNCHANGED <<profile, input, claim, jobs, starts, abandoned, passes, faults,
                         kills, lost>>
      BY <1>0, <1>9 DEF TaskEnds, Autostop, WorkTypeOK
    <2>2. QED
      BY <1>0, <2>1 DEF WorkTypeOK, OverridesWin, LaunchInv
  <1>10. CASE UNCHANGED workVars
    BY <1>0, <1>10 DEF workVars, WorkTypeOK, OverridesWin, LaunchInv
  <1>11. QED
    BY <1>1, <1>2, <1>3, <1>4, <1>5, <1>6, <1>7, <1>8, <1>9, <1>10
       DEF WorkNext, WorkPassStep, ClusterStep, BurstStep

\* The invariant holds, whatever is cut off, killed or deleted.
LEMMA WorkCorrect == WorkSpec => []WorkInv
  <1>1. WorkInv /\ [WorkNext]_workVars => WorkInv'
    BY WorkStep
  <1>2. QED
    BY WorkStarts, <1>1, PTL DEF WorkSpec

\* The types of the workload: no state of a Job, a cluster or a pass but those named,
\* and no counter beyond its bound.
THEOREM WorkTypeCorrect == WorkSpec => []WorkTypeOK
  <1>1. WorkInv => WorkTypeOK
    BY DEF WorkInv
  <1>2. QED
    BY WorkCorrect, <1>1, PTL

\* "Experiment-level env overrides": what an Experiment sets and the operator does
\* not is what its run finds.
THEOREM OverridesHold == WorkSpec => []OverridesWin
  <1>1. WorkInv => OverridesWin
    BY DEF WorkInv
  <1>2. QED
    BY WorkCorrect, <1>1, PTL

\* The task of a cloud burst is started once, and once more each time its Job is
\* deleted or preempted: a launcher pod that is killed never starts it again.
THEOREM TaskStartsOnce == WorkSpec => []TaskOnce
  <1>1. WorkInv => TaskOnce
    BY DEF WorkInv, LaunchInv, TaskOnce
  <1>2. QED
    BY WorkCorrect, <1>1, PTL

=============================================================================
