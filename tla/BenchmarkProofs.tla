-------------------------- MODULE BenchmarkProofs --------------------------
(***************************************************************************)
(* For any suite, run and bounds: the BenchmarkRun controller implements   *)
(* Verdict, and a run that reads Succeeded has told its Experiment.        *)
(***************************************************************************)
EXTENDS Benchmark, SequenceTheorems, TLAPS

Views == UNION {[tests -> Conclusions] : tests \in SUBSET Tests}

\* A report that is found is one of the pods' messages.
LEMMA ReportFound ==
    ASSUME NEW pods, Report(pods) # "Mute"
    PROVE  \E i \in DOMAIN pods : pods[i] = Report(pods) /\ pods[i] \in Reports
<1>1. PICK i \in DOMAIN pods : Speaks(pods, i)
  BY DEF Report
<1> QED BY <1>1 DEF Report, Speaks

\* What a pass concludes of a test is one of the conclusions.
LEMMA TaskStatusType ==
    ASSUME NEW task, NEW state, NEW pods
    PROVE  TaskStatus(task, state, pods) \in Conclusions
<1>1. Report(pods) \in Reports \cup {"Mute"}
  BY ReportFound
<1> QED BY <1>1 DEF TaskStatus, Conclusions

\* If it is a report, one of the pods gave it.
LEMMA TaskStatusReported ==
    ASSUME NEW task, NEW state, NEW pods,
           TaskStatus(task, state, pods) \in Reports
    PROVE  \E i \in DOMAIN pods : pods[i] = TaskStatus(task, state, pods)
<1>1. {"Failed", "Running", "Preparing"} \cap Reports = {}
  BY ValueAssumption DEF Reports
<1>2. /\ TaskStatus(task, state, pods) = Report(pods)
      /\ Report(pods) # "Mute"
  BY <1>1 DEF TaskStatus
<1> QED BY <1>2, ReportFound

\* A view stays one when a test in it gets a conclusion.
LEMMA ViewExcept ==
    ASSUME NEW seen \in Views, NEW t, NEW c \in Conclusions
    PROVE  [seen EXCEPT ![t] = c] \in Views
<1>1. PICK tests \in SUBSET Tests : seen \in [tests -> Conclusions]
  BY DEF Views
<1>2. [seen EXCEPT ![t] = c] \in [tests -> Conclusions]
  BY <1>1
<1> QED BY <1>1, <1>2 DEF Views

LEMMA JudgeType ==
    ASSUME NEW tests, NEW seen
    PROVE  Judge(tests, seen) \in {"Failed", "Running", "Preparing", "Succeeded"}
BY DEF Judge

\* Succeeded: every test has a report, and these pass the gates.
LEMMA JudgeSucceeded ==
    ASSUME NEW tests, NEW seen, Judge(tests, seen) = "Succeeded"
    PROVE  /\ tests # {}
           /\ \A t \in tests : seen[t] \in Reports
           /\ GatesPass(setup, tests, seen)
BY DEF Judge

\* Judging keeps the types of a pass, and its view.
LEMMA JudgedType ==
    ASSUME NEW p \in Passes
    PROVE  /\ Judged(p) \in Passes
           /\ Judged(p).seen = p.seen
           /\ Judged(p).todo = p.todo
           /\ p.step = "Job" => /\ Judged(p).step # "Pods"
                                /\ Judged(p).step = "Job" => p.todo # {}
<1> DEFINE phase == Judge(Chosen, p.seen)
           step == IF phase = "Succeeded" /\ Promotes THEN "Promote" ELSE "Write"
<1>1. phase \in Phases
  BY JudgeType DEF Phases
<1>2. Judged(p) = IF p.todo # {} THEN p ELSE [p EXCEPT !.phase = phase, !.step = step]
  BY DEF Judged
<1>3. step \in {"Promote", "Write"}
  OBVIOUS
<1> HIDE DEF phase, step
<1> QED BY <1>1, <1>2, <1>3 DEF Passes

LEMMA NoPassType == NoPass \in Passes /\ NoPass.step = "Idle"
<1>1. <<>> \in [{} -> Conclusions]
  OBVIOUS
<1>2. <<>> \in Views
  BY <1>1 DEF Views
<1> QED BY <1>2 DEF NoPass, Passes, JobStates, Phases, Views

-----------------------------------------------------------------------------
(* The types.                                                                *)

LEMMA TypeInit == Init => TypeOK
<1> SUFFICES ASSUME Init PROVE TypeOK
  OBVIOUS
<1>1. jobs \in [Tests -> [state : JobStates, pods : Seq(Messages \cup {"Live"})]]
  BY DEF Init, NoJob, JobStates
<1> QED BY <1>1, NoPassType DEF Init, TypeOK, Phases, Decisions

\* The Jobs and what they have reported.
JobsType ==
    /\ jobs \in [Tests -> [state : JobStates, pods : Seq(Messages \cup {"Live"})]]
    /\ reported \in [Tests -> SUBSET Reports]

\* The pass.
PassType ==
    /\ pass \in Passes
    /\ pass.step \in {"Job", "Pods"} => pass.todo # {}
    /\ pass.step = "Pods" => pass.job # "Absent"

\* The Jobs change with what the world does, one test at a time, and with the
\* run that owns them.
LEMMA JobsTypeStep ==
    ASSUME TypeOK, [Next]_vars
    PROVE  JobsType'
<1> DEFINE Pods == Seq(Messages \cup {"Live"})
<1> USE DEF TypeOK, JobsType
<1>1. CASE EnsureJob
  <2>1. NewJob \in [state : JobStates, pods : Pods]
    BY DEF NewJob, JobStates
  <2> QED BY <1>1, <2>1 DEF EnsureJob
<1>2. ASSUME NEW t \in Tests, Admit(t) PROVE JobsType'
  BY <1>2 DEF Admit, JobStates
<1>3. ASSUME NEW t \in Tests, Start(t) PROVE JobsType'
  <2>1. jobs[t].pods \in Pods /\ <<"Live">> \in Pods
    OBVIOUS
  <2>2. {<<"Live">> \o jobs[t].pods, Append(jobs[t].pods, "Live")} \subseteq Pods
    BY <2>1
  <2>3. PICK pods \in Pods : jobs' = [jobs EXCEPT ![t] = [state |-> "Running", pods |-> pods]]
    BY <1>3, <2>2 DEF Start
  <2>4. [state |-> "Running", pods |-> pods] \in [state : JobStates, pods : Pods]
    BY <2>3 DEF JobStates
  <2> QED BY <1>3, <2>3, <2>4 DEF Start
<1>4. ASSUME NEW t \in Tests, NEW m \in Messages, End(t, m) PROVE JobsType'
  <2> DEFINE pods == [i \in DOMAIN jobs[t].pods |->
                        IF jobs[t].pods[i] = "Live" THEN m ELSE jobs[t].pods[i]]
  <2>1. pods \in Pods
    <3>1. jobs[t].pods \in Pods
      OBVIOUS
    <3>2. \A i \in 1..Len(jobs[t].pods) : pods[i] \in Messages \cup {"Live"}
      BY <3>1
    <3>3. pods \in [1..Len(jobs[t].pods) -> Messages \cup {"Live"}]
      BY <3>1, <3>2
    <3>4. Len(jobs[t].pods) \in Nat
      BY <3>1
    <3> HIDE DEF pods
    <3> QED BY <3>3, <3>4, SeqDef
  <2>2. \E state \in {"Complete", "Failed", "Waiting"} :
            jobs' = [jobs EXCEPT ![t] = [state |-> state, pods |-> pods]]
    BY <1>4 DEF End
  <2>3. jobs' \in [Tests -> [state : JobStates, pods : Pods]]
    BY <2>1, <2>2 DEF JobStates
  <2>4. reported' \in [Tests -> SUBSET Reports]
    BY <1>4 DEF End
  <2> QED BY <2>3, <2>4
<1>5. ASSUME NEW t \in Tests, Expire(t) PROVE JobsType'
  BY <1>5 DEF Expire, NoJob, JobStates
<1>6. CASE Meddle
  <2>1. NoJob \in [state : JobStates, pods : Pods]
    BY DEF NoJob, JobStates
  <2> QED BY <1>6, <2>1 DEF Meddle
<1>7. CASE UNCHANGED <<jobs, reported>>
  BY <1>7
<1> QED
  BY <1>1, <1>2, <1>3, <1>4, <1>5, <1>6, <1>7
  DEF Next, Reconcile, World, BeginSuspended, Begin, Ensured, ReadJob, ReadPods,
      Promote, Write, Refused, Abort, Train, Campaign, vars

\* A pass changes with its own steps only.
LEMMA PassTypeStep ==
    ASSUME TypeOK, [Next]_vars
    PROVE  PassType'
<1> USE DEF PassType
<1>0. PassType /\ Views = UNION {[tests -> Conclusions] : tests \in SUBSET Tests}
  BY DEF TypeOK, Views
<1>1. CASE Begin
  <2>1. Chosen \in SUBSET Tests
    BY DEF Chosen
  <2>2. [t \in Chosen |-> "Pending"] \in [Chosen -> Conclusions]
    BY DEF Conclusions
  <2>3. [t \in Chosen |-> "Pending"] \in Views
    BY <2>1, <2>2 DEF Views
  <2>4. pass' \in Passes /\ pass'.step = "Ensure"
    BY <1>1, <2>1, <2>3, NoPassType DEF Begin, Passes, Views
  <2> QED BY <2>4
<1>2. CASE EnsureJob
  BY <1>0, <1>2 DEF EnsureJob, Passes
<1>3. CASE Ensured
  <2> DEFINE p == [pass EXCEPT !.step = "Job", !.todo = Chosen]
  <2>1. p \in Passes /\ p.step = "Job"
    BY <1>0 DEF Passes, Chosen
  <2> HIDE DEF p
  <2>2. pass' = Judged(p)
    BY <1>3 DEF Ensured, p
  <2> QED BY <2>1, <2>2, JudgedType
<1>4. CASE ReadJob
  <2> DEFINE t == CHOOSE t \in pass.todo : TRUE
             p == [pass EXCEPT !.todo = @ \ {t}]
  <2>1. CASE jobs[t].state = "Absent"
    <3>1. p \in Passes /\ p.step = "Job"
      BY <1>0, <1>4 DEF ReadJob, Passes
    <3>2. pass' = Judged(p)
      BY <1>4, <2>1 DEF ReadJob
    <3> HIDE DEF p
    <3> QED BY <3>1, <3>2, JudgedType
  <2>2. CASE jobs[t].state # "Absent"
    <3>1. pass' = [pass EXCEPT !.step = "Pods", !.job = jobs[t].state]
      BY <1>4, <2>2 DEF ReadJob
    <3>2. pass.todo # {}
      BY <1>0, <1>4 DEF ReadJob, TypeOK
    <3>3. t \in Tests
      BY <1>0, <3>2 DEF Passes
    <3>4. jobs[t].state \in JobStates
      BY <3>3 DEF TypeOK
    <3> HIDE DEF t
    <3> QED BY <1>0, <2>2, <3>1, <3>2, <3>4 DEF Passes
  <2> QED BY <2>1, <2>2
<1>5. CASE ReadPods
  <2> DEFINE t == CHOOSE t \in pass.todo : TRUE
             c == TaskStatus(t[1], pass.job, jobs[t].pods)
             p == [pass EXCEPT !.step = "Job", !.todo = @ \ {t}, !.seen[t] = c]
  <2>1. c \in Conclusions
    BY TaskStatusType
  <2>2. pass' = Judged(p)
    BY <1>5 DEF ReadPods
  <2> HIDE DEF c, t
  <2>3. pass.seen \in Views
    BY <1>0 DEF Passes
  <2>4. [pass.seen EXCEPT ![t] = c] \in Views
    BY <2>1, <2>3, ViewExcept
  <2>5. p = [pass EXCEPT !.step = "Job", !.todo = @ \ {t},
                         !.seen = [pass.seen EXCEPT ![t] = c]]
    BY <1>0 DEF Passes
  <2>6. p \in Passes /\ p.step = "Job"
    BY <1>0, <2>4, <2>5 DEF Passes
  <2> HIDE DEF p
  <2> QED BY <2>2, <2>6, JudgedType
<1>6. CASE Promote
  BY <1>0, <1>6 DEF Promote, Passes
<1>7. CASE pass' = NoPass
  BY <1>7, NoPassType
<1>8. CASE UNCHANGED pass
  BY <1>0, <1>8
<1> QED
  BY <1>1, <1>2, <1>3, <1>4, <1>5, <1>6, <1>7, <1>8
  DEF Next, Reconcile, World, BeginSuspended, Write, Refused, Abort, Admit, Start,
      End, Expire, Train, Campaign, Meddle, vars

LEMMA TypeStep == TypeOK /\ [Next]_vars => TypeOK'
<1> SUFFICES ASSUME TypeOK, [Next]_vars PROVE TypeOK'
  OBVIOUS
<1> DEFINE Rest == /\ setup \in Setups
                   /\ claim \in BOOLEAN
                   /\ run \in [exists : BOOLEAN, suspend : BOOLEAN]
                   /\ status \in Phases
                   /\ exp \in [phase : {"Running", "Succeeded", "Failed"},
                               decision : Decisions,
                               metrics : {"Training", "Benchmark"}]
                   /\ gate \in {"Hold", "Unblock", "CanaryFailed"}
                   /\ faults \in Nat
                   /\ meddling \in Nat
<1>1. Rest'
  <2> USE DEF TypeOK
  <2>1. CASE BeginSuspended
    BY <2>1 DEF BeginSuspended, Phases, bounds
  <2>2. CASE Begin
    <3>1. setup.claim \in BOOLEAN
      BY SetupsAssumption
    <3> QED BY <2>2, <3>1 DEF Begin, Claimed, bounds
  <2>3. CASE Promote
    BY <2>3 DEF Promote, Decisions, bounds
  <2>4. CASE Write
    BY <2>4 DEF Write, Passes, bounds
  <2>5. CASE Abort
    BY <2>5 DEF Abort
  <2>6. ASSUME NEW t \in Tests, Expire(t) PROVE Rest'
    BY <2>6 DEF Expire, bounds
  <2>7. CASE Train
    BY <2>7 DEF Train, bounds
  <2>8. CASE Campaign
    BY <2>8 DEF Campaign, Gate, bounds
  <2>9. CASE Meddle
    <3>1. run' \in [exists : BOOLEAN, suspend : BOOLEAN]
      <4>1. ASSUME NEW b \in BOOLEAN
            PROVE  [run EXCEPT !.suspend = b] \in [exists : BOOLEAN, suspend : BOOLEAN]
        OBVIOUS
      <4>2. (~run.suspend) \in BOOLEAN
        OBVIOUS
      <4>3. [run EXCEPT !.suspend = ~@] \in [exists : BOOLEAN, suspend : BOOLEAN]
        BY <4>1, <4>2, Zenon
      <4>4. [exists |-> FALSE, suspend |-> FALSE] \in [exists : BOOLEAN, suspend : BOOLEAN]
        OBVIOUS
      <4> QED BY <2>9, <4>3, <4>4, Zenon DEF Meddle
    <3>2. status' \in Phases
      BY <2>9 DEF Meddle, Phases
    <3>3. exp' \in [phase : {"Running", "Succeeded", "Failed"},
                    decision : Decisions, metrics : {"Training", "Benchmark"}]
      BY <2>9 DEF Meddle, Decisions
    <3> QED BY <2>9, <3>1, <3>2, <3>3 DEF Meddle
  <2>10. CASE UNCHANGED <<setup, claim, run, status, exp, gate, faults, meddling>>
    BY <2>10
  <2> QED
    BY <2>1, <2>2, <2>3, <2>4, <2>5, <2>6, <2>7, <2>8, <2>9, <2>10
    DEF Next, Reconcile, World, EnsureJob, Ensured, ReadJob, ReadPods, Refused,
        Admit, Start, End, bounds, vars
<1>2. JobsType' /\ PassType'
  BY JobsTypeStep, PassTypeStep
<1> QED BY <1>1, <1>2 DEF TypeOK, JobsType, PassType

\* The controller's state has its types: a pass lists the pods of no Job that it
\* has not seen (observed_status, 451-527).
THEOREM TypeCorrect == Spec => []TypeOK
<1> QED BY TypeInit, TypeStep, PTL DEF Spec

-----------------------------------------------------------------------------
(* The verdict is delivered before it is shown.                              *)

\* The pass that is about to show Succeeded has been through the promotion.
Delivered ==
    /\ VerdictDelivered
    /\ pass.step = "Write" /\ pass.phase = "Succeeded" /\ Promotes
            => exp.metrics = "Benchmark"

\* A judgement that ends in a write has no verdict to deliver.
LEMMA JudgedDelivers ==
    ASSUME NEW p \in Passes, p.step # "Write",
           Judged(p).step = "Write", Judged(p).phase = "Succeeded"
    PROVE  ~Promotes
<1> DEFINE phase == Judge(Chosen, p.seen)
           step == IF phase = "Succeeded" /\ Promotes THEN "Promote" ELSE "Write"
<1>1. Judged(p) = IF p.todo # {} THEN p ELSE [p EXCEPT !.phase = phase, !.step = step]
  BY DEF Judged
<1>2. step = "Write" /\ phase = "Succeeded" => ~Promotes
  OBVIOUS
<1> HIDE DEF phase, step
<1> QED BY <1>1, <1>2 DEF Passes

LEMMA DeliveredInit == Init => Delivered
BY DEF Init, Delivered, VerdictDelivered, NoPass

LEMMA DeliveredStep == TypeOK /\ Delivered /\ [Next]_vars => Delivered'
<1> SUFFICES ASSUME TypeOK, Delivered, [Next]_vars PROVE Delivered'
  OBVIOUS
<1>0. Promotes' = Promotes
  <2>1. setup' = setup
    BY DEF Next, Reconcile, BeginSuspended, Begin, EnsureJob, Ensured, ReadJob,
           ReadPods, Promote, Write, Refused, Abort, World, Admit, Start, End, Expire,
           Train, Campaign, Meddle, vars
  <2> QED BY <2>1 DEF Promotes
<1> USE <1>0 DEF Delivered, VerdictDelivered
<1>1. CASE BeginSuspended
  BY <1>1 DEF BeginSuspended
<1>2. CASE Begin
  BY <1>2 DEF Begin, NoPass
<1>3. CASE EnsureJob
  BY <1>3 DEF EnsureJob, TypeOK, Passes
<1>4. ASSUME NEW p \in Passes, p.step # "Write", pass' = Judged(p),
             UNCHANGED <<status, exp>>
      PROVE  Delivered'
  BY <1>4, JudgedDelivers
<1>5. CASE Ensured
  <2> DEFINE p == [pass EXCEPT !.step = "Job", !.todo = Chosen]
  <2>1. p \in Passes /\ p.step = "Job"
    BY DEF TypeOK, Passes, Chosen
  <2> QED BY <1>4, <1>5, <2>1 DEF Ensured
<1>6. CASE ReadJob
  <2> DEFINE t == CHOOSE t \in pass.todo : TRUE
             p == [pass EXCEPT !.todo = @ \ {t}]
  <2>1. p \in Passes /\ p.step = "Job"
    BY <1>6 DEF ReadJob, TypeOK, Passes
  <2>2. CASE pass' = Judged(p)
    BY <1>4, <1>6, <2>1, <2>2 DEF ReadJob
  <2>3. CASE pass' = [pass EXCEPT !.step = "Pods", !.job = jobs[t].state]
    BY <1>6, <2>3 DEF ReadJob, TypeOK, Passes
  <2> QED BY <1>6, <2>2, <2>3 DEF ReadJob
<1>7. CASE ReadPods
  <2> DEFINE t == CHOOSE t \in pass.todo : TRUE
             c == TaskStatus(t[1], pass.job, jobs[t].pods)
             p == [pass EXCEPT !.step = "Job", !.todo = @ \ {t}, !.seen[t] = c]
  <2>1. c \in Conclusions
    BY TaskStatusType
  <2>2. pass' = Judged(p) /\ UNCHANGED <<status, exp>>
    BY <1>7 DEF ReadPods
  <2> HIDE DEF c, t
  <2>3. pass \in Passes /\ pass.seen \in Views
    BY DEF TypeOK, Passes, Views
  <2>4. [pass.seen EXCEPT ![t] = c] \in Views
    BY <2>1, <2>3, ViewExcept
  <2>5. p \in Passes /\ p.step = "Job"
    BY <2>3, <2>4 DEF Passes, Views
  <2> HIDE DEF p
  <2> QED BY <1>4, <2>2, <2>5
<1>8. CASE Promote
  BY <1>8 DEF Promote, TypeOK
<1>9. CASE Write
  BY <1>9 DEF Write, NoPass
<1>10. CASE Refused \/ Abort
  BY <1>10 DEF Refused, Abort, NoPass
<1>11. CASE Train
  BY <1>11 DEF Train, TypeOK
<1>12. CASE Meddle
  BY <1>12 DEF Meddle, TypeOK
<1>13. CASE UNCHANGED <<status, exp, pass>>
  BY <1>13
<1> QED
  BY <1>1, <1>2, <1>3, <1>5, <1>6, <1>7, <1>8, <1>9, <1>10, <1>11, <1>12, <1>13
  DEF Next, Reconcile, World, Admit, Start, End, Expire, Campaign, vars

\* A run that reads Succeeded has told its Experiment, whatever passes are cut off
\* and whatever is suspended, deleted or expired in between (reconcile, 97-103).
THEOREM VerdictIsDelivered == Spec => []VerdictDelivered
<1>1. Delivered => VerdictDelivered
  BY DEF Delivered
<1> QED
  BY <1>1, DeliveredInit, DeliveredStep, TypeCorrect, PTL DEF Spec

-----------------------------------------------------------------------------
(* The refinement.                                                           *)

\* Nothing a test has reported is forgotten, and the setup is what it is.
LEMMA Remembered ==
    ASSUME TypeOK, [Next]_vars
    PROVE  /\ setup' = setup
           /\ Chosen' = Chosen
           /\ \A t \in Tests : reported[t] \subseteq reported'[t]
           /\ (\E t \in Tests, m \in Messages : End(t, m)) \/ reported' = reported
<1>1. setup' = setup
  BY DEF Next, Reconcile, BeginSuspended, Begin, EnsureJob, Ensured, ReadJob,
         ReadPods, Promote, Write, Refused, Abort, World, Admit, Start, End, Expire,
         Train, Campaign, Meddle, vars
<1>2. Chosen' = Chosen
  BY <1>1 DEF Chosen, Selected, SeedsOf
<1>3. (\E t \in Tests, m \in Messages : End(t, m)) \/ reported' = reported
  BY DEF Next, Reconcile, BeginSuspended, Begin, EnsureJob, Ensured, ReadJob,
         ReadPods, Promote, Write, Refused, Abort, World, Admit, Start, Expire,
         Train, Campaign, Meddle, vars
<1>4. ASSUME NEW t \in Tests, NEW m \in Messages, End(t, m), NEW u \in Tests
      PROVE  reported[u] \subseteq reported'[u]
  BY <1>4 DEF End, TypeOK
<1> QED BY <1>1, <1>2, <1>3, <1>4

\* What the pods say has been reported, after a step as before.
PodsBacked ==
    \A t \in Tests : \A i \in DOMAIN jobs[t].pods :
        jobs[t].pods[i] \in Reports => jobs[t].pods[i] \in reported[t]

LEMMA LiveIsNoReport == "Live" \notin Reports
BY ValueAssumption DEF Reports

LEMMA PodsBackedStep ==
    ASSUME TypeOK, PodsBacked, [Next]_vars
    PROVE  PodsBacked'
<1> USE DEF PodsBacked
<1>1. CASE EnsureJob
  <2>1. PICK t : jobs' = jobs \/ jobs' = [jobs EXCEPT ![t] = NewJob]
    BY <1>1 DEF EnsureJob
  <2>2. DOMAIN NewJob.pods = {}
    BY DEF NewJob
  <2>3. \A u \in Tests : jobs'[u] = jobs[u] \/ jobs'[u] = NewJob
    BY <2>1 DEF TypeOK
  <2> QED BY <1>1, <2>2, <2>3 DEF EnsureJob
<1>2. ASSUME NEW t \in Tests, Admit(t) PROVE PodsBacked'
  BY <1>2 DEF Admit, TypeOK
<1>3. ASSUME NEW t \in Tests, Start(t) PROVE PodsBacked'
  <2> DEFINE before == <<"Live">> \o jobs[t].pods
             after == Append(jobs[t].pods, "Live")
  <2>1. jobs[t].pods \in Seq(Messages \cup {"Live"})
    BY DEF TypeOK
  <2>2. \A i \in DOMAIN before : before[i] = "Live" \/ \E j \in DOMAIN jobs[t].pods : before[i] = jobs[t].pods[j]
    BY <2>1
  <2>3. \A i \in DOMAIN after : after[i] = "Live" \/ \E j \in DOMAIN jobs[t].pods : after[i] = jobs[t].pods[j]
    BY <2>1
  <2> HIDE DEF before, after
  <2>4. PICK pods \in {before, after} : jobs' = [jobs EXCEPT ![t] = [state |-> "Running", pods |-> pods]]
    BY <1>3 DEF Start, before, after
  <2>5. \A i \in DOMAIN pods : pods[i] \in Reports => pods[i] \in reported[t]
    BY <2>2, <2>3, <2>4, LiveIsNoReport
  <2>6. reported' = reported
    BY <1>3 DEF Start
  <2> QED BY <2>4, <2>5, <2>6 DEF TypeOK
<1>4. ASSUME NEW t \in Tests, NEW m \in Messages, End(t, m) PROVE PodsBacked'
  <2> DEFINE pods == [i \in DOMAIN jobs[t].pods |->
                        IF jobs[t].pods[i] = "Live" THEN m ELSE jobs[t].pods[i]]
  <2>1. PICK state : jobs' = [jobs EXCEPT ![t] = [state |-> state, pods |-> pods]]
    BY <1>4 DEF End
  <2>2. reported' = [reported EXCEPT ![t] = @ \cup ({m} \cap Reports)]
    BY <1>4 DEF End
  <2>3. \A i \in DOMAIN pods : pods[i] \in Reports => pods[i] \in reported'[t]
    BY <2>2 DEF TypeOK
  <2> HIDE DEF pods
  <2> QED BY <2>1, <2>2, <2>3 DEF TypeOK
<1>5. ASSUME NEW t \in Tests, Expire(t) PROVE PodsBacked'
  BY <1>5 DEF Expire, NoJob, TypeOK
<1>6. CASE Meddle
  BY <1>6 DEF Meddle, NoJob, TypeOK
<1>7. CASE UNCHANGED <<jobs, reported>>
  BY <1>7
<1> QED
  BY <1>1, <1>2, <1>3, <1>4, <1>5, <1>6, <1>7
  DEF Next, Reconcile, World, BeginSuspended, Begin, Ensured, ReadJob, ReadPods,
      Promote, Write, Refused, Abort, Train, Campaign, vars

\* A judgement goes to the promotion only when the tests succeeded.
LEMMA JudgedPromotes ==
    ASSUME NEW p \in Passes, p.step # "Promote", Judged(p).step = "Promote"
    PROVE  Judge(Chosen, p.seen) = "Succeeded"
<1> DEFINE phase == Judge(Chosen, p.seen)
           step == IF phase = "Succeeded" /\ Promotes THEN "Promote" ELSE "Write"
<1>1. Judged(p) = IF p.todo # {} THEN p ELSE [p EXCEPT !.phase = phase, !.step = step]
  BY DEF Judged
<1>2. step = "Promote" => phase = "Succeeded"
  OBVIOUS
<1> HIDE DEF step
<1>3. p.todo = {} /\ step = "Promote"
  BY <1>1 DEF Passes
<1> QED BY <1>2, <1>3

\* A view of the tests of the run whose reports are all in.
Founded(seen) ==
    /\ seen \in [Chosen -> Conclusions]
    /\ \A t \in Chosen : seen[t] \in Reports => seen[t] \in reported[t]

\* It stays one when a test in it gets a conclusion that its pods bear out.
LEMMA FoundedExcept ==
    ASSUME NEW seen, Founded(seen), NEW t, NEW c \in Conclusions,
           c \in Reports => c \in reported[t]
    PROVE  Founded([seen EXCEPT ![t] = c])
BY DEF Founded

\* The view of a pass is founded, and one about to promote has found it enough.
PassBacked ==
    /\ pass.step # "Idle" => Founded(pass.seen)
    /\ pass.step = "Promote" => Judge(Chosen, pass.seen) = "Succeeded"

LEMMA PassBackedStep ==
    ASSUME TypeOK, PodsBacked, PassBacked, [Next]_vars
    PROVE  PassBacked'
<1> USE DEF PassBacked
<1>1. ASSUME NEW seen, Founded(seen), pass'.seen = seen PROVE Founded(pass.seen)'
  BY <1>1, Remembered DEF Founded, Chosen
<1>2. ASSUME NEW seen PROVE pass'.seen = seen =>
        (Judge(Chosen, pass.seen)' = "Succeeded" <=> Judge(Chosen, seen) = "Succeeded")
  BY Remembered DEF Judge
<1>3. pass \in Passes
  BY DEF TypeOK
\* A pass that goes on to be judged.
<1>4. ASSUME NEW p \in Passes, p.step # "Promote", Founded(p.seen), pass' = Judged(p)
      PROVE  PassBacked'
  BY <1>1, <1>2, <1>4, JudgedType, JudgedPromotes
<1>5. CASE Begin
  <2>1. [t \in Chosen |-> "Pending"] \in [Chosen -> Conclusions] /\ "Pending" \notin Reports
    BY ValueAssumption DEF Conclusions, Reports
  <2>2. Founded([t \in Chosen |-> "Pending"])
    BY <2>1 DEF Founded
  <2>3. pass'.seen = [t \in Chosen |-> "Pending"] /\ pass'.step = "Ensure"
    BY <1>5 DEF Begin, NoPass
  <2> QED BY <1>1, <2>2, <2>3
<1>6. CASE EnsureJob
  <2>1. pass'.seen = pass.seen /\ pass'.step = "Ensure" /\ pass.step = "Ensure"
    BY <1>3, <1>6 DEF EnsureJob, Passes
  <2> QED BY <1>1, <2>1
<1>7. CASE Ensured
  <2> DEFINE p == [pass EXCEPT !.step = "Job", !.todo = Chosen]
  <2>1. p \in Passes /\ p.step = "Job" /\ p.seen = pass.seen
    BY <1>3 DEF Passes, Chosen
  <2> HIDE DEF p
  <2> QED BY <1>4, <1>7, <2>1 DEF Ensured, p
<1>8. CASE ReadJob
  <2> DEFINE t == CHOOSE t \in pass.todo : TRUE
             p == [pass EXCEPT !.todo = @ \ {t}]
  <2>1. p \in Passes /\ p.step = "Job" /\ p.seen = pass.seen /\ pass.step = "Job"
    BY <1>3, <1>8 DEF ReadJob, Passes
  <2>2. CASE pass' = Judged(p)
    BY <1>4, <2>1, <2>2
  <2>3. CASE pass' = [pass EXCEPT !.step = "Pods", !.job = jobs[t].state]
    <3>1. pass'.seen = pass.seen /\ pass'.step = "Pods"
      BY <1>3, <2>3 DEF Passes
    <3> QED BY <1>1, <2>1, <3>1
  <2> QED BY <1>8, <2>2, <2>3 DEF ReadJob
<1>9. CASE ReadPods
  <2> DEFINE t == CHOOSE t \in pass.todo : TRUE
             c == TaskStatus(t[1], pass.job, jobs[t].pods)
             p == [pass EXCEPT !.step = "Job", !.todo = @ \ {t}, !.seen[t] = c]
  <2>1. c \in Conclusions
    BY TaskStatusType
  <2>2. pass' = Judged(p) /\ pass.step = "Pods"
    BY <1>9 DEF ReadPods
  <2>3. t \in Tests
    BY <1>3, <2>2 DEF TypeOK, Passes
  <2>4. c \in Reports => c \in reported[t]
    BY <2>3, TaskStatusReported DEF PodsBacked
  <2> HIDE DEF c, t
  <2>5. Founded([pass.seen EXCEPT ![t] = c])
    BY <2>1, <2>2, <2>4, FoundedExcept
  <2>6. pass.seen \in Views
    BY <1>3 DEF Passes, Views
  <2>7. [pass.seen EXCEPT ![t] = c] \in Views
    BY <2>1, <2>6, ViewExcept
  <2>8. p \in Passes /\ p.step = "Job" /\ p.seen = [pass.seen EXCEPT ![t] = c]
    BY <1>3, <2>7 DEF Passes, Views
  <2> HIDE DEF p
  <2> QED BY <1>4, <2>2, <2>5, <2>8
<1>10. CASE Promote
  <2>1. pass'.seen = pass.seen /\ pass'.step = "Write" /\ pass.step = "Promote"
    BY <1>3, <1>10 DEF Promote, Passes
  <2> QED BY <1>1, <2>1
<1>11. CASE pass' = NoPass
  BY <1>11 DEF NoPass
<1>12. CASE UNCHANGED pass
  <2>1. pass.step # "Idle" => Founded(pass.seen)'
    BY <1>1, <1>12
  <2>2. pass.step = "Promote" => Judge(Chosen, pass.seen)' = "Succeeded"
    BY <1>2, <1>12
  <2> QED BY <1>12, <2>1, <2>2
<1> QED
  BY <1>5, <1>6, <1>7, <1>8, <1>9, <1>10, <1>11, <1>12
  DEF Next, Reconcile, World, BeginSuspended, Write, Refused, Abort, Admit, Start,
      End, Expire, Train, Campaign, Meddle, vars

BackedInv == TypeOK /\ PodsBacked /\ PassBacked

LEMMA BackedInit == Init => BackedInv
<1>1. Init => PodsBacked
  BY DEF Init, NoJob, PodsBacked
<1>2. Init => PassBacked
  BY DEF Init, NoPass, PassBacked
<1> QED BY <1>1, <1>2, TypeInit DEF BackedInv

LEMMA BackedStep == BackedInv /\ [Next]_vars => BackedInv'
BY TypeStep, PodsBackedStep, PassBackedStep DEF BackedInv

\* The promotion is a Keep: the view of the pass holds one report of every test.
LEMMA PromoteKeeps ==
    ASSUME BackedInv, Promote
    PROVE  V!Keep
<1>1. pass.step = "Promote" /\ Founded(pass.seen)
  BY DEF Promote, BackedInv, PassBacked
<1>2. /\ Chosen # {}
      /\ \A t \in Chosen : pass.seen[t] \in Reports
      /\ GatesPass(setup, Chosen, pass.seen)
  BY <1>1, JudgeSucceeded DEF BackedInv, PassBacked
<1>3. pass.seen \in [Chosen -> Reports]
  BY <1>1, <1>2 DEF Founded
<1>4. \A t \in Chosen : pass.seen[t] \in reported[t]
  BY <1>1, <1>2 DEF Founded
<1>5. exp'.decision = "Keep" /\ UNCHANGED <<reported, setup>>
  BY DEF Promote, BackedInv, TypeOK
<1>6. Chosen' = Chosen
  BY <1>5 DEF Chosen, Selected, SeedsOf
<1> QED BY <1>2, <1>3, <1>4, <1>5, <1>6 DEF V!Keep

\* The end of a pod is a report, or none.
LEMMA EndReports ==
    ASSUME TypeOK, NEW t \in Tests, NEW m \in Messages, End(t, m)
    PROVE  V!Report(t) \/ UNCHANGED reported
<1>1. reported' = [reported EXCEPT ![t] = @ \cup ({m} \cap Reports)]
  BY DEF End
<1>2. UNCHANGED <<setup, exp>>
  BY DEF End
<1>3. Chosen' = Chosen
  BY <1>2 DEF Chosen, Selected, SeedsOf
<1>4. CASE m \in Reports
  <2>1. reported' = [reported EXCEPT ![t] = @ \cup {m}]
    BY <1>1, <1>4 DEF TypeOK
  <2> QED BY <1>2, <1>3, <1>4, <2>1 DEF V!Report
<1>5. CASE m \notin Reports
  BY <1>1, <1>5 DEF TypeOK
<1> QED BY <1>4, <1>5

LEMMA RefinedInit == Init => V!Init
<1> SUFFICES ASSUME Init PROVE V!Init
  OBVIOUS
<1>1. Chosen \in SUBSET Tests
  BY DEF Chosen
<1> QED BY <1>1 DEF Init, V!Init

LEMMA RefinedStep == BackedInv /\ [Next]_vars => [V!Next]_(V!verdict)
<1> SUFFICES ASSUME BackedInv, [Next]_vars PROVE V!Next \/ UNCHANGED V!verdict
  OBVIOUS
<1> USE DEF V!verdict
<1>1. TypeOK /\ setup' = setup /\ Chosen' = Chosen
  BY Remembered DEF BackedInv
<1>2. CASE Promote
  BY <1>2, PromoteKeeps DEF V!Next
<1>3. ASSUME NEW t \in Tests, NEW m \in Messages, End(t, m)
      PROVE  V!Next \/ UNCHANGED V!verdict
  <2>1. UNCHANGED exp
    BY <1>3 DEF End
  <2> QED BY <1>1, <1>3, <2>1, EndReports DEF V!Next
<1>4. CASE Train
  BY <1>1, <1>4 DEF Train, TypeOK
<1>5. CASE Meddle
  <2>1. reported' = reported
    BY <1>5 DEF Meddle
  <2>2. CASE UNCHANGED exp
    BY <1>1, <2>1, <2>2
  <2>3. CASE \E d \in {"NeedsReview", "Discard"} : exp' = [exp EXCEPT !.decision = d]
    <3>1. exp'.decision \in {"NeedsReview", "Discard"}
      BY <1>1, <2>3 DEF TypeOK
    <3> QED BY <1>1, <2>1, <3>1 DEF V!Next, V!Review
  <2> QED BY <1>5, <2>2, <2>3 DEF Meddle
<1>6. CASE UNCHANGED <<reported, exp>>
  BY <1>1, <1>6
<1> QED
  BY <1>2, <1>3, <1>4, <1>5, <1>6
  DEF Next, Reconcile, World, BeginSuspended, Begin, EnsureJob, Ensured, ReadJob,
      ReadPods, Write, Refused, Abort, Admit, Start, Expire, Campaign, vars

\* The BenchmarkRun controller implements Verdict: a Keep it writes rests on one
\* report of every test of the run, which together pass every gate, whatever is
\* restarted, retried, expired, deleted or suspended (observed_status and
\* promote_experiment).
THEOREM VerdictIsEarned == Spec => ImplementsVerdict
<1> QED
  BY BackedInit, BackedStep, RefinedInit, RefinedStep, PTL DEF Spec, ImplementsVerdict, V!Spec
=============================================================================
