--------------------------- MODULE CampaignProofs ---------------------------
(***************************************************************************)
(* Proofs about Campaign for every budget, concurrency limit, set of       *)
(* hand-written Experiments and number of lost Jobs and backend failures,  *)
(* and in the second part about the campaign's backend, module Inference.  *)
(***************************************************************************)
EXTENDS Campaign, Inference, FiniteSetTheorems, TLAPS

USE NamesAssumption, NumbersAssumption, SpecsAssumption

-----------------------------------------------------------------------------
(* Counting. *)

\* Sets of Experiments can be counted.
LEMMA NamesFinite ==
    ASSUME NEW S \in SUBSET Names
    PROVE  /\ IsFiniteSet(S)
           /\ Cardinality(S) \in Nat
           /\ \A T \in SUBSET S : /\ Cardinality(T) \in Nat
                                  /\ Cardinality(T) <= Cardinality(S)
  <1>1. IsFiniteSet(Slots)
    BY FS_Interval DEF Slots
  <1>2. IsFiniteSet(Slots \cup Hands)
    BY <1>1, FS_Union
  <1>3. IsFiniteSet(Names)
    BY <1>2, FS_AddElement DEF Names
  <1>4. IsFiniteSet(S)
    BY <1>3, FS_Subset
  <1>5. ASSUME NEW T \in SUBSET S
        PROVE  Cardinality(T) \in Nat /\ Cardinality(T) <= Cardinality(S)
    BY <1>4, FS_Subset, FS_CardinalityType
  <1>6. QED
    BY <1>4, <1>5, FS_CardinalityType

Probe == IF spec.canary THEN 1 ELSE 0

\* The canary is the one Experiment outside the budget.
LEMMA BudgetedCount ==
    ASSUME TypeOK, NEW seen \in [Names -> Phases]
    PROVE  /\ Budgeted(seen) \in Nat
           /\ Cardinality(Listed(seen)) \in Nat
           /\ Cardinality(Listed(seen)) <= Budgeted(seen) + Probe
           /\ seen[Canary] # "Absent" => Cardinality(Listed(seen)) >= 1
  <1> DEFINE L == Listed(seen)
  <1>1. L \in SUBSET Names /\ (seen[Canary] # "Absent" => Canary \in L)
    BY DEF Listed, Names
  <1>2. /\ IsFiniteSet(L) /\ Cardinality(L) \in Nat
        /\ Cardinality(L \ {Canary}) \in Nat
    BY <1>1, NamesFinite
  <1>3. Cardinality(L \ {Canary})
          = IF Canary \in L THEN Cardinality(L) - 1 ELSE Cardinality(L)
    BY <1>2, FS_RemoveElement
  <1>4. spec.canary \in BOOLEAN
    BY DEF TypeOK
  <1>5. CASE spec.canary
    BY <1>1, <1>2, <1>3, <1>5 DEF Budgeted, Probe
  <1>6. CASE ~spec.canary
    <2>1. L \ {} = L
      OBVIOUS
    <2>2. Budgeted(seen) = Cardinality(L)
      BY <1>6, <2>1 DEF Budgeted
    <2>3. seen[Canary] # "Absent" => Cardinality(L) >= 1
      BY <1>1, <1>2, <1>3
    <2>4. QED
      BY <1>2, <1>6, <2>2, <2>3 DEF Probe
  <1>7. QED
    BY <1>4, <1>5, <1>6

\* What is running and what is wanted fit into the concurrency limit.
LEMMA RunningCount ==
    ASSUME NEW seen \in [Names -> Phases]
    PROVE  /\ Cardinality(Running(seen)) \in Nat
           /\ Want(seen) \in Nat
           /\ Want(seen) <= Concurrency
           /\ Want(seen) > 0
                => Cardinality(Running(seen)) + Want(seen) <= Concurrency
  <1>1. Running(seen) \in SUBSET Names
    BY DEF Running
  <1>2. Cardinality(Running(seen)) \in Nat
    BY <1>1, NamesFinite
  <1>3. QED
    BY <1>2 DEF Want

-----------------------------------------------------------------------------
(* Type correctness, with what it takes: a batch in progress is not empty. *)

BatchLeft == pass.step = "Generate" => pass.left >= 1

TypeInv == TypeOK /\ BatchLeft

\* A pass that enters the batch has passed the gate, is within the budget and
\* found its backend ready.
LEMMA GenerationFacts ==
    ASSUME TypeOK, NEW ready \in BOOLEAN
    PROVE  /\ Generation(ready) \in {"Canary", "Generate", "Status"}
           /\ CanaryDead => Generation(ready) = "Status"
           /\ Generation(ready) = "Canary" =>
                /\ spec.canary /\ ready
                /\ pass.seen[Canary] = "Absent"
           /\ Generation(ready) = "Generate" =>
                /\ ready
                /\ ~AtBudget
                /\ spec.canary => /\ pass.seen[Canary] = "Succeeded"
                                  /\ spec.gated => pass.verdict = "Keep"
  <1>1. /\ spec.canary \in BOOLEAN /\ spec.gated \in BOOLEAN
        /\ pass.seen[Canary] \in Phases
    BY DEF TypeOK, Passes, Names
  <1>2. Gate(pass.seen, pass.verdict) = "CreateCanary"
          => spec.canary /\ pass.seen[Canary] = "Absent"
    BY <1>1 DEF Gate, Phases
  <1>3. Gate(pass.seen, pass.verdict) = "Unblock" =>
          (spec.canary => /\ pass.seen[Canary] = "Succeeded"
                          /\ spec.gated => pass.verdict = "Keep")
    BY <1>1 DEF Gate, Phases
  <1>4. QED
    BY <1>1, <1>2, <1>3 DEF Generation, CanaryDead

\* Where a pass goes on after the backend, and with what plan.
LEMMA AfterInferenceFacts ==
    ASSUME TypeOK, NEW ready \in BOOLEAN, NEW broken \in BOOLEAN
    PROVE  LET after == AfterInference(ready, broken) IN
           /\ after \in Passes
           /\ after.step \in {"Canary", "Generate", "Status"}
           /\ after.seen = pass.seen /\ after.verdict = pass.verdict
           /\ after.step = "Canary" => Generation(ready) = "Canary"
           /\ after.step = "Generate" =>
                /\ Generation(ready) = "Generate"
                /\ after.left >= 1
                /\ after.left <= Want(pass.seen)
                /\ after.next = Cardinality(Listed(pass.seen))
                /\ after.next + after.left <= MaxExperiments + Probe
  <1> DEFINE batch == IF Generation(ready) = "Generate"
                      THEN Batch(pass.seen) ELSE 0
  <1>1. pass.seen \in [Names -> Phases]
    BY DEF TypeOK, Passes
  <1>2. /\ Budgeted(pass.seen) \in Nat
        /\ Cardinality(Listed(pass.seen)) \in Nat
        /\ Cardinality(Listed(pass.seen)) <= Budgeted(pass.seen) + Probe
    BY <1>1, BudgetedCount
  <1>3. Want(pass.seen) \in Nat
    BY <1>1, RunningCount
  <1>4. /\ batch \in Nat
        /\ batch <= Want(pass.seen)
        /\ Generation(ready) = "Generate"
             => Budgeted(pass.seen) + batch <= MaxExperiments
    BY <1>2, <1>3, GenerationFacts DEF Batch, AtBudget
  <1>5. Probe \in Nat
    BY DEF Probe
  <1> DEFINE step == IF Generation(ready) = "Generate" /\ batch = 0
                     THEN "Status" ELSE Generation(ready)
  <1>6. AfterInference(ready, broken)
          = [pass EXCEPT !.ready = ready, !.broken = broken, !.step = step,
                         !.left = batch,
                         !.next = Cardinality(Listed(pass.seen))]
    BY DEF AfterInference, NextIndex
  <1>7. step \in Steps /\ pass \in Passes
    BY GenerationFacts DEF Steps, TypeOK
  <1> HIDE DEF batch, step
  <1>8. /\ AfterInference(ready, broken).left = batch
        /\ AfterInference(ready, broken).next = Cardinality(Listed(pass.seen))
        /\ AfterInference(ready, broken).seen = pass.seen
        /\ AfterInference(ready, broken).verdict = pass.verdict
        /\ AfterInference(ready, broken).step = step
    BY <1>6, <1>7 DEF Passes
  <1>9. AfterInference(ready, broken) \in Passes
    BY <1>2, <1>4, <1>6, <1>7 DEF Passes
  <1>10. /\ step \in {"Canary", "Generate", "Status"}
         /\ step = "Canary" => Generation(ready) = "Canary"
         /\ step = "Generate" => Generation(ready) = "Generate" /\ batch # 0
    BY GenerationFacts DEF step
  <1>11. QED
    BY <1>2, <1>3, <1>4, <1>5, <1>8, <1>9, <1>10

\* Between two passes the pass is of the right type.
LEMMA NoPassType == NoPass \in Passes /\ NoPass.step = "Idle"
  <1>1. Nothing \in [Names -> Phases]
    BY DEF Nothing, Phases
  <1>2. QED
    BY <1>1 DEF NoPass, Passes, Steps, Verdicts

\* A campaign that was just submitted is of the right type.
THEOREM InitType == Init => TypeInv
  <1>1. Nothing \in [Names -> Phases]
    BY DEF Nothing, Phases
  <1>2. [phase |-> "New"] \in Statuses
    BY DEF Statuses, CampaignPhases
  <1> SUFFICES ASSUME Init PROVE TypeInv
    OBVIOUS
  <1>3. verdict \in Verdicts /\ inference \in InferenceStates
    BY DEF Init, Verdicts, InferenceStates
  <1>4. TypeOK
    BY <1>1, <1>2, <1>3, NoPassType DEF Init, TypeOK
  <1>5. BatchLeft
    BY NoPassType DEF Init, BatchLeft
  <1>6. QED
    BY <1>4, <1>5 DEF TypeInv

\* A pass that moves on to its next creation keeps its type.
LEMMA ProceedType ==
    ASSUME TypeInv, pass.step = "Generate",
           NEW made \in {0, 1}, pass' = Proceed(made)
    PROVE  pass' \in Passes /\ BatchLeft'
  <1>1. pass \in Passes /\ pass.left >= 1
    BY DEF TypeInv, TypeOK, BatchLeft
  <1>2. pass.left - 1 \in Nat /\ pass.next + 1 \in Nat /\ pass.made + made \in Nat
    BY <1>1 DEF Passes
  <1>3. pass' = [pass EXCEPT !.left = pass.left - 1, !.next = pass.next + 1,
                             !.made = pass.made + made,
                             !.step = IF pass.left > 1 THEN "Generate"
                                      ELSE "Status"]
    BY DEF Proceed
  <1>4. pass' \in Passes
    BY <1>1, <1>2, <1>3 DEF Passes, Steps
  <1>5. pass'.left = pass.left - 1 /\ (pass'.step = "Generate" => pass.left > 1)
    BY <1>1, <1>3 DEF Passes
  <1>6. QED
    BY <1>1, <1>4, <1>5 DEF BatchLeft, Passes

\* Every step of the pass and around it keeps the types.
LEMMA NextType == TypeInv /\ [Next]_vars => TypeInv'
  <1> SUFFICES ASSUME TypeInv, [Next]_vars PROVE TypeInv'
    OBVIOUS
  <1> USE DEF TypeInv
  <1>1. CASE List
    <2>1. [e \in Names |-> IF e \in Hands \ adopted THEN "Absent" ELSE exps[e]]
            \in [Names -> Phases]
      BY DEF TypeOK, Phases
    <2>2. pass' \in Passes /\ pass'.step = "Adopt"
      BY <1>1, <2>1, NoPassType DEF List, TypeOK, Passes, Steps
    <2>3. QED
      BY <1>1, <2>2 DEF List, TypeOK, BatchLeft, objects, backend
  <1>2. CASE Adopt
    <2> DEFINE seen == [e \in Names |-> IF pass.seen[e] = "Absent" THEN exps[e]
                                        ELSE pass.seen[e]]
    <2>1. seen \in [Names -> Phases]
      BY DEF TypeOK, Passes
    <2> HIDE DEF seen
    <2>2. PICK step \in {"Bench", "Inference"} :
             pass' = [pass EXCEPT !.seen = seen, !.step = step]
      BY <1>2 DEF Adopt, seen
    <2>3. pass' \in Passes /\ pass'.step # "Generate"
      BY <2>1, <2>2 DEF TypeOK, Passes, Steps
    <2>4. adopted' \in SUBSET Hands
      BY <1>2 DEF Adopt, TypeOK
    <2>5. QED
      BY <1>2, <2>3, <2>4 DEF Adopt, TypeOK, BatchLeft, backend
  <1>3. CASE EnsureBenchmark
    BY <1>3 DEF EnsureBenchmark, TypeOK, BatchLeft, Passes, Steps, backend
  <1>4. CASE NoInference
    BY <1>4, AfterInferenceFacts
       DEF NoInference, TypeOK, BatchLeft, objects, backend
  <1>5. CASE TearDown
    BY <1>5, AfterInferenceFacts
       DEF TearDown, TypeOK, BatchLeft, InferenceStates, objects
  <1>6. CASE EnsureInference
    BY <1>6, AfterInferenceFacts
       DEF EnsureInference, TypeOK, BatchLeft, InferenceStates, objects
  <1>7. CASE CreateCanary
    <2>1. exps' \in [Names -> Phases]
      BY <1>7 DEF CreateCanary, TypeOK, Phases
    <2>2. PICK made \in Nat : pass' = [pass EXCEPT !.step = "Status", !.made = made]
      <3>1. pass' = [pass EXCEPT !.step = "Status", !.made = 1]
              \/ pass' = [pass EXCEPT !.step = "Status", !.made = pass.made]
        BY <1>7 DEF CreateCanary, TypeOK, Passes
      <3>2. QED
        BY <3>1 DEF TypeOK, Passes
    <2>3. pass' \in Passes /\ pass'.step = "Status"
      BY <2>2 DEF TypeOK, Passes, Steps
    <2>4. QED
      BY <1>7, <2>1, <2>3 DEF CreateCanary, TypeOK, BatchLeft, backend
  <1>8. CASE Generate
    <2>1. exps' \in [Names -> Phases]
      BY <1>8 DEF Generate, TypeOK, Phases
    <2>2. pass' \in Passes /\ BatchLeft'
      BY <1>8, ProceedType DEF Generate
    <2>3. QED
      BY <1>8, <2>1, <2>2 DEF Generate, TypeOK, backend
  <1>9. CASE GenerateFails
    <2>1. pass' \in Passes /\ BatchLeft'
      BY <1>9, ProceedType DEF GenerateFails
    <2>2. QED
      BY <1>9, <2>1 DEF GenerateFails, TypeOK, objects, backend
  <1>10. CASE WriteStatus
    <2>1. PhaseOf \in CampaignPhases
      BY DEF PhaseOf, CampaignPhases
    <2>2. status' \in Statuses
      BY <1>10, <2>1 DEF WriteStatus, Statuses
    <2>3. pass' \in Passes /\ pass'.step = "Idle"
      BY <1>10, NoPassType DEF WriteStatus
    <2>4. QED
      BY <1>10, <2>2, <2>3 DEF WriteStatus, TypeOK, BatchLeft, objects, backend
  <1>11. CASE Abort
    BY <1>11, NoPassType DEF Abort, TypeOK, BatchLeft, objects, backend
  <1>12. CASE Environment
    <2>1. /\ exps' \in [Names -> Phases]
          /\ relaunched' \in SUBSET Names
          /\ UNCHANGED <<spec, adopted, bench, status, pass>>
      <3>1. CASE \E h \in Hands : Submit(h)
        BY <3>1 DEF Submit, TypeOK, Phases, backend
      <3>2. CASE \E e \in Names : Finish(e)
        BY <3>2 DEF Finish, TypeOK, Phases, backend
      <3>3. CASE \E e \in Names : LoseJob(e)
        BY <3>3 DEF LoseJob, TypeOK, Phases, backend
      <3>4. CASE \E e \in Names : Relaunch(e)
        BY <3>4 DEF Relaunch, TypeOK, Phases, backend
      <3>5. CASE Rule \/ InferenceUp \/ DeleteRayJob
        BY <3>5 DEF Rule, InferenceUp, DeleteRayJob, TypeOK, objects, backend
      <3>6. CASE InferenceDown
        BY <3>6 DEF InferenceDown, TypeOK, objects
      <3>7. QED
        BY <1>12, <3>1, <3>2, <3>3, <3>4, <3>5, <3>6 DEF Environment
    <2>2. verdict' \in Verdicts
      BY <1>12 DEF Environment, Submit, Finish, LoseJob, Relaunch, Rule, InferenceUp,
                   InferenceDown, DeleteRayJob, TypeOK, Verdicts, objects, backend
    <2>3. inference' \in InferenceStates /\ upsets' \in Nat
      <3>1. CASE InferenceDown
        <4>1. upsets' = upsets + 1 /\ inference' \in {"Starting", "Failed"}
          BY <3>1 DEF InferenceDown
        <4>2. QED
          BY <4>1 DEF TypeOK, InferenceStates
      <3>2. CASE InferenceUp \/ DeleteRayJob
        BY <3>2 DEF InferenceUp, DeleteRayJob, TypeOK, InferenceStates
      <3>3. CASE UNCHANGED backend
        BY <3>3 DEF TypeOK, backend
      <3>4. QED
        BY <1>12, <3>1, <3>2, <3>3 DEF Environment, Submit, Finish, LoseJob,
           Relaunch, Rule
    <2>4. QED
      BY <2>1, <2>2, <2>3 DEF TypeOK, BatchLeft
  <1>13. CASE UNCHANGED vars
    BY <1>13 DEF vars, TypeOK, BatchLeft
  <1>14. QED
    BY <1>1, <1>2, <1>3, <1>4, <1>5, <1>6, <1>7, <1>8, <1>9, <1>10, <1>11, <1>12,
       <1>13 DEF Next, PassStep

\* Every variable keeps its type.
THEOREM TypeCorrect == Spec => []TypeOK
  <1>1. TypeInv => TypeOK
    BY DEF TypeInv
  <1>2. QED
    BY <1>1, InitType, NextType, PTL DEF Spec

-----------------------------------------------------------------------------
(* The inductive invariant. The controller decides on a list that is already *)
(* old, so most of it says in what respects an old list is still good.       *)

\* The campaign's runs that were never written off.
Active == LiveRuns \ relaunched

\* What the list shows as succeeded, or as there at all, is so still; and a
\* canary that was kept is kept.
Snapshot ==
    /\ \A e \in Names : pass.seen[e] = "Succeeded" => exps[e] = "Succeeded"
    /\ \A e \in Names : pass.seen[e] # "Absent" => exps[e] # "Absent"
    /\ pass.verdict = "Keep" => verdict = "Keep"

\* Until the pass starts creating, it has every active run on its list.
Fresh ==
    pass.step \in {"Adopt", "Bench", "Inference"} =>
        \A e \in Active : pass.seen[e] = "Live"

\* The creations a pass still owes are covered: by the gate, by the budget, by
\* the concurrency limit.
BatchPlan ==
    pass.step = "Generate" =>
        /\ spec.canary => /\ pass.seen[Canary] = "Succeeded"
                          /\ spec.gated => pass.verdict = "Keep"
                          /\ pass.next >= 1
        /\ pass.next + pass.left <= MaxExperiments + Probe
        /\ Cardinality(Active) + pass.left <= Concurrency

CanaryPlan == pass.step = "Canary" => spec.canary

\* A mesh that was found ready may go down, but not away.
Endpoint ==
    spec.backend = "Mesh" =>
        /\ inference # "Failed"
        /\ pass.step = "Generate" => inference # "Absent"
        /\ pass.step = "Canary" => inference # "Absent" \/ Spent >= MaxExperiments

NoStrayCanary == ~spec.canary => exps[Canary] = "Absent"

\* The indices in use: as many as the budget, starting at 1 when the canary is
\* counted among the Experiments before the first of them.
SlotRange ==
    \A s \in Generated : /\ s < MaxExperiments + Probe
                         /\ spec.canary => s >= 1

IInv ==
    /\ TypeInv
    /\ Snapshot
    /\ Fresh
    /\ BatchPlan
    /\ CanaryPlan
    /\ Endpoint
    /\ NoStrayCanary
    /\ SlotRange
    /\ CanaryFirst
    /\ WithinConcurrency
    /\ RunsHaveTheirEndpoint
    /\ CompletedIsSpent

-----------------------------------------------------------------------------
(* What any step does to the Experiments. *)

\* The update of one Experiment that has not succeeded takes nothing back.
LEMMA PhaseChange ==
    ASSUME TypeOK, NEW x \in Names, exps[x] # "Succeeded",
           NEW phase \in Phases \ {"Absent"}, exps' = [exps EXCEPT ![x] = phase]
    PROVE  /\ \A e \in Names : exps[e] = "Succeeded" => exps'[e] = "Succeeded"
           /\ \A e \in Names : exps[e] # "Absent" => exps'[e] # "Absent"
  BY DEF TypeOK, Phases

\* No step takes back a success, an Experiment, a Keep or the mark of a relaunch.
LEMMA Monotone ==
    ASSUME TypeInv, [Next]_vars
    PROVE  /\ spec' = spec
           /\ \A e \in Names : exps[e] = "Succeeded" => exps'[e] = "Succeeded"
           /\ \A e \in Names : exps[e] # "Absent" => exps'[e] # "Absent"
           /\ verdict = "Keep" => verdict' = "Keep"
           /\ relaunched \subseteq relaunched'
  <1> USE DEF TypeInv
  <1>1. CASE List \/ Adopt \/ EnsureBenchmark \/ NoInference \/ TearDown
             \/ EnsureInference \/ GenerateFails \/ WriteStatus \/ Abort
             \/ InferenceUp \/ InferenceDown \/ DeleteRayJob \/ UNCHANGED vars
    <2>1. UNCHANGED <<spec, exps, verdict, relaunched>>
      BY <1>1 DEF List, Adopt, EnsureBenchmark, NoInference, TearDown,
         EnsureInference, GenerateFails, WriteStatus, Abort, InferenceUp,
         InferenceDown, DeleteRayJob, objects, backend, vars
    <2>2. QED
      BY <2>1
  <1>2. CASE CreateCanary \/ Generate
    <2>1. CASE UNCHANGED exps
      BY <1>2, <2>1 DEF CreateCanary, Generate
    <2>2. CASE CreateCanary /\ exps[Canary] = "Absent"
                 /\ exps' = [exps EXCEPT ![Canary] = "Live"]
      <3>1. Canary \in Names /\ "Live" \in Phases \ {"Absent"}
        BY DEF Names, Phases
      <3>2. QED
        BY <2>2, <3>1, PhaseChange DEF CreateCanary
    <2>3. CASE Generate
      <3>1. CASE pass.next \in Names
        BY <2>3, <3>1, PhaseChange DEF Generate, Phases
      <3>2. CASE pass.next \notin Names
        BY <2>3, <3>2 DEF Generate, TypeOK
      <3>3. QED
        BY <3>1, <3>2
    <2>4. QED
      BY <1>2, <2>1, <2>2, <2>3 DEF CreateCanary
  <1>3. CASE \E e \in Names : Finish(e) \/ LoseJob(e) \/ Relaunch(e)
    <2>1. PICK e \in Names : Finish(e) \/ LoseJob(e) \/ Relaunch(e)
      BY <1>3
    <2>2. exps[e] # "Succeeded"
      BY <2>1 DEF Finish, LoseJob, Relaunch
    <2>3. PICK phase \in Phases \ {"Absent"} : exps' = [exps EXCEPT ![e] = phase]
      BY <2>1 DEF Finish, LoseJob, Relaunch, Phases
    <2>4. QED
      BY <2>1, <2>2, <2>3, PhaseChange DEF Finish, LoseJob, Relaunch
  <1>4. CASE \E h \in Hands : Submit(h)
    BY <1>4, PhaseChange DEF Submit, Phases, Names
  <1>5. CASE Rule
    BY <1>5 DEF Rule
  <1>6. QED
    BY <1>1, <1>2, <1>3, <1>4, <1>5 DEF Next, PassStep, Environment

\* Only the two creations of a pass add an active run, and one at a time.
LEMMA ActiveStep ==
    ASSUME TypeInv, [Next]_vars
    PROVE  \/ Active' \subseteq Active
           \/ CreateCanary /\ Active' \subseteq Active \cup {Canary}
           \/ Generate /\ Active' \subseteq Active \cup {pass.next}
  <1> USE DEF TypeInv
  <1>1. CASE List \/ Adopt \/ EnsureBenchmark \/ NoInference \/ TearDown
             \/ EnsureInference \/ GenerateFails \/ WriteStatus \/ Abort \/ Rule
             \/ InferenceUp \/ InferenceDown \/ DeleteRayJob \/ UNCHANGED vars
    <2>1. UNCHANGED <<exps, relaunched>>
      BY <1>1 DEF List, Adopt, EnsureBenchmark, NoInference, TearDown,
         EnsureInference, GenerateFails, WriteStatus, Abort, Rule, InferenceUp,
         InferenceDown, DeleteRayJob, objects, backend, vars
    <2>2. QED
      BY <2>1 DEF Active, LiveRuns
  <1>2. CASE CreateCanary
    <2>1. \A e \in Slots : exps'[e] = exps[e]
      BY <1>2 DEF CreateCanary, TypeOK, Names
    <2>2. relaunched' = relaunched
      BY <1>2 DEF CreateCanary
    <2>3. Active' \subseteq Active \cup {Canary}
      BY <2>1, <2>2 DEF Active, LiveRuns
    <2>4. QED
      BY <1>2, <2>3
  <1>3. CASE Generate
    <2>1. \A e \in Names \ {pass.next} : exps'[e] = exps[e]
      BY <1>3 DEF Generate, TypeOK
    <2>2. relaunched' = relaunched
      BY <1>3 DEF Generate
    <2>3. Active' \subseteq Active \cup {pass.next}
      BY <2>1, <2>2 DEF Active, LiveRuns, Names
    <2>4. QED
      BY <1>3, <2>3
  <1>4. CASE \E e \in Names : Finish(e) \/ LoseJob(e) \/ Relaunch(e)
    <2>1. PICK x \in Names : Finish(x) \/ LoseJob(x) \/ Relaunch(x)
      BY <1>4
    <2>2. /\ \A e \in Names \ {x} : exps'[e] = exps[e]
          /\ exps'[x] = "Live" => x \in relaunched'
          /\ relaunched \subseteq relaunched'
      BY <2>1 DEF Finish, LoseJob, Relaunch, TypeOK
    <2>3. QED
      BY <2>2 DEF Active, LiveRuns, Names
  <1>5. CASE \E h \in Hands : Submit(h)
    <2>1. /\ \A e \in Names \ Hands : exps'[e] = exps[e]
          /\ relaunched' = relaunched
      BY <1>5 DEF Submit, TypeOK
    <2>2. QED
      BY <2>1 DEF Active, LiveRuns, Names
  <1>6. QED
    BY <1>1, <1>2, <1>3, <1>4, <1>5 DEF Next, PassStep, Environment

\* Active runs can be counted.
LEMMA ActiveCount ==
    ASSUME NEW S, S \subseteq Active
    PROVE  /\ Cardinality(Active) \in Nat /\ Cardinality(S) \in Nat
           /\ Cardinality(S) <= Cardinality(Active)
           /\ IsFiniteSet(S)
  <1>1. Active \in SUBSET Names
    BY DEF Active, LiveRuns, Names
  <1>2. QED
    BY <1>1, NamesFinite, FS_Subset

\* Only Generate adds to the generated Experiments: the one at its index.
LEMMA GeneratedStep ==
    ASSUME TypeInv, [Next]_vars
    PROVE  \/ Generated' \subseteq Generated
           \/ Generate /\ Generated' \subseteq Generated \cup {pass.next}
  <1> USE DEF TypeInv
  <1>1. CASE List \/ Adopt \/ EnsureBenchmark \/ NoInference \/ TearDown
             \/ EnsureInference \/ GenerateFails \/ WriteStatus \/ Abort \/ Rule
             \/ InferenceUp \/ InferenceDown \/ DeleteRayJob \/ UNCHANGED vars
    <2>1. UNCHANGED exps
      BY <1>1 DEF List, Adopt, EnsureBenchmark, NoInference, TearDown,
         EnsureInference, GenerateFails, WriteStatus, Abort, Rule, InferenceUp,
         InferenceDown, DeleteRayJob, objects, backend, vars
    <2>2. QED
      BY <2>1 DEF Generated
  <1>2. CASE CreateCanary \/ \E h \in Hands : Submit(h)
    <2>1. \A s \in Slots : exps'[s] = exps[s]
      BY <1>2 DEF CreateCanary, Submit, TypeOK, Names
    <2>2. QED
      BY <2>1 DEF Generated
  <1>3. CASE Generate
    <2>1. \A s \in Slots \ {pass.next} : exps'[s] = exps[s]
      BY <1>3 DEF Generate, TypeOK, Names
    <2>2. QED
      BY <1>3, <2>1 DEF Generated
  <1>4. CASE \E e \in Names : Finish(e) \/ LoseJob(e) \/ Relaunch(e)
    <2>1. PICK x \in Names : Finish(x) \/ LoseJob(x) \/ Relaunch(x)
      BY <1>4
    <2>2. /\ \A e \in Names \ {x} : exps'[e] = exps[e]
          /\ exps[x] # "Absent"
      BY <2>1 DEF Finish, LoseJob, Relaunch, TypeOK
    <2>3. QED
      BY <2>2 DEF Generated, Names
  <1>5. QED
    BY <1>1, <1>2, <1>3, <1>4 DEF Next, PassStep, Environment

\* What any step does to the list.
LEMMA ListStep ==
    ASSUME TypeInv, [Next]_vars
    PROVE  \/ List
           \/ Adopt
           \/ pass' = NoPass
           \/ pass'.seen = pass.seen /\ pass'.verdict = pass.verdict
  <1> USE DEF TypeInv
  <1>1. CASE NoInference \/ TearDown \/ EnsureInference
    <2>1. PICK ready \in BOOLEAN, broken \in BOOLEAN :
             pass' = AfterInference(ready, broken)
      BY <1>1 DEF NoInference, TearDown, EnsureInference
    <2>2. QED
      BY <2>1, AfterInferenceFacts
  <1>2. CASE EnsureBenchmark \/ CreateCanary \/ Generate \/ GenerateFails
    BY <1>2 DEF EnsureBenchmark, CreateCanary, Generate, GenerateFails, Proceed,
                TypeOK, Passes
  <1>3. CASE WriteStatus \/ Abort
    BY <1>3 DEF WriteStatus, Abort
  <1>4. CASE Environment \/ UNCHANGED vars
    <2>1. pass' = pass
      BY <1>4 DEF Environment, Submit, Finish, LoseJob, Relaunch, Rule, InferenceUp,
                  InferenceDown, DeleteRayJob, vars
    <2>2. QED
      BY <2>1
  <1>5. QED
    BY <1>1, <1>2, <1>3, <1>4 DEF Next, PassStep

-----------------------------------------------------------------------------
(* Every conjunct of the invariant is preserved. *)

\* Every step keeps Snapshot.
LEMMA SnapshotStep ==
    ASSUME IInv, [Next]_vars
    PROVE  Snapshot'
  <1> USE DEF IInv
  <1>1. CASE List
    <2>1. /\ \A e \in Names : pass'.seen[e] \in {exps[e], "Absent"}
          /\ pass'.verdict = verdict
      BY <1>1, NoPassType DEF List, Passes
    <2>2. QED
      BY <2>1, Monotone DEF Snapshot
  <1>2. CASE Adopt
    <2>1. /\ \A e \in Names : pass'.seen[e] = IF pass.seen[e] = "Absent"
                                              THEN exps[e] ELSE pass.seen[e]
          /\ pass'.verdict = pass.verdict
      BY <1>2 DEF Adopt, TypeInv, TypeOK, Passes
    <2>2. QED
      BY <2>1, Monotone DEF Snapshot
  <1>3. CASE pass' = NoPass
    BY <1>3 DEF Snapshot, NoPass, Nothing
  <1>4. CASE pass'.seen = pass.seen /\ pass'.verdict = pass.verdict
    BY <1>4, Monotone DEF Snapshot
  <1>5. QED
    BY <1>1, <1>2, <1>3, <1>4, ListStep

\* The steps that lead out of the part of the pass in which Fresh is needed.
LEMMA LaterSteps ==
    ASSUME TypeInv,
           \/ NoInference \/ TearDown \/ EnsureInference \/ CreateCanary
           \/ Generate \/ GenerateFails \/ WriteStatus \/ Abort
    PROVE  pass'.step \in {"Idle", "Canary", "Generate", "Status"}
  <1> USE DEF TypeInv
  <1>1. CASE NoInference \/ TearDown \/ EnsureInference
    <2>1. PICK ready \in BOOLEAN, broken \in BOOLEAN :
             pass' = AfterInference(ready, broken)
      BY <1>1 DEF NoInference, TearDown, EnsureInference
    <2>2. QED
      BY <2>1, AfterInferenceFacts
  <1>2. CASE CreateCanary \/ Generate \/ GenerateFails
    BY <1>2 DEF CreateCanary, Generate, GenerateFails, Proceed, TypeOK, Passes
  <1>3. CASE WriteStatus \/ Abort
    BY <1>3, NoPassType DEF WriteStatus, Abort
  <1>4. QED
    BY <1>1, <1>2, <1>3

\* Every step keeps Fresh: no run becomes active between the list and the creations.
LEMMA FreshStep ==
    ASSUME IInv, [Next]_vars
    PROVE  Fresh'
  <1> USE DEF IInv
  <1>1. Active \subseteq Slots \cup {Canary}
    BY DEF Active, LiveRuns
  <1>2. CASE List
    <2>1. \A e \in Slots \cup {Canary} : pass'.seen[e] = exps[e]
      BY <1>2, NoPassType DEF List, Passes, Names
    <2>2. exps' = exps /\ relaunched' = relaunched
      BY <1>2 DEF List, objects
    <2>3. QED
      BY <2>1, <2>2 DEF Fresh, Active, LiveRuns
  <1>3. CASE Adopt
    <2>1. \A e \in Names : pass'.seen[e] = IF pass.seen[e] = "Absent"
                                           THEN exps[e] ELSE pass.seen[e]
      BY <1>3 DEF Adopt, TypeInv, TypeOK, Passes
    <2>2. exps' = exps /\ relaunched' = relaunched /\ pass.step = "Adopt"
      BY <1>3 DEF Adopt
    <2>3. QED
      BY <2>1, <2>2 DEF Fresh, Active, LiveRuns, Names
  <1>4. CASE EnsureBenchmark
    <2>1. /\ exps' = exps /\ relaunched' = relaunched
          /\ pass.step = "Bench" /\ pass'.seen = pass.seen
      BY <1>4 DEF EnsureBenchmark, TypeInv, TypeOK, Passes
    <2>2. QED
      BY <2>1 DEF Fresh, Active, LiveRuns
  <1>5. CASE Environment \/ UNCHANGED vars
    <2>1. pass' = pass
      BY <1>5 DEF Environment, Submit, Finish, LoseJob, Relaunch, Rule, InferenceUp,
                  InferenceDown, DeleteRayJob, vars
    <2>2. CASE pass.step \in {"Canary", "Generate"}
      BY <2>1, <2>2 DEF Fresh
    <2>3. CASE pass.step \notin {"Canary", "Generate"}
      <3>1. Active' \subseteq Active
        BY <2>3, ActiveStep DEF CreateCanary, Generate
      <3>2. QED
        BY <2>1, <3>1 DEF Fresh
    <2>4. QED
      BY <2>2, <2>3
  <1>6. CASE \/ NoInference \/ TearDown \/ EnsureInference \/ CreateCanary
             \/ Generate \/ GenerateFails \/ WriteStatus \/ Abort
    BY <1>6, LaterSteps DEF Fresh
  <1>7. QED
    BY <1>2, <1>3, <1>4, <1>5, <1>6 DEF Next, PassStep

\* A step that does not touch the pass leaves the active runs as they are, or
\* with fewer of them.
LEMMA Around ==
    ASSUME TypeInv, Environment \/ UNCHANGED vars
    PROVE  /\ pass' = pass /\ status' = status
           /\ Active' \subseteq Active
           /\ Generated' \subseteq Generated
  <1>1. pass' = pass /\ status' = status
    BY DEF Environment, Submit, Finish, LoseJob, Relaunch, Rule, InferenceUp,
           InferenceDown, DeleteRayJob, vars
  <1>2. pass'.step = pass.step /\ [Next]_vars
    BY <1>1 DEF Next
  <1>3. CreateCanary => pass'.step # pass.step
    BY DEF CreateCanary, TypeInv, TypeOK, Passes
  <1>4. Generate => pass'.left # pass.left
    BY DEF Generate, Proceed, TypeInv, TypeOK, Passes
  <1>5. QED
    BY <1>1, <1>2, <1>3, <1>4, ActiveStep, GeneratedStep

\* The batch a pass sets out with.
LEMMA NewBatch ==
    ASSUME IInv, [Next]_vars, NoInference \/ TearDown \/ EnsureInference,
           pass'.step = "Generate"
    PROVE  BatchPlan'
  <1> USE DEF IInv, TypeInv
  <1> DEFINE seen == pass.seen
  <1>1. PICK ready \in BOOLEAN, broken \in BOOLEAN :
           pass' = AfterInference(ready, broken)
    BY DEF NoInference, TearDown, EnsureInference
  <1>2. /\ pass.step = "Inference"
        /\ exps' = exps /\ relaunched' = relaunched /\ spec' = spec
    BY DEF NoInference, TearDown, EnsureInference, objects
  <1>3. /\ Generation(ready) = "Generate"
        /\ pass'.seen = seen /\ pass'.verdict = pass.verdict
        /\ pass'.left >= 1 /\ pass'.left <= Want(seen) /\ pass'.left \in Nat
        /\ pass'.next = Cardinality(Listed(seen))
        /\ pass'.next + pass'.left <= MaxExperiments + Probe
    BY <1>1, AfterInferenceFacts DEF Passes
  <1>4. seen \in [Names -> Phases]
    BY DEF TypeOK, Passes
  <1>5. Cardinality(Active) <= Cardinality(Running(seen))
    <2>1. Active \subseteq Running(seen)
      BY <1>2 DEF Fresh, Running, Active, LiveRuns, Names
    <2>2. Running(seen) \in SUBSET Names
      BY DEF Running
    <2>3. QED
      BY <2>1, <2>2, NamesFinite
  <1>6. Cardinality(Active) + pass'.left <= Concurrency
    <2>1. /\ Cardinality(Running(seen)) \in Nat /\ Want(seen) \in Nat
          /\ Want(seen) > 0 => Cardinality(Running(seen)) + Want(seen) <= Concurrency
      BY <1>4, RunningCount
    <2>2. Cardinality(Active) \in Nat
      BY ActiveCount
    <2>3. QED
      BY <1>3, <1>5, <2>1, <2>2
  <1>7. spec.canary => /\ seen[Canary] = "Succeeded"
                       /\ spec.gated => pass.verdict = "Keep"
                       /\ pass'.next >= 1
    BY <1>3, <1>4, GenerationFacts, BudgetedCount
  <1>8. Active' = Active /\ Probe' = Probe
    BY <1>2 DEF Active, LiveRuns, Probe
  <1> HIDE DEF IInv, TypeInv
  <1>9. QED
    BY <1>2, <1>3, <1>6, <1>7, <1>8 DEF BatchPlan

\* The batch after one more creation was tried.
LEMMA RestOfBatch ==
    ASSUME IInv, [Next]_vars, Generate \/ GenerateFails, pass'.step = "Generate"
    PROVE  BatchPlan'
  <1> USE DEF IInv, TypeInv
  <1>1. /\ pass.step = "Generate" /\ spec' = spec
        /\ pass'.seen = pass.seen /\ pass'.verdict = pass.verdict
        /\ pass.left \in Nat /\ pass'.left = pass.left - 1
        /\ pass.next \in Nat /\ pass'.next = pass.next + 1
    BY DEF Generate, GenerateFails, Proceed, TypeOK, Passes
  <1>2. Cardinality(Active) \in Nat
    BY ActiveCount
  <1>3. Cardinality(Active') \in Nat /\ Cardinality(Active') <= Cardinality(Active) + 1
    <2>1. Active' \subseteq Active \cup {pass.next}
      BY ActiveStep, <1>1 DEF CreateCanary
    <2>2. /\ IsFiniteSet(Active \cup {pass.next})
          /\ Cardinality(Active \cup {pass.next}) \in Nat
          /\ Cardinality(Active \cup {pass.next}) <= Cardinality(Active) + 1
      BY <1>2, ActiveCount, FS_AddElement, FS_CardinalityType
    <2>3. QED
      BY <1>2, <2>1, <2>2, FS_Subset, FS_CardinalityType
  <1>4. Probe' = Probe
    BY <1>1 DEF Probe
  <1>5. QED
    BY <1>1, <1>2, <1>3, <1>4 DEF BatchPlan, Probe

\* Every step keeps BatchPlan.
LEMMA BatchPlanStep ==
    ASSUME IInv, [Next]_vars
    PROVE  BatchPlan'
  <1> USE DEF IInv
  <1>1. CASE NoInference \/ TearDown \/ EnsureInference
    BY <1>1, NewBatch DEF BatchPlan
  <1>2. CASE Generate \/ GenerateFails
    BY <1>2, RestOfBatch DEF BatchPlan
  <1>3. CASE List \/ Adopt \/ EnsureBenchmark \/ CreateCanary \/ WriteStatus \/ Abort
    <2>1. pass'.step # "Generate"
      BY <1>3, NoPassType DEF List, Adopt, EnsureBenchmark, CreateCanary,
         WriteStatus, Abort, TypeInv, TypeOK, Passes
    <2>2. QED
      BY <2>1 DEF BatchPlan
  <1>4. CASE Environment \/ UNCHANGED vars
    <2>1. /\ pass' = pass /\ spec' = spec
          /\ Cardinality(Active') <= Cardinality(Active)
          /\ Cardinality(Active') \in Nat /\ Cardinality(Active) \in Nat
      BY <1>4, Around, Monotone, ActiveCount
    <2>2. pass.left \in Nat
      BY DEF TypeInv, TypeOK, Passes
    <2>3. QED
      BY <2>1, <2>2 DEF BatchPlan, Probe
  <1>5. QED
    BY <1>1, <1>2, <1>3, <1>4 DEF Next, PassStep

\* The index a pass creates next is one the budget allows.
LEMMA NextIndexBound ==
    ASSUME IInv, pass.step = "Generate"
    PROVE  /\ pass.next \in Slots
           /\ pass.next < MaxExperiments + Probe
           /\ spec.canary => pass.next >= 1
  <1>1. /\ pass.next \in Nat /\ pass.left \in Nat /\ pass.left >= 1
        /\ pass.next + pass.left <= MaxExperiments + Probe
        /\ spec.canary => pass.next >= 1
    BY DEF IInv, TypeInv, TypeOK, Passes, BatchLeft, BatchPlan
  <1>2. QED
    BY <1>1 DEF Probe, Slots

\* Every step keeps CanaryPlan and NoStrayCanary.
LEMMA CanaryPlanStep ==
    ASSUME IInv, [Next]_vars
    PROVE  CanaryPlan' /\ NoStrayCanary'
  <1> USE DEF IInv
  <1>1. CanaryPlan'
    <2>1. CASE NoInference \/ TearDown \/ EnsureInference
      <3>1. PICK ready \in BOOLEAN, broken \in BOOLEAN :
               pass' = AfterInference(ready, broken)
        BY <2>1 DEF NoInference, TearDown, EnsureInference
      <3>2. QED
        BY <3>1, AfterInferenceFacts, GenerationFacts, Monotone
           DEF CanaryPlan, TypeInv
    <2>2. CASE List \/ Adopt \/ EnsureBenchmark \/ CreateCanary \/ Generate
               \/ GenerateFails \/ WriteStatus \/ Abort
      <3>1. pass'.step # "Canary"
        BY <2>2, NoPassType DEF List, Adopt, EnsureBenchmark, CreateCanary,
           Generate, GenerateFails, Proceed, WriteStatus, Abort, TypeInv, TypeOK,
           Passes
      <3>2. QED
        BY <3>1 DEF CanaryPlan
    <2>3. CASE Environment \/ UNCHANGED vars
      BY <2>3, Around, Monotone DEF CanaryPlan
    <2>4. QED
      BY <2>1, <2>2, <2>3 DEF Next, PassStep
  <1>2. NoStrayCanary'
    <2>1. exps'[Canary] # "Absent" /\ exps[Canary] = "Absent" => CreateCanary
      <3>1. CASE Generate
        BY <3>1, NextIndexBound DEF Generate, TypeInv, TypeOK
      <3>2. CASE \E h \in Hands : Submit(h)
        BY <3>2 DEF Submit, TypeInv, TypeOK, Names
      <3>3. CASE \E e \in Names : Finish(e) \/ LoseJob(e) \/ Relaunch(e)
        BY <3>3 DEF Finish, LoseJob, Relaunch, TypeInv, TypeOK, Names
      <3>4. CASE List \/ Adopt \/ EnsureBenchmark \/ NoInference \/ TearDown
             \/ EnsureInference \/ GenerateFails \/ WriteStatus \/ Abort \/ Rule
             \/ InferenceUp \/ InferenceDown \/ DeleteRayJob \/ UNCHANGED vars
        BY <3>4 DEF List, Adopt, EnsureBenchmark, NoInference, TearDown,
         EnsureInference, GenerateFails, WriteStatus, Abort, Rule, InferenceUp,
         InferenceDown, DeleteRayJob, objects, backend, vars
      <3>5. QED
        BY <3>1, <3>2, <3>3, <3>4 DEF Next, PassStep, Environment
    <2>2. CreateCanary => spec.canary
      BY DEF CreateCanary, CanaryPlan
    <2>3. QED
      BY <2>1, <2>2, Monotone DEF NoStrayCanary
  <1>3. QED
    BY <1>1, <1>2

\* What the budget has gone to never shrinks, and covers what the list counts.
LEMMA SpentStep ==
    ASSUME TypeInv, [Next]_vars
    PROVE  Spent \in Nat /\ Spent' \in Nat /\ Spent <= Spent'
  <1> DEFINE S == {e \in Slots \cup Hands : exps[e] # "Absent"}
  <1>1. S \subseteq S'
    BY Monotone DEF Names
  <1>2. S \in SUBSET Names /\ S' \in SUBSET Names
    BY DEF Names
  <1>3. /\ Cardinality(S) \in Nat /\ Cardinality(S') \in Nat
        /\ Cardinality(S) <= Cardinality(S')
    BY <1>1, <1>2, NamesFinite
  <1>4. QED
    BY <1>3 DEF Spent

\* A list that is at the budget was right about it.
LEMMA BudgetSpent ==
    ASSUME TypeInv, Snapshot, NoStrayCanary, AtBudget
    PROVE  Spent >= MaxExperiments
  <1> DEFINE L == Listed(pass.seen) \ (IF spec.canary THEN {Canary} ELSE {})
             S == {e \in Slots \cup Hands : exps[e] # "Absent"}
  <1>1. L \subseteq S
    BY DEF Listed, Snapshot, NoStrayCanary, Names
  <1>2. S \in SUBSET Names
    BY DEF Names
  <1>3. /\ Cardinality(L) \in Nat /\ Cardinality(S) \in Nat
        /\ Cardinality(L) <= Cardinality(S)
    BY <1>1, <1>2, NamesFinite
  <1>4. QED
    BY <1>3 DEF Spent, AtBudget, Budgeted

\* Every step keeps Endpoint: only TearDown takes a mesh away.
LEMMA EndpointStep ==
    ASSUME IInv, [Next]_vars
    PROVE  Endpoint'
  <1> USE DEF IInv
  <1>1. spec' = spec /\ Spent \in Nat /\ Spent' \in Nat /\ Spent <= Spent'
    BY Monotone, SpentStep
  <1>2. CASE NoInference
    BY <1>1, <1>2 DEF NoInference, Endpoint
  <1>3. CASE TearDown
    <2>1. pass' = AfterInference(TRUE, FALSE) /\ inference' = "Absent" /\ AllDone
      BY <1>3 DEF TearDown
    <2>2. /\ pass'.step = "Canary" => Generation(TRUE) = "Canary"
          /\ pass'.step = "Generate" => Generation(TRUE) = "Generate"
      BY <2>1, AfterInferenceFacts DEF TypeInv
    <2>3. /\ CanaryDead => Generation(TRUE) = "Status"
          /\ Generation(TRUE) = "Generate" => ~AtBudget
      BY GenerationFacts DEF TypeInv
    <2>4. AtBudget \/ CanaryDead
      BY <2>1 DEF AllDone
    <2>5. AtBudget => Spent >= MaxExperiments
      BY BudgetSpent
    <2>6. /\ pass'.step # "Generate"
          /\ pass'.step = "Canary" => Spent >= MaxExperiments
      BY <2>2, <2>3, <2>4, <2>5
    <2>7. pass'.step = "Canary" => Spent' >= MaxExperiments
      BY <1>1, <2>6
    <2>8. QED
      BY <2>1, <2>6, <2>7 DEF Endpoint
  <1>4. CASE EnsureInference
    <2>1. /\ pass' = AfterInference(inference = "Ready", inference = "Failed")
          /\ inference' # "Absent"
          /\ inference' = "Failed" => inference = "Failed"
      BY <1>4 DEF EnsureInference
    <2>2. QED
      BY <1>1, <2>1 DEF Endpoint
  <1>5. CASE Generate \/ GenerateFails
    <2>1. pass.step = "Generate" /\ inference' = inference
      BY <1>5 DEF Generate, GenerateFails, backend
    <2>2. pass'.step # "Canary"
      BY <1>5 DEF Generate, GenerateFails, Proceed, TypeInv, TypeOK, Passes
    <2>3. QED
      BY <1>1, <2>1, <2>2 DEF Endpoint
  <1>6. CASE List \/ Adopt \/ EnsureBenchmark \/ CreateCanary \/ WriteStatus \/ Abort
    <2>1. pass'.step \notin {"Canary", "Generate"} /\ inference' = inference
      BY <1>6, NoPassType DEF List, Adopt, EnsureBenchmark, CreateCanary,
         WriteStatus, Abort, backend, TypeInv, TypeOK, Passes
    <2>2. QED
      BY <1>1, <2>1 DEF Endpoint
  <1>7. CASE Environment \/ UNCHANGED vars
    <2>1. pass' = pass
      BY <1>7, Around
    <2>2. spec.backend = "Mesh" => /\ inference' = inference \/ inference' # "Absent"
                                   /\ inference' = "Failed" => inference = "Failed"
      BY <1>7 DEF Environment, Submit, Finish, LoseJob, Relaunch, Rule, InferenceUp,
                  InferenceDown, DeleteRayJob, Endpoint, backend, vars
    <2>3. QED
      BY <1>1, <2>1, <2>2 DEF Endpoint
  <1>8. QED
    BY <1>2, <1>3, <1>4, <1>5, <1>6, <1>7 DEF Next, PassStep

\* Every step keeps the indices in their range, and CanaryFirst.
LEMMA SlotRangeStep ==
    ASSUME IInv, [Next]_vars
    PROVE  SlotRange' /\ CanaryFirst'
  <1> USE DEF IInv
  <1>1. spec' = spec /\ Probe' = Probe
    BY Monotone DEF Probe
  <1>2. CanaryPassed => CanaryPassed'
    BY Monotone DEF CanaryPassed, Names
  <1>3. CASE Generated' \subseteq Generated
    BY <1>1, <1>2, <1>3 DEF SlotRange, CanaryFirst
  <1>4. CASE Generate /\ Generated' \subseteq Generated \cup {pass.next}
    <2>1. /\ pass.next < MaxExperiments + Probe
          /\ spec.canary => pass.next >= 1
      BY <1>4, NextIndexBound DEF Generate
    <2>2. spec.canary => CanaryPassed
      BY <1>4 DEF Generate, BatchPlan, Snapshot, CanaryPassed, Names
    <2>3. QED
      BY <1>1, <1>2, <1>4, <2>1, <2>2 DEF SlotRange, CanaryFirst
  <1>5. QED
    BY <1>3, <1>4, GeneratedStep

\* Every step keeps WithinConcurrency.
LEMMA ConcurrencyStep ==
    ASSUME IInv, [Next]_vars
    PROVE  WithinConcurrency'
  <1> USE DEF IInv
  <1> SUFFICES Cardinality(Active') <= Concurrency
    BY DEF WithinConcurrency, Active
  <1>1. Cardinality(Active) \in Nat /\ Cardinality(Active) <= Concurrency
    BY ActiveCount DEF WithinConcurrency, Active
  <1>2. CASE Active' \subseteq Active
    BY <1>1, <1>2, ActiveCount
  <1>3. CASE CreateCanary /\ Active' \subseteq Active \cup {Canary}
    <2>1. CASE exps[Canary] = "Absent"
      <3>1. Generated = {}
        BY <1>3, <2>1 DEF CreateCanary, CanaryPlan, CanaryFirst, CanaryPassed
      <3>2. Active \subseteq {}
        BY <2>1, <3>1 DEF Active, LiveRuns, Generated
      <3>3. Active' = {} \/ Active' = {Canary}
        BY <1>3, <3>2
      <3>4. Cardinality({}) = 0 /\ Cardinality({Canary}) = 1
        BY FS_EmptySet, FS_Singleton
      <3>5. Cardinality(Active') \in {0, 1}
        BY <3>3, <3>4
      <3>6. QED
        BY <3>5
    <2>2. CASE exps[Canary] # "Absent"
      <3>1. exps' = exps /\ relaunched' = relaunched
        BY <1>3, <2>2 DEF CreateCanary
      <3>2. Active' = Active
        BY <3>1 DEF Active, LiveRuns
      <3>3. QED
        BY <1>1, <3>2
    <2>3. QED
      BY <2>1, <2>2
  <1>4. CASE Generate /\ Active' \subseteq Active \cup {pass.next}
    <2>1. Cardinality(Active) + 1 <= Concurrency
      BY <1>1, <1>4 DEF Generate, BatchPlan, BatchLeft, TypeInv, TypeOK, Passes
    <2>2. /\ IsFiniteSet(Active \cup {pass.next})
          /\ Cardinality(Active \cup {pass.next}) <= Cardinality(Active) + 1
      BY <1>1, ActiveCount, FS_AddElement
    <2>3. /\ Cardinality(Active') \in Nat
          /\ Cardinality(Active \cup {pass.next}) \in Nat
          /\ Cardinality(Active') <= Cardinality(Active \cup {pass.next})
      BY <1>4, <2>2, FS_Subset, FS_CardinalityType
    <2>4. QED
      BY <1>1, <2>1, <2>2, <2>3
  <1>5. QED
    BY <1>2, <1>3, <1>4, ActiveStep

\* Every step keeps RunsHaveTheirEndpoint.
LEMMA EndpointKept ==
    ASSUME IInv, [Next]_vars
    PROVE  RunsHaveTheirEndpoint'
  <1> USE DEF IInv
  <1>1. spec' = spec /\ Spent \in Nat /\ Spent' \in Nat /\ Spent <= Spent'
    BY Monotone, SpentStep
  <1> SUFFICES ASSUME spec.backend = "Mesh", Active' # {}, inference' = "Absent"
               PROVE  exps'[Canary] = "Live" /\ Spent' >= MaxExperiments
    BY <1>1 DEF RunsHaveTheirEndpoint, EndpointForAll, Active
  <1>2. CASE CreateCanary /\ exps' # exps
    <2>1. exps'[Canary] = "Live" /\ inference' = inference /\ pass.step = "Canary"
      BY <1>2 DEF CreateCanary, backend, TypeInv, TypeOK, Names
    <2>2. Spent >= MaxExperiments
      BY <2>1 DEF Endpoint
    <2>3. QED
      BY <1>1, <2>1, <2>2
  <1>3. CASE Generate
    BY <1>3 DEF Generate, Endpoint, backend
  <1>4. CASE TearDown
    <2>1. Running(pass.seen) = {} /\ pass.step = "Inference" /\ Active' = Active
      BY <1>4 DEF TearDown, AllDone, objects, Active, LiveRuns
    <2>2. Active = {}
      BY <2>1 DEF Fresh, Running, Active, LiveRuns, Names
    <2>3. QED
      BY <2>1, <2>2
  <1>5. CASE ~TearDown /\ ~Generate /\ ~(CreateCanary /\ exps' # exps)
    <2>1. Active' \subseteq Active
      <3>1. CASE CreateCanary
        BY <1>5, <3>1 DEF CreateCanary, Active, LiveRuns
      <3>2. CASE ~CreateCanary
        BY <1>5, <3>2, ActiveStep
      <3>3. QED
        BY <3>1, <3>2
    <2>2. inference = "Absent"
      BY <1>5 DEF Next, PassStep, List, Adopt, EnsureBenchmark, NoInference,
         EnsureInference, CreateCanary, GenerateFails, WriteStatus, Abort,
         Environment, Submit, Finish, LoseJob, Relaunch, Rule, InferenceUp,
         InferenceDown, DeleteRayJob, Endpoint, backend, vars
    <2>3. exps[Canary] = "Live" /\ Spent >= MaxExperiments
      BY <2>1, <2>2 DEF RunsHaveTheirEndpoint, EndpointForAll, Active
    <2>4. exps'[Canary] = "Live"
      <3>1. exps'[Canary] # "Live" => Active' = {}
        <4>1. CASE Generated = {}
          <5>1. Active \subseteq {Canary}
            BY <4>1 DEF Active, LiveRuns, Generated
          <5>2. QED
            BY <2>1, <5>1 DEF Active, LiveRuns
        <4>2. CASE Generated # {}
          <5>1. spec.canary
            BY <2>3 DEF NoStrayCanary
          <5>2. exps[Canary] = "Succeeded"
            BY <4>2, <5>1 DEF CanaryFirst, CanaryPassed
          <5>3. QED
            BY <2>3, <5>2
        <4>3. QED
          BY <4>1, <4>2
      <3>2. QED
        BY <3>1
    <2>5. QED
      BY <1>1, <2>3, <2>4
  <1>6. QED
    BY <1>2, <1>3, <1>4, <1>5

\* Every step keeps CompletedIsSpent.
LEMMA CompletedStep ==
    ASSUME IInv, [Next]_vars
    PROVE  CompletedIsSpent'
  <1> USE DEF IInv
  <1>1. Spent \in Nat /\ Spent' \in Nat /\ Spent <= Spent'
    BY SpentStep
  <1>2. CASE WriteStatus
    <2>1. status'.phase = PhaseOf
      BY <1>2 DEF WriteStatus
    <2>2. PhaseOf = "Completed" => AtBudget
      BY DEF PhaseOf
    <2>3. AtBudget => Spent >= MaxExperiments
      BY BudgetSpent
    <2>4. status'.phase = "Completed" => Spent' >= MaxExperiments
      BY <1>1, <2>1, <2>2, <2>3
    <2>5. QED
      BY <2>4 DEF CompletedIsSpent
  <1>3. CASE ~WriteStatus
    <2>1. status' = status
      BY <1>3 DEF Next, PassStep, List, Adopt, EnsureBenchmark, NoInference, TearDown,
         EnsureInference, CreateCanary, Generate, GenerateFails, Abort,
         Environment, Submit, Finish, LoseJob, Relaunch, Rule, InferenceUp,
         InferenceDown, DeleteRayJob, vars
    <2>2. QED
      BY <1>1, <2>1 DEF CompletedIsSpent
  <1>4. QED
    BY <1>2, <1>3

-----------------------------------------------------------------------------
(* The theorems. *)

\* The invariant holds before the first pass over a campaign.
THEOREM InitInv == Init => IInv
  <1> SUFFICES ASSUME Init PROVE IInv
    OBVIOUS
  <1>1. TypeInv
    BY InitType
  <1>2. /\ \A e \in Names : exps[e] = "Absent" /\ pass.seen[e] = "Absent"
        /\ pass.step = "Idle" /\ pass.verdict = "None"
    BY DEF Init, Nothing, NoPass
  <1>3. Generated = {} /\ LiveRuns = {}
    BY <1>2 DEF Generated, LiveRuns, Names
  <1>4. Active = {} /\ Cardinality({}) = 0
    BY <1>3, FS_EmptySet DEF Active
  <1>5. Snapshot /\ Fresh /\ BatchPlan /\ CanaryPlan
    BY <1>2 DEF Snapshot, Fresh, BatchPlan, CanaryPlan
  <1>6. NoStrayCanary /\ SlotRange /\ CanaryFirst
    BY <1>2, <1>3 DEF NoStrayCanary, SlotRange, CanaryFirst, Names
  <1>7. Endpoint
    BY <1>2 DEF Endpoint, Init
  <1>8. WithinConcurrency /\ RunsHaveTheirEndpoint
    BY <1>4 DEF WithinConcurrency, RunsHaveTheirEndpoint, EndpointForAll, Active
  <1>9. CompletedIsSpent
    BY DEF CompletedIsSpent, Init
  <1>10. QED
    BY <1>1, <1>5, <1>6, <1>7, <1>8, <1>9 DEF IInv

\* Every step of the pass and around it keeps the invariant.
THEOREM NextInv == IInv /\ [Next]_vars => IInv'
  <1> SUFFICES ASSUME IInv, [Next]_vars PROVE IInv'
    OBVIOUS
  <1>1. TypeInv'
    BY NextType DEF IInv
  <1>2. QED
    BY <1>1, SnapshotStep, FreshStep, BatchPlanStep, CanaryPlanStep, EndpointStep,
       SlotRangeStep, ConcurrencyStep, EndpointKept, CompletedStep DEF IInv

\* Indices within a range as long as the budget: no more Experiments than that.
LEMMA BudgetOfRange ==
    ASSUME IInv
    PROVE  WithinBudget
  <1> DEFINE lo == Probe
             hi == MaxExperiments + Probe - 1
  <1>1. Probe \in {0, 1}
    BY DEF Probe
  <1>2. Generated \subseteq lo .. hi
    BY <1>1 DEF IInv, SlotRange, Generated, Slots, Probe
  <1>3. IsFiniteSet(lo .. hi) /\ Cardinality(lo .. hi) = MaxExperiments
    BY <1>1, FS_Interval
  <1>4. QED
    BY <1>2, <1>3, FS_Subset DEF WithinBudget

\* The invariant holds throughout, for every value of the constants.
THEOREM Invariance == Spec => []IInv
  BY InitInv, NextInv, PTL DEF Spec

\* Nothing is generated before the canary has passed.
THEOREM CanaryFirstHolds == Spec => []CanaryFirst
  <1>1. IInv => CanaryFirst
    BY DEF IInv
  <1>2. QED
    BY <1>1, Invariance, PTL

\* The budget is never exceeded.
THEOREM WithinBudgetHolds == Spec => []WithinBudget
  <1>1. IInv => WithinBudget
    BY BudgetOfRange
  <1>2. QED
    BY <1>1, Invariance, PTL

\* The concurrency limit is never exceeded by runs that were never written off.
THEOREM WithinConcurrencyHolds == Spec => []WithinConcurrency
  <1>1. IInv => WithinConcurrency
    BY DEF IInv
  <1>2. QED
    BY <1>1, Invariance, PTL

\* The mesh is there for every such run.
THEOREM EndpointHolds == Spec => []RunsHaveTheirEndpoint
  <1>1. IInv => RunsHaveTheirEndpoint
    BY DEF IInv
  <1>2. QED
    BY <1>1, Invariance, PTL

\* Completed means spent.
THEOREM CompletedHolds == Spec => []CompletedIsSpent
  <1>1. IInv => CompletedIsSpent
    BY DEF IInv
  <1>2. QED
    BY <1>1, Invariance, PTL

-----------------------------------------------------------------------------
(* The inference backend, for any bounds and specs: who admits it, and what a  *)
(* pass that takes it for ready has seen.                                      *)

\* The bounds are numbers, and campaigns have a uid.
LEMMA BackendBounds ==
    /\ MaxUids \in Nat \ {0} /\ MaxReopened \in Nat
    /\ MaxDeaths \in Nat /\ MaxFaults \in Nat
  BY BackendBoundsAssumption

\* A spec says whether the backend is queued.
LEMMA BackendSpecIs ==
    ASSUME BackendTypeOK
    PROVE  bspec.queued \in BOOLEAN
  BY BackendSpecsAssumption DEF BackendTypeOK

\* What the pass knows of the work it is about to make or to poll, and what the
\* pod and the status of the work say of each other.
BackendCoherent ==
    /\ bpass.step = "MakeWork" => ~WorkThere
    /\ bpass.step = "Poll" => Chosen = "Cluster"
    /\ ~WorkThere => pod = "None" /\ ~available
    /\ pod # "None" => ~work.waits
    /\ bspec.queued /\ WorkThere => work.waits \/ work.admitted
    /\ Chosen = "Mesh" /\ WorkThere => work.probe
    /\ pod = "Serving" => served
    /\ available => served

BackendInv == BackendTypeOK /\ BackendCoherent

-----------------------------------------------------------------------------
(* The pieces of the state keep their types.                                *)

LEMMA BackendStarts == BackendInit => BackendInv
<1> SUFFICES ASSUME BackendInit PROVE BackendInv
  OBVIOUS
<1>1. NoWork \in Works /\ NoWork.owner = 0
  BY BackendBounds DEF NoWork, Works, Uids
<1>2. NoBackendPass \in [step : BackendSteps, uid : Uids] /\ NoBackendPass.step = "Idle"
  BY BackendBounds DEF NoBackendPass, BackendSteps, Uids
<1>3. /\ uid \in Uids
      /\ svc \in [Kinds -> Uids]
      /\ reopened \in 0 .. MaxReopened
      /\ deaths \in 0 .. MaxDeaths
      /\ faults \in 0 .. MaxFaults
  BY BackendBounds DEF BackendInit, Uids
<1>4. BackendTypeOK
  BY <1>1, <1>2, <1>3 DEF BackendInit, BackendTypeOK, Answers
<1>5. BackendCoherent
  BY <1>1, <1>2 DEF BackendInit, BackendCoherent, WorkThere
<1> QED BY <1>4, <1>5 DEF BackendInv

\* A step of a pass that only moves on.
LEMMA AtType ==
    ASSUME BackendTypeOK, NEW s \in BackendSteps
    PROVE  At(s) \in [step : BackendSteps, uid : Uids] /\ At(s).step = s
  BY DEF At, BackendTypeOK

LEMMA BackendNoPass ==
    /\ NoBackendPass \in [step : BackendSteps, uid : Uids]
    /\ NoBackendPass.step = "Idle"
  BY BackendBounds DEF NoBackendPass, BackendSteps, Uids

\* What a pass makes is of the right type, owned by its campaign, and not yet
\* admitted; that of a mesh carries its probe.
LEMMA MadeType ==
    ASSUME BackendTypeOK, NEW w \in {Deployment(bpass.uid), RayJob(bpass.uid)}
    PROVE  /\ w \in Works
           /\ w.waits = bspec.queued
           /\ w = Deployment(bpass.uid) => w.probe
<1>1. bspec.queued \in BOOLEAN /\ bpass.uid \in Uids
  BY BackendSpecIs DEF BackendTypeOK
<1>2. CASE w = Deployment(bpass.uid)
  BY <1>1, <1>2 DEF Deployment, Works
<1>3. CASE w = RayJob(bpass.uid)
  <2>1. w # Deployment(bpass.uid)
    BY <1>3 DEF Deployment, RayJob
  <2> QED BY <1>1, <1>3, <2>1 DEF RayJob, Works
<1> QED BY <1>2, <1>3

\* An answer leaves the pass at the creation of runs, or at its end.
LEMMA TellType ==
    ASSUME BackendTypeOK, NEW a \in Answers, Tell(a)
    PROVE  /\ told' \in Answers
           /\ bpass' \in [step : BackendSteps, uid : Uids]
           /\ bpass'.step \in {"Idle", "Launch"}
           /\ bpass'.step = "Launch" => a = "Ready"
  BY AtType, BackendNoPass DEF Tell, Answers, BackendSteps

\* What is deleted leaves nothing behind but, for a while, its pod.
LEMMA RemovedType ==
    ASSUME BackendTypeOK, Removed
    PROVE  /\ work' = NoWork /\ work' \in Works /\ ~WorkThere'
           /\ pod' = "None" /\ available' = FALSE /\ served' = FALSE
           /\ lingering' \in BOOLEAN /\ deaths' = deaths
<1>1. NoWork \in Works /\ NoWork.owner = 0
  BY BackendBounds DEF NoWork, Works, Uids
<1>2. lingering' \in BOOLEAN
  BY DEF Removed, BackendTypeOK
<1> QED BY <1>1, <1>2 DEF Removed, WorkThere

-----------------------------------------------------------------------------
(* The types, step by step.                                                 *)

LEMMA BackendTypeStep ==
    BackendTypeOK /\ [BackendNext]_backendVars => BackendTypeOK'
<1> SUFFICES ASSUME BackendTypeOK, [BackendNext]_backendVars PROVE BackendTypeOK'
  OBVIOUS
<1> USE DEF BackendTypeOK
<1>1. CASE Start
  <2>1. bpass' \in [step : BackendSteps, uid : Uids]
    BY <1>1 DEF Start, BackendSteps
  <2> QED BY <1>1, <2>1 DEF Start, campaign, running
<1>2. CASE FindService \/ FindWork
  <2>1. bpass' \in [step : BackendSteps, uid : Uids]
    BY <1>2, AtType DEF FindService, FindWork, BackendSteps
  <2> QED BY <1>2, <2>1 DEF FindService, FindWork, campaign, running
<1>3. CASE MakeService
  <2>1. bpass' \in [step : BackendSteps, uid : Uids]
    BY <1>3, AtType DEF MakeService, BackendSteps
  <2>2. svc' \in [Kinds -> Uids]
    BY <1>3 DEF MakeService
  <2> QED BY <1>3, <2>1, <2>2 DEF MakeService, campaign, running
<1>4. CASE Ensure
  <2>1. Answer \in Answers
    BY DEF Answer, Answers
  <2>2. bpass' \in [step : BackendSteps, uid : Uids] /\ told' \in Answers
    BY <1>4, <2>1, AtType, TellType DEF Ensure, BackendSteps
  <2> QED BY <1>4, <2>2 DEF Ensure, campaign, running
<1>5. CASE MakeWork
  <2>1. work' \in Works
    BY <1>5, MadeType DEF MakeWork
  <2>2. bpass' \in [step : BackendSteps, uid : Uids] /\ told' \in Answers
    BY <1>5, TellType DEF MakeWork, Answers
  <2> QED BY <1>5, <2>1, <2>2 DEF MakeWork, campaign
<1>6. CASE Poll
  <2>1. bpass' \in [step : BackendSteps, uid : Uids] /\ told' \in Answers
    BY <1>6, TellType DEF Poll, Answers
  <2> QED BY <1>6, <2>1 DEF Poll, campaign, running
<1>7. CASE Launch
  BY <1>7, BackendNoPass DEF Launch, campaign, running
<1>8. CASE DeleteWork
  <2>1. bpass' \in [step : BackendSteps, uid : Uids]
    BY <1>8, AtType, BackendNoPass DEF DeleteWork, BackendSteps
  <2>2. CASE Removed
    BY <1>8, <2>1, <2>2, RemovedType DEF DeleteWork, campaign
  <2>3. CASE UNCHANGED <<work, running>>
    BY <1>8, <2>1, <2>3 DEF DeleteWork, campaign, running
  <2> QED BY <1>8, <2>2, <2>3 DEF DeleteWork
<1>9. CASE FindOldService
  <2>1. bpass' \in [step : BackendSteps, uid : Uids]
    BY <1>9, AtType, BackendNoPass DEF FindOldService, BackendSteps
  <2> QED BY <1>9, <2>1 DEF FindOldService, campaign, running
<1>10. CASE DeleteService
  <2>0. 0 \in Uids
    BY BackendBounds DEF Uids
  <2>1. svc' \in [Kinds -> Uids]
    BY <1>10, <2>0 DEF DeleteService
  <2> QED BY <1>10, <2>1, BackendNoPass DEF DeleteService, campaign, running
<1>11. CASE BackendAbort
  <2>1. faults' \in 0 .. MaxFaults
    BY <1>11, BackendBounds DEF BackendAbort
  <2> QED BY <1>11, <2>1, BackendNoPass DEF BackendAbort, campaign, running
<1>12. CASE Admit \/ StartPod \/ Serve \/ SyncStatus \/ LingerEnds
  <2>1. work' \in Works
    BY <1>12 DEF Admit, StartPod, Serve, SyncStatus, LingerEnds, Works
  <2>2. available' \in BOOLEAN /\ served' \in BOOLEAN /\ lingering' \in BOOLEAN
    BY <1>12 DEF Admit, StartPod, Serve, SyncStatus, LingerEnds, running
  <2> QED BY <1>12, <2>1, <2>2 DEF Admit, StartPod, Serve, SyncStatus, LingerEnds,
                                   campaign, running
<1>13. CASE PodDies
  <2>1. bspec.queued \in BOOLEAN
    BY BackendSpecIs
  <2>2. work' \in Works
    BY <1>13, <2>1 DEF PodDies, Works
  <2>3. deaths' \in 0 .. MaxDeaths
    BY <1>13, BackendBounds DEF PodDies
  <2> QED BY <1>13, <2>2, <2>3 DEF PodDies, campaign
<1>14. CASE DropRayJob \/ CollectWork
  <2>1. Removed
    BY <1>14 DEF DropRayJob, CollectWork
  <2> QED BY <1>14, <2>1, RemovedType DEF DropRayJob, CollectWork, campaign
<1>15. CASE AllEnd \/ Reopen \/ DeleteCampaign \/ RecreateCampaign
  <2>1. uid' \in Uids /\ reopened' \in 0 .. MaxReopened
    BY <1>15, BackendBounds
       DEF AllEnd, Reopen, DeleteCampaign, RecreateCampaign, Uids
  <2> QED BY <1>15, <2>1 DEF AllEnd, Reopen, DeleteCampaign, RecreateCampaign, running
<1>16. CASE \E k \in Kinds : CollectService(k)
  <2>1. PICK k \in Kinds : CollectService(k)
    BY <1>16
  <2>2. svc' \in [Kinds -> Uids]
    BY <2>1, BackendBounds DEF CollectService, Uids
  <2> QED BY <2>1, <2>2 DEF CollectService, campaign, running
<1>17. CASE UNCHANGED backendVars
  BY <1>17 DEF backendVars, campaign, running
<1> QED BY <1>1, <1>2, <1>3, <1>4, <1>5, <1>6, <1>7, <1>8, <1>9, <1>10, <1>11, <1>12,
           <1>13, <1>14, <1>15, <1>16, <1>17
        DEF BackendNext, BackendPassStep, Cluster, People, Collector

-----------------------------------------------------------------------------
(* What the pod, the work and the pass say of each other.                   *)

\* What is made has no pod, no status and is as queued as the spec says.
LEMMA CoherentMade ==
    ASSUME BackendInv, MakeWork
    PROVE  BackendCoherent'
<1>1. PICK w \in {Deployment(bpass.uid), RayJob(bpass.uid)} :
           work' = w /\ (Chosen = "Mesh" => w = Deployment(bpass.uid))
  BY DEF MakeWork
<1>2. w.waits = bspec.queued /\ (w = Deployment(bpass.uid) => w.probe)
  BY <1>1, MadeType DEF BackendInv
<1>3. bpass'.step \in {"Idle", "Launch"}
  BY TellType DEF MakeWork, BackendInv, Answers
<1>4. pod = "None" /\ pod' = "None" /\ ~available' /\ ~WorkThere
  BY DEF MakeWork, BackendInv, BackendCoherent
<1>5. Chosen' = Chosen /\ bspec' = bspec
  BY DEF MakeWork, campaign, Chosen
<1>6. bspec.queued \in BOOLEAN
  BY BackendSpecIs DEF BackendInv, BackendTypeOK
<1> QED BY <1>1, <1>2, <1>3, <1>4, <1>5, <1>6 DEF BackendCoherent

\* What is removed takes its pod and its status along.
LEMMA CoherentRemoved ==
    ASSUME BackendInv, Removed,
           bpass'.step \notin {"MakeWork", "Poll"} \/ UNCHANGED bpass,
           UNCHANGED bspec
    PROVE  BackendCoherent'
<1>1. /\ ~WorkThere'
      /\ pod' = "None" /\ available' = FALSE
  BY RemovedType DEF BackendInv
<1>2. Chosen' = Chosen
  BY DEF Chosen
<1> QED BY <1>1, <1>2 DEF BackendInv, BackendCoherent

LEMMA CoherentStep ==
    BackendInv /\ [BackendNext]_backendVars => BackendCoherent'
<1> SUFFICES ASSUME BackendInv, [BackendNext]_backendVars
             PROVE  BackendCoherent'
  OBVIOUS
<1> USE DEF BackendInv
<1>0. /\ bpass \in [step : BackendSteps, uid : Uids]
      /\ work \in Works
      /\ bspec.queued \in BOOLEAN
      /\ available \in BOOLEAN /\ served \in BOOLEAN
  BY BackendSpecIs DEF BackendTypeOK
<1>1. CASE Start \/ FindService \/ FindWork \/ FindOldService
  <2>1. bpass'.step \notin {"MakeWork", "Poll"}
    BY <1>1, AtType, BackendNoPass DEF Start, FindService, FindWork, FindOldService,
                                       BackendSteps
  <2>2. UNCHANGED <<bspec, work, pod, available, served>>
    BY <1>1 DEF Start, FindService, FindWork, FindOldService, campaign, running
  <2> QED BY <2>1, <2>2 DEF BackendCoherent, Chosen, WorkThere
<1>2. CASE MakeService \/ DeleteService \/ Launch \/ BackendAbort
  <2>1. bpass'.step \notin {"MakeWork", "Poll"}
    BY <1>2, AtType, BackendNoPass DEF MakeService, DeleteService, Launch, BackendAbort,
                                       BackendSteps
  <2>2. UNCHANGED <<bspec, work, pod, available, served>>
    BY <1>2 DEF MakeService, DeleteService, Launch, BackendAbort, campaign, running
  <2> QED BY <2>1, <2>2 DEF BackendCoherent, Chosen, WorkThere
<1>3. CASE Ensure
  <2>1. UNCHANGED <<bspec, work, pod, available, served>>
    BY <1>3 DEF Ensure, campaign, running
  <2>2. CASE ~WorkThere /\ bpass' = At("MakeWork")
    <3>1. bpass'.step = "MakeWork"
      BY <2>2, AtType DEF BackendSteps
    <3> QED BY <2>1, <2>2, <3>1 DEF BackendCoherent, Chosen, WorkThere
  <2>3. CASE Tell(Answer)
    <3>1. Answer \in Answers
      BY DEF Answer, Answers
    <3>2. bpass'.step \in {"Idle", "Launch"}
      BY <2>3, <3>1, TellType
    <3> QED BY <2>1, <3>2 DEF BackendCoherent, Chosen, WorkThere
  <2>4. CASE Chosen = "Cluster" /\ bpass' = At("Poll")
    <3>1. bpass'.step = "Poll"
      BY <2>4, AtType DEF BackendSteps
    <3> QED BY <2>1, <2>4, <3>1 DEF BackendCoherent, Chosen, WorkThere
  <2> QED BY <1>3, <2>2, <2>3, <2>4 DEF Ensure
<1>4. CASE MakeWork
  BY <1>4, CoherentMade
<1>5. CASE Poll
  <2>1. UNCHANGED <<bspec, work, pod, available, served>>
    BY <1>5 DEF Poll, campaign, running
  <2>2. bpass'.step \in {"Idle", "Launch"}
    BY <1>5, TellType DEF Poll, Answers
  <2> QED BY <2>1, <2>2 DEF BackendCoherent, Chosen, WorkThere
<1>6. CASE DeleteWork
  <2>1. bpass'.step \notin {"MakeWork", "Poll"}
    BY <1>6, AtType, BackendNoPass DEF DeleteWork, BackendSteps
  <2>2. UNCHANGED bspec
    BY <1>6 DEF DeleteWork, campaign
  <2>3. CASE Removed
    BY <2>1, <2>2, <2>3, CoherentRemoved
  <2>4. CASE UNCHANGED <<work, running>>
    BY <2>1, <2>2, <2>4 DEF BackendCoherent, Chosen, WorkThere, running
  <2> QED BY <1>6, <2>3, <2>4 DEF DeleteWork
<1>7. CASE Admit
  <2>1. work' = [work EXCEPT !.waits = FALSE, !.admitted = TRUE]
    BY <1>7 DEF Admit
  <2>2. /\ work'.waits = FALSE /\ work'.admitted = TRUE
        /\ work'.owner = work.owner /\ work'.probe = work.probe
    BY <1>0, <2>1 DEF Works
  <2>3. UNCHANGED <<bspec, pod, available, served, bpass>>
    BY <1>7 DEF Admit, campaign, running
  <2> QED BY <2>2, <2>3 DEF BackendCoherent, Chosen, WorkThere
<1>8. CASE StartPod
  <2>1. WorkThere /\ ~work.waits /\ pod' = "Loading"
        /\ UNCHANGED <<bspec, work, available, served, bpass>>
    BY <1>8 DEF StartPod, campaign
  <2> QED BY <2>1 DEF BackendCoherent, Chosen, WorkThere
<1>9. CASE Serve
  <2>1. pod # "None" /\ pod' = "Serving" /\ served' = TRUE
        /\ UNCHANGED <<bspec, work, available, bpass>>
    BY <1>9 DEF Serve, campaign
  <2> QED BY <2>1 DEF BackendCoherent, Chosen, WorkThere
<1>10. CASE SyncStatus
  <2>1. WorkThere /\ work.probe
    BY <1>10 DEF SyncStatus, BackendCoherent
  <2>2. available' = (pod = "Serving")
    BY <1>10, <2>1 DEF SyncStatus
  <2>3. UNCHANGED <<bspec, work, pod, served, bpass>>
    BY <1>10 DEF SyncStatus, campaign
  <2> QED BY <2>1, <2>2, <2>3 DEF BackendCoherent, Chosen, WorkThere
<1>11. CASE PodDies
  <2>1. WorkThere /\ pod' = "None"
        /\ UNCHANGED <<bspec, available, served, bpass>>
    BY <1>11 DEF PodDies, BackendCoherent, campaign
  <2>2. /\ work'.owner = work.owner /\ work'.probe = work.probe
        /\ \/ work'.waits = bspec.queued
           \/ work'.waits = work.waits /\ work'.admitted = work.admitted
    BY <1>0, <1>11 DEF PodDies, Works
  <2> QED BY <1>0, <2>1, <2>2 DEF BackendCoherent, Chosen, WorkThere
<1>12. CASE LingerEnds
  BY <1>12 DEF LingerEnds, campaign, BackendCoherent, Chosen, WorkThere
<1>13. CASE DropRayJob \/ CollectWork
  <2>1. Removed /\ UNCHANGED <<bpass, bspec>>
    BY <1>13 DEF DropRayJob, CollectWork, campaign
  <2> QED BY <2>1, CoherentRemoved
<1>14. CASE People /\ ~DropRayJob
  <2>1. UNCHANGED <<bspec, work, pod, available, served, bpass>>
    BY <1>14 DEF People, AllEnd, Reopen, DeleteCampaign, RecreateCampaign, running
  <2> QED BY <2>1 DEF BackendCoherent, Chosen, WorkThere
<1>15. CASE \E k \in Kinds : CollectService(k)
  <2>1. UNCHANGED <<bspec, work, pod, available, served, bpass>>
    BY <1>15 DEF CollectService, campaign, running
  <2> QED BY <2>1 DEF BackendCoherent, Chosen, WorkThere
<1>16. CASE UNCHANGED backendVars
  BY <1>16 DEF backendVars, campaign, running, BackendCoherent, Chosen, WorkThere
<1> QED BY <1>1, <1>2, <1>3, <1>4, <1>5, <1>6, <1>7, <1>8, <1>9, <1>10, <1>11, <1>12,
           <1>13, <1>14, <1>15, <1>16
        DEF BackendNext, BackendPassStep, Cluster, People, Collector

-----------------------------------------------------------------------------
(* What is proved of every behaviour.                                       *)

LEMMA BackendInvariance == BackendSpec => []BackendInv
<1>1. BackendInv /\ [BackendNext]_backendVars => BackendInv'
  BY BackendTypeStep, CoherentStep DEF BackendInv
<1>2. BackendInit => BackendInv
  BY BackendStarts
<1> QED BY <1>1, <1>2, PTL DEF BackendSpec

\* Every variable of the backend keeps its type.
THEOREM BackendTypeCorrect == BackendSpec => []BackendTypeOK
<1>0. BackendSpec => []BackendInv
  BY BackendInvariance
<1>1. BackendInv => BackendTypeOK
  BY DEF BackendInv
<1> QED BY <1>0, <1>1, PTL

\* No pod of a queued backend runs that Kueue has not admitted
\* (build_mesh_deployment, build_vllm_rayjob).
THEOREM AdmittedHolds == BackendSpec => []QueuedIsAdmitted
<1>0. BackendSpec => []BackendInv
  BY BackendInvariance
<1>1. BackendInv => QueuedIsAdmitted
  BY DEF BackendInv, BackendCoherent, QueuedIsAdmitted
<1> QED BY <1>0, <1>1, PTL

\* What a pass takes for ready has come to serve (ensure_mesh,
\* ensure_vllm_cluster).
THEOREM ReadySeen == BackendSpec => ReadyIsServed
<1>0. BackendSpec => []BackendInv
  BY BackendInvariance
<1>1. BackendInv /\ [BackendNext]_backendVars
        => [bpass.step # "Launch" /\ bpass'.step = "Launch"
              => IF Chosen = "Mesh" THEN served
                 ELSE pod = "Serving" \/ lingering]_backendVars
  <2> SUFFICES ASSUME BackendInv, [BackendNext]_backendVars,
                      bpass.step # "Launch", bpass'.step = "Launch"
               PROVE  IF Chosen = "Mesh" THEN served ELSE pod = "Serving" \/ lingering
    OBVIOUS
  <2>1. Ensure \/ MakeWork \/ Poll
    <3>1. ~(bpass' = bpass \/ bpass' = NoBackendPass)
      BY BackendNoPass
    <3>2. \A s \in BackendSteps : bpass' = At(s) => s = "Launch"
      BY AtType DEF BackendInv
    <3>3. ~Start
      BY DEF Start
    <3> QED BY <3>1, <3>2, <3>3
         DEF BackendNext, BackendPassStep, FindService, MakeService, Launch, FindWork,
             DeleteWork, FindOldService, DeleteService, BackendAbort, Cluster, Admit,
             StartPod, Serve, SyncStatus, PodDies, LingerEnds, People, DropRayJob,
             AllEnd, Reopen, DeleteCampaign, RecreateCampaign, Collector, CollectWork,
             CollectService, backendVars, BackendSteps
  <2>2. CASE Ensure
    <3>1. Answer \in Answers
      BY DEF Answer, Answers
    <3>2. Answer = "Ready"
      BY <2>2, <3>1, AtType, TellType DEF Ensure, BackendInv, BackendSteps
    <3> QED BY <3>2 DEF Answer, BackendInv, BackendCoherent
  <2>3. CASE MakeWork
    BY <2>3, TellType DEF MakeWork, BackendInv, Answers
  <2>4. CASE Poll
    <3>1. Healthy
      BY <2>4, TellType DEF Poll, BackendInv, Answers
    <3>2. Chosen = "Cluster"
      BY <2>4 DEF Poll, BackendInv, BackendCoherent
    <3> QED BY <3>1, <3>2 DEF Healthy
  <2> QED BY <2>1, <2>2, <2>3, <2>4
<1> QED BY <1>0, <1>1, PTL DEF BackendSpec, ReadyIsServed

=============================================================================
