# A TLA+ model of Athena's operator

Athena runs machine-learning research on Kubernetes. People, and language
models on their behalf, describe experiments as custom resources; one Rust
process, `athena` (`operator/crates/athena`), reconciles them, and a web console
shows and edits them. This directory holds TLA+ models of the controllers and of
the stateful parts of the console, the instances on which TLC checks them, and
TLAPS proofs of what matters most.

Paths below are relative to the repository; `athena/src` abbreviates
`operator/crates/athena/src`, `athena-api/src` `operator/crates/athena-api/src`
and `console` `operator/crates/athena-console-web/src`.

- [The system](#the-system): its parts, their state, how they interact
- [The modules](#the-modules): what is modelled, and how it corresponds to the code
- [The runs](#the-runs): what TLC checks, with which bounds
- [Fairness](#fairness): what is assumed to happen, and why
- [The proofs](#the-proofs): what TLAPS proves, and along which argument
- [Where code and comments differ](#where-code-and-comments-differ)
- [What is not modelled](#what-is-not-modelled)

`PROJECT.json` gives for every definition the lines it models, for every hazard
the line where it bites and the properties that watch it, and for every property
a plausible mistake (a definition marked `Slip`) that TLC finds.

## The system

All state that survives lives in the Kubernetes API server. A controller keeps
a watch cache of the objects it is for, and is called with a cached object:
after a watch event, after the requeue interval its last pass asked for, or
after the delay of its `error_policy`. kube-rs never runs two passes for one
object at a time. Passes for different objects, and different controllers,
interleave at every API call. A pass may stop at any of its API calls (an error
is propagated with `?`) or die with the process; nothing is undone.

| Part | State it keeps | Operations | Talks to |
| --- | --- | --- | --- |
| **Experiment controller** (`reconciler.rs`) | `ExperimentStatus`; one Job per Experiment, by name; a workspace claim per profile | create or recreate the Job, stamp addresses and image, derive the phase from Job and pods, copy the metrics of a pod's termination message | Job controller, kubelet, Kueue, a cloud through SkyPilot |
| **Campaign controller** (`campaign_reconciler.rs`) | `ResearchCampaignStatus`; Experiments labelled with the campaign; inference mesh or RayJob; the canary's BenchmarkRun | list and adopt, gate on a canary, generate within budget and concurrency, choose parameters, keep the incumbent, bring the inference backend up and down | Experiments, BenchmarkRuns, Kueue, KubeRay |
| **Drive controller** (`drive_reconciler.rs`, `proposer_harness.rs`) | `ResearchDriveStatus` with a ledger of folded campaigns, a ring of ten proposals, rows and stage of a curriculum; ResearchCampaigns labelled with the drive | fold ended campaigns, author reports, promote through a curriculum, take approvals, ask a proposer, create campaigns | campaigns, an LLM or a harness Job, people |
| **BenchmarkRun controller** (`benchmark_reconciler.rs`) | `BenchmarkRunStatus`; a Job per task and seed | start Jobs, aggregate, rule on gates, write `status.decision` into the Experiment | Experiments |
| **ResearchReport controller** (`report_reconciler.rs`, `dossier.rs`) | `ResearchReportStatus`; a ConfigMap | assemble a dossier, check it, publish it | campaign, Experiments, BenchmarkRuns |
| **Web console** (`console`) | drafts and a token in the browser, a JWKS cache in the server | sign in, load, edit and save reports | API server, identity provider |
| **Workloads** (`experiments/`, `runners/`) | none the operator sees | train, write one JSON termination message | read by the Experiment and BenchmarkRun controllers |

What is hard about it, and what makes each part correct:

- **Experiment.** A pass holds a copy of the object and makes two status patches
  with several API calls between; Jobs vanish and are made again under the same
  name, and pods of the earlier incarnation stay around; a preempted pod looks
  like a failed one. *A terminal phase must be the outcome of the Job and be
  reached; metrics must be the Job's.* What the Job is made of matters as well:
  *its environment is that of the Experiment, it ends by a deadline that is
  there, a paid cloud task is started once and its cluster brought down.*
- **Campaign.** The gate, the budget and the batch come from one list, and the
  Experiments move on while the pass acts; creations fail in mid-batch; people
  write Experiments with the campaign's name. *Nothing before the canary has
  passed, never above budget or concurrency, no run without its endpoint, and an
  end.* The incumbent is inferred from runs that are noisy, echo their parent, or
  were measured under another image, and is read back from the campaign's own
  status. *No lucky incumbent, and the kept Experiment is the incumbent.* The
  inference backend has a life of its own. *Ready means serving, nothing jumps
  the queue, nothing is left behind.*
- **Drive.** What a pass decides lives in a copy of the status until one write
  at its end, while campaigns and reports are created on the way: a pass cut off
  forgets them. The proposer is untrusted, and may be a Job that outlives passes.
  *Every campaign folded exactly once, limits kept, nothing started past a
  proposal that waits, promotions earned, a proposal read once.*
- **BenchmarkRun.** Jobs and pods are read one after the other while they move.
  *A verdict rests on one report of every test, is told before it is final, and
  comes.*
- **Report.** Three reads of a moving world, a gate, and a write that wakes its
  own controller. *A sound dossier is never replaced by a broken one, no hot
  loop, no missed change.*
- **Console.** Answers arrive late, out of order or never, while the user goes on
  typing. *A save overwrites only what its author has seen, and a refused one
  costs nothing that was typed.*

## The modules

| Module | Models |
| --- | --- |
| `RunRecord` | what an Experiment promises to its readers: a record, open while Jobs come and go, closed with the outcome of the Job in place, and final while that Job is there |
| `Experiment`, `MCExperiment` | the Experiment controller, its Job and pods; implements `RunRecord` |
| `Workload`, `MCWorkload` | what runs for an Experiment: workspace claim, Job template, cloud bursts |
| `Campaign`, `MCCampaign` | the generation side of the Campaign controller |
| `Selection`, `MCSelection` | its other side: incumbent, decisions, parameters |
| `Inference`, `MCInference` | its inference backends |
| `Drive`, `MCDrive` | the Drive controller without curriculum |
| `Curriculum`, `MCCurriculum` | the curriculum of a drive |
| `Proposer` | the harness Job of a drive's proposer |
| `Verdict` | what a BenchmarkRun promises about the Experiment it rules on |
| `Benchmark`, `MCBenchmark` | the BenchmarkRun controller, with the canary gate that waits for it; implements `Verdict` |
| `Dossier` | the dossier and its checks, as operators |
| `Report`, `MCReport` | the ResearchReport controller |
| `Curator`, `MCCurator` | a report between curators, drive, controller and kubectl |
| `SignIn` | the console's sign-in |
| `...Proofs` | the theorems about the module named; `ExperimentProofs` has those about `Workload` too, `CampaignProofs` about `Inference`, `DriveProofs` about `Proposer` |

The controllers are modelled in one style. A variable `pass` (`passes` in
`Workload`, `bpass` in `Inference`, `hpass` in `Proposer`) holds the pass in
progress: its `step`, and the copies it took. One action is what the code does
from one API call to the next, so that everything else may happen in between;
`Abort` (or `...Abort`) ends the pass at any step. What surrounds the controller
(Jobs, pods, people, other controllers) has actions of its own.

**Experiment.** `Begin` dispatches a pass with the cached copy;
`EnsureFindsJob`, `EnsureCreatesJob` and `StampStatus` are
`ensure_experiment_job`, the second and third separate because they are two API
calls; `JobMissing`, `GetJob` and `Observe` are `reconcile_experiment_status`,
with the verdict (`StatusFromJobAndPods`) an operator, and `Merge` what a JSON
merge patch does to a status. The Job has a `uid` and an `outcome`; a lost Job's
pods remain with its uid until they are collected. `cache` trails `exp` and
catches up with `Sync`; a pass may begin with any copy the watch has delivered,
since kube-rs does not wait for the controller's own writes to come back. What the
properties need of the past is history, on which no step depends: `pass.fresh`,
that the copy was the stored one, and `decided`, the Job whose verdict closed the
record. Metrics are kept by name, each with the pod whose value is stored,
because the patch merges them name by name; a message without a scalar is taken for
none.

**Workload.** Two Experiments of one profile. A pass looks for the claim, makes
it, and builds the Job: the environment (`Env`, a list in which the last entry of
a name wins, as the kubelet has it), the deadline after a parser that may not
understand it, backoff, Kueue's queue. The launcher of a burst is its shell
script, a line a step: launch, timeout, down, with the pod killed anywhere and
the Job deleted, or preempted by Kueue, anywhere. A burst whose profile has
neither command nor arguments cannot be rendered (`RenderFails`): every pass of
its Experiment fails.

**Campaign.** `List` takes the snapshot the pass works on; `Adopt` labels
hand-written Experiments (best effort, like the code); `EnsureBenchmark` creates
the canary's BenchmarkRun; `NoInference`, `TearDown` and `EnsureInference` are
the three ways through the inference block, after which `Generation` chooses the
arm: `CreateCanary`, the batch (`Generate`, one creation a step, which may fail)
or none; `WriteStatus` computes the phase. Indices of generated Experiments are
numbers, because the code takes them from the count (`idx = total + i`) and that
is where creations collide; a creation that meets a name that is taken is answered
with a conflict, and the pass goes on. Experiments end (`Finish`), lose their Job and come
back, and people add some.

**Selection.** Here a pass fills the free places, and what matters is with what.
A parameter is the sequence of steps that led to it from the template's default,
which tells apart what the code computes from what it merely copies; scores are
small numbers, and a run may have none, or echo its parent's. One key is apart, the
one that the canary's overrides are about (`Lengths`): it is taken from what a child
inherits (`Strip`, `Inherited`), and the rest is laid over the template's defaults
(`Length`), of a child but not of a control. Seeds and re-rolls
are the code's. The operators of the sigma gate, the pool of controls, the
founding peers and the argmax over them, the perturbation of `pbt` and of the
heuristic are translated one by one.

**Inference.** Service, Deployment or RayJob, and pod, each with its owner, made
and deleted one call at a time; admission by Kueue, the readiness probe (or its
deliberate absence), the poll of `/health`, the lingering pod of something
deleted, and the garbage collector behind a campaign created anew.

**Drive.** `List` takes the campaigns and the cached status; `Fold` is one turn
of the fold loop, with the report it authors or fails to; `Decide` prunes
branches, takes approvals and decides the phase; in the step `Propose` the
proposer's actions come one by one and are arbitrary (`Structural`, `Fork`,
`Invalid`, `Skip`), or there is no proposal; `Conclude` records the proposal,
`Write` writes the whole status. The score of a campaign is abstracted to
whether it beat the best, did not, or never ran. `orphans` (campaigns in flight
that a pass did not know of), `ids`, the flag `fresh` of the annotation (set since
the last structural proposal was recorded) and that of the pass (it began as a copy
of the stored status) are history only.

**Curriculum** takes the scores up: rows per template, the quantifier of a
stage, promotion, the wind-down of the former stage's campaigns, the seed of a
branch by `seedFrom` and by robot, with the campaigns running beside it.
**Proposer** takes up what `NoProposal` of Drive abstracts: the Job named by a
proposal id that is computed from the status, adopted by name, expired or lost.

**Benchmark.** Tests are chosen by label, names and matrix; a pass makes the
missing Jobs, reads each and its pods, takes a number from each report
(`Number`), judges them all (`Judge`, `GatesPass`), promotes, and writes its status
last. The campaign of the canary is there as one action, since the gate is where
the two meet.

**Report** and **Dossier.** A document is a record of its sections, and a section
is what it says of the campaign, not how it is laid out; `Violations` are the
checks of the OKF gate. The campaign, its Experiments and its benchmark runs are
read in three steps. A hand-written Experiment is counted by the campaign at once
(`Rank`) and listed by the dossier only with the label that the campaign gives it
(`Listed`), which may fail; `unadopted` remembers those for which it did.

**Curator** has tabs with a draft, a base and requests under way whose answers, each
with the spec and the version that the server told (`Answer`), come in any order;
`late` remembers whether something was typed since a save was sent; **SignIn** two
tabs that share the storage of one browser.

How the modules fit together: `Benchmark` contains the campaign's gate, `Report`
the campaign's growth, `Curriculum` the campaigns' lives, `Curator` the drive's
write-up and the report controller's writes. `Campaign` knows of an Experiment
what `RunRecord` promises (open, closed, open again only through a lost Job), of
its backend the answers of `Inference`, of its canary a verdict as in `Verdict`.
One composition of everything is out of reach of a model checker, and would add
interleavings between objects that share no state.

## The runs

All runs but the last pass. States are distinct states.

| Run | Instance | States | Shows |
| --- | --- | --- | --- |
| `experiment` | 2 pods that report two metrics and one of them, up to 2 Jobs, 1 retry, stale copies | 360 k | `VerdictIsTheJobs`, `MetricsAreTheJobs`, `Settles`, refinement `ImplementsRunRecord` |
| `workload` | 2 Experiments of one profile, of five: queued GPU, unqueued with a foreign claim, cloud with and without TTL, cloud without a command; one pass cut off, one pod killed, one Job deleted or preempted | 78 k | `OverridesWin`, `TaskOnce`, `EveryRunEnds`, `BurstEnds` |
| `campaign` | budget 3, concurrency 2, one hand-written Experiment, one trouble; plain canary, gated canary on a mesh, RayJob | 121 k | `CanaryFirst`, `WithinBudget`, `WithinConcurrency`, `RunsHaveTheirEndpoint`, `Completes` |
| `selection` | populations of 2 (alone, behind a canary and seeded, seeded from a cheap run) and of 1, a hill climb; budgets 2 to 5; two scores or none; one new image; stale copies | 3.2 M | `ControlsMeasureNoise`, `CanaryStaysCheapAlone`, `NoLuckyIncumbent`, `KeptIsTheIncumbent` |
| `inference` | a queued mesh; a campaign that asks for mesh and RayJob; 2 campaigns of one name, one death, one cut, one reopening | 94 k | `QueuedIsAdmitted`, `ReadyIsServed`, `Serves`, `GivenBack` |
| `drive` | 2 names, 1 branch, cap 2 with approvals and cap 1 without, ring of 1, proposals of 2 actions, one trouble (a stale start, a cut, a person) | 1.4 M | `CountedOnce`, `WithinBranches`, `NothingUnapproved`, `EveryEndIsFolded` |
| `curriculum` | 3 campaigns, two curricula of two stages, 4 templates, 1 branch, one cut | 209 k | `StageIsEarned`, `MorphologyHolds`, `StagnationIsOfTheStage`, `PromotedStageStarts` |
| `proposer` | ring of 3, one campaign that ends, two faults | 425 k | `ReadOnce`, `KeepsAsking` |
| `benchmark` | 3 tasks, 2 seeds, seven setups: plain, retried behind a queue, expiring, ungated, missing reference, empty selection, name too long; any number of expiries, one fault, one meddling | 535 k | `VerdictDelivered`, `Settles`, refinement `ImplementsVerdict` |
| `report` | 3 experiments, one made by hand, 3 specs, one edit, three changes, one fault, small size limit | 696 k | `DatasetIsWhole`, `BestIsListed`, `Settles`, `Quiesces` |
| `curator` | 2 tabs, 3 versions, 3 calls, one fault | 2.1 M | `SavesKeepEdits`, `NoSilentOverwrite` |
| `signin` | 2 tabs, 3 attempts, builds with and without a clock | | `CallbackIsExchanged` is violated |

**Bounds.** Every bound is a constant, named in the module that declares it.
`MaxJobs`: two incarnations of the Job are enough for one to be mistaken for the
other; one pod for each. Budget 3 with concurrency 2 gives a batch of two, a batch
cut by the budget and one of a single creation; the hand-written Experiment is what
makes counts and indices disagree. `MaxTroubles`, `MaxFaults`, `MaxCuts`: one,
because every fault leaves the pass in the same state, `NoPass`, and the steps of
the others interleave with that; two where a fault and its repair matter
(`proposer`). The `selection` budgets leave room for the three controls that a sigma
needs and a run after them. With one branch, a proposal of two forks already
competes for a slot. `RingCap` is 1 in `drive`, where a full ring is then reached at
once, and `HarnessRingCap`, the same constant of the code, 3 in `proposer`, where
ids must differ; the code's is 10. `MaxActions` is lower than the code's 4: with one
slot, two actions are a fork and one too many, and every order of two kinds of
action. Curricula have two stages, so that there is one promotion; a line under
`All` has two templates. The one score there reaches the threshold: scores below it
make six times as many states (1.3 M, which TLC has been through as well, with the
same result), and `StagesAreEarned` covers any scores. Three versions of a report
are one to load, one somebody else makes and one to save. Numbers such as thresholds
and sizes are small, as only their order counts.

Deadlock is checked in `curriculum` and `proposer`, which never stop. Elsewhere, an
instance may rightly stop when its bounds are spent and its Jobs are over.

**Symmetry** is used for the tabs of `curator`, which checks no liveness.

The type invariants are no part of the runs: that of `SignIn` documents the state,
those of all other modules with a state are proved.

## Fairness

Each module says at its `FairSpec` what it assumes; never more than:

- *Passes go on.* Every controller returns a requeue from a pass and from its
  `error_policy`, so the first step of a pass is always enabled again and its
  steps are taken (`WF`). Where any number of passes may be cut off (`Experiment`,
  `Campaign`), each step is strongly fair: an API call that is tried for ever
  succeeds in the end. Where their number is bounded, weak fairness is enough.
- *The cluster does its part.* The watch delivers (`Sync`, `Deliver`); an
  Experiment's Job carries a deadline and ends (`reconciler.rs:1388`, `1667`); a
  benchmark's carries none, and nothing is assumed of it; Kueue serves whoever
  waits; pods start, backends come up, what is deleted goes, the collector collects.
  In `Workload`, where the deadline is the question, time passes, but a trainer or a
  task need never end.
- *A campaign that has spent its budget completes* (`Curriculum`; shown as
  `Completes`), and an Experiment ends (`Campaign`; shown as `Settles`).
- *A drive wants a proposal again and again* (`Proposer`, where the rest of the
  drive is left out).
- *Of people nothing is assumed*, and of the proposer nothing in `Drive`: the
  campaigns of `EveryEndIsFolded` are folded though it fails in every pass. Only
  `PromotedStageStarts` needs one that in the end proposes something that can be
  created.

`Completes` excepts what waits for a person: the verdict of a gate, a failed
RayJob that is to be deleted; and a campaign wedged by its own indices (`Wedged`):
below its budget, with every index that the next batch would try taken. That takes a
creation that failed in mid-batch, or an Experiment that a list missed; no other gap
in the indices is excused. `Serves` excepts a
RayJob that ended without failing, which is waited for in silence.

## The proofs

All theorems hold for every value of the constants that satisfies the named
assumptions (finite sets, natural numbers, disjointness of names): any number of
Experiments, campaigns, pods, tabs, tests, faults. None assumes that a pass starts
from the controller's own last write: where a stale copy makes a difference, the
property itself says so. Every invariant and every action property of
the passing runs is proved; what is left to TLC alone is liveness.

`ExperimentProofs`, `CampaignProofs` and `DriveProofs` have a second part about a
smaller component of the same controller: `Workload`, `Inference`, `Proposer`. They
extend both modules, whose names are therefore distinct.

- `ExperimentProofs`: `TypeCorrect`, `VerdictCorrect`, `TerminalStays`,
  `AddressesStay`, `MetricsHold`, `Refines`. `VerdictIsTheJobs` is not inductive,
  since a pass may write a verdict it formed on a Job that is gone: the invariant
  `IInv` adds that a pass with a fresh copy is over an open record
  (`FreshOverOpen`), that the Job a pass has read is the last one, still open or
  with its outcome (`ReadsTheLastJob`), and that a pass over a closed record, which
  must be one with a stale copy, stamps only a Job made since and has read the Job
  that closed it after its end (`SeesTheVerdict`). `TerminalStays` says exactly when
  a terminal phase may be left: by a pass that began with a stale copy, when the Job
  that gave the verdict is gone. That every step is one of `RunRecord` comes from
  the same invariant. `AddressesStay` and `MetricsHold` need types only. Of the
  workload: `WorkTypeCorrect`, `OverridesHold`, `TaskStartsOnce`. The invariant
  `LaunchInv` says that a Job is only made where there is none, that a launcher has
  no retries, and that as long as the task may still be started it was started for
  Jobs that were lost, and no others.
- `CampaignProofs`: `TypeCorrect`, `CanaryFirstHolds`, `WithinBudgetHolds`,
  `WithinConcurrencyHolds`, `EndpointHolds`, `CompletedHolds`. A pass acts on an old
  list; the invariant says in what respects it is still good: what it shows as
  there, or as succeeded, is so still (`Snapshot`); until the pass starts creating,
  every active run is on it (`Fresh`); the creations still owed are covered by
  gate, budget and concurrency (`BatchPlan`); a mesh found ready is not torn down
  in between (`Endpoint`); indices in use lie in a range as long as the budget
  (`SlotRange`).
  Of the backend: `BackendTypeCorrect`, `AdmittedHolds`, `ReadySeen`. The invariant
  `BackendCoherent` says what pod, status and work say of each other: a pod belongs to
  work that waits for nothing, an available Deployment has served, and a pass
  about to make one has found none.
- `SelectionProofs`: `TypeCorrect`, `CanaryStaysCheapAloneHolds`,
  `ControlsMeasureNoiseHolds`, `KeptIsTheIncumbentHolds`, `NoLuckyIncumbentHolds`.
  `PassInv`: what is a parent, and what a pass counts, has succeeded and stays so.
  The canary's length is not inherited: a campaign with a canary strips it of every
  seed, and one without has no cheap Experiment unless it comes from another campaign
  through the schema (`CheapInv`, `CheapSeed`). A control stands
  at an index that the population divides, one to a generation, with the point of
  its parent (`ControlInv`). From its patches on, what a pass keeps is its own
  incumbent, and what earlier passes kept is among what it has to undo (`KeptInv`).
  The incumbent of a pass has earned its place over the one that the pass has read,
  however old that copy (`LuckInv`): the gate lets it through with a sigma, of which
  three controls are the condition, or among the founding peers.
- `DriveProofs`: `TypeCorrect`; `FoldedOnce`, the lifetime count is that of the
  ledger, for passes cut off anywhere and started from old copies; the invariant
  states it of the status, of its cached copy and of the pass's, with what the pass
  has still to fold outside its ledger. `ApprovalHolds`: the annotation never names
  an id above the highest recorded, so that a proposal with a higher one is approved
  by an annotation set after it; one that is recorded with an id no higher is what
  `ids.repeated` tells of (`ApprovalInv`).
  `WithinBranchesHolds`: while a pass folds, what is in flight
  is listed in its status or an orphan; while it proposes, listed or made, and these
  together are no more than the branches allowed (`BranchInv`).
  Of the proposer's Job: `HarnessTypeCorrect`, `JobsAreReadOnce`. The invariant
  orders ids: a Job with an id not yet passed has not been read, and ids grow with
  each record as long as the ring has room.
- `CurriculumProofs`: `TypeCorrect`, `StagesAreEarned`, `MorphologyIsKept`,
  `StagnationIsCounted`, from one invariant (`CurriculumInv`), which says of the
  status and of the pass's copy alike (`Steady`) that every stage behind has its
  evidence and that the counter is no higher than the campaigns of the present
  stage in the ledger that ran. The evidence stays because scores and runs of a
  campaign only grow, and a campaign never changes its template; it is there at a
  promotion because the rows of `RowPassed` add up campaigns that succeeded, and
  the rest add nothing. That no weights cross robots rests on `SeedFits`: whichever
  stage `seedFrom` names, what `DefaultSeed` picks of its winners fits the template.
- `BenchmarkProofs`: `TypeCorrect`; `VerdictIsDelivered`, a run that reads Succeeded
  has told its Experiment, because the pass that writes the one has done the
  other; `VerdictIsEarned`, the refinement of `Verdict`: what a pass holds as the
  report of a test was reported, and the promotion is of exactly these.
- `ReportProofs`: `TypeCorrect`, `PublishedIsSound`, `BestIsListedHolds`. For the
  second the checks are opaque; what is shown is that no path through the pass
  publishes around them. For the third: a campaign's best has its label or was
  counted without it (`WorldInv`), labels are only added (`Grows`), and the campaign
  is read before its experiments are (`ReadInv`), so that the best is in the list
  when the curation leaves nothing out, unless it was counted without its label.
- `CuratorProofs`: `TypeCorrect`, `EditsAreKept`, `SavesDoNotOverwrite`, from an
  invariant about every call under way: an answer carries what the version it names
  held, and a save carries the draft, trimmed, until something is typed or the
  draft goes.

Recursion over lists and sums is written as recursive functions (`Retained` of
`Drive`, `Curate` of `Dossier`, `RunsOf` and `FoldedAll` of `Curriculum`). The
library's induction theorems take an operator as their parameter, which the
installed provers cannot instantiate. The proofs therefore go by the least
counterexample: the set of numbers at which the claim fails would have a smallest
one (`LeastNat`, from the well-foundedness of `<`), it is not 0, and the number
before it contradicts it. By
the same argument the function that a definition chooses is shown to exist, as the
one up to `n` extends to `n + 1` (`CurateUnfolds`, `RunsUnfold`, `FoldsUnfold`).
What is shown so is what an invariant needs of these operators, never all that they
compute.

Only model-checked: everything about liveness (`Settles`, `Completes`, `Serves`,
`EveryEndIsFolded`, `EveryRunEnds` and the like), which with fairness and `ENABLED`
is out of the prover's reach; and `SignIn`, whose one property is refuted.

## Where code and comments differ

The one disagreement that a run shows:

- `signin`: `finish_callback` checks the state of a callback with `check_state`,
  which takes the pending sign-in out of the storage, verifier and all; the next
  line asks for the verifier and finds none. Every callback with the right state
  ends in "PKCE verifier was lost", while the comment above it promises the
  exchange (`console/lib.rs:691-692`, `737`; `auth_flow.rs:65-66`).

Others came up while modelling. The models do what the code does, and their
properties are stated so as to hold; these are the reasons for the conditions in
them. Line numbers are of the file of the section.

*Experiment* (`reconciler.rs`). "Terminal experiments are immutable records" is
tested against the cached copy and the patch carries no resourceVersion: from a
copy older than the terminal write a pass reopens the record (464) if the Job is
gone by then, and only then (`TerminalIsFinal`); it may also leave a second Job
running for a record that is closed. The second
patch of a pass is made from the copy taken before the first and puts the old
environment back (522). "A burst never outlives its TTL" and "never leaves a
zombie cloud node" (1472-1477) do not hold when the launcher is killed or
`sky down` fails (`|| true`); a TTL of 0 disables `timeout`; the launcher ignores
`experimentDeadline`. "No retries: a blind relaunch would spin up a second cloud
cluster / re-bill the task" (1662) does not hold when Kueue preempts the launcher:
its Job, suspended and admitted again, starts the script over (`TaskOnce` counts
it with the deleted Jobs). "Operator vars stay authoritative" (1091): the profile
appends a later duplicate, which wins, and the Experiment overrides the first
entry (1198-1199). A cloud profile without a command fails every pass and the
Experiment stays Pending, with no Job (1533; `EveryRunEnds` excepts it).

*Campaign* (`campaign_reconciler.rs`). After a creation that failed in mid-batch the
count names an index that is taken, and with one place left the campaign gets a
conflict for it in every pass, for ever (730, `Wedged`). "Generate nothing further,
ever" does not hold for a canary whose Job was lost: it is run again and may pass
(1427, 1456). A canary is created without its mesh when hand-written Experiments
have used up the budget (568, 591). Heuristic campaigns never get a sigma, so that
nothing but the baseline is climbed from (1131, 1209). The founding champion is not
the argmax when a warm child hides a late cold start (383-410). Controls are
warm-started (757), against 786-788, and lack the keys that the canary overrides
(738); the cold spread of `pbt` repeats the baseline (1305); with a population of
one every run is a control. With one of three or more, a control whose creation was
refused may be made later, from a parent of its own generation that was created
meanwhile, whose seed it then has (760, 1681): nothing is measured by it, and
`ControlsMeasureNoise` is stated of parents with a lower index. The incumbent is
held against the one of the cached status (368): from a copy older than the last
write a pass gives its place to another that has beaten the older one only, or none,
which is why `NoLuckyIncumbent` speaks of the incumbent that the pass has read. A
campaign without a canary strips nothing, so that a cheap Experiment of another
campaign hands down its length when the schema declares the key (664-682,
`CheapSeed`). "readinessProbe" (1966, 2108) is told of a head that has none, for
good reason (2057, 2200). A RayJob that ends Complete is waited for in silence
(2038-2052); the lingering head of the old one may answer for the new.

*Drive* (`drive_reconciler.rs`). An approval "unblocks the NEXT pass (this pass
records the flip)" (281-283), but the pass that reads it decides its phase after the
flip and may propose at once. With the ring of proposals full, and after a status
write that was lost or overwritten, ids repeat, and an old annotation approves the
next structural proposal (1168; `research_drive.rs:389`); a pass from a copy older
than a structural proposal does not see that it waits (`NothingUnapproved` excepts
these two and no more); a finished harness Job is then adopted again until its TTL.
A pass cut off before its write forgets the branches it made, and the next one hands
their slots out again (1332; `research_drive.rs:313`), which is what `orphans`
counts. "A later retry still lands" (181-184) is not so: reports are authored in the
fold loop only. `PromotionSpec.metric` is never read. The first fold of a template
after a promotion counts as stagnation (630); the pass that promotes still proposes
campaigns of the old stage; "same-template row first" (1536) is the declared order;
undeclared robots break the chain of morphologies; a winding-down campaign may be
pinched to 0.

*BenchmarkRun* (`benchmark_reconciler.rs`). Failed gates make a run Failed, and
only a Succeeded one is promoted: `Discard` is never written, and a gated canary
with a failing benchmark is on hold for ever (536; `research_campaign.rs:107`). With
a TTL a finished run does not stay so: its Jobs are deleted (359) and made again (269),
its phase goes back to Preparing, and the benchmark is run for ever. Without one, a
Job that hangs holds the run, as no Job has a deadline (357-363): `Settles` promises a
phase only when the Jobs are over, and until one of them is deleted. A
promotion every 30 s overwrites what a person decided (98).

*Report* (`report_reconciler.rs`, `dossier.rs`). A second error of the same
generation keeps the reason of the first (111-117). `LinksResolved` and
`lastAssembledTime` may be stale after a pass was cut off between publication and
status (277-303). No references: no Citation section while its condition is False
(`dossier.rs:635`). The two members do not mirror each other (`dossier.rs:729`,
`1002`). A campaign counts a hand-written Experiment whose label patch failed
(`campaign_reconciler.rs:242-254`) and may name it as its best, while the dossier
lists by label (`dossier.rs:753-757`): such a document names a best it does not
list, which is why `BestIsListed` excepts `unadopted`. Any call of `assemble` that
fails, not a missing campaign alone, is told as `CampaignUnavailable` (87-103).

*Curator* (`console/curator.rs`). Against "edit without losing anything" (23), edits
typed while a save is under way are lost when it succeeds (733), which is why
`SavesKeepEdits` excepts `late`; so are those typed before a load is answered (220),
and Open in the Reports panel asks for no confirmation (`lib.rs:1568`); a second
save in a row is refused, because the controller's status write moved the
resourceVersion; the preview of another draft may be shown late.

*Sign-in* (`console`). "Current epoch seconds, or 0 if the clock is unavailable"
(`auth.rs:213`): built for wasm32-unknown-unknown, `SystemTime::now` panics instead
(216), so that a page without a callback never gets past Loading and never offers to
sign in (`lib.rs:722`), a token response is lost (773) and a save dies (`api.rs:48`);
`clock` in `SignIn` says which build it is, and what `signin` finds takes one with a
clock. A token response without `expires_in` keeps the old expiry; a second
tab overwrites the pending sign-in of the first; a late 401 drops a new token;
the pages of a failed or expired sign-in have no button to try again.

## What is not modelled

- The **desktop console** and the **workspace** of the web console: layout over
  read-only calls. The **Panathenaia** view, telemetry and gauges: they only read.
- The server's **token check** with its JWKS cache: a library call behind a cache
  whose entries are replaced as a whole.
- The **text** of dossiers, prompts and logs; LaTeX and YAML; the volumes, labels and
  resource quantities of Job templates; the CLI.
- **Workloads**: numerical code, of which the operator sees a termination message.
  **Charts, Nix files, examples**: configuration.
- The drive's **sensitivity evidence** (a regression that goes into the prompt) and the
  clamping of a proposed branch's parameters: data that no decision rests on but
  the proposer's, which is arbitrary here.
- `maxParallelTasks` and `holdout` of a BenchmarkRun, which the controller never reads.

Within the modelled parts: Experiments are not deleted by people, specs are not
edited while a campaign or drive runs (but for `spec.paused` and a report's), and
the ledger of a drive never reaches its 200 names (`LedgerAssumption`), and a stage
of a curriculum names a template once (`CurriculaAssumption`; the code would count
the row of one named twice twice). Crashes
between the creation of a Job and its stamp, and metrics of pods in list order,
are behaviours of `Experiment` on which no property rests.
