------------------------------ MODULE Workload ------------------------------
(***************************************************************************)
(* What runs for an Experiment (ensure_workspace_claim, build_job and      *)
(* build_sky_launcher_job, athena/src/reconciler.rs): Experiments of one   *)
(* RuntimeProfile that share a workspace claim and a Kueue quota, the Job  *)
(* each gets, with its environment, deadline and retries, and, for a cloud *)
(* profile, the launcher's script and the cluster it brings up and down.   *)
(* What the controller then reads off the Job is module Experiment, and    *)
(* what that has by the same name is called Work... here, or in the plural *)
(* (a module may extend both).                                             *)
(***************************************************************************)
EXTENDS Naturals, Sequences

CONSTANTS
    Exps,        \* the Experiments
    Profiles,    \* the RuntimeProfile they may have, after its defaults
    Inputs,      \* what the spec of an Experiment may say
    MaxFaults,   \* bound: how many passes are cut off
    MaxKills,    \* bound: how often a pod is killed, over all Experiments
    MaxLost      \* bound: how often a Job is deleted or set back, all of one
                 \* Experiment

\* A variable the operator sets, say ATHENA_EXPERIMENT, and one it does not,
\* say LLM_BASE_URL.
Names == {"Own", "Url"}

\* A duration string: does it parse, and to how many milliseconds.
Durations == [parses : BOOLEAN, ms : Nat]

ASSUME ProfilesAssumption ==
    Profiles \subseteq
      [create : BOOLEAN,      \* storage.createWorkspaceClaim
       queued : BOOLEAN,      \* scheduling.queueName is there
       gpu : BOOLEAN,         \* resources name a gpu
       sky : BOOLEAN,         \* the sky block is there, and enabled
       command : BOOLEAN,     \* it has a command, or arguments
       ttl : Nat,             \* sky.ttlMinutes
       deadline : Durations,  \* scheduling.experimentDeadline
       env : SUBSET Names]
ASSUME InputsAssumption ==
    Inputs \subseteq [deadline : Durations, env : SUBSET Names]
ASSUME WorkBoundsAssumption ==
    /\ MaxFaults \in Nat
    /\ MaxKills \in Nat
    /\ MaxLost \in Nat

VARIABLES
    profile,   \* the RuntimeProfile, which nobody edits here
    input,     \* the specs of the Experiments
    claim,     \* the workspace claim exists
    jobs,      \* the Job of each Experiment
    cloud,     \* its SkyPilot cluster
    starts,    \* history: how often its task was started there
    abandoned, \* history: its cluster was up when its launcher went
    passes,    \* the step its reconcile pass is at
    faults, kills, lost

workVars == <<profile, input, claim, jobs, cloud, starts, abandoned, passes, faults,
              kills, lost>>
given == <<profile, input>>
burst == <<cloud, starts, abandoned>>
counts == <<faults, kills, lost>>

Sources == {"none", "operator", "profile", "experiment"}

\* `waits`: suspended, until Kueue admits it; `pinned`: the topology annotation;
\* `limit`: activeDeadlineSeconds, 0 if there is none; `retries`: what is left
\* of backoffLimit; `script`: how far the launcher is; `env`: what a run finds
\* in its environment, by the layer it comes from.
WorkJobs ==
    [state : {"Absent", "Waiting", "Running", "Hung", "Done"},
     waits : BOOLEAN, pinned : BOOLEAN, limit : Nat, retries : 0 .. 3,
     script : {"None", "Start", "Wait", "Down"}, env : [Names -> Sources]]

NoWorkJob ==
    [state |-> "Absent", waits |-> FALSE, pinned |-> FALSE, limit |-> 0,
     retries |-> 0, script |-> "None", env |-> [n \in Names |-> "none"]]

WorkTypeOK ==
    /\ profile \in Profiles
    /\ input \in [Exps -> Inputs]
    /\ claim \in BOOLEAN
    /\ jobs \in [Exps -> WorkJobs]
    /\ cloud \in [Exps -> {"Down", "Busy", "Idle"}]
    /\ starts \in [Exps -> Nat]
    /\ abandoned \in [Exps -> BOOLEAN]
    /\ passes \in [Exps -> {"Idle", "FindClaim", "MakeClaim", "MakeJob"}]
    /\ faults \in 0 .. MaxFaults
    /\ kills \in 0 .. MaxKills
    /\ lost \in [Exps -> 0 .. MaxLost]

WorkInit ==
    /\ profile \in Profiles
    /\ input \in [Exps -> Inputs]
    /\ claim = FALSE
    /\ jobs = [e \in Exps |-> NoWorkJob]
    /\ cloud = [e \in Exps |-> "Down"]
    /\ starts = [e \in Exps |-> 0]
    /\ abandoned = [e \in Exps |-> FALSE]
    /\ passes = [e \in Exps |-> "Idle"]
    /\ faults = 0
    /\ kills = 0
    /\ lost = [e \in Exps |-> 0]

-----------------------------------------------------------------------------
(* The Job that is built. A definition marked Slip is a faulty variant of the *)
(* one that follows it.                                                       *)

\* The layers of a variable, in the order of the list: the last one counts.
Operator(n) == IF n = "Own" THEN <<"operator">> ELSE <<>>
WithProfile(n) ==
    Operator(n) \o (IF n \in profile.env THEN <<"profile">> ELSE <<>>)

\* Slip: the Experiment's variables go before those of the profile.
EnvProfileLast(e) ==
    [n \in Names |->
       LET layers == (IF n \in input[e].env THEN <<"experiment">> ELSE Operator(n))
                       \o (IF n \in profile.env THEN <<"profile">> ELSE <<>>)
       IN IF layers = <<>> THEN "none" ELSE layers[Len(layers)]]

\* experiment_env: an Experiment's variable replaces the first of its name, in
\* place, or is appended.
Env(e) ==
    [n \in Names |->
       LET own == WithProfile(n)
           layers == IF n \notin input[e].env THEN own
                     ELSE IF own = <<>> THEN <<"experiment">>
                     ELSE [own EXCEPT ![1] = "experiment"]
       IN IF layers = <<>> THEN "none" ELSE layers[Len(layers)]]

\* parse_go_duration: whole seconds, rounded up; 0 for what it refuses.
ParseGoDuration(d) == IF d.parses THEN (d.ms + 999) \div 1000 ELSE 0

DefaultSeconds == 8 * 3600

\* Slip: a deadline that does not parse is none.
DeadlineOrNone(e) ==
    IF input[e].deadline.ms > 0 THEN ParseGoDuration(input[e].deadline)
    ELSE ParseGoDuration(profile.deadline)

\* experiment_deadline_override, experiment_deadline_seconds.
Deadline(e) ==
    LET own == ParseGoDuration(input[e].deadline)
        shared == ParseGoDuration(profile.deadline)
    IN IF own > 0 THEN own ELSE IF shared > 0 THEN shared ELSE DefaultSeconds

\* build_job, with experiment_labels and kueue_tas_annotations.
DirectJob(e) ==
    [state |-> "Waiting", waits |-> profile.queued,
     pinned |-> profile.queued /\ profile.gpu, limit |-> Deadline(e),
     retries |-> 3, script |-> "None", env |-> Env(e)]

\* Slip: the launcher is retried as a trainer is.
LauncherRetried(e) ==
    [state |-> "Waiting", waits |-> profile.queued, pinned |-> FALSE,
     limit |-> profile.ttl * 60 + 900, retries |-> 3, script |-> "Start",
     env |-> Env(e)]

\* build_sky_launcher_job: small, never retried, whatever deadline is asked.
Launcher(e) ==
    [state |-> "Waiting", waits |-> profile.queued, pinned |-> FALSE,
     limit |-> profile.ttl * 60 + 900, retries |-> 0, script |-> "Start",
     env |-> Env(e)]

-----------------------------------------------------------------------------
(* ensure_experiment_job, one pass per Experiment at a time. *)

To(e, step) == passes' = [passes EXCEPT ![e] = step]

\* A cloud burst has no use for the claim. A pass that finds the Job there makes
\* no other, so it is left out.
WorkBegin(e) ==
    /\ passes[e] = "Idle"
    /\ jobs[e].state = "Absent"
    /\ To(e, IF profile.sky THEN "MakeJob" ELSE "FindClaim")
    /\ UNCHANGED <<given, claim, jobs, burst, counts>>

\* ensure_workspace_claim: a claim that is managed elsewhere is not looked for.
FindClaim(e) ==
    /\ passes[e] = "FindClaim"
    /\ To(e, IF profile.create /\ ~claim THEN "MakeClaim" ELSE "MakeJob")
    /\ UNCHANGED <<given, claim, jobs, burst, counts>>

\* Another Experiment's pass may have made it meanwhile: that is an error, and
\* the pass is over.
MakeClaim(e) ==
    /\ passes[e] = "MakeClaim"
    /\ claim' = TRUE
    /\ To(e, IF claim THEN "Idle" ELSE "MakeJob")
    /\ UNCHANGED <<given, jobs, burst, counts>>

\* render_sky_task has nothing to run without a command; a trainer's image has
\* a command of its own.
SkyCommandRequired == profile.sky /\ ~profile.command

\* That is an error, and the pass is over, as every later one will be.
RenderFails(e) ==
    /\ passes[e] = "MakeJob"
    /\ SkyCommandRequired
    /\ To(e, "Idle")
    /\ UNCHANGED <<given, claim, jobs, burst, counts>>

MakeJob(e) ==
    /\ passes[e] = "MakeJob"
    /\ ~SkyCommandRequired
    /\ jobs' = [jobs EXCEPT ![e] = IF profile.sky THEN Launcher(e) ELSE DirectJob(e)]
    /\ To(e, "Idle")
    /\ UNCHANGED <<given, claim, burst, counts>>

\* An API call fails, or the operator dies.
WorkAbort(e) ==
    /\ passes[e] # "Idle"
    /\ faults < MaxFaults
    /\ faults' = faults + 1
    /\ To(e, "Idle")
    /\ UNCHANGED <<given, claim, jobs, burst, kills, lost>>

WorkPassStep(e) ==
    \/ WorkBegin(e)
    \/ FindClaim(e)
    \/ MakeClaim(e)
    \/ RenderFails(e)
    \/ MakeJob(e)

-----------------------------------------------------------------------------
(* Kueue, the Job controller and the pods. *)

Becomes(e, j) == jobs' = [jobs EXCEPT ![e] = j]

\* The quota is one Job at a time; flavours with GPUs want the annotation.
Admit(e) ==
    /\ jobs[e].waits
    /\ \A x \in Exps : jobs[x].state \in {"Absent", "Done"} \/ jobs[x].waits
    /\ profile.gpu /\ ~profile.sky => jobs[e].pinned
    /\ Becomes(e, [jobs[e] EXCEPT !.waits = FALSE])
    /\ UNCHANGED <<given, claim, burst, passes, counts>>

PodStarts(e) ==
    /\ jobs[e].state = "Waiting"
    /\ ~jobs[e].waits
    /\ claim \/ profile.sky
    /\ Becomes(e, [jobs[e] EXCEPT !.state = "Running"])
    /\ UNCHANGED <<given, claim, burst, passes, counts>>

\* A trainer ends, or freezes.
Train(e) ==
    /\ jobs[e].state = "Running"
    /\ ~profile.sky
    /\ \E state \in {"Done", "Hung"} : Becomes(e, [jobs[e] EXCEPT !.state = state])
    /\ UNCHANGED <<given, claim, burst, passes, counts>>

\* Its launcher is gone, or leaves without having brought it down.
Abandon(e) == abandoned' = [abandoned EXCEPT ![e] = @ \/ cloud[e] # "Down"]

\* activeDeadlineSeconds, which run from the admission.
DeadlinePasses(e) ==
    /\ jobs[e].state \in {"Waiting", "Running", "Hung"}
    /\ ~jobs[e].waits
    /\ jobs[e].limit > 0
    /\ Becomes(e, [jobs[e] EXCEPT !.state = "Done"])
    /\ Abandon(e)
    /\ UNCHANGED <<given, claim, cloud, starts, passes, counts>>

\* Eviction, a node that goes: the Job has retries, or has failed.
KillPod(e) ==
    /\ jobs[e].state \in {"Running", "Hung"}
    /\ kills < MaxKills
    /\ kills' = kills + 1
    /\ Abandon(e)
    /\ Becomes(e, IF jobs[e].retries = 0 THEN [jobs[e] EXCEPT !.state = "Done"]
                  ELSE [jobs[e] EXCEPT !.state = "Waiting",
                                      !.retries = @ - 1,
                                      !.script = IF profile.sky THEN "Start"
                                                 ELSE "None"])
    /\ UNCHANGED <<given, claim, cloud, starts, passes, faults, lost>>

\* The Job, under way, is taken away from the run.
Lose(e) ==
    /\ jobs[e].state \in {"Waiting", "Running", "Hung"}
    /\ lost[e] < MaxLost
    /\ \A x \in Exps \ {e} : lost[x] = 0
    /\ lost' = [lost EXCEPT ![e] = @ + 1]
    /\ Abandon(e)
    /\ UNCHANGED <<given, claim, cloud, starts, passes, faults, kills>>

\* It is deleted behind the controller's back, which creates it again.
DeleteJob(e) ==
    /\ Lose(e)
    /\ Becomes(e, NoWorkJob)

\* Kueue preempts it: it is suspended, its pod deleted, and no retry is used up.
\* It starts over when it is admitted again.
Preempt(e) ==
    /\ profile.queued /\ ~jobs[e].waits
    /\ Lose(e)
    /\ Becomes(e, [jobs[e] EXCEPT !.state = "Waiting", !.waits = TRUE,
                                  !.script = IF profile.sky THEN "Start" ELSE "None"])

\* Whoever manages the claim elsewhere makes it.
ProvideClaim ==
    /\ ~profile.create
    /\ ~claim
    /\ claim' = TRUE
    /\ UNCHANGED <<given, jobs, burst, passes, counts>>

-----------------------------------------------------------------------------
(* SKY_LAUNCHER_SCRIPT, and the cluster. *)

At(e, script) ==
    /\ jobs[e].state = "Running"
    /\ jobs[e].script = script

\* sky launch: brings the cluster up, or finds it up, and starts the task.
SkyLaunch(e) ==
    /\ At(e, "Start")
    /\ Becomes(e, [jobs[e] EXCEPT !.script = "Wait"])
    /\ cloud' = [cloud EXCEPT ![e] = "Busy"]
    /\ starts' = [starts EXCEPT ![e] = @ + 1]
    /\ UNCHANGED <<given, claim, abandoned, passes, counts>>

TaskEnds(e) ==
    /\ cloud[e] = "Busy"
    /\ cloud' = [cloud EXCEPT ![e] = "Idle"]
    /\ UNCHANGED <<given, claim, jobs, starts, abandoned, passes, counts>>

\* --down with --idle-minutes-to-autostop.
Autostop(e) ==
    /\ cloud[e] = "Idle"
    /\ cloud' = [cloud EXCEPT ![e] = "Down"]
    /\ UNCHANGED <<given, claim, jobs, starts, abandoned, passes, counts>>

\* sky launch streams the log until the task is over.
LaunchReturns(e) ==
    /\ At(e, "Wait")
    /\ cloud[e] # "Busy"
    /\ Becomes(e, [jobs[e] EXCEPT !.script = "Down"])
    /\ UNCHANGED <<given, claim, burst, passes, counts>>

\* Slip: the script ends with the launch it has cut short.
TimeoutEnds(e) ==
    /\ At(e, "Start") \/ At(e, "Wait")
    /\ profile.ttl > 0
    /\ Becomes(e, [jobs[e] EXCEPT !.state = "Done"])
    /\ UNCHANGED <<given, claim, burst, passes, counts>>

\* timeout: 0 seconds are no limit.
Timeout(e) ==
    /\ At(e, "Start") \/ At(e, "Wait")
    /\ profile.ttl > 0
    /\ Becomes(e, [jobs[e] EXCEPT !.script = "Down"])
    /\ UNCHANGED <<given, claim, burst, passes, counts>>

\* sky down, whose failure is ignored.
SkyDown(e) ==
    /\ At(e, "Down")
    /\ Becomes(e, [jobs[e] EXCEPT !.state = "Done"])
    /\ \/ cloud' = [cloud EXCEPT ![e] = "Down"] /\ UNCHANGED abandoned
       \/ Abandon(e) /\ UNCHANGED cloud
    /\ UNCHANGED <<given, claim, starts, passes, counts>>

ClusterStep(e) ==
    \/ Admit(e) \/ PodStarts(e) \/ Train(e)
    \/ DeadlinePasses(e) \/ KillPod(e) \/ DeleteJob(e) \/ Preempt(e)
BurstStep(e) ==
    \/ SkyLaunch(e) \/ TaskEnds(e) \/ Autostop(e)
    \/ LaunchReturns(e) \/ Timeout(e) \/ SkyDown(e)

WorkNext ==
    \/ ProvideClaim
    \/ \E e \in Exps : WorkPassStep(e) \/ WorkAbort(e) \/ ClusterStep(e) \/ BurstStep(e)

WorkSpec == WorkInit /\ [][WorkNext]_workVars

\* The requeue keeps passes coming and a bounded number is cut off; Kueue serves
\* whoever waits; time passes. A trainer or a task need never end, a claim that
\* is managed elsewhere need never be made.
WorkFairSpec ==
    /\ WorkSpec
    /\ \A e \in Exps :
          /\ WF_workVars(WorkPassStep(e))
          /\ SF_workVars(Admit(e))
          /\ WF_workVars(PodStarts(e)) /\ WF_workVars(DeadlinePasses(e))
          /\ WF_workVars(SkyLaunch(e)) /\ WF_workVars(Autostop(e))
          /\ WF_workVars(LaunchReturns(e)) /\ WF_workVars(Timeout(e))
          /\ WF_workVars(SkyDown(e))

-----------------------------------------------------------------------------
(* Properties. *)

\* "Experiment-level env overrides (e.g. campaign-injected LLM_BASE_URL)": what
\* an Experiment sets and the operator does not is what its run finds, whatever
\* the profile sets.
OverridesWin ==
    \A e \in Exps : jobs[e].state # "Absent" /\ "Url" \in input[e].env
                      => jobs[e].env["Url"] = "experiment"

\* "A blind relaunch would spin up a second cloud cluster / re-bill the task":
\* the task of a burst is started once, and once more for every time its Job was
\* deleted or Kueue preempted it, but not for a launcher pod that is killed.
TaskOnce == \A e \in Exps : starts[e] <= 1 + lost[e]

\* "So a hung trainer can't squat a GPU forever", "a typo can never wedge a
\* run", "structurally unadmittable" without the annotation: every run comes to
\* an end, though trainers freeze, durations do not parse, runs wait for one
\* another's quota and their first passes race for the claim. The exception is
\* the burst without a command, which never gets a Job.
EveryRunEnds ==
    \A e \in Exps : SkyCommandRequired \/ <>[](jobs[e].state = "Done")

\* "The zombie guard": a cluster that was brought up comes down, though its task
\* hangs, unless its launcher was killed or its sky down failed.
BurstEnds ==
    \A e \in Exps : cloud[e] # "Down" ~> (cloud[e] = "Down" \/ abandoned[e])
=============================================================================
