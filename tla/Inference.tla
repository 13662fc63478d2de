----------------------------- MODULE Inference -----------------------------
(***************************************************************************)
(* The inference backend of a campaign (ensure_mesh, ensure_vllm_cluster   *)
(* and their teardown, athena/src/campaign_reconciler.rs), which module    *)
(* Campaign knows as Absent, Starting, Ready or Failed: a Service, and a   *)
(* Deployment or a RayJob under the same name, made and deleted one API    *)
(* call at a time by passes that may be cut off, while Kueue admits, pods  *)
(* start, load their model and die, the campaign is deleted and created    *)
(* anew, and the garbage collector takes what a deleted campaign owned.    *)
(* What Campaign has by the same name is called Backend... or b... here: a *)
(* module may extend both.                                                 *)
(***************************************************************************)
EXTENDS Naturals

CONSTANTS
    BackendSpecs, \* the inference parts of spec the campaign may have
    MaxUids,      \* bound: how many campaigns ever have this name
    MaxReopened,  \* bound: how often a lost Job runs again after the end
    MaxDeaths,    \* bound: how often the pod dies, or the RayJob ends
    MaxFaults     \* bound: how many passes are cut off

Kinds == {"Mesh", "Cluster"}

\* `mesh`, `cluster`: spec.inferenceMesh and spec.inferenceCluster are there;
\* `queued`: GPUs are asked for and a queue is named.
ASSUME BackendSpecsAssumption ==
    BackendSpecs \subseteq
      {s \in [mesh : BOOLEAN, cluster : BOOLEAN, queued : BOOLEAN] : s.mesh \/ s.cluster}
ASSUME BackendBoundsAssumption ==
    /\ MaxUids \in Nat \ {0}
    /\ MaxReopened \in Nat
    /\ MaxDeaths \in Nat
    /\ MaxFaults \in Nat

VARIABLES
    bspec,     \* the campaign's spec, which nobody edits here
    alive,     \* the campaign exists
    uid,       \* metadata.uid of the last campaign of this name
    done,      \* nothing is left to run: all_done of a pass that lists now
    reopened,  \* how often that was taken back
    svc,       \* the Service of each kind: its owner's uid, 0 if there is none
    work,      \* the Deployment or RayJob
    pod,       \* its (head) pod
    available, \* status.availableReplicas >= 1, of a Deployment
    served,    \* history: this Deployment or RayJob has come to serve
    lingering, \* a pod of a deleted one still serves
    deaths,    \* how often a pod died
    told,      \* the answer of the last pass that gave one
    faults,    \* how many passes were cut off
    bpass      \* the pass in progress

backendVars == <<bspec, alive, uid, done, reopened, svc, work, pod, available, served,
                 lingering, deaths, told, faults, bpass>>
campaign == <<bspec, alive, uid, done, reopened>>
running == <<pod, available, served, lingering, deaths>>

Uids == 0 .. MaxUids
Answers == {"None", "Starting", "Ready", "Failed"}
BackendSteps ==
    {"Idle", "FindService", "MakeService", "Ensure", "MakeWork", "Poll", "Launch",
     "FindWork", "DeleteWork", "FindOldService", "DeleteService"}

\* `waits`: suspended, or held by Kueue's scheduling gate; `probe`: readiness is
\* asked of the model server; `phase`: what a RayJob came to.
Works == [owner : Uids, waits : BOOLEAN, probe : BOOLEAN, admitted : BOOLEAN,
          phase : {"Live", "Failed", "Complete"}]

NoWork == [owner |-> 0, waits |-> FALSE, probe |-> FALSE, admitted |-> FALSE,
           phase |-> "Live"]
WorkThere == work.owner # 0

NoBackendPass == [step |-> "Idle", uid |-> 0]

BackendTypeOK ==
    /\ bspec \in BackendSpecs
    /\ alive \in BOOLEAN
    /\ uid \in Uids
    /\ done \in BOOLEAN
    /\ reopened \in 0 .. MaxReopened
    /\ svc \in [Kinds -> Uids]
    /\ work \in Works
    /\ pod \in {"None", "Loading", "Serving"}
    /\ available \in BOOLEAN
    /\ served \in BOOLEAN
    /\ lingering \in BOOLEAN
    /\ deaths \in 0 .. MaxDeaths
    /\ told \in Answers
    /\ faults \in 0 .. MaxFaults
    /\ bpass \in [step : BackendSteps, uid : Uids]

BackendInit ==
    /\ bspec \in BackendSpecs
    /\ alive = TRUE
    /\ uid = 1
    /\ done = FALSE
    /\ reopened = 0
    /\ svc = [k \in Kinds |-> 0]
    /\ work = NoWork
    /\ pod = "None"
    /\ available = FALSE
    /\ served = FALSE
    /\ lingering = FALSE
    /\ deaths = 0
    /\ told = "None"
    /\ faults = 0
    /\ bpass = NoBackendPass

-----------------------------------------------------------------------------
(* What a pass makes and decides. A definition marked Slip is a faulty variant *)
(* of the one that follows it.                                                 *)

\* inferenceCluster wins over inferenceMesh.
Chosen == IF bspec.cluster THEN "Cluster" ELSE "Mesh"

\* Slip: the pod counts as ready when its container runs.
DeploymentUnprobed(owner) ==
    [owner |-> owner, waits |-> bspec.queued, probe |-> FALSE,
     admitted |-> FALSE, phase |-> "Live"]

\* build_mesh_deployment: the pod of a queued one carries Kueue's labels.
Deployment(owner) ==
    [owner |-> owner, waits |-> bspec.queued, probe |-> TRUE,
     admitted |-> FALSE, phase |-> "Live"]

\* Slip: the queue label is there, but the RayJob does not arrive suspended.
RayJobEager(owner) ==
    [owner |-> owner, waits |-> FALSE, probe |-> FALSE,
     admitted |-> FALSE, phase |-> "Live"]

\* Slip: a probe of /health on the head pod.
RayJobProbed(owner) ==
    [owner |-> owner, waits |-> bspec.queued, probe |-> TRUE,
     admitted |-> FALSE, phase |-> "Live"]

\* build_vllm_rayjob: suspended when there is a queue, no probe on the head.
RayJob(owner) ==
    [owner |-> owner, waits |-> bspec.queued, probe |-> FALSE,
     admitted |-> FALSE, phase |-> "Live"]

\* What the object itself answers. Only jobDeploymentStatus Failed is looked at.
Answer ==
    IF Chosen = "Mesh" THEN (IF available THEN "Ready" ELSE "Starting")
    ELSE IF work.phase = "Failed" THEN "Failed" ELSE "Starting"

\* GET <service>/health: the Service selects the head pods of the campaign.
Healthy == svc["Cluster"] # 0 /\ (pod = "Serving" \/ lingering)

At(step) == [bpass EXCEPT !.step = step]

\* The answer of the pass, and on to the creation of runs.
Tell(answer) ==
    /\ told' = answer
    /\ bpass' = IF answer = "Ready" THEN At("Launch") ELSE NoBackendPass

-----------------------------------------------------------------------------
(* The pass, from the moment it knows whether all is done. *)

Start ==
    /\ bpass.step = "Idle"
    /\ alive
    /\ bpass' = [step |-> IF done THEN "FindWork" ELSE "FindService", uid |-> uid]
    /\ UNCHANGED <<campaign, svc, work, running, told, faults>>

FindService ==
    /\ bpass.step = "FindService"
    /\ bpass' = At(IF svc[Chosen] = 0 THEN "MakeService" ELSE "Ensure")
    /\ UNCHANGED <<campaign, svc, work, running, told, faults>>

MakeService ==
    /\ bpass.step = "MakeService"
    /\ svc' = [svc EXCEPT ![Chosen] = bpass.uid]
    /\ bpass' = At("Ensure")
    /\ UNCHANGED <<campaign, work, running, told, faults>>

\* ensure_mesh and ensure_vllm_cluster: the Deployment or RayJob is looked for,
\* and answers if it is there. A RayJob that has not failed is then polled.
Ensure ==
    /\ bpass.step = "Ensure"
    /\ \/ /\ ~WorkThere
          /\ bpass' = At("MakeWork")
          /\ UNCHANGED told
       \/ /\ WorkThere
          /\ Chosen = "Mesh" \/ Answer # "Starting"
          /\ Tell(Answer)
       \/ /\ WorkThere
          /\ Chosen = "Cluster" /\ Answer = "Starting"
          /\ bpass' = At("Poll")
          /\ UNCHANGED told
    /\ UNCHANGED <<campaign, svc, work, running, faults>>

MakeWork ==
    /\ bpass.step = "MakeWork"
    /\ work' = IF Chosen = "Mesh" THEN Deployment(bpass.uid) ELSE RayJob(bpass.uid)
    /\ available' = FALSE
    /\ served' = FALSE
    /\ Tell("Starting")
    /\ UNCHANGED <<campaign, svc, pod, lingering, deaths, faults>>

\* The poll of /health, which may time out in any case.
Poll ==
    /\ bpass.step = "Poll"
    /\ \/ Healthy /\ Tell("Ready")
       \/ Tell("Starting")
    /\ UNCHANGED <<campaign, svc, work, running, faults>>

\* The canary or the next batch is created, each run told where to ask.
Launch ==
    /\ bpass.step = "Launch"
    /\ bpass' = NoBackendPass
    /\ UNCHANGED <<campaign, svc, work, running, told, faults>>

\* Slip: nothing to do when the Deployment or RayJob is gone.
FindWorkOrStop ==
    /\ bpass.step = "FindWork"
    /\ bpass' = IF WorkThere THEN At("DeleteWork") ELSE NoBackendPass
    /\ UNCHANGED <<campaign, svc, work, running, told, faults>>

\* teardown_mesh and teardown_vllm_cluster.
FindWork ==
    /\ bpass.step = "FindWork"
    /\ bpass' = At(IF WorkThere THEN "DeleteWork" ELSE "FindOldService")
    /\ UNCHANGED <<campaign, svc, work, running, told, faults>>

\* What is deleted goes at once, its pod a little later.
Removed ==
    /\ work' = NoWork
    /\ pod' = "None"
    /\ available' = FALSE
    /\ served' = FALSE
    /\ lingering' = (lingering \/ pod = "Serving")
    /\ UNCHANGED deaths

\* What has gone in the meantime is an error, which ends the pass.
DeleteWork ==
    /\ bpass.step = "DeleteWork"
    /\ \/ /\ WorkThere
          /\ Removed
          /\ bpass' = At("FindOldService")
       \/ /\ ~WorkThere
          /\ bpass' = NoBackendPass
          /\ UNCHANGED <<work, running>>
    /\ UNCHANGED <<campaign, svc, told, faults>>

FindOldService ==
    /\ bpass.step = "FindOldService"
    /\ bpass' = IF svc[Chosen] = 0 THEN NoBackendPass ELSE At("DeleteService")
    /\ UNCHANGED <<campaign, svc, work, running, told, faults>>

DeleteService ==
    /\ bpass.step = "DeleteService"
    /\ svc' = [svc EXCEPT ![Chosen] = 0]
    /\ bpass' = NoBackendPass
    /\ UNCHANGED <<campaign, work, running, told, faults>>

\* An API call fails, or the operator dies.
BackendAbort ==
    /\ bpass.step # "Idle"
    /\ faults < MaxFaults
    /\ faults' = faults + 1
    /\ bpass' = NoBackendPass
    /\ UNCHANGED <<campaign, svc, work, running, told>>

BackendPassStep ==
    \/ Start
    \/ FindService
    \/ MakeService
    \/ Ensure
    \/ MakeWork
    \/ Poll
    \/ Launch
    \/ FindWork
    \/ DeleteWork
    \/ FindOldService
    \/ DeleteService

-----------------------------------------------------------------------------
(* Kueue, the controllers of Deployments and RayJobs, and the pods. *)

Admit ==
    /\ WorkThere
    /\ work.waits
    /\ work' = [work EXCEPT !.waits = FALSE, !.admitted = TRUE]
    /\ UNCHANGED <<campaign, svc, running, told, faults, bpass>>

StartPod ==
    /\ WorkThere
    /\ ~work.waits
    /\ work.phase = "Live"
    /\ pod = "None"
    /\ pod' = "Loading"
    /\ UNCHANGED <<campaign, svc, work, available, served, lingering, deaths,
                   told, faults, bpass>>

\* KubeRay submits the entrypoint when the head pod is ready, and the entrypoint
\* starts the server.
Serve ==
    /\ pod = "Loading"
    /\ Chosen = "Cluster" => ~work.probe
    /\ pod' = "Serving"
    /\ served' = TRUE
    /\ UNCHANGED <<campaign, svc, work, available, lingering, deaths, told, faults,
                   bpass>>

\* The Deployment's status follows its pod, some time later.
SyncStatus ==
    /\ WorkThere
    /\ Chosen = "Mesh"
    /\ available' = (pod = "Serving" \/ (pod = "Loading" /\ ~work.probe))
    /\ available' # available
    /\ UNCHANGED <<campaign, svc, work, pod, served, lingering, deaths, told,
                   faults, bpass>>

\* A pod of a Deployment is replaced, and the new one held again until Kueue
\* admits it; without its pod a RayJob ends, one way or the other.
PodDies ==
    /\ pod # "None"
    /\ deaths < MaxDeaths
    /\ deaths' = deaths + 1
    /\ pod' = "None"
    /\ \/ /\ Chosen = "Mesh"
          /\ work' = [work EXCEPT !.waits = bspec.queued, !.admitted = FALSE]
       \/ /\ Chosen = "Cluster"
          /\ \E phase \in {"Failed", "Complete"} : work' = [work EXCEPT !.phase = phase]
    /\ UNCHANGED <<campaign, svc, available, served, lingering, told, faults, bpass>>

LingerEnds ==
    /\ lingering
    /\ lingering' = FALSE
    /\ UNCHANGED <<campaign, svc, work, pod, available, served, deaths, told,
                   faults, bpass>>

-----------------------------------------------------------------------------
(* People, the campaign and the garbage collector. *)

\* "Delete the RayJob to retry."
DropRayJob ==
    /\ WorkThere
    /\ work.phase = "Failed"
    /\ Removed
    /\ UNCHANGED <<campaign, svc, told, faults, bpass>>

\* The last run ends at the budget.
AllEnd ==
    /\ alive
    /\ ~done
    /\ done' = TRUE
    /\ UNCHANGED <<bspec, alive, uid, reopened, svc, work, running, told, faults,
                   bpass>>

\* An Experiment that was written off runs again.
Reopen ==
    /\ alive
    /\ done
    /\ reopened < MaxReopened
    /\ reopened' = reopened + 1
    /\ done' = FALSE
    /\ UNCHANGED <<bspec, alive, uid, svc, work, running, told, faults, bpass>>

DeleteCampaign ==
    /\ alive
    /\ alive' = FALSE
    /\ UNCHANGED <<bspec, uid, done, reopened, svc, work, running, told, faults, bpass>>

RecreateCampaign ==
    /\ ~alive
    /\ uid < MaxUids
    /\ alive' = TRUE
    /\ uid' = uid + 1
    /\ done' = FALSE
    /\ UNCHANGED <<bspec, reopened, svc, work, running, told, faults, bpass>>

\* Owned by a campaign that is gone.
Orphan(owner) == owner # 0 /\ (owner # uid \/ ~alive)

CollectService(k) ==
    /\ Orphan(svc[k])
    /\ svc' = [svc EXCEPT ![k] = 0]
    /\ UNCHANGED <<campaign, work, running, told, faults, bpass>>

CollectWork ==
    /\ Orphan(work.owner)
    /\ Removed
    /\ UNCHANGED <<campaign, svc, told, faults, bpass>>

Cluster == Admit \/ StartPod \/ Serve \/ SyncStatus \/ PodDies \/ LingerEnds
People == DropRayJob \/ AllEnd \/ Reopen \/ DeleteCampaign \/ RecreateCampaign
Collector == CollectWork \/ \E k \in Kinds : CollectService(k)

BackendNext == BackendPassStep \/ BackendAbort \/ Cluster \/ People \/ Collector

BackendSpec == BackendInit /\ [][BackendNext]_backendVars

\* The requeue keeps passes coming and a bounded number is cut off; the quota is
\* granted in the end, pods start and load, what is deleted goes, and a server
\* that is healthy is found so in the end. Nobody need delete anything.
BackendFairSpec ==
    /\ BackendSpec
    /\ WF_backendVars(BackendPassStep)
    /\ SF_backendVars(Poll /\ told' = "Ready")
    /\ WF_backendVars(Admit) /\ WF_backendVars(StartPod) /\ WF_backendVars(Serve)
    /\ WF_backendVars(SyncStatus) /\ WF_backendVars(LingerEnds)
    /\ WF_backendVars(CollectWork)
    /\ \A k \in Kinds : WF_backendVars(CollectService(k))

-----------------------------------------------------------------------------
(* Properties. *)

\* "Readiness must reflect serving readiness, not container start" (mesh), "200s
\* only once vLLM is up" (cluster): a pass that takes the backend for ready does
\* so of a Deployment that has come to serve, or of a head that serves at that
\* moment, be it one that a deleted RayJob left behind.
ReadyIsServed ==
    [][bpass.step # "Launch" /\ bpass'.step = "Launch"
         => IF Chosen = "Mesh" THEN served
            ELSE pod = "Serving" \/ lingering]_backendVars

\* Without suspension "the RayJob races the scheduler, grabs whatever GPU is
\* free": no pod of a queued backend starts before Kueue has admitted it,
\* whoever recreates it after which deletion.
QueuedIsAdmitted == bspec.queued /\ pod # "None" => work.admitted

\* No deadlock between the head and its readiness, and no silent end: a campaign
\* that stays, with runs to make, finds its backend ready again and again, or
\* says that it failed. But a RayJob that ended without failing is waited for.
Serves ==
    <>[](alive /\ ~done)
      => \/ []<>(told = "Ready")
         \/ <>[](told = "Failed")
         \/ <>[](WorkThere /\ work.phase = "Complete")

\* Nothing is left of the backend of a campaign that is done or deleted, however
\* its teardown was cut off: "crash-safety GC backstop; terminal-phase teardown
\* is the primary teardown path".
GivenBack ==
    <>[](done \/ ~alive)
      => <>[](~WorkThere /\ ~lingering /\ \A k \in Kinds : svc[k] = 0)
=============================================================================
