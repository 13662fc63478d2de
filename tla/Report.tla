------------------------------ MODULE Report ------------------------------
(***************************************************************************)
(* The ResearchReport controller (athena/src/report_reconciler.rs): one     *)
(* report, whose spec a scientist edits, the campaign it is about, and the *)
(* dataset it publishes. A pass works from the cached report, reads the    *)
(* campaign, then its experiments, then their benchmark runs, composes the *)
(* dossier, refuses it or publishes it when it differs, and last writes    *)
(* the status, when something it says has changed.                         *)
(***************************************************************************)
EXTENDS Dossier

CONSTANTS
    Plan,       \* the experiments of the campaign in order: name, parent,
                \* lineage, parameter, score, mean, artifacts, and whether a
                \* scientist made it by hand, without the campaign's label
    Specs,      \* what the scientist may write
    MaxSize,    \* MAX_DATASET_BYTES, in the units of Size
    Finished,   \* how many experiments a campaign may have when the report is made
    MaxEdits,   \* bound: edits of the spec
    MaxChanges, \* bound: what happens to the spec and to the campaign
    MaxFaults   \* bound: failed calls and restarts

Names == {Plan[i].name : i \in DOMAIN Plan}

Reasons == {"CampaignUnavailable", "OkfInvalid", "DatasetTooLarge"}

ASSUME NoneAssumption == None \notin Reasons
ASSUME PlanAssumption ==
    /\ Plan \in Seq([name : STRING, parent : STRING \cup {None},
                     lineage : STRING \cup {None}, parameter : Nat, score : Nat,
                     mean : Nat, artifacts : STRING, byHand : BOOLEAN])
    /\ \A i, j \in DOMAIN Plan : Plan[i].name = Plan[j].name => i = j
ASSUME SpecsAssumption == Specs # {}
ASSUME FinishedAssumption == Finished # {} /\ Finished \subseteq 0..Len(Plan)
ASSUME BoundsAssumption ==
    MaxSize \in Nat /\ MaxEdits \in Nat /\ MaxChanges \in Nat /\ MaxFaults \in Nat

VARIABLES
    spec,       \* the report: its spec
    generation, \* and generation, one more with every edit
    status,     \* its status
    cache,      \* the controller's copy of the three
    campaign,   \* the ResearchCampaign, None before it is there
    exps,       \* its experiments, in the order of their creation
    unlabelled, \* the names of those without the campaign's label
    unadopted,  \* history: of those it has counted although it could not label them
    runs,       \* their benchmark runs
    dataset,    \* the ConfigMap <report>-dataset, a set of none or one
    changes,    \* bound: changes so far
    faults,     \* bound: faults so far
    pass        \* the pass in progress

vars == <<spec, generation, status, cache, campaign, exps, unlabelled, unadopted,
          runs, dataset, changes, faults, pass>>
report == <<spec, generation>>
labels == <<unlabelled, unadopted>>
world == <<campaign, exps, labels, runs, changes>>

\* `reason` is that of the conditions; the others are None when their condition
\* is not in the list.
Fresh == [phase |-> "None", generation |-> 0, included |-> None, reason |-> None,
          citations |-> None, links |-> None]

Counts == {None} \cup (0..Len(Plan))

\* A write replaces the whole list of conditions.
Statuses ==
    {Fresh}
    \cup [phase : {"Error"}, generation : Nat, included : Counts, reason : Reasons,
          citations : {None}, links : {None}]
    \cup [phase : {"Assembled"}, generation : Nat, included : 0..Len(Plan),
          reason : {None}, citations : BOOLEAN, links : BOOLEAN]

Steps == {"Idle", "Campaign", "Experiments", "Runs", "Judge", "Refuse", "Compare",
          "Publish", "Stamp"}

NoPass == [step |-> "Idle", spec |-> None, generation |-> 0, prev |-> Fresh,
           campaign |-> None, exps |-> <<>>, reason |-> None, doc |-> None,
           tex |-> None, same |-> TRUE]

\* The types; in a status the conditions are those of its phase, and no others.
TypeOK ==
    /\ spec \in Specs
    /\ generation \in Nat
    /\ status \in Statuses
    /\ cache.spec \in Specs /\ cache.generation \in Nat /\ cache.status \in Statuses
    /\ changes \in Nat
    /\ faults \in Nat
    /\ pass.step \in Steps
    /\ pass.prev \in Statuses
    /\ pass.step # "Idle" => pass.spec \in Specs /\ pass.generation \in Nat
    /\ pass.step = "Refuse" => pass.reason \in Reasons
    /\ unlabelled \cup unadopted \subseteq Names
    /\ pass.same \in BOOLEAN

\* An experiment as it is made, and when it has ended.
Made(p) == [name |-> p.name, parent |-> p.parent, lineage |-> p.lineage,
            parameter |-> p.parameter, phase |-> "Running", best |-> None,
            metric |-> None, decision |-> None, artifacts |-> None, at |-> 0]

Ended(p, at) == [Made(p) EXCEPT !.phase = "Succeeded", !.best = p.score,
                                !.metric = p.score, !.decision = "NeedsReview",
                                !.artifacts = p.artifacts, !.at = at]

NewCampaign == [phase |-> "Running", best |-> None, objective |-> None]

Init ==
    /\ spec \in Specs
    /\ generation = 1
    /\ status = Fresh
    /\ cache = [spec |-> spec, generation |-> 1, status |-> Fresh]
    /\ \E n \in Finished :
        /\ campaign = IF n = 0 THEN None ELSE NewCampaign
        /\ exps = [i \in 1..n |-> Ended(Plan[i], i)]
        /\ unlabelled = {Plan[i].name : i \in {j \in 1..n : Plan[j].byHand}}
    /\ unadopted = {}
    /\ runs = {}
    /\ dataset = {}
    /\ changes = 0
    /\ faults = 0
    /\ pass = NoPass

-----------------------------------------------------------------------------
(* What a pass decides. A definition marked Slip is a faulty variant of the  *)
(* one that follows it.                                                      *)

\* Slip: the size alone.
RefusalOfSize(doc, tex) == IF Size(doc, tex) > MaxSize THEN "DatasetTooLarge" ELSE None

\* Why a dossier is not published, None when it is.
Refusal(doc, tex) ==
    IF Violations(doc) # {} THEN "OkfInvalid"
    ELSE IF Size(doc, tex) > MaxSize THEN "DatasetTooLarge"
    ELSE None

Included(doc) == doc.curated[1]

\* An error is written once for each generation.
MustReport(p) == p.prev.phase # "Error" \/ p.prev.generation # p.generation

\* Slip: not when the content alone was published by a pass that was cut off.
MustStampUncounted(p) ==
    ~p.same \/ p.prev.phase # "Assembled" \/ p.prev.generation # p.generation

\* Slip: in every pass.
MustStampAlways(p) == p.step = "Stamp"

\* needs_write.
MustStamp(p) ==
    \/ ~p.same
    \/ p.prev.phase # "Assembled"
    \/ p.prev.generation # p.generation
    \/ p.prev.included # Included(p.doc)
    \/ p.prev.citations # CitationsOk(p.spec)

\* The status of an error: the count is not written when there is no dossier.
ErrorStatus(reason) ==
    [Fresh EXCEPT !.phase = "Error", !.generation = pass.generation, !.reason = reason,
                  !.included = IF reason = "CampaignUnavailable" THEN status.included
                               ELSE Included(pass.doc)]

AssembledStatus ==
    [phase |-> "Assembled", generation |-> pass.generation,
     included |-> Included(pass.doc), reason |-> None,
     citations |-> CitationsOk(pass.spec), links |-> LinkWarnings(pass.doc) = {}]

-----------------------------------------------------------------------------
(* A pass, an action for each call.                                          *)

At(step) == pass.step = step

\* The watch, or the requeue of the pass before, starts a pass on the cached copy.
Begin ==
    /\ At("Idle")
    /\ pass' = [NoPass EXCEPT !.step = "Campaign", !.spec = cache.spec,
                              !.generation = cache.generation, !.prev = cache.status]
    /\ UNCHANGED <<report, status, cache, world, dataset, faults>>

\* assemble: the campaign, and its template, which is there when it is.
ReadCampaign ==
    /\ At("Campaign")
    /\ pass' = IF campaign = None
               THEN [pass EXCEPT !.step = "Refuse", !.reason = "CampaignUnavailable"]
               ELSE [pass EXCEPT !.step = "Experiments", !.campaign = campaign]
    /\ UNCHANGED <<report, status, cache, world, dataset, faults>>

\* By the campaign's label alone.
Listed == Only(exps, Named(exps) \ unlabelled)

ReadExperiments ==
    /\ At("Experiments")
    /\ pass' = [pass EXCEPT !.step = "Runs", !.exps = Listed]
    /\ UNCHANGED <<report, status, cache, world, dataset, faults>>

\* The dossier is composed of what was read.
Compose(of) ==
    /\ At("Runs")
    /\ \E kept \in {Curate(pass.exps, pass.spec)} :
          pass' = [pass EXCEPT
                     !.step = "Judge", !.campaign = None, !.exps = <<>>,
                     !.doc = Markdown(of, kept, Len(pass.exps), runs, pass.spec),
                     !.tex = Latex(of, kept, Len(pass.exps), runs, pass.spec)]
    /\ UNCHANGED <<report, status, cache, world, dataset, faults>>

\* Slip: the campaign is read again for its latest results.
ReadRunsAndCampaign == Compose(campaign)

ReadRuns == Compose(pass.campaign)

Judge ==
    /\ At("Judge")
    /\ LET refusal == Refusal(pass.doc, pass.tex)
       IN pass' = [pass EXCEPT !.step = IF refusal = None THEN "Compare" ELSE "Refuse",
                               !.reason = refusal]
    /\ UNCHANGED <<report, status, cache, world, dataset, faults>>

\* Nothing is published; the dataset of before stays.
Refuse ==
    /\ At("Refuse")
    /\ status' = IF MustReport(pass) THEN ErrorStatus(pass.reason) ELSE status
    /\ pass' = NoPass
    /\ UNCHANGED <<report, cache, world, dataset, faults>>

\* The Markdown alone is compared.
Compare ==
    /\ At("Compare")
    /\ LET same == \E d \in dataset : d.doc = pass.doc
       IN pass' = [pass EXCEPT !.step = IF same THEN "Stamp" ELSE "Publish", !.same = same]
    /\ UNCHANGED <<report, status, cache, world, dataset, faults>>

Publish ==
    /\ At("Publish")
    /\ dataset' = {[doc |-> pass.doc, tex |-> pass.tex]}
    /\ pass' = [pass EXCEPT !.step = "Stamp"]
    /\ UNCHANGED <<report, status, cache, world, faults>>

Stamp ==
    /\ At("Stamp")
    /\ status' = IF MustStamp(pass) THEN AssembledStatus ELSE status
    /\ pass' = NoPass
    /\ UNCHANGED <<report, cache, world, dataset, faults>>

\* A call of assemble fails, that for the campaign or another: the status says
\* that the campaign is unavailable.
AssembleFails ==
    /\ pass.step \in {"Campaign", "Experiments", "Runs"}
    /\ faults < MaxFaults
    /\ faults' = faults + 1
    /\ pass' = [pass EXCEPT !.step = "Refuse", !.reason = "CampaignUnavailable"]
    /\ UNCHANGED <<report, status, cache, world, dataset>>

\* Another call fails, or the operator restarts: the report is retried in a minute.
Abort ==
    /\ ~At("Idle")
    /\ faults < MaxFaults
    /\ faults' = faults + 1
    /\ pass' = NoPass
    /\ UNCHANGED <<report, status, cache, world, dataset>>

Reconcile == \/ Begin \/ ReadCampaign \/ ReadExperiments \/ ReadRuns
             \/ Judge \/ Refuse \/ Compare \/ Publish \/ Stamp

\* The watch brings the controller's copy up to date.
Deliver ==
    /\ cache' = [spec |-> spec, generation |-> generation, status |-> status]
    /\ cache' # cache
    /\ UNCHANGED <<report, status, world, dataset, faults, pass>>

-----------------------------------------------------------------------------
(* The world the dossier tells of.                                           *)

Change ==
    /\ changes < MaxChanges
    /\ changes' = changes + 1
    /\ UNCHANGED <<status, cache, dataset, faults, pass>>

Edit(s) ==
    /\ Change
    /\ s # spec
    /\ generation <= MaxEdits
    /\ spec' = s
    /\ generation' = generation + 1
    /\ UNCHANGED <<campaign, exps, labels, runs>>

Found ==
    /\ Change
    /\ campaign = None
    /\ campaign' = NewCampaign
    /\ UNCHANGED <<report, exps, labels, runs>>

\* The campaign generates the next, or somebody makes it by hand.
Generate ==
    /\ Change
    /\ campaign # None
    /\ Len(exps) < Len(Plan)
    /\ LET next == Plan[Len(exps) + 1]
       IN /\ exps' = Append(exps, Made(next))
          /\ unlabelled' = unlabelled \cup (IF next.byHand THEN {next.name} ELSE {})
    /\ UNCHANGED <<report, campaign, unadopted, runs>>

\* The Experiment controller ends one: its status is of this moment.
Finish(i) ==
    /\ Change
    /\ exps[i].phase = "Running"
    /\ exps' = [exps EXCEPT ![i] = Ended(Plan[i], Cutoff(exps) + 1)]
    /\ UNCHANGED <<report, campaign, labels, runs>>

\* The BenchmarkRun controller promotes its verdict: `best` is an object then.
Promote(i) ==
    /\ Change
    /\ exps[i].decision = "NeedsReview"
    /\ exps' = [exps EXCEPT ![i] = [@ EXCEPT !.best = Object, !.metric = Plan[i].mean,
                                             !.decision = "Keep"]]
    /\ runs' = runs \cup {[target |-> exps[i].name, mean |-> Plan[i].mean]}
    /\ UNCHANGED <<report, campaign, labels>>

\* A pass of the campaign controller: it labels what has none, as far as the
\* patches succeed, and counts every one all the same; it states its best, and
\* its end when all are there.
Rank ==
    /\ Change
    /\ campaign # None
    /\ \E adopted \in SUBSET unlabelled :
          /\ unlabelled' = unlabelled \ adopted
          /\ unadopted' = unadopted \cup unlabelled'
    /\ LET done == {i \in DOMAIN exps : Objective(exps[i]) # None}
           top == CHOOSE i \in done :
                    \A j \in done : Objective(exps[j]) <= Objective(exps[i])
       IN campaign' = [campaign EXCEPT
                         !.phase = IF Len(exps) = Len(Plan) THEN "Completed" ELSE @,
                         !.best = IF done = {} THEN @ ELSE exps[top].name,
                         !.objective = IF done = {} THEN @ ELSE Objective(exps[top])]
    /\ campaign' # campaign \/ unlabelled' # unlabelled
    /\ UNCHANGED <<report, exps, runs>>

World == \/ \E s \in Specs : Edit(s)
         \/ Found \/ Generate \/ Rank
         \/ \E i \in DOMAIN exps : Finish(i) \/ Promote(i)

Next == Reconcile \/ AssembleFails \/ Abort \/ Deliver \/ World

Spec == Init /\ [][Next]_vars

\* The controller runs, and its watch delivers. The world need not move.
FairSpec == Spec /\ WF_vars(Reconcile) /\ WF_vars(Deliver)

-----------------------------------------------------------------------------
(* Properties.                                                               *)

\* Whatever is published passed the checks, and a report that says Assembled
\* has something published: a dossier that is refused, at whatever moment and
\* after whatever edit, never takes the place of one that was not.
DatasetIsWhole ==
    /\ \A d \in dataset : Violations(d.doc) = {} /\ ~(Size(d.doc, d.tex) > MaxSize)
    /\ status.phase = "Assembled" => dataset # {}

\* The document names no best experiment it does not list, unless the curation
\* left it out or the campaign has counted one it could not label: the campaign
\* is read before its experiments are, and no label is ever taken away.
BestIsListed ==
    \A d \in dataset :
        LET doc == d.doc IN
        doc.curated[1] = doc.curated[2] =>
            doc.results.best \in {None} \cup {doc.table[i].name : i \in DOMAIN doc.table}
                                        \cup unadopted

\* What is published and said is what a pass of this moment would publish and say.
Current ==
    IF campaign = None THEN status.phase = "Error"
    ELSE LET kept == Curate(Listed, spec)
             doc == Markdown(campaign, kept, Len(Listed), runs, spec)
             tex == Latex(campaign, kept, Len(Listed), runs, spec)
         IN IF Refusal(doc, tex) # None THEN status.phase = "Error"
            ELSE /\ status.phase = "Assembled"
                 /\ dataset = {[doc |-> doc, tex |-> tex]}
                 /\ status.included = Included(doc)
                 /\ status.citations = CitationsOk(spec)

\* When nothing changes any more, the report comes to say what there is: both
\* texts of the dataset are those of the campaign as it is, and the status
\* counts its experiments and tells of its citations, or it is in Error.
Settles == <>[](status.generation = generation /\ Current)

\* The controller stops writing, although it passes for ever and its own writes
\* start passes.
Quiesces == <>[][/\ ~Publish
                 /\ ~(Stamp /\ MustStamp(pass))
                 /\ ~(Refuse /\ MustReport(pass))]_vars

=============================================================================
