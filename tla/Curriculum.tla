----------------------------- MODULE Curriculum -----------------------------
(***************************************************************************)
(* The curriculum of a ResearchDrive (athena/src/drive_reconciler.rs): the  *)
(* stages a drive goes through in order, the evidence that promotes it, the *)
(* campaigns of the stage before that are wound down, the templates that    *)
(* may be proposed and the experiment a new campaign is seeded from. The    *)
(* rest of the drive's pass, its proposals and its reports, is in Drive.    *)
(* Campaigns run beside the pass, as their own controller has them run.     *)
(***************************************************************************)
EXTENDS Naturals, FiniteSets, Sequences, FiniteSetsExt

CONSTANTS
    MaxCampaigns, \* the campaigns are 1 .. MaxCampaigns, in the order of a list
    Curricula,    \* the curricula the drive may have
    Robot,        \* the robot each template declares in its defaults, or Undeclared
    Undeclared,
    MaxBranches,  \* limits.maxActiveBranches
    Budget,       \* limits.campaignBudget.maxExperiments
    Window,       \* stagnation.window
    Scores,       \* the objectives a run may measure; 0 stands for none
    Sigma,        \* seedNoiseSigma of the campaigns
    MaxCuts       \* bound: how often a pass is cut off

Campaigns == 1 .. MaxCampaigns
Templates == DOMAIN Robot

\* PromotionSpec is `gated`, `threshold`, `least` (minExperiments), `quantifier`;
\* `seedFrom` is the number of the stage named, 0 for none. A stage names a template
\* once (the code would count its row twice).
StageSpecs == [templates : Seq(Templates), gated : BOOLEAN, threshold : Nat,
               least : Nat, quantifier : {"Any", "All"}, seedFrom : Nat]

ASSUME CurriculaAssumption ==
    /\ Templates # {}
    /\ Curricula \subseteq (Seq(StageSpecs) \ {<<>>})
    /\ \A curriculum \in Curricula : \A k \in DOMAIN curriculum :
          /\ curriculum[k].seedFrom <= Len(curriculum)
          /\ \A i, j \in DOMAIN curriculum[k].templates :
                curriculum[k].templates[i] = curriculum[k].templates[j] => i = j
ASSUME NumbersAssumption ==
    /\ {MaxCampaigns, MaxBranches, Budget, Window, Sigma, MaxCuts} \subseteq Nat
    /\ Scores \subseteq Nat \ {0}

VARIABLES
    stages,  \* spec.curriculum.stages
    camps,   \* the campaigns the drive owns
    status,  \* the drive's status: what the cached object holds too
    pass,    \* the reconcile pass in progress
    cuts     \* how often a pass has been cut off

vars == <<stages, camps, status, pass, cuts>>

\* `total` runs were created, `done` have ended, `succeeded` of them well; `best` is
\* the honest score, incumbentRemeasured or else bestObjective, and `crossed` says
\* whether it started from the weights of a robot other than its own. An experiment is
\* named by the campaign that it is the best of, and its robot is the one that the
\* campaign's template declares: of a seed of another campaign only tunables travel,
\* and the weights.
CampaignRecords ==
    [phase : {"Absent", "Active", "Ended"}, template : Templates, max : Nat,
     total : Nat, done : Nat, succeeded : Nat, best : Nat,
     crossed : BOOLEAN]

\* StageRecord: `winner` is the best experiment of each row, 0 where there is none.
StageRecords == [entered : BOOLEAN, promoted : BOOLEAN,
                 winner : [Templates -> 0 .. MaxCampaigns], best : 0 .. MaxCampaigns]

\* The drive's best is `best`, 0 for none, with its score and template.
Statuses ==
    [stage : Nat, history : Seq(StageRecords), stagnation : Nat,
     folded : SUBSET Campaigns, current : SUBSET Campaigns,
     best : 0 .. MaxCampaigns, score : Nat, template : Templates]

\* `st` is the pass's copy of the status. Of the list that the pass took it holds the
\* campaigns it has still to wind down and the runs that each of them had.
Passes == [step : {"Idle", "Propose", "Write"}, st : Statuses,
           winding : SUBSET Campaigns, total : [Campaigns -> Nat]]

AnyTemplate == CHOOSE t \in Templates : TRUE

NoCampaign == [phase |-> "Absent", template |-> AnyTemplate, max |-> 0, total |-> 0,
               done |-> 0, succeeded |-> 0, best |-> 0, crossed |-> FALSE]

NoRecord == [entered |-> FALSE, promoted |-> FALSE,
             winner |-> [t \in Templates |-> 0], best |-> 0]

FirstStatus(n) ==
    [stage |-> 1, history |-> [k \in 1 .. n |-> NoRecord], stagnation |-> 0,
     folded |-> {}, current |-> {}, best |-> 0, score |-> 0, template |-> AnyTemplate]

NoPass == [step |-> "Idle", st |-> FirstStatus(0), winding |-> {},
           total |-> [c \in Campaigns |-> 0]]

TypeOK ==
    /\ stages \in Curricula
    /\ camps \in [Campaigns -> CampaignRecords]
    /\ \A c \in Campaigns : /\ camps[c].succeeded <= camps[c].done
                            /\ camps[c].done <= camps[c].total
    /\ status \in Statuses
    /\ status.stage \in DOMAIN stages
    /\ DOMAIN status.history = DOMAIN stages
    /\ \A k \in DOMAIN stages :
          status.history[k].promoted => k < status.stage /\ status.history[k].entered
    /\ pass \in Passes
    /\ cuts \in 0 .. MaxCuts

Init ==
    /\ stages \in Curricula
    /\ camps = [c \in Campaigns |-> NoCampaign]
    /\ status = FirstStatus(Len(stages))
    /\ pass = NoPass
    /\ cuts = 0

-----------------------------------------------------------------------------
(* Evidence and promotion. A definition marked Slip is a faulty variant of    *)
(* the one that follows it.                                                  *)

Active(cs) == {c \in Campaigns : cs[c].phase = "Active"}
Over(cs) == {c \in Campaigns : cs[c].phase = "Ended"}
Of(cs, t) == {c \in Campaigns : cs[c].phase # "Absent" /\ cs[c].template = t}

TemplatesOf(k) == {stages[k].templates[i] : i \in DOMAIN stages[k].templates}

\* A row of templateProgress: the best score, its campaign, the runs that succeeded.
RowBest(cs, t) == Max({cs[c].best : c \in Of(cs, t)} \cup {0})
RowWinner(cs, t) ==
    IF RowBest(cs, t) = 0 THEN 0
    ELSE Min({c \in Of(cs, t) : cs[c].best = RowBest(cs, t)})

\* The runs that succeeded of the campaigns in C, added up along the list.
RunsOf(cs, C) ==
    LET upTo[n \in 0 .. MaxCampaigns] ==
            IF n = 0 THEN 0
            ELSE IF n \in C THEN upTo[n - 1] + cs[n].succeeded ELSE upTo[n - 1]
    IN upTo[MaxCampaigns]
RowRuns(cs, t) == RunsOf(cs, Of(cs, t))

StageBest(cs, k) == Max({RowBest(cs, t) : t \in TemplatesOf(k)} \cup {0})
StageRuns(cs, k) == RunsOf(cs, UNION {Of(cs, t) : t \in TemplatesOf(k)})

\* The stage's best experiment: of the first of its rows that hold the best score.
StageWinner(cs, k) ==
    LET rows == stages[k].templates
        first == Min({i \in DOMAIN rows : RowBest(cs, rows[i]) = StageBest(cs, k)}) IN
    IF StageBest(cs, k) = 0 THEN 0 ELSE RowWinner(cs, rows[first])

\* Slip: under All too, the runs are counted for the whole stage.
RowPassedOfStage(cs, k, t) ==
    /\ RowBest(cs, t) >= stages[k].threshold
    /\ RowBest(cs, t) > 0
    /\ StageRuns(cs, k) >= stages[k].least

RowPassed(cs, k, t) ==
    /\ RowBest(cs, t) >= stages[k].threshold
    /\ RowBest(cs, t) > 0
    /\ RowRuns(cs, t) >= stages[k].least

\* Does what has been measured pass stage k?
IsPassed(cs, k) ==
    /\ stages[k].gated
    /\ \/ /\ stages[k].quantifier = "Any"
          /\ StageRuns(cs, k) >= stages[k].least
          /\ StageBest(cs, k) > 0
          /\ StageBest(cs, k) >= stages[k].threshold
       \/ /\ stages[k].quantifier = "All"
          /\ TemplatesOf(k) # {}
          /\ \A t \in TemplatesOf(k) : RowPassed(cs, k, t)

\* The record of the current stage, brought up to date.
Recorded(rec, cs, k) ==
    [rec EXCEPT !.entered = TRUE,
                !.winner = [t \in Templates |->
                               IF t \in TemplatesOf(k) THEN RowWinner(cs, t) ELSE 0],
                !.best = IF StageWinner(cs, k) = 0 THEN @ ELSE StageWinner(cs, k)]

Unpromoted(st, cs) == [st EXCEPT !.history[st.stage] = Recorded(@, cs, st.stage)]

\* Slip: the stagnation counter goes on into the next stage.
PromotedOnly(st) ==
    [st EXCEPT !.history[st.stage].promoted = TRUE,
               !.history[st.stage + 1].entered = TRUE,
               !.stage = @ + 1]

\* A promotion is a change of objective: stagnation starts again.
Promoted(st) ==
    [st EXCEPT !.history[st.stage].promoted = TRUE,
               !.history[st.stage + 1].entered = TRUE,
               !.stage = @ + 1,
               !.stagnation = 0]

\* evaluate_promotion.
Evaluated(st, cs) ==
    LET now == Unpromoted(st, cs) IN
    IF IsPassed(cs, st.stage) /\ st.stage < Len(stages) THEN Promoted(now) ELSE now

-----------------------------------------------------------------------------
(* Folds, wind-down, and what may be proposed.                               *)

\* allowed_templates: of the drive object the pass was given.
Allowed == TemplatesOf(status.stage)

\* Only a campaign of the stage, that ran something, moves the counter.
Counts(rec) == rec.done > 0 /\ rec.template \in Allowed

Improves(st, rec) ==
    /\ rec.best > 0
    /\ \/ st.best = 0
       \/ rec.template = st.template /\ rec.best > st.score + Sigma

\* fold_campaign and the bookkeeping around it.
Folded(st, c, rec) ==
    [st EXCEPT !.folded = @ \cup {c},
               !.best = IF Improves(st, rec) THEN c ELSE @,
               !.score = IF Improves(st, rec) THEN rec.best ELSE @,
               !.template = IF Improves(st, rec) THEN rec.template ELSE @,
               !.stagnation = IF ~Counts(rec) THEN @
                              ELSE IF Improves(st, rec) THEN 0 ELSE @ + 1]

\* The campaigns that have ended and are not folded, folded in the order of the list.
FoldedAll(st, cs) ==
    LET upTo[n \in 0 .. MaxCampaigns] ==
            IF n = 0 THEN st
            ELSE IF n \in Over(cs) \ st.folded
                 THEN Folded(upTo[n - 1], n, cs[n]) ELSE upTo[n - 1]
    IN upTo[MaxCampaigns]

\* Slip: nothing is wound down.
WindableNone(cs, k) == {}

\* The campaigns in flight that are not of stage k and may still create runs.
Windable(cs, k) ==
    {c \in Active(cs) : cs[c].template \notin TemplatesOf(k) /\ cs[c].max > cs[c].total}

\* Do the robots differ that t and the template of c declare?
Crossed(t, c) ==
    LET robots == {Robot[t], Robot[camps[c].template]} IN
    Undeclared \notin robots /\ Cardinality(robots) = 2

\* Slip: any experiment can seed any template.
FitsAny(t, c) == TRUE

\* robot_matches: the robots are the same, or one of the two is not declared.
Fits(t, c) == ~Crossed(t, c)

\* stage_seed_candidates: the winners of the rows of the stage named in seedFrom, in
\* the order declared, and then the stage's own.
Candidates(t) ==
    LET k == Min({i \in DOMAIN stages : t \in TemplatesOf(i)})
        from == stages[k].seedFrom IN
    IF from = 0 THEN <<>>
    ELSE [i \in DOMAIN stages[from].templates |->
             status.history[from].winner[stages[from].templates[i]]]
         \o <<status.history[from].best>>

\* The seed of an action that names none: the first candidate that fits, and for a
\* consolidation the drive's best after those.
DefaultSeed(t, kind) ==
    LET list == Candidates(t)
        fitting == {i \in DOMAIN list : list[i] # 0 /\ Fits(t, list[i])} IN
    IF fitting # {} THEN list[Min(fitting)]
    ELSE IF kind = "consolidate" /\ status.best # 0 /\ Fits(t, status.best)
         THEN status.best ELSE 0

-----------------------------------------------------------------------------
(* The reconcile pass.                                                       *)

\* The drive proposes when it has not stagnated and a branch is free.
AfterWindDown(st, cs) ==
    IF /\ st.stagnation < Window
       /\ Cardinality(Active(cs)) < MaxBranches
       /\ Cardinality(st.current) < MaxBranches
    THEN "Propose" ELSE "Write"

\* The campaigns are listed; those that have ended are folded, and the stage is
\* evaluated on what the list says.
Begin ==
    /\ pass.step = "Idle"
    /\ LET folded == FoldedAll(status, camps)
           st == Evaluated([folded EXCEPT !.current = @ \cap Active(camps)], camps)
           old == Windable(camps, st.stage) IN
       pass' = [step |-> AfterWindDown(st, camps), st |-> st, winding |-> old,
                total |-> [c \in Campaigns |-> IF c \in old THEN camps[c].total ELSE 0]]
    /\ UNCHANGED <<stages, camps, status, cuts>>

\* The budget of a campaign is pinched to the runs the list says it has. A patch that
\* fails is only logged.
WindDown(c) ==
    /\ c \in pass.winding
    /\ \A d \in pass.winding : c <= d
    /\ \/ camps' = [camps EXCEPT ![c].max = pass.total[c]] /\ UNCHANGED cuts
       \/ UNCHANGED camps /\ cuts < MaxCuts /\ cuts' = cuts + 1
    /\ pass' = [pass EXCEPT !.winding = @ \ {c}, !.total[c] = 0]
    /\ UNCHANGED <<stages, status>>

\* A fork or a consolidation of the proposer, as far as build_campaign lets it
\* through: its template is one of the allowed, and a seed it names must fit. New
\* campaigns come last in the list (a bound: names are random).
Fork(c, t, kind, named) ==
    /\ pass.step = "Propose"
    /\ pass.winding = {}
    /\ Cardinality(pass.st.current) < MaxBranches
    /\ t \in Allowed
    /\ camps[c].phase = "Absent"
    /\ \A d \in Campaigns : d < c => camps[d].phase # "Absent"
    /\ named # 0 => camps[named].best > 0 /\ Fits(t, named)
    /\ LET seed == IF named # 0 THEN named ELSE DefaultSeed(t, kind) IN
       camps' = [camps EXCEPT ![c] =
                    [NoCampaign EXCEPT !.phase = "Active", !.template = t,
                                       !.max = Budget,
                                       !.crossed = seed # 0 /\ Crossed(t, seed)]]
    /\ pass' = [pass EXCEPT !.st.current = @ \cup {c}]
    /\ UNCHANGED <<stages, status, cuts>>

\* No more campaigns come of the proposal, or there is none, or it is refused.
Answered ==
    /\ pass.step = "Propose"
    /\ pass.winding = {}
    /\ pass' = [pass EXCEPT !.step = "Write"]
    /\ UNCHANGED <<stages, camps, status, cuts>>

Write ==
    /\ pass.step = "Write"
    /\ pass.winding = {}
    /\ status' = pass.st
    /\ pass' = NoPass
    /\ UNCHANGED <<stages, camps, cuts>>

\* The pass fails, or the operator stops: what was patched and created stays.
Abort ==
    /\ pass.step # "Idle"
    /\ cuts < MaxCuts
    /\ cuts' = cuts + 1
    /\ pass' = NoPass
    /\ UNCHANGED <<stages, camps, status>>

-----------------------------------------------------------------------------
(* The campaigns, one run of each at a time (concurrency 1).                 *)

Set(c, rec) ==
    /\ camps' = [camps EXCEPT ![c] = rec]
    /\ UNCHANGED <<stages, status, pass, cuts>>

Launch(c) ==
    LET me == camps[c] IN
    /\ me.phase = "Active"
    /\ me.total < me.max
    /\ me.done = me.total
    /\ Set(c, [me EXCEPT !.total = @ + 1])

\* A run ends, also when its campaign is over.
Finish(c) ==
    LET me == camps[c] IN
    /\ me.done < me.total
    /\ \/ Set(c, [me EXCEPT !.done = @ + 1])
       \/ \E s \in Scores :
             Set(c, [me EXCEPT !.done = @ + 1, !.succeeded = @ + 1,
                               !.best = Max({@, s})])

\* A campaign is Completed when its budget is spent, runs of it may still go.
Complete(c) ==
    LET me == camps[c] IN
    /\ me.phase = "Active"
    /\ me.total >= me.max
    /\ Set(c, [me EXCEPT !.phase = "Ended"])

\* One of these steps is always possible.
PassStep == Begin \/ (\E c \in Campaigns : WindDown(c)) \/ Answered \/ Write

Proposable ==
    /\ pass.step = "Propose"
    /\ pass.winding = {}
    /\ Cardinality(pass.st.current) < MaxBranches
    /\ Allowed # {}
    /\ \E c \in Campaigns : camps[c].phase = "Absent"

Propose == \E c \in Campaigns, t \in Templates, kind \in {"fork", "consolidate"},
              named \in 0 .. MaxCampaigns : Fork(c, t, kind, named)

World == \E c \in Campaigns : Launch(c) \/ Finish(c)

Next == PassStep \/ Propose \/ Abort \/ World \/ \E c \in Campaigns : Complete(c)

Spec == Init /\ [][Next]_vars

\* Passes go on, a spent campaign is completed, and a proposer that is asked again
\* and again answers with something that can be created. No run is bound to end.
\* The first two conjuncts are WF_vars(PassStep) and SF_vars(Propose), written with
\* the condition under which each is enabled.
FairSpec ==
    /\ Spec
    /\ []<><<PassStep>>_vars
    /\ []<>Proposable => []<><<Propose>>_vars
    /\ \A c \in Campaigns : WF_vars(Complete(c))

-----------------------------------------------------------------------------
(* Properties.                                                               *)

\* A drive is in a stage only when what its campaigns have measured passes every
\* stage before it: under All each line on its own runs, whatever passes were cut
\* off and whatever was measured or wound down in between.
StageIsEarned ==
    \A k \in DOMAIN stages : k < status.stage =>
        LET good(t) == {c \in Campaigns : camps[c].template = t /\ camps[c].succeeded > 0}
            reached(cs) == \E c \in cs : camps[c].best >= stages[k].threshold
            all == UNION {good(t) : t \in TemplatesOf(k)} IN
        /\ stages[k].gated
        /\ reached(all)
        /\ RunsOf(camps, all) >= stages[k].least
        /\ stages[k].quantifier = "All" =>
               \A t \in TemplatesOf(k) : /\ reached(good(t))
                                        /\ RunsOf(camps, good(t)) >= stages[k].least

\* "Mislabeled science": no campaign starts from the weights of another robot,
\* whichever of the winners on record it is seeded with, as far as both declare one.
MorphologyHolds == \A c \in Campaigns : ~camps[c].crossed

\* "Out-of-stage folds are bookkeeping, not evidence about the current objective":
\* the counter that parks a drive is never above the campaigns of the current stage
\* that were folded and had run.
StagnationIsOfTheStage ==
    status.stagnation <=
        Cardinality({c \in status.folded : /\ camps[c].template \in Allowed
                                           /\ camps[c].done > 0})

\* What the wind-down is for: a promoted stage gets a campaign, though the campaigns
\* of the stage before hold every branch and their runs may never end, unless the
\* names (a bound of this model) are used up.
PromotedStageStarts ==
    []<>(\/ \E c \in Campaigns : camps[c].phase # "Absent" /\ camps[c].template \in Allowed
         \/ \A c \in Campaigns : camps[c].phase # "Absent")

=============================================================================
