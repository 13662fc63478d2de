----------------------------- MODULE Selection -----------------------------
(***************************************************************************)
(* The other half of the ResearchCampaign controller: which Experiment is  *)
(* the incumbent, which decisions are stamped, and what is generated from  *)
(* the incumbent (athena/src/campaign_reconciler.rs). How many are         *)
(* generated, and when, is the business of Campaign; here a pass fills the *)
(* free places, of a campaign without benchmark suite and mesh.            *)
(*                                                                         *)
(* Scores are natural numbers, and more is better (Maximize; Minimize is   *)
(* its mirror image). A tunable parameter is the sequence of the steps     *)
(* that led to it from the template's default.                             *)
(***************************************************************************)
EXTENDS Integers, Sequences, FiniteSetsExt

CONSTANTS
    Kinds,            \* the specs the campaign may have, see SpecsAssumption
    MaxExperiments,   \* bound: the largest budget
    Keys,             \* how many numeric parameters the template has
    Rerolls,          \* MAX_REROLLS
    Results,          \* what a run may end with
    MaxReleases,      \* bound: how often the RuntimeProfile gets another image
    Exact             \* a step up and one down come back to the same f64

Nobody == -1          \* no parent, no incumbent
Foreign == -2         \* the Experiment that spec.seedExperimentRef names
Missing == -1         \* no value of the metric

\* <campaign>-000 ...; slot 0 is <campaign>-canary when spec.canary is set: it
\* counts in `total`, so no other Experiment gets the index 0.
Slots == 0 .. MaxExperiments
Parents == Slots \cup {Nobody, Foreign}

ASSUME NumbersAssumption ==
    /\ MaxExperiments \in Nat
    /\ Keys \in Nat
    /\ Rerolls \in Nat
    /\ MaxReleases \in Nat
    /\ Exact \in BOOLEAN
\* `ckpt`: the run leaves a checkpoint.
ASSUME ResultsAssumption ==
    Results \subseteq [score : Nat \cup {Missing}, ckpt : BOOLEAN]

\* Where an Experiment has the value of total_timesteps from, the key that
\* spec.canary.parameters overrides: the template, whose defaults have the key, or
\* the overrides of a canary; or it lacks the key.
Lengths == {"Full", "Cheap", "Unset"}

\* `population`: spec.populationSize of pbt, spec.concurrency of a heuristic;
\* `seeded`: spec.seedExperimentRef names an Experiment of another campaign, which
\* runs at the length `foreign`; `tunable`: the template's parameterSchema
\* declares the key.
ASSUME SpecsAssumption ==
    Kinds \subseteq [pbt : BOOLEAN, canary : BOOLEAN, seeded : BOOLEAN,
                     foreign : Lengths, tunable : BOOLEAN,
                     population : Nat \ {0}, budget : 0 .. MaxExperiments]

VARIABLES
    spec,      \* the campaign's spec
    exps,      \* the Experiments
    image,     \* the image of the template's RuntimeProfile
    status,    \* the campaign's status
    known,     \* the incumbent in the cached copy of it
    pass       \* the reconcile pass in progress

vars == <<spec, exps, image, status, known, pass>>

Phases == {"Absent", "Live", "Succeeded", "Failed"}
Relations == {"Baseline", "Seed", "Perturb", "Remeasure", "Replicate", "Canary"}
Decisions == {"None", "Keep", "Discard"}
Steps == {"Idle", "Stamp", "Generate", "Status"}
Points == [1 .. Keys -> Seq({-1, 1})]

\* `image` is what status.environment records, -1 before the Job is created.
Experiments ==
    [phase : Phases, relation : Relations, parent : Parents, warm : BOOLEAN,
     point : Points, length : Lengths, score : Nat \cup {Missing},
     ckpt : BOOLEAN, image : Int, decision : Decisions]

\* `done`: the Experiments that had succeeded; `prior`: the incumbent of the cached
\* status; `best`: the incumbent of the pass;
\* `seed`: what it generates from; `tried`: what it failed to create.
Passes ==
    [step : Steps, image : Nat, done : SUBSET Slots,
     prior : Slots \cup {Nobody}, best : Slots \cup {Nobody}, seed : Parents,
     left : Nat, next : Nat, tried : SUBSET (Points \X Lengths)]

Statuses ==
    [best : Slots \cup {Nobody}, objective : Nat \cup {Missing},
     remeasured : Nat \cup {Missing}, controls : Nat]

Defaults == [k \in 1 .. Keys |-> <<>>]

NoExperiment ==
    [phase |-> "Absent", relation |-> "Seed", parent |-> Nobody, warm |-> FALSE,
     point |-> Defaults, length |-> "Full", score |-> Missing, ckpt |-> FALSE,
     image |-> -1, decision |-> "None"]

NoPass ==
    [step |-> "Idle", image |-> 0, done |-> {}, prior |-> Nobody,
     best |-> Nobody, seed |-> Nobody, left |-> 0, next |-> 0, tried |-> {}]

TypeOK ==
    /\ spec \in Kinds
    /\ exps \in [Slots -> Experiments]
    /\ image \in Nat
    /\ status \in Statuses
    /\ known \in Slots \cup {Nobody}
    /\ pass \in Passes

Init ==
    /\ spec \in Kinds
    /\ exps = [e \in Slots |-> NoExperiment]
    /\ image = 0
    /\ status = [best |-> Nobody, objective |-> Missing,
                 remeasured |-> Missing, controls |-> 0]
    /\ known = Nobody
    /\ pass = NoPass

-----------------------------------------------------------------------------
(* The decisions of a pass. A score does not change once the run is over, so  *)
(* they read it of `exps`, for the Experiments the pass has listed. A         *)
(* definition marked Slip is a faulty variant of the one that follows it.     *)

Listed == {e \in Slots : exps[e].phase # "Absent"}
Live == {e \in Slots : exps[e].phase = "Live"}
IsCanary(e) == spec.canary /\ e = 0
Score(e) == exps[e].score

\* The order of the list, by name: "-canary" comes after every "-007".
Rank(e) == IF IsCanary(e) THEN MaxExperiments + 1 ELSE e

IsColdStart(e) == exps[e].parent = Nobody

\* A warm-started child that reports its parent's objective bit-identically. The
\* foreign seed is not in the list, so nothing echoes it.
IsEcho(e) ==
    /\ exps[e].warm
    /\ exps[e].parent \in Listed
    /\ Score(e) # Missing
    /\ Score(e) = Score(exps[e].parent)

\* What has an objective and is no echo.
Measured(done) == {e \in done : ~IsEcho(e) /\ Score(e) # Missing}

\* pick_best: the first of those with the highest score.
PickBest(done) ==
    LET S == Measured(done) IN
    IF S = {} THEN Nobody
    ELSE CHOOSE e \in S : \A x \in S : \/ Score(x) < Score(e)
                                       \/ Score(x) = Score(e) /\ Rank(e) <= Rank(x)

Controls(done) == {e \in Measured(done) : exps[e].relation = "Remeasure"}

\* incumbent_remeasured: the last control of the list, whatever it re-measured.
Remeasured(done) ==
    IF Controls(done) = {} THEN Missing
    ELSE Score(CHOOSE e \in Controls(done) :
                 \A x \in Controls(done) : Rank(x) <= Rank(e))

\* The factors of the upper limit of sigma, in hundredths, for 3 runs and more.
Factors == <<212, 173, 156, 146, 139, 135, 132, 129>>
MinControls == 3

\* Slip: the gate fires on two controls.
ClearsTwo(challenger, baseline, done) ==
    Cardinality(Controls(done)) >= 2 /\ challenger > baseline

\* beats_incumbent with sigma_upper_bound: more than factor * s above the
\* baseline, with s^2 = (n * sum of squares - square of the sum) / (n * (n - 1)).
Clears(challenger, baseline, done) ==
    LET C == Controls(done)
        n == Cardinality(C)
        sum == MapThenSumSet(Score, C)
        squares == MapThenSumSet(LAMBDA e : Score(e) * Score(e), C)
        factor == Factors[IF n <= 10 THEN n - 2 ELSE 8]
        lead == challenger - baseline
    IN /\ n >= MinControls
       /\ lead > 0
       /\ lead * lead * n * (n - 1) * 10000 > factor * factor * (n * squares - sum * sum)

\* The incumbent of the pass: the one of the status is held, unless a peer of the
\* founding cohort, or a challenger that clears the noise, comes before it.
Select(done, prior) ==
    LET observed == PickBest(done)
        peers == IsColdStart(observed) /\ IsColdStart(prior)
        baseline == IF Controls(done) = {} THEN Score(prior) ELSE Remeasured(done)
    IN IF \/ prior \notin Measured(done)
          \/ peers
          \/ Clears(Score(observed), baseline, done)
       THEN observed ELSE prior

\* Slip: an Experiment once kept stays so.
WantKeepsOld(e, best) ==
    IF e = best \/ exps[e].decision = "Keep" THEN "Keep" ELSE "Discard"

\* The decision a completed Experiment should have.
Want(e, best) == IF e = best THEN "Keep" ELSE "Discard"

Succeeded(done) == {e \in done : ~IsEcho(e)}

\* What is still to be stamped: what has succeeded, then echoes that have no
\* decision. The canary's decision is its suite's.
ToStamp(done, best) ==
    {e \in Succeeded(done) : ~IsCanary(e) /\ exps[e].decision # Want(e, best)}
Unstamped(done) == {e \in done : IsEcho(e) /\ exps[e].decision = "None"}

First(S) == CHOOSE e \in S : \A x \in S : Rank(e) <= Rank(x)

-----------------------------------------------------------------------------
(* What is generated from the seed, the incumbent or the foreign Experiment.  *)

Probe == IF spec.canary THEN exps[0].phase # "Absent" ELSE FALSE
Budgeted == Cardinality(Listed) - (IF Probe THEN 1 ELSE 0)

\* canary_gate, of a canary that no suite gates: a canary that has not succeeded
\* holds everything, one that failed for ever.
GateOpen(done) == spec.canary => 0 \in done

Free(n) == IF n <= spec.population THEN spec.population - n ELSE 0
Batch ==
    LET want == Free(Cardinality(Live)) IN
    IF want + Budgeted <= spec.budget THEN want
    ELSE IF Budgeted <= spec.budget THEN spec.budget - Budgeted ELSE 0

\* The foreign Experiment: one step away, with a checkpoint of the first image.
ForeignPoint == [k \in 1 .. Keys |-> <<1>>]
PointOf(seed) == IF seed = Foreign THEN ForeignPoint ELSE exps[seed].point

\* warm_start_policy: the seed's recorded image is the one the RuntimeProfile had
\* when the pass began, and it left a checkpoint.
WarmStart(seed) ==
    IF seed = Foreign THEN pass.image = 0
    ELSE seed # Nobody /\ exps[seed].image = pass.image /\ exps[seed].ckpt

Bit(salt, j) == (salt \div 2 ^ j) % 2 = 1

\* times the factor, or divided by it (pbt); times 1.5 or 0.5 (heuristic).
Step(up) == IF up THEN 1 ELSE -1

\* pbt_experiment without a seed: the first is the baseline, the others step away
\* from it in every second parameter.
Spread(idx) ==
    [k \in 1 .. Keys |->
        IF idx = 0 \/ (idx + k - 1) % 2 = 0 THEN <<>>
        ELSE <<Step((idx \div 2 + k - 1) % 2 = 0)>>]

\* pbt_experiment from a seed: a step of every parameter, up or down by the index
\* and the salt.
Explore(point, idx, salt) ==
    [k \in 1 .. Keys |->
        Append(point[k], Step(((idx + k - 1) % 2 = 0) # Bit(salt, k - 1)))]

\* next_experiment from a seed: a step of one parameter, cycling through the
\* parameters, up in one lap and down in the next.
Climb(point, idx, salt) ==
    IF idx = 0 THEN Defaults
    ELSE IF Keys = 0 THEN point
    ELSE LET pick == idx - 1 + salt IN
         [point EXCEPT ![(pick % Keys) + 1] = Append(@, Step((pick \div Keys) % 2 = 0))]

Candidate(idx, salt) ==
    IF spec.pbt
    THEN IF pass.seed = Nobody THEN Spread(idx) ELSE Explore(PointOf(pass.seed), idx, salt)
    ELSE IF pass.seed = Nobody THEN Defaults ELSE Climb(PointOf(pass.seed), idx, salt)

LengthOf(seed) == IF seed = Foreign THEN spec.foreign ELSE exps[seed].length

\* Slip: the overrides are taken away from a canary only.
StripOfTheCanary(seed) ==
    IF seed \in Slots /\ IsCanary(seed) THEN "Unset" ELSE LengthOf(seed)

\* canary_seed_params: the keys that the campaign's canary overrides are taken from
\* no seed.
Strip(seed) == IF spec.canary THEN "Unset" ELSE LengthOf(seed)

\* seed_params: of a seed of another campaign only what the schema declares.
Inherited(seed) ==
    IF seed = Foreign /\ ~spec.tunable THEN "Unset" ELSE Strip(seed)

\* The parameters that are inherited, laid over the template's defaults; the first
\* of a hill climb gets the defaults alone.
Length(idx) ==
    IF pass.seed = Nobody \/ (~spec.pbt /\ idx = 0)
         \/ Inherited(pass.seed) = "Unset"
    THEN "Full" ELSE Inherited(pass.seed)

CountOf(seq, step) == Cardinality({i \in 1 .. Len(seq) : seq[i] = step})

\* science_key: the values of the parameters. The steps of pbt are inverse to each
\* other, and may or may not round to the value they came from.
Value(seq) ==
    IF ~Exact THEN seq
    ELSE IF spec.pbt THEN <<CountOf(seq, 1) - CountOf(seq, -1)>>
    ELSE <<CountOf(seq, 1), CountOf(seq, -1)>>
Key(point, length) == <<length, [k \in 1 .. Keys |-> Value(point[k])]>>
KeyOf(e) == Key(exps[e].point, exps[e].length)
Seen == {KeyOf(e) : e \in Listed} \cup {Key(t[1], t[2]) : t \in pass.tried}

Fresh(idx) == {s \in 0 .. Rerolls : Key(Candidate(idx, s), Length(idx)) \notin Seen}

Generation(e) == e \div spec.population

\* generation_seed_env: the seed is a hash of the generation; the canary has none.
Seed(e) == IF IsCanary(e) THEN -1 ELSE Generation(e)

\* Slip: one control per batch, the first of every pass.
IsControlSlotOfBatch(idx) ==
    spec.pbt /\ pass.seed # Nobody /\ idx = Cardinality(Listed)

\* One slot of every generation re-measures the seed.
IsControlSlot(idx) == spec.pbt /\ pass.seed # Nobody /\ idx % spec.population = 0

\* The control: the seed's parameters as they were inherited, not laid over the
\* template's, so that a key which is not inherited is left out.
Control ==
    [NoExperiment EXCEPT
        !.phase = "Live", !.relation = "Remeasure", !.parent = pass.seed,
        !.warm = WarmStart(pass.seed), !.point = PointOf(pass.seed),
        !.length = Inherited(pass.seed)]

\* The first salt that leads to a point not yet tried, or 0.
Salt(idx) ==
    IF pass.seed = Nobody \/ Fresh(idx) = {} THEN 0
    ELSE Min(Fresh(idx))

Relation(idx) ==
    IF pass.seed = Nobody THEN IF idx = 0 THEN "Baseline" ELSE "Seed"
    ELSE IF Fresh(idx) = {} THEN "Replicate" ELSE "Perturb"

Child(idx) ==
    [NoExperiment EXCEPT
        !.phase = "Live", !.relation = Relation(idx), !.parent = pass.seed,
        !.warm = WarmStart(pass.seed), !.point = Candidate(idx, Salt(idx)),
        !.length = Length(idx)]

New(idx) == IF IsControlSlot(idx) THEN Control ELSE Child(idx)

-----------------------------------------------------------------------------
(* The reconcile pass. *)

\* The image, the list, the selection, the size of the batch.
List ==
    /\ pass.step = "Idle"
    /\ LET done == {e \in Slots : exps[e].phase = "Succeeded"} IN
       pass' = [NoPass EXCEPT
                  !.step = "Stamp", !.image = image, !.done = done,
                  !.prior = known, !.best = Select(done, known),
                  !.left = IF GateOpen(done) THEN Batch ELSE 0,
                  !.next = Cardinality(Listed)]
    /\ UNCHANGED <<spec, exps, image, status, known>>

\* One patch of status.decision.
Stamp ==
    LET S == ToStamp(pass.done, pass.best)
        U == Unstamped(pass.done)
    IN /\ pass.step = "Stamp"
       /\ \/ /\ S # {}
             /\ exps' = [exps EXCEPT ![First(S)].decision = Want(First(S), pass.best)]
          \/ /\ S = {} /\ U # {}
             /\ exps' = [exps EXCEPT ![First(U)].decision = "Discard"]
       /\ UNCHANGED <<spec, image, status, known, pass>>

Stamped ==
    /\ pass.step = "Stamp"
    /\ ToStamp(pass.done, pass.best) \cup Unstamped(pass.done) = {}

\* The canary is created before everything else.
CreateCanary ==
    /\ Stamped
    /\ spec.canary
    /\ exps[0].phase = "Absent"
    /\ exps' = [exps EXCEPT ![0] = [NoExperiment EXCEPT
                    !.phase = "Live", !.relation = "Canary", !.length = "Cheap"]]
    /\ pass' = [pass EXCEPT !.step = "Status"]
    /\ UNCHANGED <<spec, image, status, known>>

\* The seed of the batch: the incumbent, or the foreign Experiment if it can be
\* read, or none.
PickSeed ==
    /\ Stamped
    /\ spec.canary => exps[0].phase # "Absent"
    /\ \E found \in BOOLEAN :
          pass' = [pass EXCEPT
                     !.step = IF pass.left > 0 THEN "Generate" ELSE "Status",
                     !.seed = IF pass.best # Nobody THEN pass.best
                              ELSE IF spec.seeded /\ found THEN Foreign ELSE Nobody]
    /\ UNCHANGED <<spec, exps, image, status, known>>

\* On to the next index of the batch.
Proceed(tried) ==
    [pass EXCEPT !.left = @ - 1, !.next = @ + 1, !.tried = tried,
                 !.step = IF pass.left > 1 THEN "Generate" ELSE "Status"]

Create ==
    /\ pass.step = "Generate"
    /\ exps[pass.next].phase = "Absent"
    /\ exps' = [exps EXCEPT ![pass.next] = New(pass.next)]
    /\ pass' = Proceed(pass.tried)
    /\ UNCHANGED <<spec, image, status, known>>

\* The name is taken, or the API server refuses: the point counts as tried, and
\* the batch goes on.
CreateFails ==
    /\ pass.step = "Generate"
    /\ pass' = Proceed(IF IsControlSlot(pass.next) THEN pass.tried
                       ELSE pass.tried \cup
                            {<<Candidate(pass.next, Salt(pass.next)),
                               Length(pass.next)>>})
    /\ UNCHANGED <<spec, exps, image, status, known>>

Publish ==
    /\ pass.step = "Status"
    /\ LET observed == PickBest(pass.done) IN
       status' = [best |-> pass.best,
                  objective |-> IF observed = Nobody THEN Missing ELSE Score(observed),
                  remeasured |-> Remeasured(pass.done),
                  controls |-> Cardinality(Controls(pass.done))]
    /\ pass' = NoPass
    /\ UNCHANGED <<spec, exps, image, known>>

\* An API call fails, or the operator dies.
Abort ==
    /\ pass.step # "Idle"
    /\ pass' = NoPass
    /\ UNCHANGED <<spec, exps, image, status, known>>

-----------------------------------------------------------------------------
(* What happens around the pass. *)

\* The cache catches up with the campaign.
Sync ==
    /\ known # status.best
    /\ known' = status.best
    /\ UNCHANGED <<spec, exps, image, status, pass>>

\* The Experiment controller creates the Job, from the RuntimeProfile of now, and
\* records its image (module Experiment).
Start(e) ==
    /\ exps[e].phase = "Live"
    /\ exps[e].image = -1
    /\ exps' = [exps EXCEPT ![e].image = image]
    /\ UNCHANGED <<spec, image, status, known, pass>>

Finish(e) ==
    /\ exps[e].phase = "Live"
    /\ exps[e].image # -1
    /\ \/ exps' = [exps EXCEPT ![e].phase = "Failed"]
       \/ \E r \in Results :
             exps' = [exps EXCEPT ![e].phase = "Succeeded",
                                  ![e].score = r.score, ![e].ckpt = r.ckpt]
    /\ UNCHANGED <<spec, image, status, known, pass>>

\* Someone gives the RuntimeProfile another image.
Release ==
    /\ image < MaxReleases
    /\ image' = image + 1
    /\ UNCHANGED <<spec, exps, status, known, pass>>

Next ==
    \/ List \/ Stamp \/ CreateCanary \/ PickSeed \/ Create \/ CreateFails
    \/ Publish \/ Abort
    \/ Sync \/ Release
    \/ \E e \in Slots : Start(e) \/ Finish(e)

Spec == Init /\ [][Next]_vars

-----------------------------------------------------------------------------
(* Properties. *)

\* "Until the control slot has produced [its] runs there is no sigma, and we hold
\* the incumbent rather than guess a threshold": whoever a pass publishes in the
\* place of the incumbent it has read is of the founding cohort, like that one, or
\* has been let in by three finished control runs at least. It is the incumbent
\* of the status that is replaced, unless the pass began with an older copy.
NoLuckyIncumbent ==
    [][LET old == pass.prior
           new == status'.best
       IN status' # status /\ old # new /\ old # Nobody =>
            \/ new # Nobody /\ IsColdStart(old) /\ IsColdStart(new)
            \/ Cardinality({e \in Slots : exps[e].phase = "Succeeded"
                                         /\ exps[e].relation = "Remeasure"}) >= 3]_vars

\* When a pass is through, exactly the incumbent it publishes is kept (unless it
\* is the canary), whatever passes before it were cut off between two patches.
KeptIsTheIncumbent ==
    [][status' # status =>
         {e \in Slots : exps[e].decision = "Keep"}
             = {status'.best} \ ({Nobody} \cup (IF spec.canary THEN {0} ELSE {}))]_vars

\* The one way a canary's length comes in from elsewhere: the campaign has no canary
\* whose overrides it would strip, and is seeded by an Experiment of another one
\* which runs at a canary's length, of a key that the schema declares.
CheapSeed ==
    ~spec.canary /\ spec.seeded /\ spec.foreign = "Cheap" /\ spec.tunable

\* "Canary overrides are canary-only by definition - and the leak is generational":
\* no other Experiment ever runs at a canary's length, from whatever seed it comes
\* and over however many generations, unless the campaign was given a cheap seed.
CanaryStaysCheapAlone ==
    \A e \in Listed : exps[e].length = "Cheap" => IsCanary(e) \/ CheapSeed

\* What the noise is measured by: one control per generation, however the
\* generation was cut into batches (in spot-walk-pbt-v72 every Experiment became a
\* control), on another seed than its parent, and with its parent's parameters.
\* A parent of a higher index, created while the control's own creation was
\* refused, may be of the control's generation, and then so is its seed. The
\* parameters are not those of the parent behind a canary, whose keys a control
\* lacks.
ControlsMeasureNoise ==
    \A e \in Listed : exps[e].relation = "Remeasure" =>
        /\ \A f \in Listed : /\ exps[f].relation = "Remeasure"
                              /\ Generation(e) = Generation(f)
                              => e = f
        /\ exps[e].parent \in Listed =>
              /\ exps[e].parent < e => Seed(e) # Seed(exps[e].parent)
              /\ ~spec.canary => KeyOf(e) = KeyOf(exps[e].parent)

=============================================================================
