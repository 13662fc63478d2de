--------------------------- MODULE ReportProofs ---------------------------
(***************************************************************************)
(* What a report publishes passed the checks, and its best finished run is *)
(* among the runs it lists, or one that the campaign counted without its   *)
(* label: for any campaign, any spec a scientist writes and any bounds,    *)
(* whatever passes fail or are cut off and however old the copy is that a  *)
(* pass starts from.                                                       *)
(***************************************************************************)
EXTENDS Report, FiniteSetTheorems, SequenceTheorems, WellFoundedInduction, TLAPS

Sound(doc, tex) == Violations(doc) = {} /\ ~(Size(doc, tex) > MaxSize)

\* A pass that has come to compare has a dossier that was not refused, and one
\* that has come to its status has seen or made a dataset.
PassInv ==
    /\ pass.step \in {"Compare", "Publish", "Stamp"} => Sound(pass.doc, pass.tex)
    /\ pass.step = "Stamp" => dataset # {}

Shaped ==
    pass = [step |-> pass.step, spec |-> pass.spec, generation |-> pass.generation,
            prev |-> pass.prev, campaign |-> pass.campaign, exps |-> pass.exps,
            reason |-> pass.reason, doc |-> pass.doc, tex |-> pass.tex,
            same |-> pass.same]

IInv ==
    /\ \A d \in dataset : Sound(d.doc, d.tex)
    /\ status.phase = "Assembled" => dataset # {}
    /\ Shaped
    /\ PassInv

-----------------------------------------------------------------------------

\* A dossier without a reason to refuse it is sound.
LEMMA NotRefused ==
    ASSUME NEW doc, NEW tex, Refusal(doc, tex) = None
    PROVE  Sound(doc, tex)
<1>1. CASE Violations(doc) # {}
  BY <1>1, NoneAssumption DEF Refusal, Reasons
<1>2. CASE Violations(doc) = {} /\ Size(doc, tex) > MaxSize
  BY <1>2, NoneAssumption DEF Refusal, Reasons
<1> QED BY <1>1, <1>2 DEF Sound

LEMMA StartsSound == Init => IInv
<1>1. Fresh.phase = "None"
  BY DEF Fresh
<1> QED BY <1>1 DEF Init, IInv, Shaped, PassInv, NoPass

\* Every step of a pass, and everything around it, keeps what is published sound.
LEMMA StaysSound == IInv /\ [Next]_vars => IInv'
<1> SUFFICES ASSUME IInv, [Next]_vars PROVE IInv'
  OBVIOUS
<1> USE DEF IInv
<1>0. ASSUME UNCHANGED <<status, dataset, pass>> PROVE IInv'
  BY <1>0 DEF Shaped, PassInv
<1>1. CASE Begin
  <2>1. UNCHANGED <<status, dataset>> /\ pass'.step = "Campaign" /\ Shaped'
    BY <1>1 DEF Begin, NoPass, Shaped
  <2> QED BY <2>1 DEF PassInv
<1>2. CASE ReadCampaign
  <2>1. UNCHANGED <<status, dataset>> /\ pass'.step \in {"Refuse", "Experiments"} /\ Shaped'
    BY <1>2 DEF ReadCampaign, Shaped
  <2> QED BY <2>1 DEF PassInv
<1>3. CASE ReadExperiments
  <2>1. UNCHANGED <<status, dataset>> /\ pass'.step = "Runs" /\ Shaped'
    BY <1>3 DEF ReadExperiments, Shaped
  <2> QED BY <2>1 DEF PassInv
<1>4. CASE ReadRuns
  <2>1. UNCHANGED <<status, dataset>> /\ pass'.step = "Judge" /\ Shaped'
    BY <1>4 DEF ReadRuns, Compose, Shaped
  <2> QED BY <2>1 DEF PassInv
<1>5. CASE Judge
  <2>1. /\ UNCHANGED <<status, dataset>> /\ Shaped'
        /\ pass'.doc = pass.doc /\ pass'.tex = pass.tex
        /\ pass'.step = IF Refusal(pass.doc, pass.tex) = None THEN "Compare" ELSE "Refuse"
    BY <1>5 DEF Judge, Shaped
  <2>2. Refusal(pass.doc, pass.tex) = None => Sound(pass.doc, pass.tex)
    BY NotRefused
  <2> QED BY <2>1, <2>2 DEF PassInv
<1>6. CASE Refuse
  <2>1. dataset' = dataset /\ pass' = NoPass
    BY <1>6 DEF Refuse
  <2>2. status'.phase = "Assembled" => status.phase = "Assembled"
    <3>1. ErrorStatus(pass.reason).phase = "Error"
      BY DEF ErrorStatus, Fresh
    <3> QED BY <1>6, <3>1 DEF Refuse
  <2> QED BY <2>1, <2>2 DEF Shaped, PassInv, NoPass
<1>7. CASE Compare
  <2> DEFINE same == \E d \in dataset : d.doc = pass.doc
  <2>1. /\ UNCHANGED <<status, dataset>> /\ Shaped'
        /\ pass.step = "Compare" /\ pass'.doc = pass.doc /\ pass'.tex = pass.tex
        /\ pass'.step = IF same THEN "Stamp" ELSE "Publish"
    BY <1>7, Zenon DEF Compare, At, Shaped
  <2>2. same => dataset # {}
    OBVIOUS
  <2> QED BY <2>1, <2>2 DEF PassInv
<1>8. CASE Publish
  <2>1. /\ dataset' = {[doc |-> pass.doc, tex |-> pass.tex]} /\ status' = status
        /\ pass.step = "Publish" /\ Shaped'
        /\ pass'.doc = pass.doc /\ pass'.tex = pass.tex
    BY <1>8 DEF Publish, At, Shaped
  <2> QED BY <2>1 DEF PassInv
<1>9. CASE Stamp
  <2>1. dataset' = dataset /\ dataset # {} /\ pass' = NoPass
    BY <1>9 DEF Stamp, At, PassInv
  <2> QED BY <2>1 DEF Shaped, PassInv, NoPass
<1>10. CASE Abort
  BY <1>10 DEF Abort, Shaped, PassInv, NoPass
<1>14. CASE AssembleFails
  <2>1. UNCHANGED <<status, dataset>> /\ pass'.step = "Refuse" /\ Shaped'
    BY <1>14 DEF AssembleFails, Shaped
  <2> QED BY <2>1 DEF PassInv
<1>11. CASE Deliver
  BY <1>0, <1>11 DEF Deliver
<1>12. CASE World
  BY <1>0, <1>12 DEF World, Change, Edit, Found, Generate, Rank, Finish, Promote
<1>13. CASE UNCHANGED vars
  BY <1>0, <1>13 DEF vars
<1> QED BY <1>1, <1>2, <1>3, <1>4, <1>5, <1>6, <1>7, <1>8, <1>9, <1>10, <1>11, <1>12,
           <1>13, <1>14 DEF Next, Reconcile

\* "Fails CLOSED: on violation we publish NOTHING": what is published passed the
\* checks, and where a report says Assembled something is.
THEOREM PublishedIsSound == Spec => []DatasetIsWhole
<1>1. IInv => DatasetIsWhole
  BY DEF IInv, Sound, DatasetIsWhole
<1> QED BY StartsSound, StaysSound, <1>1, PTL DEF Spec

-----------------------------------------------------------------------------
(* The largest of some numbers. *)

LEMMA LeastNat ==
    ASSUME NEW S, S \subseteq Nat, S # {}
    PROVE  \E n \in S : \A m \in S : n <= m
<1>1. PICK n \in S : \A m \in S : <<m, n>> \notin OpToRel(<, Nat)
  BY NatLessThanWellFounded, WFMin
<1>2. \A m \in S : ~(m < n)
  BY <1>1 DEF OpToRel
<1> QED BY <1>2

\* A finite list of numbers is bounded.
LEMMA ListBounded ==
    ASSUME NEW n \in Nat, NEW f, NEW D, D \subseteq 1..n, \A i \in D : f[i] \in Nat
    PROVE  \E top \in Nat : \A i \in D : f[i] <= top
<1> DEFINE Bounded(k) == \E top \in Nat : \A i \in D : i <= k => f[i] <= top
           open == {k \in 0..n : ~Bounded(k)}
<1>1. Bounded(0)
  <2>1. \A i \in D : ~(i <= 0)
    OBVIOUS
  <2> QED BY <2>1
<1>2. ASSUME NEW k \in 1..n, Bounded(k - 1) PROVE Bounded(k)
  <2>1. PICK top \in Nat : \A i \in D : i <= k - 1 => f[i] <= top
    BY <1>2
  <2>2. CASE k \notin D
    <3>1. \A i \in D : i <= k => f[i] <= top
      BY <2>1, <2>2
    <3> QED BY <3>1
  <2>3. CASE k \in D
    <3>1. f[k] \in Nat /\ f[k] + top \in Nat
      BY <2>3
    <3>2. \A i \in D : i <= k => f[i] <= f[k] + top
      <4> SUFFICES ASSUME NEW i \in D, i <= k PROVE f[i] <= f[k] + top
        OBVIOUS
      <4>1. CASE i = k
        BY <3>1, <4>1
      <4>2. CASE i <= k - 1
        BY <2>1, <3>1, <4>2
      <4> QED BY <4>1, <4>2
    <3> QED BY <3>1, <3>2
  <2> QED BY <2>2, <2>3
<1> HIDE DEF Bounded
<1>3. open = {}
  <2> SUFFICES ASSUME open # {} PROVE FALSE
    OBVIOUS
  <2> open \subseteq Nat
    OBVIOUS
  <2> HIDE DEF open
  <2>1. PICK k \in open : \A j \in open : k <= j
    BY LeastNat
  <2> USE DEF open
  <2>2. k \in 1..n /\ k - 1 \notin open
    BY <1>1, <2>1
  <2> QED BY <1>2, <2>2
<1>4. Bounded(n)
  BY <1>3
<1>5. PICK top \in Nat : \A i \in D : i <= n => f[i] <= top
  BY <1>4 DEF Bounded
<1> QED BY <1>5

\* So one of them is the largest.
LEMMA BoundedHasTop ==
    ASSUME NEW S, S \subseteq Nat, S # {}, NEW bound \in Nat, \A m \in S : m <= bound
    PROVE  \E top \in S : \A m \in S : m <= top
<1> DEFINE over == {b \in Nat : \A m \in S : m <= b}
<1>1. over \subseteq Nat /\ over # {}
  OBVIOUS
<1> HIDE DEF over
<1>2. PICK least \in over : \A b \in over : least <= b
  BY <1>1, LeastNat
<1> USE DEF over
<1>3. least \in Nat /\ \A m \in S : m <= least
  BY <1>2
<1>4. least \in S
  <2> SUFFICES ASSUME least \notin S PROVE FALSE
    OBVIOUS
  <2>1. \A m \in S : m \in Nat /\ m # least /\ m <= least
    BY <1>3
  <2>2. PICK m \in S : m <= least
    BY <1>3
  <2>3. least - 1 \in Nat
    BY <1>3, <2>1, <2>2
  <2>4. \A k \in S : k <= least - 1
    BY <1>3, <2>1
  <2>5. least - 1 \in over
    BY <2>3, <2>4
  <2>6. least <= least - 1
    BY <1>2, <2>5
  <2> QED BY <1>3, <2>6
<1> QED BY <1>3, <1>4

LEMMA TopExists ==
    ASSUME NEW n \in Nat, NEW f, NEW D, D \subseteq 1..n, D # {},
           \A i \in D : f[i] \in Nat
    PROVE  \E top \in D : \A i \in D : f[i] <= f[top]
<1> DEFINE values == {f[i] : i \in D}
<1>1. PICK bound \in Nat : \A i \in D : f[i] <= bound
  BY ListBounded
<1>2. values \subseteq Nat /\ values # {} /\ \A m \in values : m <= bound
  BY <1>1
<1> HIDE DEF values
<1>3. PICK largest \in values : \A m \in values : m <= largest
  BY <1>2, BoundedHasTop
<1> QED BY <1>3 DEF values

-----------------------------------------------------------------------------
(* The experiments. *)

Experiments ==
    [name : STRING, parent : STRING \cup {None}, lineage : STRING \cup {None},
     parameter : Nat, phase : {"Running", "Succeeded"}, best : Nat \cup {None, Object},
     metric : Nat \cup {None}, decision : {None, "NeedsReview", "Keep"},
     artifacts : STRING \cup {None}, at : Nat]

\* An objective is a number, where there is one.
LEMMA ObjectiveType ==
    ASSUME NEW e \in Experiments
    PROVE  Objective(e) \in Nat \cup {None}
BY DEF Objective, Experiments

LEMMA CutoffType ==
    ASSUME NEW list \in Seq(Experiments)
    PROVE  Cutoff(list) \in Nat
<1> DEFINE at == [i \in DOMAIN list |-> list[i].at]
           moments == {0} \cup {list[i].at : i \in DOMAIN list}
<1>1. Len(list) \in Nat /\ DOMAIN list = 1..Len(list)
  OBVIOUS
<1>2. \A i \in DOMAIN list : list[i].at \in Nat
  <2>1. \A i \in DOMAIN list : list[i] \in Experiments
    OBVIOUS
  <2> QED BY <2>1 DEF Experiments
<1>3. \A i \in DOMAIN list : at[i] \in Nat
  BY <1>2
<1> HIDE DEF at
<1>4. PICK bound \in Nat : \A i \in DOMAIN list : at[i] <= bound
  BY <1>1, <1>3, ListBounded
<1>5. moments \subseteq Nat /\ moments # {} /\ \A m \in moments : m <= bound
  BY <1>2, <1>4 DEF at
<1> HIDE DEF moments
<1>6. \E top \in moments : \A m \in moments : m <= top
  BY <1>5, BoundedHasTop
<1>7. \E top \in moments : \A m \in moments : top >= m
  BY <1>5, <1>6
<1>8. Max(moments) \in moments
  BY <1>7 DEF Max
<1>9. Cutoff(list) = Max(moments)
  BY DEF Cutoff, moments
<1> QED BY <1>5, <1>8, <1>9

\* The recursion of Only has a solution, so Only is its last value.
LEMMA OnlyUnfolds ==
    ASSUME NEW list, Len(list) \in Nat, NEW kept
    PROVE  \E upTo :
              /\ Only(list, kept) = upTo[Len(list)]
              /\ upTo[0] = <<>>
              /\ \A n \in 1..Len(list) :
                    upTo[n] = IF list[n].name \in kept
                              THEN Append(upTo[n - 1], list[n]) ELSE upTo[n - 1]
<1> DEFINE Step(f, n) == IF n = 0 THEN <<>>
                         ELSE IF list[n].name \in kept THEN Append(f[n - 1], list[n])
                         ELSE f[n - 1]
           Solves(f, m) == f = [n \in 0..m |-> Step(f, n)]
           upTo == CHOOSE f : Solves(f, Len(list))
           unsolved == {m \in 0..Len(list) : ~\E f : Solves(f, m)}
<1>1. Only(list, kept) = upTo[Len(list)]
  BY DEF Only
<1>2. \E f : Solves(f, 0)
  <2>1. Solves([n \in 0..0 |-> <<>>], 0)
    OBVIOUS
  <2> QED BY <2>1
<1>3. ASSUME NEW m \in 1..Len(list), NEW f, Solves(f, m - 1)
      PROVE  \E g : Solves(g, m)
  <2> DEFINE g == [n \in 0..m |-> IF n < m THEN f[n] ELSE Step(f, m)]
  <2>1. \A n \in 0..(m - 1) : f[n] = Step(f, n)
    BY <1>3
  <2>2. \A n \in 0..m : g[n] = Step(g, n)
    <3> SUFFICES ASSUME NEW n \in 0..m PROVE g[n] = Step(g, n)
      OBVIOUS
    <3>1. n # 0 => g[n - 1] = f[n - 1]
      OBVIOUS
    <3>2. Step(g, n) = Step(f, n)
      BY <3>1
    <3>3. CASE n < m
      BY <2>1, <3>2, <3>3
    <3>4. CASE n = m
      BY <3>2, <3>4
    <3> QED BY <3>3, <3>4
  <2>3. Solves(g, m)
    BY <2>2
  <2> QED BY <2>3
<1> HIDE DEF Solves
<1>4. unsolved = {}
  <2> SUFFICES ASSUME unsolved # {} PROVE FALSE
    OBVIOUS
  <2> unsolved \subseteq Nat
    OBVIOUS
  <2> HIDE DEF unsolved
  <2>1. PICK m \in unsolved : \A k \in unsolved : m <= k
    BY LeastNat
  <2> USE DEF unsolved
  <2>2. m # 0
    BY <1>2
  <2>3. m \in 1..Len(list) /\ m - 1 \notin unsolved
    BY <2>1, <2>2
  <2>4. \E f : Solves(f, m - 1)
    BY <2>3
  <2> QED BY <1>3, <2>3, <2>4
<1>5. \E f : Solves(f, Len(list))
  BY <1>4
<1>6. Solves(upTo, Len(list))
  BY <1>5
<1> HIDE DEF upTo
<1>7. \A n \in 0..Len(list) : upTo[n] = Step(upTo, n)
  BY <1>6 DEF Solves
<1>8. upTo[0] = <<>>
  BY <1>7
<1>9. \A n \in 1..Len(list) :
        upTo[n] = IF list[n].name \in kept THEN Append(upTo[n - 1], list[n]) ELSE upTo[n - 1]
  BY <1>7
<1> QED BY <1>1, <1>8, <1>9

\* It keeps those with one of the names, and when it keeps as many as there are,
\* their names are the same.
LEMMA OnlyKeeps ==
    ASSUME NEW list \in Seq(Experiments), NEW kept
    PROVE  /\ Only(list, kept) \in Seq(Experiments)
           /\ Len(Only(list, kept)) <= Len(list)
           /\ Named(Only(list, kept)) = Named(list) \cap kept
           /\ Len(Only(list, kept)) = Len(list) => Named(Only(list, kept)) = Named(list)
<1>0. Len(list) \in Nat
  OBVIOUS
<1> DOMAIN list = 1..Len(list)
  OBVIOUS
<1>1. PICK upTo :
        /\ Only(list, kept) = upTo[Len(list)]
        /\ upTo[0] = <<>>
        /\ \A n \in 1..Len(list) :
              upTo[n] = IF list[n].name \in kept
                        THEN Append(upTo[n - 1], list[n]) ELSE upTo[n - 1]
  BY <1>0, OnlyUnfolds
<1> DEFINE before(n) == {list[i].name : i \in 1..n}
           Holds(n) == /\ upTo[n] \in Seq(Experiments)
                       /\ Len(upTo[n]) <= n
                       /\ Named(upTo[n]) = before(n) \cap kept
                       /\ Len(upTo[n]) = n => Named(upTo[n]) = before(n)
           fails == {n \in 0..Len(list) : ~Holds(n)}
<1>2. Holds(0)
  <2>1. upTo[0] = <<>> /\ before(0) = {}
    BY <1>1
  <2>2. Named(<<>>) = {}
    BY DEF Named
  <2> QED BY <2>1, <2>2
<1>3. ASSUME NEW n \in 1..Len(list), Holds(n - 1) PROVE Holds(n)
  <2> DEFINE old == upTo[n - 1]
  <2>1. before(n) = before(n - 1) \cup {list[n].name}
    OBVIOUS
  <2>2. /\ old \in Seq(Experiments) /\ Len(old) <= n - 1 /\ Len(old) \in Nat
        /\ Named(old) = before(n - 1) \cap kept
        /\ Len(old) = n - 1 => Named(old) = before(n - 1)
    BY <1>3
  <2>3. list[n] \in Experiments
    OBVIOUS
  <2>4. \/ upTo[n] = old /\ list[n].name \notin kept
        \/ upTo[n] = Append(old, list[n]) /\ list[n].name \in kept
    BY <1>1
  <2> HIDE DEF old, before
  <2>5. CASE upTo[n] = old /\ list[n].name \notin kept
    BY <2>1, <2>2, <2>5
  <2>6. CASE upTo[n] = Append(old, list[n]) /\ list[n].name \in kept
    <3>1. /\ Append(old, list[n]) \in Seq(Experiments)
          /\ Len(Append(old, list[n])) = Len(old) + 1
          /\ \A i \in 1..Len(old) : Append(old, list[n])[i] = old[i]
          /\ Append(old, list[n])[Len(old) + 1] = list[n]
      BY <2>2, <2>3, AppendProperties
    <3>2. Named(Append(old, list[n])) = Named(old) \cup {list[n].name}
      BY <2>2, <3>1 DEF Named
    <3> QED BY <2>1, <2>2, <2>6, <3>1, <3>2
  <2> QED BY <2>4, <2>5, <2>6
<1> HIDE DEF Holds
<1>4. fails = {}
  <2> SUFFICES ASSUME fails # {} PROVE FALSE
    OBVIOUS
  <2> fails \subseteq Nat
    OBVIOUS
  <2> HIDE DEF fails
  <2>1. PICK n \in fails : \A k \in fails : n <= k
    BY LeastNat
  <2> USE DEF fails
  <2>2. n \in 1..Len(list) /\ n - 1 \notin fails
    BY <1>2, <2>1
  <2> QED BY <1>3, <2>2
<1>5. Holds(Len(list))
  BY <1>4
<1>6. Named(list) = before(Len(list))
  BY DEF Named
<1> QED BY <1>1, <1>5, <1>6 DEF Holds

\* A curation keeps some of the experiments.
LEMMA CurateKeeps ==
    ASSUME NEW list \in Seq(Experiments), NEW by
    PROVE  /\ Curate(list, by) \in Seq(Experiments)
           /\ Len(Curate(list, by)) <= Len(list)
           /\ Len(Curate(list, by)) = Len(list) => Named(Curate(list, by)) = Named(list)
<1> DEFINE kept == Kept(list, by)
<1>1. Curate(list, by) = Only(list, kept)
  BY DEF Curate
<1> HIDE DEF kept
<1> QED BY <1>1, OnlyKeeps

-----------------------------------------------------------------------------
(* The best experiment. *)

States == [phase : {"Running", "Completed"}, best : STRING \cup {None},
           objective : Nat \cup {None}]

\* The experiments with the campaign's label.
Labelled == Named(exps) \ unlabelled

\* The campaign has the first experiments of the plan, and its best is one of them,
\* with its label or counted without it.
WorldInv ==
    /\ exps \in Seq(Experiments) /\ Len(exps) <= Len(Plan)
    /\ \A i \in 1..Len(exps) : exps[i].name = Plan[i].name
    /\ unlabelled \cup unadopted \subseteq Named(exps)
    /\ campaign # None =>
          campaign \in States /\ campaign.best \in {None} \cup Labelled \cup unadopted

\* What BestIsListed says of a document.
Lists(doc, counted) ==
    doc.curated[1] = doc.curated[2] =>
        doc.results.best \in {None} \cup {doc.table[i].name : i \in DOMAIN doc.table}
                                    \cup counted

\* The best of the campaign that a pass has read is an experiment it will read, or
\* has read, or lists in its document.
ReadInv ==
    /\ pass.step = "Experiments" =>
          pass.campaign.best \in {None} \cup Labelled \cup unadopted
    /\ pass.step = "Runs" =>
          /\ pass.exps \in Seq(Experiments)
          /\ pass.campaign.best \in {None} \cup Named(pass.exps) \cup unadopted
    /\ pass.step \in {"Judge", "Compare", "Publish", "Stamp"} => Lists(pass.doc, unadopted)
    /\ \A d \in dataset : Lists(d.doc, unadopted)

Planned == [name : STRING, parent : STRING \cup {None}, lineage : STRING \cup {None},
            parameter : Nat, score : Nat, mean : Nat, artifacts : STRING, byHand : BOOLEAN]

LEMMA PlanType ==
    ASSUME NEW i \in DOMAIN Plan
    PROVE  Plan[i] \in Planned
<1>1. Plan \in Seq(Planned)
  BY PlanAssumption DEF Planned
<1>2. i \in 1..Len(Plan)
  BY <1>1
<1> QED BY <1>1, <1>2, ElementOfSeq

LEMMA EndedType ==
    ASSUME NEW i \in DOMAIN Plan, NEW at \in Nat
    PROVE  /\ Made(Plan[i]) \in Experiments /\ Made(Plan[i]).name = Plan[i].name
           /\ Ended(Plan[i], at) \in Experiments /\ Ended(Plan[i], at).name = Plan[i].name
<1>1. Plan[i] \in Planned
  BY PlanType
<1>2. Made(Plan[i]) \in Experiments /\ Made(Plan[i]).name = Plan[i].name
  BY <1>1 DEF Made, Experiments, Planned
<1>3. Ended(Plan[i], at) =
        [Made(Plan[i]) EXCEPT !.phase = "Succeeded", !.best = Plan[i].score,
                              !.metric = Plan[i].score, !.decision = "NeedsReview",
                              !.artifacts = Plan[i].artifacts, !.at = at]
  BY DEF Ended
<1> DEFINE made == Made(Plan[i])
<1> HIDE DEF made
<1>4. Ended(Plan[i], at) \in Experiments /\ Ended(Plan[i], at).name = made.name
  BY <1>1, <1>2, <1>3 DEF made, Experiments, Planned
<1> QED BY <1>2, <1>4 DEF made

LEMMA WorldInit == Init => WorldInv
<1> SUFFICES ASSUME Init PROVE WorldInv
  OBVIOUS
<1>1. PICK n \in Finished :
        /\ campaign = IF n = 0 THEN None ELSE NewCampaign
        /\ exps = [i \in 1..n |-> Ended(Plan[i], i)]
        /\ unlabelled = {Plan[i].name : i \in {j \in 1..n : Plan[j].byHand}}
  BY DEF Init
<1>2. Len(Plan) \in Nat /\ DOMAIN Plan = 1..Len(Plan)
  BY PlanAssumption
<1>3. n \in Nat /\ n <= Len(Plan)
  BY <1>2, FinishedAssumption
<1>4. \A i \in 1..n : Ended(Plan[i], i) \in Experiments /\ Ended(Plan[i], i).name = Plan[i].name
  BY <1>2, <1>3, EndedType
<1>5. exps \in [1..n -> Experiments] /\ \A i \in 1..n : exps[i].name = Plan[i].name
  BY <1>1, <1>4
<1>6. exps \in Seq(Experiments) /\ Len(exps) = n
  BY <1>3, <1>5
<1>7. NewCampaign \in States /\ NewCampaign.best = None
  BY DEF NewCampaign, States
<1>8. unlabelled \subseteq Named(exps) /\ unadopted = {}
  BY <1>1, <1>3, <1>5 DEF Named, Init
<1> QED BY <1>1, <1>3, <1>5, <1>6, <1>7, <1>8 DEF WorldInv

\* What has a label keeps it, and what is counted stays counted.
Grows == Labelled \subseteq Labelled' /\ unadopted \subseteq unadopted'

\* What the world does: the experiments that are there stay, and the best is one.
LEMMA WorldStep ==
    ASSUME WorldInv, World
    PROVE  WorldInv' /\ Grows
<1>0. /\ Len(Plan) \in Nat /\ DOMAIN Plan = 1..Len(Plan)
      /\ Len(exps) \in Nat /\ DOMAIN exps = 1..Len(exps)
      /\ exps \in Seq(Experiments) /\ Len(exps) <= Len(Plan)
  BY PlanAssumption DEF WorldInv
<1>1. ASSUME NEW s \in Specs, Edit(s)
      PROVE  WorldInv' /\ Grows
  BY <1>1 DEF Edit, labels, WorldInv, Named, Labelled, Grows
<1>2. CASE Found
  <2>1. NewCampaign \in States /\ NewCampaign.best = None
    BY DEF NewCampaign, States
  <2> QED BY <1>2, <2>1 DEF Found, labels, WorldInv, Named, Labelled, Grows
<1>3. CASE Generate
  <2> DEFINE next == Made(Plan[Len(exps) + 1])
             name == Plan[Len(exps) + 1].name
  <2>1. /\ Len(exps) < Len(Plan) /\ campaign' = campaign /\ unadopted' = unadopted
        /\ exps' = Append(exps, next)
        /\ unlabelled \subseteq unlabelled' /\ unlabelled' \subseteq unlabelled \cup {name}
    BY <1>3 DEF Generate
  <2>2. next \in Experiments /\ next.name = Plan[Len(exps) + 1].name
    <3>1. Len(exps) + 1 \in DOMAIN Plan
      BY <1>0, <2>1
    <3>2. 0 \in Nat
      OBVIOUS
    <3> QED BY <3>1, <3>2, EndedType
  <2> HIDE DEF next
  <2>3. /\ exps' \in Seq(Experiments) /\ Len(exps') = Len(exps) + 1
        /\ \A i \in 1..Len(exps) : exps'[i] = exps[i]
        /\ exps'[Len(exps) + 1] = next
    BY <1>0, <2>1, <2>2, AppendProperties
  <2>4. DOMAIN exps' = 1..(Len(exps) + 1)
    BY <2>3
  <2>5. Named(exps) \subseteq Named(exps')
    BY <1>0, <2>3, <2>4 DEF Named
  <2>6. \A i \in 1..Len(exps') : exps'[i].name = Plan[i].name
    BY <1>0, <2>2, <2>3 DEF WorldInv
  <2>7. name \notin Named(exps) /\ name \in Named(exps')
    <3>1. ASSUME NEW i \in 1..Len(exps) PROVE exps[i].name # name
      <4>1. exps[i].name = Plan[i].name /\ i \in DOMAIN Plan /\ Len(exps) + 1 \in DOMAIN Plan
        BY <1>0, <2>1 DEF WorldInv
      <4>2. i # Len(exps) + 1
        BY <1>0
      <4> QED BY <4>1, <4>2, PlanAssumption
    <3> QED BY <1>0, <2>2, <2>3, <2>4, <3>1 DEF Named
  <2> HIDE DEF name
  <2>8. Grows
    BY <2>1, <2>5, <2>7 DEF Grows, Labelled
  <2>9. unlabelled' \cup unadopted' \subseteq Named(exps')
    BY <2>1, <2>5, <2>7 DEF WorldInv
  <2> QED BY <1>0, <2>1, <2>3, <2>6, <2>8, <2>9 DEF WorldInv, Grows
\* An experiment that is there changes, but not its name.
<1>a. ASSUME NEW i \in DOMAIN exps, NEW e \in Experiments, e.name = exps[i].name,
             exps' = [exps EXCEPT ![i] = e], campaign' = campaign, UNCHANGED labels
      PROVE  WorldInv' /\ Grows
  <2>1. /\ exps' \in Seq(Experiments) /\ Len(exps') = Len(exps)
        /\ \A j \in 1..Len(exps) : exps'[j] = IF j = i THEN e ELSE exps[j]
    BY <1>0, <1>a, ExceptSeq
  <2>2. DOMAIN exps' = 1..Len(exps)
    BY <2>1
  <2>3. \A j \in 1..Len(exps) : exps'[j].name = exps[j].name
    BY <1>a, <2>1
  <2>4. Named(exps) = Named(exps')
    BY <1>0, <2>2, <2>3 DEF Named
  <2> QED BY <1>0, <1>a, <2>1, <2>3, <2>4 DEF WorldInv, labels, Labelled, Grows
<1>4. ASSUME NEW i \in DOMAIN exps, Finish(i)
      PROVE  WorldInv' /\ Grows
  <2> DEFINE at == Cutoff(exps) + 1
             e == Ended(Plan[i], at)
  <2>1. exps' = [exps EXCEPT ![i] = e] /\ campaign' = campaign /\ UNCHANGED labels
    BY <1>4 DEF Finish
  <2>2. at \in Nat
    BY <1>0, CutoffType
  <2>3. i \in DOMAIN Plan
    BY <1>0
  <2> HIDE DEF at
  <2>4. e \in Experiments /\ e.name = Plan[i].name
    BY <2>2, <2>3, EndedType
  <2>5. exps[i].name = Plan[i].name
    BY <1>0 DEF WorldInv
  <2> HIDE DEF e
  <2> QED BY <1>a, <2>1, <2>4, <2>5
<1>5. ASSUME NEW i \in DOMAIN exps, Promote(i)
      PROVE  WorldInv' /\ Grows
  <2> DEFINE e == [exps[i] EXCEPT !.best = Object, !.metric = Plan[i].mean,
                                  !.decision = "Keep"]
  <2>1. exps' = [exps EXCEPT ![i] = e] /\ campaign' = campaign /\ UNCHANGED labels
    BY <1>5 DEF Promote
  <2>2. exps[i] \in Experiments
    BY <1>0
  <2>3. Plan[i].mean \in Nat
    BY <1>0, PlanType DEF Planned
  <2>4. e \in Experiments /\ e.name = exps[i].name
    BY <2>2, <2>3 DEF Experiments
  <2> HIDE DEF e
  <2> QED BY <1>a, <2>1, <2>4
<1>6. CASE Rank
  <2> DEFINE done == {i \in DOMAIN exps : Objective(exps[i]) # None}
             score == [i \in DOMAIN exps |-> Objective(exps[i])]
             top == CHOOSE i \in done :
                      \A j \in done : Objective(exps[j]) <= Objective(exps[i])
             phase == IF Len(exps) = Len(Plan) THEN "Completed" ELSE campaign.phase
             best == IF done = {} THEN campaign.best ELSE exps[top].name
             objective == IF done = {} THEN campaign.objective ELSE Objective(exps[top])
  <2>1. /\ campaign # None /\ exps' = exps
        /\ campaign' = [campaign EXCEPT !.phase = phase, !.best = best,
                                        !.objective = objective]
    BY <1>6 DEF Rank
  <2>2. campaign \in States /\ campaign.best \in {None} \cup Labelled \cup unadopted
    BY <2>1 DEF WorldInv
  <2>8. /\ unlabelled' \subseteq unlabelled /\ unadopted' = unadopted \cup unlabelled'
    BY <1>6 DEF Rank
  <2>9. Labelled' = Named(exps) \ unlabelled'
    BY <2>1 DEF Labelled, Named
  <2>10. Grows /\ unlabelled' \cup unadopted' \subseteq Named(exps)
    BY <2>8, <2>9 DEF Grows, Labelled, WorldInv
  <2>3. \A i \in DOMAIN exps : Objective(exps[i]) \in Nat \cup {None}
    BY <1>0, ObjectiveType
  <2>4. done # {} => top \in done
    <3> SUFFICES ASSUME done # {} PROVE top \in done
      OBVIOUS
    <3>1. done \subseteq 1..Len(exps) /\ \A i \in done : score[i] \in Nat
      BY <1>0, <2>3
    <3> HIDE DEF done, score
    <3>2. \E i \in done : \A j \in done : score[j] <= score[i]
      BY <1>0, <3>1, TopExists
    <3> USE DEF done, score
    <3>3. \E i \in done : \A j \in done : Objective(exps[j]) <= Objective(exps[i])
      BY <3>2
    <3> QED BY <3>3
  <2> HIDE DEF top
  <2>5. done # {} => /\ exps[top].name \in Named(exps) /\ exps[top].name \in STRING
                     /\ Objective(exps[top]) \in Nat \cup {None}
    <3> SUFFICES ASSUME done # {}
                 PROVE  /\ exps[top].name \in Named(exps) /\ exps[top].name \in STRING
                        /\ Objective(exps[top]) \in Nat \cup {None}
      OBVIOUS
    <3>1. top \in DOMAIN exps
      BY <2>4
    <3>2. exps[top] \in Experiments
      BY <1>0, <3>1
    <3> QED BY <2>3, <3>1, <3>2 DEF Experiments, Named
  <2>6. /\ best \in {None} \cup Labelled' \cup unadopted' /\ best \in STRING \cup {None}
        /\ objective \in Nat \cup {None} /\ phase \in {"Running", "Completed"}
    <3>1. best \in {None} \cup Labelled \cup unadopted \cup Named(exps)
      BY <2>2, <2>5
    <3>2. Labelled \cup unadopted \cup Named(exps) \subseteq Labelled' \cup unadopted'
      BY <2>8, <2>9, <2>10 DEF Grows
    <3>3. best \in STRING \cup {None}
      BY <2>2, <2>5 DEF States
    <3>4. objective \in Nat \cup {None} /\ phase \in {"Running", "Completed"}
      BY <2>2, <2>5 DEF States
    <3> HIDE DEF best, objective, phase
    <3> QED BY <3>1, <3>2, <3>3, <3>4
  <2> HIDE DEF best, objective, phase
  <2>7. campaign' \in States /\ campaign'.best = best
    BY <2>1, <2>2, <2>6 DEF States
  <2>11. Named(exps') = Named(exps)
    BY <2>1
  <2> QED BY <2>1, <2>6, <2>7, <2>10, <2>11 DEF WorldInv
<1> QED BY <1>1, <1>2, <1>3, <1>4, <1>5, <1>6 DEF World

\* A document lists the best of the campaign, when the curation left nothing out.
LEMMA ComposedLists ==
    ASSUME NEW of, NEW list \in Seq(Experiments), NEW seen, NEW by, NEW counted,
           of.best \in {None} \cup Named(list) \cup counted
    PROVE  Lists(Markdown(of, Curate(list, by), Len(list), seen, by), counted)
<1> DEFINE kept == Curate(list, by)
           doc == Markdown(of, kept, Len(list), seen, by)
<1>1. /\ kept \in Seq(Experiments)
      /\ Len(kept) = Len(list) => Named(kept) = Named(list)
  BY CurateKeeps
<1> HIDE DEF kept
<1>2. doc.curated = <<Len(kept), Len(list)>> /\ doc.results.best = of.best
  BY DEF Markdown, Results
<1>3. doc.table = Table(kept)
  BY DEF Markdown
<1>4. DOMAIN Table(kept) = DOMAIN kept /\ \A i \in DOMAIN kept : Table(kept)[i].name = kept[i].name
  BY DEF Table, Collect
<1>5. {doc.table[i].name : i \in DOMAIN doc.table} = Named(kept)
  BY <1>3, <1>4 DEF Named
<1> HIDE DEF doc
<1>6. Lists(doc, counted)
  BY <1>1, <1>2, <1>5 DEF Lists
<1> QED BY <1>6 DEF doc, kept

\* The dossier lists what has the label.
LEMMA ListedType ==
    ASSUME WorldInv
    PROVE  /\ Listed \in Seq(Experiments) /\ Named(Listed) = Labelled
           /\ Len(Listed) <= Len(Plan)
<1> DEFINE names == Named(exps) \ unlabelled
<1>1. exps \in Seq(Experiments) /\ Len(exps) <= Len(Plan)
  BY DEF WorldInv
<1>2. /\ Only(exps, names) \in Seq(Experiments)
      /\ Len(Only(exps, names)) <= Len(exps)
      /\ Named(Only(exps, names)) = Named(exps) \cap names
  BY <1>1, OnlyKeeps
<1>3. Listed = Only(exps, names)
  BY DEF Listed
<1>4. Named(exps) \cap names = Labelled
  BY DEF Labelled
<1> HIDE DEF names
<1>5. /\ Listed \in Seq(Experiments) /\ Named(Listed) = Labelled
      /\ Len(Listed) <= Len(exps)
  BY <1>2, <1>3, <1>4
<1>6. Len(exps) \in Nat /\ Len(Plan) \in Nat /\ Len(Listed) \in Nat
  BY <1>1, <1>5, PlanAssumption
<1> QED BY <1>1, <1>5, <1>6

LEMMA ReadInit == Init => ReadInv
  BY DEF Init, ReadInv, NoPass

LEMMA ReadStep ==
    ASSUME Shaped, WorldInv, ReadInv, [Next]_vars
    PROVE  ReadInv'
<1> USE DEF ReadInv
<1>0. ASSUME UNCHANGED <<dataset, pass>>, Grows
      PROVE  ReadInv'
  BY <1>0 DEF Grows, Lists
<1>1. CASE Begin
  <2>1. dataset' = dataset /\ pass'.step = "Campaign" /\ unadopted' = unadopted
    BY <1>1 DEF Begin, NoPass, world, labels
  <2> QED BY <2>1
<1>2. CASE ReadCampaign
  <2>1. /\ dataset' = dataset /\ UNCHANGED <<exps, unlabelled, unadopted>>
        /\ \/ pass'.step = "Refuse"
           \/ campaign # None /\ pass'.step = "Experiments" /\ pass'.campaign = campaign
    BY <1>2 DEF ReadCampaign, Shaped, world, labels
  <2>2. Labelled' = Labelled
    BY <2>1 DEF Labelled, Named
  <2> QED BY <2>1, <2>2 DEF WorldInv
<1>3. CASE ReadExperiments
  <2>1. /\ dataset' = dataset /\ pass.step = "Experiments" /\ unadopted' = unadopted
        /\ pass'.step = "Runs" /\ pass'.exps = Listed /\ pass'.campaign = pass.campaign
    BY <1>3 DEF ReadExperiments, Shaped, At, world, labels
  <2> QED BY <2>1, ListedType
<1>4. CASE ReadRuns
  <2> DEFINE doc == Markdown(pass.campaign, Curate(pass.exps, pass.spec),
                             Len(pass.exps), runs, pass.spec)
  <2>1. pass.step = "Runs" /\ Lists(doc, unadopted)
    BY <1>4, ComposedLists DEF ReadRuns, Compose, At
  <2>2. /\ dataset' = dataset /\ unadopted' = unadopted
        /\ pass'.step = "Judge" /\ pass'.doc = doc
    BY <1>4 DEF ReadRuns, Compose, Shaped, world, labels
  <2> HIDE DEF doc
  <2> QED BY <2>1, <2>2
<1>5. CASE Judge \/ Compare
  <2>1. /\ dataset' = dataset /\ unadopted' = unadopted
        /\ pass.step \in {"Judge", "Compare"}
        /\ pass'.step \in {"Compare", "Refuse", "Publish", "Stamp"} /\ pass'.doc = pass.doc
    BY <1>5 DEF Judge, Compare, Shaped, At, world, labels
  <2> QED BY <2>1
<1>6. CASE Publish
  <2>1. /\ dataset' = {[doc |-> pass.doc, tex |-> pass.tex]} /\ pass.step = "Publish"
        /\ pass'.step = "Stamp" /\ pass'.doc = pass.doc /\ unadopted' = unadopted
    BY <1>6 DEF Publish, Shaped, At, world, labels
  <2> QED BY <2>1
<1>7. CASE Refuse \/ Stamp \/ Abort
  <2>1. dataset' = dataset /\ pass' = NoPass /\ unadopted' = unadopted
    BY <1>7 DEF Refuse, Stamp, Abort, world, labels
  <2>2. pass'.step = "Idle"
    BY <2>1 DEF NoPass
  <2> QED BY <2>1, <2>2
<1>8. CASE World
  <2>1. UNCHANGED <<dataset, pass>>
    BY <1>8 DEF World, Change, Edit, Found, Generate, Rank, Finish, Promote
  <2>2. Grows
    BY <1>8, WorldStep
  <2> QED BY <1>0, <2>1, <2>2
<1>9. CASE Deliver \/ UNCHANGED vars
  <2>1. UNCHANGED <<dataset, pass, exps, unlabelled, unadopted>>
    BY <1>9 DEF Deliver, world, labels, vars
  <2> QED BY <1>0, <2>1 DEF Named, Labelled, Grows
<1>10. CASE AssembleFails
  <2>1. dataset' = dataset /\ unadopted' = unadopted /\ pass'.step = "Refuse"
    BY <1>10 DEF AssembleFails, Shaped, world, labels
  <2> QED BY <2>1
<1> QED BY <1>1, <1>2, <1>3, <1>4, <1>5, <1>6, <1>7, <1>8, <1>9, <1>10
        DEF Next, Reconcile

\* A pass leaves the world as it is.
LEMMA WorldKept ==
    ASSUME WorldInv, [Next]_vars
    PROVE  WorldInv'
<1>1. CASE World
  BY <1>1, WorldStep
<1>2. CASE ~World
  <2>1. UNCHANGED <<campaign, exps, unlabelled, unadopted>>
    BY <1>2 DEF Next, Reconcile, Begin, ReadCampaign, ReadExperiments, ReadRuns, Compose,
                Judge, Refuse, Compare, Publish, Stamp, AssembleFails, Abort, Deliver,
                world, labels, vars
  <2> QED BY <2>1 DEF WorldInv, Named, Labelled
<1> QED BY <1>1, <1>2

\* The campaign is read before its experiments, so a document that leaves none out
\* lists the one it calls the best, whatever happens in between, unless the campaign
\* counted it although it could not label it.
THEOREM BestIsListedHolds == Spec => []BestIsListed
<1>1. Init => IInv /\ WorldInv /\ ReadInv
  BY StartsSound, WorldInit, ReadInit
<1>2. IInv /\ WorldInv /\ ReadInv /\ [Next]_vars => (IInv /\ WorldInv /\ ReadInv)'
  BY StaysSound, WorldKept, ReadStep DEF IInv
<1>3. ReadInv => BestIsListed
  BY DEF ReadInv, BestIsListed, Lists
<1> QED BY <1>1, <1>2, <1>3, PTL DEF Spec

-----------------------------------------------------------------------------
(* The types. *)

\* The count that a pass will write is that of experiments of the plan, as soon as
\* it has a document.
CountInv ==
    /\ pass.step = "Runs" => pass.exps \in Seq(Experiments) /\ Len(pass.exps) <= Len(Plan)
    /\ pass.step \in {"Judge", "Compare", "Publish", "Stamp"} =>
          Included(pass.doc) \in 0..Len(Plan)
    /\ pass.step = "Refuse" /\ pass.reason # "CampaignUnavailable" =>
          Included(pass.doc) \in 0..Len(Plan)

LEMMA ComposedCounts ==
    ASSUME NEW of, NEW list \in Seq(Experiments), NEW seen, NEW by,
           Len(list) <= Len(Plan)
    PROVE  Included(Markdown(of, Curate(list, by), Len(list), seen, by)) \in 0..Len(Plan)
<1> DEFINE kept == Curate(list, by)
           doc == Markdown(of, kept, Len(list), seen, by)
<1>1. Len(kept) \in Nat /\ Len(kept) <= Len(list)
  BY CurateKeeps
<1> HIDE DEF kept
<1>2. doc.curated[1] = Len(kept)
  BY DEF Markdown
<1> HIDE DEF doc
<1>3. Included(doc) \in 0..Len(Plan)
  BY <1>1, <1>2, PlanAssumption DEF Included
<1> QED BY <1>3 DEF doc, kept

LEMMA FreshType == Fresh \in Statuses /\ Fresh.phase = "None"
  BY DEF Fresh, Statuses

LEMMA RefusalType ==
    ASSUME NEW doc, NEW tex
    PROVE  Refusal(doc, tex) \in {None} \cup (Reasons \ {"CampaignUnavailable"})
  BY DEF Refusal, Reasons

\* The status of an error, and that of a dossier.
LEMMA ErrorStatusType ==
    ASSUME TypeOK, CountInv, pass.step = "Refuse"
    PROVE  ErrorStatus(pass.reason) \in Statuses
<1> DEFINE included == IF pass.reason = "CampaignUnavailable" THEN status.included
                       ELSE Included(pass.doc)
<1>1. pass.reason \in Reasons /\ pass.generation \in Nat
  BY DEF TypeOK
<1>2. status.included \in Counts
  BY DEF TypeOK, Statuses, Fresh, Counts
<1>3. included \in Counts
  BY <1>2 DEF CountInv, Counts
<1>4. ErrorStatus(pass.reason) =
        [Fresh EXCEPT !.phase = "Error", !.generation = pass.generation,
                      !.reason = pass.reason, !.included = included]
  BY DEF ErrorStatus
<1> HIDE DEF included
<1>5. ErrorStatus(pass.reason) =
        [phase |-> "Error", generation |-> pass.generation, included |-> included,
         reason |-> pass.reason, citations |-> None, links |-> None]
  BY <1>4 DEF Fresh
<1> QED BY <1>1, <1>3, <1>5 DEF Statuses

LEMMA AssembledStatusType ==
    ASSUME TypeOK, CountInv, pass.step = "Stamp"
    PROVE  AssembledStatus \in Statuses
<1>1. pass.generation \in Nat /\ Included(pass.doc) \in 0..Len(Plan)
  BY DEF TypeOK, CountInv
<1>2. CitationsOk(pass.spec) \in BOOLEAN /\ (LinkWarnings(pass.doc) = {}) \in BOOLEAN
  BY DEF CitationsOk
<1> QED BY <1>1, <1>2 DEF AssembledStatus, Statuses

\* What is named is in the plan.
LEMMA PlanNames ==
    ASSUME NEW list \in Seq(Experiments), Len(list) <= Len(Plan),
           \A i \in 1..Len(list) : list[i].name = Plan[i].name
    PROVE  Named(list) \subseteq Names
<1>1. /\ DOMAIN list = 1..Len(list) /\ Len(list) \in Nat
      /\ DOMAIN Plan = 1..Len(Plan) /\ Len(Plan) \in Nat
  BY PlanAssumption
<1>2. \A i \in DOMAIN list : i \in DOMAIN Plan /\ list[i].name = Plan[i].name
  BY <1>1
<1> QED BY <1>2 DEF Named, Names

LEMMA TypeInit == Init => TypeOK /\ CountInv
<1> SUFFICES ASSUME Init PROVE TypeOK /\ CountInv
  OBVIOUS
<1>1. NoPass.step = "Idle" /\ NoPass.prev = Fresh /\ NoPass.same = TRUE
  BY DEF NoPass
<1>2. /\ cache.spec = spec /\ cache.generation = 1 /\ cache.status = Fresh
      /\ generation = 1 /\ status = Fresh /\ spec \in Specs /\ pass = NoPass
      /\ changes = 0 /\ faults = 0
  BY DEF Init
<1>3. /\ cache.spec \in Specs /\ cache.generation \in Nat /\ cache.status \in Statuses
      /\ pass.step = "Idle" /\ pass.prev \in Statuses /\ pass.same \in BOOLEAN
  <2>1. cache.spec \in Specs /\ cache.generation \in Nat
    BY <1>2
  <2>2. cache.status \in Statuses
    BY <1>2, FreshType
  <2>3. pass.step = "Idle" /\ pass.prev \in Statuses
    BY <1>1, <1>2, FreshType
  <2>4. pass.same \in BOOLEAN
    BY <1>1, <1>2
  <2> QED BY <2>1, <2>2, <2>3, <2>4
<1>4. TypeOK
  <2>1. unlabelled \cup unadopted \subseteq Names
    BY WorldInit, PlanNames DEF WorldInv
  <2> QED BY <1>2, <1>3, <2>1, FreshType DEF TypeOK, Steps
<1>5. CountInv
  BY <1>3 DEF CountInv
<1> QED BY <1>4, <1>5

\* What ends a pass.
LEMMA PassEnds ==
    ASSUME TypeOK, pass' = NoPass, status' \in Statuses,
           UNCHANGED <<report, cache, changes, labels>>, faults' \in Nat
    PROVE  TypeOK' /\ CountInv'
<1>1. NoPass.step = "Idle" /\ NoPass.prev = Fresh /\ NoPass.same = TRUE
  BY DEF NoPass
<1> QED BY <1>1, FreshType DEF TypeOK, CountInv, Steps, report, labels

\* What a pass that goes on leaves alone.
Going ==
    /\ UNCHANGED <<report, status, cache, changes, labels>> /\ faults' \in Nat
    /\ pass.step # "Idle"
    /\ UNCHANGED <<pass.spec, pass.generation, pass.prev>>

LEMMA GoingType ==
    ASSUME TypeOK, Going, pass'.step \in Steps, pass'.same \in BOOLEAN,
           pass'.step = "Refuse" => pass'.reason \in Reasons
    PROVE  TypeOK'
  BY DEF TypeOK, Going, report, labels

LEMMA TypeStep ==
    ASSUME TypeOK, CountInv, Shaped, WorldInv, [Next]_vars
    PROVE  TypeOK' /\ CountInv'
<1>1. CASE Begin
  <2>1. /\ pass'.step = "Campaign" /\ pass'.spec = cache.spec /\ pass'.same = TRUE
        /\ pass'.generation = cache.generation /\ pass'.prev = cache.status
        /\ UNCHANGED <<report, status, cache, changes, faults, labels>>
    BY <1>1 DEF Begin, NoPass, world
  <2> QED BY <2>1 DEF TypeOK, CountInv, Steps, report, labels
<1>2. CASE ReadCampaign
  <2>1. /\ Going /\ pass'.same = pass.same
        /\ \/ pass'.step = "Refuse" /\ pass'.reason = "CampaignUnavailable"
           \/ pass'.step = "Experiments"
    BY <1>2 DEF ReadCampaign, Shaped, Going, At, world, TypeOK
  <2>2. pass.same \in BOOLEAN
    BY DEF TypeOK
  <2>3. TypeOK'
    BY <2>1, <2>2, GoingType DEF Steps, Reasons
  <2> QED BY <2>1, <2>3 DEF CountInv
<1>3. CASE ReadExperiments
  <2>1. /\ Going /\ pass'.same = pass.same /\ pass'.step = "Runs" /\ pass'.exps = Listed
    BY <1>3 DEF ReadExperiments, Shaped, Going, At, world, TypeOK
  <2>2. pass.same \in BOOLEAN
    BY DEF TypeOK
  <2>3. TypeOK'
    BY <2>1, <2>2, GoingType DEF Steps
  <2> QED BY <2>1, <2>3, ListedType DEF CountInv
<1>4. CASE ReadRuns
  <2> DEFINE doc == Markdown(pass.campaign, Curate(pass.exps, pass.spec),
                             Len(pass.exps), runs, pass.spec)
  <2>1. /\ Going /\ pass.step = "Runs" /\ pass'.same = pass.same
        /\ pass'.step = "Judge" /\ pass'.doc = doc
    BY <1>4 DEF ReadRuns, Compose, Shaped, Going, At, world, TypeOK
  <2>2. Included(doc) \in 0..Len(Plan)
    BY <2>1, ComposedCounts DEF CountInv
  <2> HIDE DEF doc
  <2>3. pass.same \in BOOLEAN
    BY DEF TypeOK
  <2>4. TypeOK'
    BY <2>1, <2>3, GoingType DEF Steps
  <2> QED BY <2>1, <2>2, <2>4 DEF CountInv
<1>5. CASE Judge
  <2> DEFINE refusal == Refusal(pass.doc, pass.tex)
  <2>1. /\ Going /\ pass.step = "Judge" /\ pass'.same = pass.same
        /\ pass'.step = (IF refusal = None THEN "Compare" ELSE "Refuse")
        /\ pass'.reason = refusal /\ pass'.doc = pass.doc
    BY <1>5 DEF Judge, Shaped, Going, At, world, TypeOK
  <2>2. refusal \in {None} \cup (Reasons \ {"CampaignUnavailable"})
    BY RefusalType
  <2> HIDE DEF refusal
  <2>3. pass.same \in BOOLEAN
    BY DEF TypeOK
  <2>4. TypeOK'
    BY <2>1, <2>2, <2>3, GoingType DEF Steps
  <2> QED BY <2>1, <2>4 DEF CountInv
<1>6. CASE Refuse
  <2>1. status' \in Statuses
    BY <1>6, ErrorStatusType DEF Refuse, At, TypeOK
  <2>2. faults' \in Nat
    BY <1>6 DEF Refuse, TypeOK
  <2> QED BY <1>6, <2>1, <2>2, PassEnds DEF Refuse, world
<1>7. CASE Compare
  <2> DEFINE same == \E d \in dataset : d.doc = pass.doc
  <2>1. /\ Going /\ pass.step = "Compare" /\ pass'.doc = pass.doc
        /\ pass'.step = (IF same THEN "Stamp" ELSE "Publish") /\ pass'.same = same
    BY <1>7, Zenon DEF Compare, At, Shaped, Going, world, TypeOK
  <2>2. same \in BOOLEAN
    OBVIOUS
  <2> HIDE DEF same
  <2>3. TypeOK'
    BY <2>1, <2>2, GoingType DEF Steps
  <2> QED BY <2>1, <2>3 DEF CountInv
<1>8. CASE Publish
  <2>1. /\ Going /\ pass.step = "Publish" /\ pass'.same = pass.same
        /\ pass'.step = "Stamp" /\ pass'.doc = pass.doc
    BY <1>8 DEF Publish, At, Shaped, Going, world, TypeOK
  <2>2. pass.same \in BOOLEAN
    BY DEF TypeOK
  <2>3. TypeOK'
    BY <2>1, <2>2, GoingType DEF Steps
  <2> QED BY <2>1, <2>3 DEF CountInv
<1>9. CASE Stamp
  <2>1. status' \in Statuses
    BY <1>9, AssembledStatusType DEF Stamp, At, TypeOK
  <2>2. faults' \in Nat
    BY <1>9 DEF Stamp, TypeOK
  <2> QED BY <1>9, <2>1, <2>2, PassEnds DEF Stamp, world
<1>10. CASE Abort
  <2>1. faults' \in Nat /\ status' \in Statuses
    BY <1>10 DEF Abort, TypeOK
  <2> QED BY <1>10, <2>1, PassEnds DEF Abort, world
<1>11. CASE Deliver
  <2>1. /\ cache'.spec = spec /\ cache'.generation = generation /\ cache'.status = status
        /\ UNCHANGED <<report, status, changes, faults, pass, labels>>
    BY <1>11 DEF Deliver, world
  <2> QED BY <2>1 DEF TypeOK, CountInv, report, labels
<1>12. CASE World
  <2>1. /\ UNCHANGED <<status, cache, faults, pass>> /\ changes' = changes + 1
        /\ spec' \in Specs /\ generation' \in {generation, generation + 1}
    BY <1>12 DEF World, Change, Edit, Found, Generate, Rank, Finish, Promote, report,
                 TypeOK
  <2>2. unlabelled' \cup unadopted' \subseteq Names
    <3>1. WorldInv'
      BY <1>12, WorldStep
    <3>2. Named(exps') \subseteq Names
      BY <3>1, PlanNames DEF WorldInv
    <3> QED BY <3>1, <3>2 DEF WorldInv
  <2> QED BY <2>1, <2>2 DEF TypeOK, CountInv
<1>13. CASE UNCHANGED vars
  BY <1>13 DEF vars, TypeOK, CountInv
<1>14. CASE AssembleFails
  <2>1. /\ Going /\ pass'.same = pass.same
        /\ pass'.step = "Refuse" /\ pass'.reason = "CampaignUnavailable"
    BY <1>14 DEF AssembleFails, Shaped, Going, world, TypeOK
  <2>2. pass.same \in BOOLEAN
    BY DEF TypeOK
  <2>3. TypeOK'
    BY <2>1, <2>2, GoingType DEF Steps, Reasons
  <2> QED BY <2>1, <2>3 DEF CountInv
<1> QED BY <1>1, <1>2, <1>3, <1>4, <1>5, <1>6, <1>7, <1>8, <1>9, <1>10, <1>11, <1>12,
           <1>13, <1>14 DEF Next, Reconcile

\* A status has the conditions of its phase and no others, and a count of the
\* campaign's experiments, whatever a pass was cut off at.
THEOREM TypeCorrect == Spec => []TypeOK
<1>1. Init => IInv /\ WorldInv /\ TypeOK /\ CountInv
  BY StartsSound, WorldInit, TypeInit
<1>2. IInv /\ WorldInv /\ TypeOK /\ CountInv /\ [Next]_vars
        => (IInv /\ WorldInv /\ TypeOK /\ CountInv)'
  BY StaysSound, WorldKept, TypeStep DEF IInv
<1> QED BY <1>1, <1>2, PTL DEF Spec

=============================================================================
