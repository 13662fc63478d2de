-------------------------- MODULE SelectionProofs --------------------------
(***************************************************************************)
(* Proofs about Selection for every kind of campaign, budget, number of    *)
(* parameters, of re-rolls and of new images, and all results of a run.    *)
(***************************************************************************)
EXTENDS Selection, FiniteSetTheorems, SequenceTheorems, WellFoundedInduction, TLAPS

USE NumbersAssumption, ResultsAssumption, SpecsAssumption

-----------------------------------------------------------------------------
(* Arithmetic. *)

LEMMA LeastNat ==
    ASSUME NEW S, S \subseteq Nat, S # {}
    PROVE  \E n \in S : \A m \in S : n <= m
  <1>1. PICK n \in S : \A m \in S : <<m, n>> \notin OpToRel(<, Nat)
    BY NatLessThanWellFounded, WFMin
  <1>2. \A m \in S : ~(m < n)
    BY <1>1 DEF OpToRel
  <1> QED BY <1>2

LEMMA Division ==
    ASSUME NEW n \in Nat, NEW p \in Nat \ {0}
    PROVE  /\ n = p * (n \div p) + (n % p)
           /\ n \div p \in Nat
           /\ n % p \in Nat
  OBVIOUS

LEMMA Product ==
    ASSUME NEW p \in Nat \ {0}, NEW a \in Nat, NEW b \in Nat
    PROVE  /\ p * a \in Nat
           /\ a <= b => p * a <= p * b
  OBVIOUS

\* The first index of a generation: no other index of the generation is divided
\* by the population, and all smaller ones are of earlier generations.
LEMMA FirstOfGeneration ==
    ASSUME NEW e \in Nat, NEW p \in Nat \ {0}, e % p = 0
    PROVE  \A f \in Nat : /\ f % p = 0 /\ e \div p = f \div p => e = f
                          /\ f < e => f \div p < e \div p
  <1> SUFFICES ASSUME NEW f \in Nat
               PROVE  /\ f % p = 0 /\ e \div p = f \div p => e = f
                      /\ f < e => f \div p < e \div p
    OBVIOUS
  <1> DEFINE g == e \div p
             h == f \div p
             r == f % p
  <1>1. e = p * g /\ f = p * h + r /\ g \in Nat /\ h \in Nat /\ r \in Nat
    BY Division
  <1> HIDE DEF g, h, r
  <1>2. /\ p * g \in Nat /\ p * h \in Nat
        /\ g <= h => p * g <= p * h
    BY <1>1, Product
  <1>3. f < e => h < g
    BY <1>1, <1>2
  <1>4. r = 0 /\ g = h => e = f
    BY <1>1, <1>2
  <1> QED BY <1>3, <1>4 DEF g, h, r

-----------------------------------------------------------------------------
(* The choices of a pass are made among what they are to be made among. *)

\* Of several Experiments, one comes first by score and, among equals, by rank.
LEMMA OneIsFirst ==
    ASSUME NEW S \in SUBSET Slots, S # {},
           NEW score \in [Slots -> Int], NEW rank \in [Slots -> Int]
    PROVE  \E e \in S : \A x \in S : \/ score[x] < score[e]
                                     \/ score[x] = score[e] /\ rank[e] <= rank[x]
  <1> DEFINE Before(e, x) == \/ score[x] < score[e]
                             \/ score[x] = score[e] /\ rank[e] <= rank[x]
             upTo(n) == {x \in S : x <= n}
             good(n) == upTo(n) # {} => \E e \in upTo(n) : \A x \in upTo(n) : Before(e, x)
             fails == {n \in Nat : ~good(n)}
  <1>1. \A e, x, y \in Slots : /\ Before(e, e)
                               /\ Before(e, x) \/ Before(x, e)
                               /\ Before(e, x) /\ Before(x, y) => Before(e, y)
    OBVIOUS
  <1> HIDE DEF Before
  <1>2. fails = {}
    <2> SUFFICES ASSUME fails # {} PROVE FALSE
      OBVIOUS
    <2>1. fails \subseteq Nat
      OBVIOUS
    <2> HIDE DEF fails
    <2>2. PICK n \in fails : \A m \in fails : n <= m
      BY <2>1, LeastNat
    <2> USE DEF fails
    <2>3. n \in Nat /\ ~good(n)
      BY <2>2
    <2>4. n # 0 => good(n - 1)
      BY <2>2, <2>3
    <2>5. n # 0 => upTo(n) = upTo(n - 1) \cup {x \in S : x = n}
      <3> SUFFICES ASSUME n # 0, NEW x \in S PROVE x <= n <=> x <= n - 1 \/ x = n
        OBVIOUS
      <3>1. x \in Int
        BY DEF Slots
      <3> QED BY <2>3, <3>1
    <2>6. n = 0 => \A x \in upTo(n) : x = 0
      BY DEF Slots
    <2>7. CASE n = 0
      BY <2>3, <2>6, <2>7, <1>1
    <2>8. CASE n # 0 /\ n \notin S
      BY <2>3, <2>4, <2>5, <2>8
    <2>9. CASE n # 0 /\ n \in S /\ upTo(n - 1) = {}
      BY <2>3, <2>5, <2>9, <1>1
    <2>10. CASE n # 0 /\ n \in S /\ upTo(n - 1) # {}
      <3>1. PICK e \in upTo(n - 1) : \A x \in upTo(n - 1) : Before(e, x)
        BY <2>4, <2>10
      <3>2. upTo(n) = upTo(n - 1) \cup {n}
        BY <2>5, <2>10
      <3>3. n \in Slots /\ \A x \in upTo(n - 1) : x \in Slots
        BY <2>10
      <3>4. \A x \in upTo(n) : Before(IF Before(e, n) THEN e ELSE n, x)
        BY <3>1, <3>2, <3>3, <1>1
      <3> QED BY <2>3, <3>1, <3>2, <3>4
    <2> QED BY <2>7, <2>8, <2>9, <2>10
  <1>3. good(MaxExperiments)
    <2>1. MaxExperiments \in Nat /\ MaxExperiments \notin fails
      BY <1>2
    <2> QED BY <2>1
  <1>4. upTo(MaxExperiments) = S
    <2>1. \A x \in S : x <= MaxExperiments
      BY DEF Slots
    <2> QED BY <2>1
  <1> QED BY <1>3, <1>4 DEF Before

LEMMA RankType == ASSUME NEW e \in Slots PROVE Rank(e) \in Int
  BY DEF Rank, Slots

LEMMA FirstIn ==
    ASSUME NEW S \in SUBSET Slots, S # {}
    PROVE  First(S) \in S
  <1> DEFINE score == [e \in Slots |-> 0]
             rank == [e \in Slots |-> Rank(e)]
  <1>1. score \in [Slots -> Int] /\ rank \in [Slots -> Int]
    BY RankType
  <1>2. \A e \in Slots : score[e] = 0 /\ rank[e] = Rank(e)
    OBVIOUS
  <1> HIDE DEF score, rank
  <1>3. PICK e \in S : \A x \in S :
            score[x] < score[e] \/ (score[x] = score[e] /\ rank[e] <= rank[x])
    BY <1>1, OneIsFirst
  <1>4. \A x \in S : Rank(e) <= Rank(x)
    BY <1>2, <1>3
  <1> QED BY <1>4 DEF First

LEMMA ScoreType ==
    ASSUME TypeOK, NEW e \in Slots
    PROVE  Score(e) \in Nat \cup {Missing} /\ Score(e) \in Int
  BY DEF TypeOK, Score, Experiments, Missing

\* The best of the Experiments measured is one of them.
LEMMA PickBestIn ==
    ASSUME TypeOK, NEW done \in SUBSET Slots
    PROVE  /\ Measured(done) # {} => PickBest(done) \in Measured(done)
           /\ Measured(done) = {} => PickBest(done) = Nobody
  <1> DEFINE S == Measured(done)
             score == [e \in Slots |-> Score(e)]
             rank == [e \in Slots |-> Rank(e)]
  <1>1. score \in [Slots -> Int] /\ rank \in [Slots -> Int]
    BY RankType, ScoreType
  <1>2. \A e \in Slots : score[e] = Score(e) /\ rank[e] = Rank(e)
    OBVIOUS
  <1>3. S \in SUBSET Slots
    BY DEF Measured
  <1>4. PickBest(done) = IF S = {} THEN Nobody
                         ELSE CHOOSE e \in S : \A x \in S :
                                \/ Score(x) < Score(e)
                                \/ Score(x) = Score(e) /\ Rank(e) <= Rank(x)
    BY DEF PickBest
  <1> HIDE DEF score, rank, S
  <1>5. ASSUME S # {} PROVE PickBest(done) \in S
    <2>1. PICK e \in S : \A x \in S :
            score[x] < score[e] \/ (score[x] = score[e] /\ rank[e] <= rank[x])
      BY <1>1, <1>3, <1>5, OneIsFirst
    <2>2. \A x \in S : \/ Score(x) < Score(e)
                       \/ Score(x) = Score(e) /\ Rank(e) <= Rank(x)
      BY <1>2, <1>3, <2>1
    <2> QED BY <1>4, <1>5, <2>2
  <1> QED BY <1>4, <1>5 DEF S

LEMMA RemeasuredType ==
    ASSUME TypeOK, NEW done \in SUBSET Slots
    PROVE  Remeasured(done) \in Nat \cup {Missing}
  <1> DEFINE S == Controls(done)
             score == [e \in Slots |-> 0]
             rank == [e \in Slots |-> -Rank(e)]
  <1>1. score \in [Slots -> Int] /\ rank \in [Slots -> Int]
    BY RankType
  <1>2. \A e \in Slots : score[e] = 0 /\ rank[e] = -Rank(e)
    OBVIOUS
  <1>3. S \in SUBSET Slots
    BY DEF Controls, Measured
  <1>4. Remeasured(done) = IF S = {} THEN Missing
                           ELSE Score(CHOOSE e \in S : \A x \in S : Rank(x) <= Rank(e))
    BY DEF Remeasured
  <1> HIDE DEF score, rank, S
  <1>5. ASSUME S # {} PROVE Remeasured(done) \in Nat \cup {Missing}
    <2>1. PICK e \in S : \A x \in S :
            score[x] < score[e] \/ (score[x] = score[e] /\ rank[e] <= rank[x])
      BY <1>1, <1>3, <1>5, OneIsFirst
    <2>2. \A x \in S : Rank(x) <= Rank(e)
      BY <1>2, <1>3, <2>1, RankType
    <2>3. (CHOOSE f \in S : \A x \in S : Rank(x) <= Rank(f)) \in S
      BY <2>2
    <2> QED BY <1>3, <1>4, <1>5, <2>3, ScoreType
  <1> QED BY <1>4, <1>5

LEMMA SelectIn ==
    ASSUME TypeOK, NEW done \in SUBSET Slots, NEW prior \in Slots \cup {Nobody}
    PROVE  Select(done, prior) \in Measured(done) \cup {Nobody}
  BY PickBestIn DEF Select

-----------------------------------------------------------------------------
(* Types. *)

LEMMA CountedSlots ==
    ASSUME NEW S \in SUBSET Slots
    PROVE  IsFiniteSet(S) /\ Cardinality(S) \in Nat
  <1>1. IsFiniteSet(Slots)
    BY FS_Interval DEF Slots
  <1>2. IsFiniteSet(S)
    BY <1>1, FS_Subset
  <1> QED BY <1>2, FS_CardinalityType

LEMMA StepType == ASSUME NEW up PROVE Step(up) \in {-1, 1}
  BY DEF Step

LEMMA DefaultsType == Defaults \in Points
  BY DEF Defaults, Points

LEMMA PointType ==
    ASSUME TypeOK, NEW seed \in Parents, seed # Nobody
    PROVE  PointOf(seed) \in Points
  <1>1. ForeignPoint \in Points
    <2>1. <<1>> \in Seq({-1, 1})
      OBVIOUS
    <2> QED BY <2>1 DEF ForeignPoint, Points
  <1>2. seed \in Slots => exps[seed].point \in Points
    BY DEF TypeOK, Experiments
  <1> QED BY <1>1, <1>2 DEF PointOf, Parents

LEMMA SpreadType == ASSUME NEW idx \in Nat PROVE Spread(idx) \in Points
  <1>1. \A b : <<Step(b)>> \in Seq({-1, 1})
    BY StepType
  <1>2. <<>> \in Seq({-1, 1})
    OBVIOUS
  <1> QED BY <1>1, <1>2 DEF Spread, Points

LEMMA ExploreType ==
    ASSUME NEW point \in Points, NEW idx \in Nat, NEW salt
    PROVE  Explore(point, idx, salt) \in Points
  <1>1. \A k \in 1 .. Keys : \A b : Append(point[k], Step(b)) \in Seq({-1, 1})
    BY StepType, AppendProperties DEF Points
  <1> QED BY <1>1 DEF Explore, Points

LEMMA ClimbType ==
    ASSUME NEW point \in Points, NEW idx \in Nat, NEW salt
    PROVE  Climb(point, idx, salt) \in Points
  <1>1. \A k \in 1 .. Keys : \A b : Append(point[k], Step(b)) \in Seq({-1, 1})
    BY StepType, AppendProperties DEF Points
  <1>2. ASSUME NEW k, NEW b
        PROVE  [point EXCEPT ![k] = Append(@, Step(b))] \in Points
    BY <1>1 DEF Points
  <1> QED BY <1>2, DefaultsType DEF Climb

LEMMA CandidateType ==
    ASSUME TypeOK, NEW idx \in Nat, NEW salt
    PROVE  Candidate(idx, salt) \in Points
  <1>1. pass.seed \in Parents
    BY DEF TypeOK, Passes
  <1> QED BY <1>1, PointType, SpreadType, ExploreType, ClimbType, DefaultsType
          DEF Candidate

\* What is inherited from a seed: its own length in a campaign without canary, and
\* none but that.
LEMMA InheritedType ==
    ASSUME TypeOK, pass.seed # Nobody
    PROVE  /\ Inherited(pass.seed) \in Lengths
           /\ ~spec.canary /\ pass.seed \in Slots =>
                 Inherited(pass.seed) = exps[pass.seed].length
           /\ Inherited(pass.seed) = "Cheap" =>
                 /\ ~spec.canary
                 /\ \/ pass.seed \in Slots /\ exps[pass.seed].length = "Cheap"
                    \/ pass.seed = Foreign /\ spec.tunable /\ spec.foreign = "Cheap"
  <1>1. pass.seed \in Slots \cup {Foreign} /\ Foreign \notin Slots
    BY DEF TypeOK, Passes, Parents, Foreign, Slots
  <1>2. /\ spec.foreign \in Lengths
        /\ pass.seed \in Slots => exps[pass.seed].length \in Lengths
    BY DEF TypeOK, Experiments
  <1>3. LengthOf(pass.seed) \in Lengths
    BY <1>1, <1>2 DEF LengthOf
  <1> QED BY <1>1, <1>2, <1>3 DEF Inherited, Strip, LengthOf, Lengths

LEMMA LengthType ==
    ASSUME TypeOK, NEW idx \in Nat
    PROVE  /\ Length(idx) \in Lengths
           /\ Length(idx) = "Cheap" =>
                 pass.seed # Nobody /\ Inherited(pass.seed) = "Cheap"
  <1>1. "Full" \in Lengths /\ "Full" # "Cheap"
    BY DEF Lengths
  <1>2. CASE Length(idx) = "Full"
    BY <1>1, <1>2
  <1>3. CASE pass.seed # Nobody /\ Length(idx) = Inherited(pass.seed)
    BY <1>3, InheritedType
  <1> QED BY <1>2, <1>3 DEF Length

\* An Experiment that is created: what it takes from the seed, and nothing else.
Created(relation, parent, warm, point, length) ==
    [NoExperiment EXCEPT
        !.phase = "Live", !.relation = relation, !.parent = parent,
        !.warm = warm, !.point = point, !.length = length]

LEMMA CreatedType ==
    ASSUME NEW relation \in Relations, NEW parent \in Parents, NEW warm \in BOOLEAN,
           NEW point \in Points, NEW length \in Lengths,
           NEW new, new = Created(relation, parent, warm, point, length)
    PROVE  /\ new \in Experiments
           /\ new.phase = "Live" /\ new.relation = relation /\ new.parent = parent
           /\ new.point = point /\ new.length = length /\ new.decision = "None"
  <1>1. NoExperiment \in Experiments /\ NoExperiment.decision = "None"
    BY DefaultsType DEF NoExperiment, Experiments, Phases, Relations, Parents,
                        Lengths, Decisions, Nobody, Missing
  <1> QED BY <1>1 DEF Created, Experiments, Phases

LEMMA NewType ==
    ASSUME TypeOK, NEW idx \in Nat
    PROVE  /\ New(idx) \in Experiments
           /\ New(idx).phase = "Live"
           /\ New(idx).parent = pass.seed
           /\ New(idx).decision = "None"
           /\ New(idx).relation = "Remeasure" <=> IsControlSlot(idx)
           /\ IsControlSlot(idx) => /\ New(idx).point = PointOf(pass.seed)
                                    /\ ~spec.canary /\ pass.seed \in Slots =>
                                         New(idx).length = exps[pass.seed].length
           /\ New(idx).length = "Cheap" =>
                 pass.seed # Nobody /\ Inherited(pass.seed) = "Cheap"
  <1>1. pass.seed \in Parents
    BY DEF TypeOK, Passes
  <1>3. WarmStart(pass.seed) \in BOOLEAN
    <2>1. pass.seed \in Slots => exps[pass.seed].ckpt \in BOOLEAN
      BY DEF TypeOK, Experiments
    <2> QED BY <1>1, <2>1 DEF WarmStart, Parents
  <1>4. CASE IsControlSlot(idx)
    <2>1. pass.seed # Nobody /\ New(idx) = Control
      BY <1>4 DEF IsControlSlot, New
    <2>2. PointOf(pass.seed) \in Points
      BY <1>1, <2>1, PointType
    <2>3. /\ Inherited(pass.seed) \in Lengths
          /\ ~spec.canary /\ pass.seed \in Slots =>
                Inherited(pass.seed) = exps[pass.seed].length
      BY <2>1, InheritedType
    <2>4. "Remeasure" \in Relations
      BY DEF Relations
    <2>5. New(idx) = Created("Remeasure", pass.seed, WarmStart(pass.seed),
                             PointOf(pass.seed), Inherited(pass.seed))
      BY <2>1 DEF Control, Created
    <2>6. /\ New(idx) \in Experiments
          /\ New(idx).phase = "Live" /\ New(idx).relation = "Remeasure"
          /\ New(idx).parent = pass.seed /\ New(idx).point = PointOf(pass.seed)
          /\ New(idx).length = Inherited(pass.seed) /\ New(idx).decision = "None"
      BY <1>1, <1>3, <2>2, <2>3, <2>4, <2>5, CreatedType
    <2> QED BY <1>4, <2>1, <2>3, <2>6
  <1>5. CASE ~IsControlSlot(idx)
    <2>1. New(idx) = Child(idx)
      BY <1>5 DEF New
    <2>2. Candidate(idx, Salt(idx)) \in Points
      BY CandidateType
    <2>3. Relation(idx) \in Relations \ {"Remeasure"}
      BY DEF Relation, Relations
    <2>4. /\ Length(idx) \in Lengths
          /\ Length(idx) = "Cheap" =>
                pass.seed # Nobody /\ Inherited(pass.seed) = "Cheap"
      BY LengthType
    <2>5. New(idx) = Created(Relation(idx), pass.seed, WarmStart(pass.seed),
                             Candidate(idx, Salt(idx)), Length(idx))
      BY <2>1 DEF Child, Created
    <2>6. /\ New(idx) \in Experiments
          /\ New(idx).phase = "Live" /\ New(idx).relation = Relation(idx)
          /\ New(idx).parent = pass.seed /\ New(idx).length = Length(idx)
          /\ New(idx).decision = "None"
      BY <1>1, <1>3, <2>2, <2>3, <2>4, <2>5, CreatedType
    <2> QED BY <1>5, <2>3, <2>4, <2>6
  <1> QED BY <1>4, <1>5

LEMMA BatchType == ASSUME TypeOK PROVE Batch \in Nat
  <1>1. spec.population \in Nat /\ spec.budget \in Nat
    BY DEF TypeOK
  <1>2. Cardinality(Live) \in Nat /\ Cardinality(Listed) \in Nat
    BY CountedSlots DEF Live, Listed
  <1>3. Free(Cardinality(Live)) \in Nat
    BY <1>1, <1>2 DEF Free
  <1>4. Budgeted \in Int
    BY <1>2 DEF Budgeted
  <1> HIDE DEF Budgeted
  <1> QED BY <1>1, <1>3, <1>4 DEF Batch

\* A batch goes on only while something of it is left.
TypeInv == TypeOK /\ (pass.step = "Generate" => pass.left # 0)

LEMMA TypeInit == Init => TypeInv
  <1> SUFFICES ASSUME Init PROVE TypeInv
    OBVIOUS
  <1>1. NoExperiment \in Experiments
    BY DefaultsType DEF NoExperiment, Experiments, Phases, Relations, Parents,
                        Lengths, Decisions, Nobody, Missing
  <1>2. NoPass \in Passes
    BY DEF NoPass, Passes, Steps, Parents
  <1> QED BY <1>1, <1>2 DEF Init, TypeInv, TypeOK, Statuses, NoPass

LEMMA TypeStep == TypeInv /\ [Next]_vars => TypeInv'
  <1> SUFFICES ASSUME TypeInv, [Next]_vars PROVE TypeInv'
    OBVIOUS
  <1> TypeOK
    BY DEF TypeInv
  <1>1. /\ spec \in Kinds /\ exps \in [Slots -> Experiments] /\ image \in Nat
        /\ status \in Statuses /\ known \in Slots \cup {Nobody} /\ pass \in Passes
    BY DEF TypeOK
  <1>2. NoPass \in Passes
    BY DEF NoPass, Passes, Steps, Parents
  <1>3. NoExperiment \in Experiments
    BY DefaultsType DEF NoExperiment, Experiments, Phases, Relations, Parents,
                        Lengths, Decisions, Nobody, Missing
  <1>4. CASE List
    <2> DEFINE done == {e \in Slots : exps[e].phase = "Succeeded"}
    <2>1. Select(done, known) \in Slots \cup {Nobody}
      BY <1>1, SelectIn DEF Measured
    <2>2. (IF GateOpen(done) THEN Batch ELSE 0) \in Nat
      BY BatchType
    <2>3. Cardinality(Listed) \in Nat
      BY CountedSlots DEF Listed
    <2> HIDE DEF done
    <2>4. [NoPass EXCEPT
             !.step = "Stamp", !.image = image, !.done = done,
             !.prior = known, !.best = Select(done, known),
             !.left = IF GateOpen(done) THEN Batch ELSE 0,
             !.next = Cardinality(Listed)] \in Passes
      <3>1. done \in SUBSET Slots
        BY DEF done
      <3> QED BY <1>1, <1>2, <2>1, <2>2, <2>3, <3>1 DEF Passes, Steps
    <2> USE DEF done
    <2> QED BY <1>1, <1>4, <2>4 DEF List, TypeOK, TypeInv
  <1>5. CASE Stamp
    <2>1. \A x : \A d \in Decisions :
             [exps EXCEPT ![x].decision = d] \in [Slots -> Experiments]
      BY <1>1 DEF Experiments
    <2>2. \A x : Want(x, pass.best) \in Decisions
      BY DEF Want, Decisions
    <2>3. "Discard" \in Decisions
      BY DEF Decisions
    <2>4. \E x, d : d \in Decisions /\ exps' = [exps EXCEPT ![x].decision = d]
      BY <1>5, <2>2, <2>3 DEF Stamp
    <2>5. exps' \in [Slots -> Experiments]
      BY <2>1, <2>4
    <2> QED BY <1>1, <1>5, <2>5 DEF Stamp, TypeOK, TypeInv
  <1>6. CASE CreateCanary
    <2>1. [NoExperiment EXCEPT !.phase = "Live", !.relation = "Canary",
                               !.length = "Cheap"] \in Experiments
      BY <1>3 DEF Experiments, Phases, Relations, Lengths
    <2>2. [pass EXCEPT !.step = "Status"] \in Passes
      BY <1>1 DEF Passes, Steps
    <2>3. pass'.step = "Status"
      BY <1>1, <1>6 DEF CreateCanary, Passes
    <2> QED BY <1>1, <1>6, <2>1, <2>2, <2>3 DEF CreateCanary, TypeOK, TypeInv
  <1>7. CASE PickSeed
    <2>1. pass.best \in Parents /\ Foreign \in Parents /\ Nobody \in Parents
      BY <1>1 DEF Passes, Parents
    <2>2. pass' \in Passes
      BY <1>1, <1>7, <2>1 DEF PickSeed, Passes, Steps
    <2> QED BY <1>1, <1>7, <2>2 DEF PickSeed, TypeOK, TypeInv
  <1>8. ASSUME NEW tried \in SUBSET (Points \X Lengths), pass.step = "Generate"
        PROVE  /\ Proceed(tried) \in Passes
               /\ Proceed(tried).step = "Generate" => Proceed(tried).left # 0
    <2>1. pass.left - 1 \in Nat /\ pass.next + 1 \in Nat
      BY <1>1, <1>8 DEF TypeInv, Passes
    <2>2. (IF pass.left > 1 THEN "Generate" ELSE "Status") \in Steps
      BY DEF Steps
    <2>3. pass.left > 1 => pass.left - 1 # 0
      BY <1>1 DEF Passes
    <2> DEFINE left == pass.left - 1
               next == pass.next + 1
               step == IF pass.left > 1 THEN "Generate" ELSE "Status"
    <2>4. step = "Generate" => left # 0
      BY <2>3
    <2>5. Proceed(tried) = [pass EXCEPT !.left = left, !.next = next,
                                        !.tried = tried, !.step = step]
      BY DEF Proceed
    <2>6. left \in Nat /\ next \in Nat /\ step \in Steps
      BY <2>1, <2>2
    <2> HIDE DEF left, next, step
    <2> QED BY <1>1, <2>4, <2>5, <2>6 DEF Passes
  <1>9. pass.next \in Nat /\ pass.tried \in SUBSET (Points \X Lengths)
    BY <1>1 DEF Passes
  <1>10. CASE Create
    <2>1. New(pass.next) \in Experiments
      BY <1>9, NewType
    <2>2. exps' \in [Slots -> Experiments]
      BY <1>1, <1>10, <2>1 DEF Create
    <2>3. pass' = Proceed(pass.tried) /\ pass.step = "Generate"
      BY <1>10 DEF Create
    <2>4. pass' \in Passes /\ (pass'.step = "Generate" => pass'.left # 0)
      BY <1>8, <1>9, <2>3
    <2> QED BY <1>1, <1>10, <2>2, <2>4 DEF Create, TypeOK, TypeInv
  <1>11. CASE CreateFails
    <2>1. <<Candidate(pass.next, Salt(pass.next)), Length(pass.next)>>
             \in Points \X Lengths
      BY <1>9, CandidateType, LengthType
    <2> DEFINE tried == IF IsControlSlot(pass.next) THEN pass.tried
                        ELSE pass.tried \cup
                             {<<Candidate(pass.next, Salt(pass.next)),
                                Length(pass.next)>>}
    <2>2. tried \in SUBSET (Points \X Lengths)
      BY <1>9, <2>1
    <2>3. pass' = Proceed(tried) /\ pass.step = "Generate"
      BY <1>11 DEF CreateFails
    <2> HIDE DEF tried
    <2>4. pass' \in Passes /\ (pass'.step = "Generate" => pass'.left # 0)
      BY <1>8, <2>2, <2>3
    <2> QED BY <1>1, <1>11, <2>4 DEF CreateFails, TypeOK, TypeInv
  <1>12. CASE Publish
    <2>1. pass.best \in Slots \cup {Nobody} /\ pass.done \in SUBSET Slots
      BY <1>1 DEF Passes
    <2>2. Cardinality(Controls(pass.done)) \in Nat
      BY <2>1, CountedSlots DEF Controls, Measured
    <2>3. Remeasured(pass.done) \in Nat \cup {Missing}
      BY <2>1, RemeasuredType
    <2>4. PickBest(pass.done) \in Slots \cup {Nobody}
      BY <2>1, PickBestIn DEF Measured
    <2>5. (IF PickBest(pass.done) = Nobody THEN Missing ELSE Score(PickBest(pass.done)))
            \in Nat \cup {Missing}
      BY <2>4, ScoreType
    <2>6. status' \in Statuses
      BY <1>12, <2>1, <2>2, <2>3, <2>5 DEF Publish, Statuses
    <2> QED BY <1>1, <1>2, <1>12, <2>6 DEF Publish, NoPass, TypeOK, TypeInv
  <1>13. CASE Abort
    BY <1>1, <1>2, <1>13 DEF Abort, NoPass, TypeOK, TypeInv
  <1>14. CASE Sync
    BY <1>1, <1>14 DEF Sync, TypeOK, TypeInv, Statuses
  <1>15. CASE Release
    BY <1>1, <1>15 DEF Release, TypeOK, TypeInv
  <1>16. ASSUME NEW e \in Slots, Start(e) PROVE TypeInv'
    <2>1. exps' \in [Slots -> Experiments]
      BY <1>1, <1>16 DEF Start, Experiments
    <2> QED BY <1>1, <1>16, <2>1 DEF Start, TypeOK, TypeInv
  <1>17. ASSUME NEW e \in Slots, Finish(e) PROVE TypeInv'
    <2>1. \A r \in Results : r.score \in Nat \cup {Missing} /\ r.ckpt \in BOOLEAN
      OBVIOUS
    <2>2. [exps EXCEPT ![e].phase = "Failed"] \in [Slots -> Experiments]
      BY <1>1 DEF Experiments, Phases
    <2>3. \A r \in Results : [exps EXCEPT ![e].phase = "Succeeded", ![e].score = r.score,
                              ![e].ckpt = r.ckpt] \in [Slots -> Experiments]
      <3> SUFFICES ASSUME NEW r \in Results
                   PROVE  [exps[e] EXCEPT !.phase = "Succeeded", !.score = r.score,
                                          !.ckpt = r.ckpt] \in Experiments
        BY <1>1
      <3> DEFINE score == r.score
                 ckpt == r.ckpt
      <3>1. score \in Nat \cup {Missing} /\ ckpt \in BOOLEAN
        BY <2>1
      <3>2. exps[e] \in Experiments
        BY <1>1
      <3> HIDE DEF score, ckpt
      <3>3. [exps[e] EXCEPT !.phase = "Succeeded", !.score = score, !.ckpt = ckpt]
               \in Experiments
        BY <3>1, <3>2 DEF Experiments, Phases
      <3> QED BY <3>3 DEF score, ckpt
    <2>4. exps' \in [Slots -> Experiments]
      BY <1>17, <2>2, <2>3 DEF Finish
    <2> QED BY <1>1, <1>17, <2>4 DEF Finish, TypeOK, TypeInv
  <1>18. CASE UNCHANGED vars
    BY <1>1, <1>18 DEF vars, TypeOK, TypeInv
  <1> QED BY <1>4, <1>5, <1>6, <1>7, <1>10, <1>11, <1>12, <1>13, <1>14, <1>15,
             <1>16, <1>17, <1>18 DEF Next

\* Every value stays of its type: the incumbent is an Experiment of the campaign or
\* none, whatever passes are cut off and creations refused.
THEOREM TypeCorrect == Spec => []TypeOK
  <1>1. Init => TypeInv
    BY TypeInit
  <1>2. TypeInv /\ [Next]_vars => TypeInv'
    BY TypeStep
  <1>3. TypeInv => TypeOK
    BY DEF TypeInv
  <1> QED BY <1>1, <1>2, <1>3, PTL DEF Spec

-----------------------------------------------------------------------------
(* What a step does to an Experiment. *)

Done == {e \in Slots : exps[e].phase = "Succeeded"}

\* Whatever is a parent has succeeded, and so have the incumbent of the pass, which
\* has an objective of its own, and all that the pass counts.
PassInv ==
    /\ \A e \in Slots : exps[e].parent \in Slots => exps[e].parent \in Done
    /\ pass.done \subseteq Done
    /\ pass.best \in Measured(pass.done) \cup {Nobody}
    /\ pass.seed \in Slots => pass.seed \in Done
    /\ pass.seed = Foreign => spec.seeded
    /\ pass.step = "Generate" /\ spec.canary => exps[0].phase # "Absent"

SameOrigin(e) ==
    /\ exps'[e].parent = exps[e].parent
    /\ exps'[e].warm = exps[e].warm
    /\ exps'[e].relation = exps[e].relation
    /\ exps'[e].point = exps[e].point
    /\ exps'[e].length = exps[e].length

TheCanary ==
    [NoExperiment EXCEPT !.phase = "Live", !.relation = "Canary", !.length = "Cheap"]

LEMMA StampedOnes ==
    ASSUME TypeInv, PassInv
    PROVE  /\ ToStamp(pass.done, pass.best) \subseteq Done
           /\ Unstamped(pass.done) \subseteq Done
           /\ Done \subseteq Slots
  BY DEF PassInv, ToStamp, Succeeded, Unstamped, Done

\* The stamps of a pass are put on Experiments that have succeeded.
LEMMA StampEffect ==
    ASSUME TypeInv, PassInv, Stamp
    PROVE  \E e \in Done, d \in Decisions :
              /\ exps' = [exps EXCEPT ![e].decision = d]
              /\ d = "Keep" => e \in ToStamp(pass.done, pass.best) /\ e = pass.best
  <1> DEFINE S == ToStamp(pass.done, pass.best)
             U == Unstamped(pass.done)
  <1>1. S \in SUBSET Slots /\ U \in SUBSET Slots /\ S \subseteq Done /\ U \subseteq Done
    BY StampedOnes
  <1>2. CASE S # {} /\ exps' = [exps EXCEPT ![First(S)].decision =
                                               Want(First(S), pass.best)]
    <2>1. First(S) \in S
      BY <1>1, <1>2, FirstIn
    <2>2. /\ Want(First(S), pass.best) \in Decisions
          /\ Want(First(S), pass.best) = "Keep" => First(S) = pass.best
      BY DEF Want, Decisions
    <2> HIDE DEF S
    <2>3. First(S) \in Done
      BY <1>1, <2>1
    <2> QED BY <1>2, <2>1, <2>2, <2>3 DEF S
  <1>3. CASE U # {} /\ exps' = [exps EXCEPT ![First(U)].decision = "Discard"]
    <2>1. First(U) \in Done
      BY <1>1, <1>3, FirstIn
    <2>2. "Discard" \in Decisions /\ "Discard" # "Keep"
      BY DEF Decisions
    <2> QED BY <1>3, <2>1, <2>2
  <1> QED BY <1>2, <1>3 DEF Stamp

\* An Experiment that there is keeps where it came from, one that has succeeded its
\* score, and one that appears is the canary or what the pass creates.
LEMMA Settled ==
    ASSUME TypeInv, PassInv, [Next]_vars, NEW e \in Slots
    PROVE  /\ spec' = spec
           /\ exps[e].phase # "Absent" =>
                 exps'[e].phase # "Absent" /\ SameOrigin(e)
           /\ exps[e].phase = "Succeeded" =>
                 exps'[e].phase = "Succeeded" /\ exps'[e].score = exps[e].score
           /\ exps[e].phase = "Absent" =>
                 \/ exps'[e] = exps[e]
                 \/ CreateCanary /\ e = 0 /\ exps'[e] = TheCanary
                 \/ Create /\ e = pass.next /\ exps'[e] = New(e)
           /\ exps[e].decision # exps'[e].decision =>
                 \/ exps[e].phase = "Absent"
                 \/ /\ Stamp
                    /\ exps'[e].decision = "Keep" =>
                          e \in ToStamp(pass.done, pass.best) /\ e = pass.best
  <1>1. exps \in [Slots -> Experiments] /\ exps[e] \in Experiments
    BY DEF TypeInv, TypeOK
  <1>2. CASE exps' = exps /\ spec' = spec
    BY <1>2 DEF SameOrigin
  <1>3. CASE Stamp
    <2>1. PICK f \in Done, d \in Decisions :
              /\ exps' = [exps EXCEPT ![f].decision = d]
              /\ d = "Keep" => f \in ToStamp(pass.done, pass.best) /\ f = pass.best
      BY <1>3, StampEffect
    <2>2. f \in Slots /\ exps[f].phase = "Succeeded" /\ exps[f] \in Experiments
      BY <1>1 DEF Done
    <2>3. CASE e = f
      <3>1. exps'[e] = [exps[e] EXCEPT !.decision = d]
        BY <1>1, <2>1, <2>2, <2>3
      <3>2. /\ exps'[e].phase = exps[e].phase /\ exps'[e].score = exps[e].score
            /\ exps'[e].decision = d
            /\ SameOrigin(e)
        BY <1>1, <3>1 DEF SameOrigin, Experiments
      <3> QED BY <1>3, <2>1, <2>2, <2>3, <3>2 DEF Stamp
    <2>4. CASE e # f
      <3>1. exps'[e] = exps[e]
        BY <1>1, <2>1, <2>2, <2>4
      <3> QED BY <1>3, <3>1 DEF Stamp, SameOrigin
    <2> QED BY <2>3, <2>4
  <1>4. CASE CreateCanary
    <2>1. exps' = [exps EXCEPT ![0] = TheCanary] /\ exps[0].phase = "Absent"
      BY <1>4 DEF CreateCanary, TheCanary
    <2>2. exps'[e] = IF e = 0 THEN TheCanary ELSE exps[e]
      BY <1>1, <2>1
    <2> QED BY <1>4, <2>1, <2>2 DEF CreateCanary, SameOrigin
  <1>5. CASE Create
    <2>1. exps' = [exps EXCEPT ![pass.next] = New(pass.next)]
          /\ exps[pass.next].phase = "Absent"
      BY <1>5 DEF Create
    <2>2. exps'[e] = IF e = pass.next THEN New(e) ELSE exps[e]
      BY <1>1, <2>1
    <2> QED BY <1>5, <2>1, <2>2 DEF Create, SameOrigin
  <1>6. ASSUME NEW f \in Slots, Start(f)
        PROVE  \/ exps'[e] = exps[e]
               \/ /\ exps[e].phase = "Live"
                  /\ exps'[e] = [exps[e] EXCEPT !.image = image]
    BY <1>1, <1>6 DEF Start
  <1>7. ASSUME NEW f \in Slots, Finish(f)
        PROVE  \/ exps'[e] = exps[e]
               \/ /\ exps[e].phase = "Live"
                  /\ \/ exps'[e] = [exps[e] EXCEPT !.phase = "Failed"]
                     \/ \E r \in Results :
                           exps'[e] = [exps[e] EXCEPT !.phase = "Succeeded",
                                          !.score = r.score, !.ckpt = r.ckpt]
    BY <1>1, <1>7 DEF Finish
  <1>8. CASE \E f \in Slots : Start(f) \/ Finish(f)
    <2>1. spec' = spec
      BY <1>8 DEF Start, Finish
    <2>2. CASE exps'[e] = exps[e]
      BY <2>1, <2>2 DEF SameOrigin
    <2>3. CASE exps'[e] # exps[e]
      <3>1. /\ exps[e].phase = "Live"
            /\ \/ exps'[e] = [exps[e] EXCEPT !.image = image]
               \/ exps'[e] = [exps[e] EXCEPT !.phase = "Failed"]
               \/ \E r \in Results :
                     exps'[e] = [exps[e] EXCEPT !.phase = "Succeeded",
                                    !.score = r.score, !.ckpt = r.ckpt]
        BY <1>6, <1>7, <1>8, <2>3
      <3>2. /\ exps'[e].phase # "Absent" /\ SameOrigin(e)
            /\ exps'[e].decision = exps[e].decision
        BY <1>1, <3>1 DEF SameOrigin, Experiments
      <3> QED BY <2>1, <3>1, <3>2
    <2> QED BY <2>2, <2>3
  <1>9. CASE List \/ PickSeed \/ CreateFails \/ Publish \/ Abort \/ Sync \/ Release
    <2>1. exps' = exps /\ spec' = spec
      BY <1>9 DEF List, PickSeed, CreateFails, Publish, Abort, Sync, Release
    <2> QED BY <1>2, <2>1
  <1>10. CASE UNCHANGED vars
    BY <1>2, <1>10 DEF vars
  <1> QED BY <1>3, <1>4, <1>5, <1>8, <1>9, <1>10 DEF Next

\* What has been measured stays so, with the score it has.
LEMMA MeasuredStays ==
    ASSUME TypeInv, PassInv, [Next]_vars, NEW done \in SUBSET Done
    PROVE  /\ done \subseteq Done'
           /\ \A e \in done : IsEcho(e)' = IsEcho(e)
           /\ Measured(done)' = Measured(done)
  <1>1. ASSUME NEW e \in done
        PROVE  /\ exps'[e].phase = "Succeeded" /\ Score(e)' = Score(e)
               /\ IsEcho(e)' = IsEcho(e)
    <2>1. e \in Slots /\ exps[e].phase = "Succeeded" /\ exps[e].phase # "Absent"
      BY DEF Done
    <2>2. exps'[e].phase = "Succeeded" /\ SameOrigin(e) /\ exps'[e].score = exps[e].score
      BY <2>1, Settled
    <2>3. CASE exps[e].parent \in Slots
      <3> DEFINE f == exps[e].parent
      <3>1. f \in Slots /\ exps[f].phase = "Succeeded" /\ exps[f].phase # "Absent"
        BY <2>1, <2>3 DEF PassInv, Done
      <3>2. exps'[f].phase = "Succeeded" /\ exps'[f].score = exps[f].score
        BY <3>1, Settled
      <3>3. f \in Listed /\ f \in Listed' /\ exps'[e].parent = f
            /\ exps'[e].warm = exps[e].warm
        BY <2>2, <3>1, <3>2 DEF Listed, SameOrigin
      <3>4. Score(e)' = Score(e)
        BY <2>2, <3>2 DEF Score
      <3>5. IsEcho(e)' = /\ exps'[e].warm
                         /\ exps'[e].parent \in Listed'
                         /\ Score(e)' # Missing
                         /\ Score(e)' = exps'[exps'[e].parent].score
        BY DEF IsEcho, Score
      <3>6. IsEcho(e) = /\ exps[e].warm
                        /\ exps[e].parent \in Listed
                        /\ Score(e) # Missing
                        /\ Score(e) = exps[exps[e].parent].score
        BY DEF IsEcho, Score
      <3> QED BY <2>2, <3>2, <3>3, <3>4, <3>5, <3>6
    <2>4. CASE exps[e].parent \notin Slots
      <3>1. exps[e].parent \notin Listed /\ exps'[e].parent \notin Listed'
        BY <2>2, <2>4 DEF Listed, SameOrigin
      <3> QED BY <2>2, <3>1 DEF IsEcho, Score
    <2> QED BY <2>3, <2>4
  <1>2. done \subseteq Done'
    BY <1>1 DEF Done
  <1>3. Measured(done)' = Measured(done)
    <2>1. Measured(done)' = {e \in done : ~IsEcho(e)' /\ Score(e)' # Missing}
      BY DEF Measured
    <2>2. Measured(done) = {e \in done : ~IsEcho(e) /\ Score(e) # Missing}
      BY DEF Measured
    <2> QED BY <1>1, <2>1, <2>2
  <1> QED BY <1>1, <1>2, <1>3

LEMMA PassInit == Init => PassInv
  <1> SUFFICES ASSUME Init PROVE PassInv
    OBVIOUS
  <1>1. \A e \in Slots : exps[e].parent \notin Slots
    BY DEF Init, NoExperiment, Nobody, Slots
  <1>2. pass.done = {} /\ pass.best = Nobody /\ pass.seed = Nobody /\ pass.step = "Idle"
    BY DEF Init, NoPass
  <1>3. Nobody \notin Slots /\ Nobody # Foreign
    BY DEF Nobody, Foreign, Slots
  <1> QED BY <1>1, <1>2, <1>3 DEF PassInv

LEMMA PassStep == TypeInv /\ PassInv /\ [Next]_vars => PassInv'
  <1> SUFFICES ASSUME TypeInv, PassInv, [Next]_vars PROVE PassInv'
    OBVIOUS
  <1>0. /\ exps \in [Slots -> Experiments] /\ pass \in Passes
        /\ known \in Slots \cup {Nobody}
        /\ exps' \in [Slots -> Experiments] /\ spec' = spec
    BY TypeStep, Settled DEF TypeInv, TypeOK, Slots
  <1>1. ASSUME NEW e \in Slots PROVE exps'[e].parent \in Slots => exps'[e].parent \in Done'
    <2>1. exps'[e].parent = exps[e].parent \/ exps'[e].parent = pass.seed
          \/ exps'[e].parent = Nobody
      <3>1. exps[e].phase # "Absent" => exps'[e].parent = exps[e].parent
        BY Settled DEF SameOrigin
      <3>2. Create => New(pass.next).parent = pass.seed
        BY <1>0, NewType DEF Passes, TypeInv
      <3>3. TheCanary.parent = Nobody
        BY DEF TheCanary, NoExperiment
      <3> QED BY <3>1, <3>2, <3>3, Settled
    <2>2. Nobody \notin Slots
      BY DEF Nobody, Slots
    <2>3. Done \subseteq Done'
      BY MeasuredStays DEF Done
    <2> QED BY <2>1, <2>2, <2>3 DEF PassInv
  <1>2. ASSUME NEW done \in SUBSET Done, pass'.done = done,
               pass'.best \in Measured(done) \cup {Nobody}
        PROVE  /\ pass'.done \subseteq Done'
               /\ pass'.best \in Measured(pass.done)' \cup {Nobody}
    <2>1. done \subseteq Done' /\ Measured(done)' = Measured(done)
      BY MeasuredStays
    <2>2. Measured(pass.done)' = Measured(done)'
      BY <1>2 DEF Measured
    <2> QED BY <1>2, <2>1, <2>2
  <1>3. /\ pass.done \subseteq Done /\ Done \subseteq Slots
        /\ pass.best \in Measured(pass.done) \cup {Nobody}
        /\ Nobody \notin Slots /\ Foreign \notin Slots
        /\ \A done : Measured(done) \subseteq done
    BY DEF PassInv, Done, Nobody, Foreign, Slots, Measured
  <1>4. /\ pass'.done \subseteq Done'
        /\ pass'.best \in Measured(pass.done)' \cup {Nobody}
    <2>1. CASE pass'.done = pass.done /\ pass'.best = pass.best
      BY <1>2, <1>3, <2>1
    <2>2. CASE pass' = NoPass
      <3>1. pass'.done = {} /\ pass'.best = Nobody
        BY <2>2 DEF NoPass
      <3> QED BY <3>1
    <2>3. CASE List
      <3>1. pass'.done = Done /\ pass'.best = Select(Done, known)
        BY <1>0, <2>3 DEF List, Done, NoPass
      <3>2. pass'.best \in Measured(Done) \cup {Nobody}
        BY <1>0, <1>3, <3>1, SelectIn DEF TypeInv
      <3> QED BY <1>2, <3>1, <3>2
    <2>4. CASE CreateCanary \/ PickSeed
      <3>1. pass'.done = pass.done /\ pass'.best = pass.best
        BY <1>0, <2>4 DEF CreateCanary, PickSeed, Passes
      <3> QED BY <2>1, <3>1
    <2>5. ASSUME NEW tried, pass' = Proceed(tried)
          PROVE  pass'.done = pass.done /\ pass'.best = pass.best
      BY <1>0, <2>5 DEF Proceed, Passes
    <2>6. CASE Create \/ CreateFails
      BY <2>1, <2>5, <2>6 DEF Create, CreateFails
    <2>7. CASE pass' = pass
      BY <2>1, <2>7
    <2>8. CASE Publish \/ Abort
      BY <2>2, <2>8 DEF Publish, Abort
    <2>9. CASE Stamp \/ Sync \/ Release \/ UNCHANGED vars
      BY <2>7, <2>9 DEF Stamp, Sync, Release, vars
    <2>10. CASE \E e \in Slots : Start(e) \/ Finish(e)
      BY <2>7, <2>10 DEF Start, Finish
    <2> QED BY <2>3, <2>4, <2>6, <2>8, <2>9, <2>10 DEF Next
  <1>5. \/ pass'.seed = pass.seed
        \/ pass'.seed \in {Nobody} \cup Done
        \/ pass'.seed = Foreign /\ spec.seeded
    <2>1. CASE Publish \/ Abort
      BY <2>1 DEF Publish, Abort, NoPass
    <2>2. CASE List
      BY <2>2 DEF List, NoPass
    <2>3. CASE PickSeed
      <3>1. \/ pass'.seed = pass.best /\ pass.best # Nobody
            \/ pass'.seed = Nobody
            \/ pass'.seed = Foreign /\ spec.seeded
        BY <1>0, <2>3 DEF PickSeed, Passes
      <3> QED BY <1>3, <3>1
    <2>4. CASE CreateCanary
      BY <1>0, <2>4 DEF CreateCanary, Passes
    <2>5. CASE Create \/ CreateFails
      BY <1>0, <2>5 DEF Create, CreateFails, Proceed, Passes
    <2>6. CASE Stamp \/ Sync \/ Release \/ UNCHANGED vars
      BY <2>6 DEF Stamp, Sync, Release, vars
    <2>7. CASE \E e \in Slots : Start(e) \/ Finish(e)
      BY <2>7 DEF Start, Finish
    <2> QED BY <2>1, <2>2, <2>3, <2>4, <2>5, <2>6, <2>7 DEF Next
  <1>6. pass'.seed \in Slots => pass'.seed \in Done'
    <2>1. Done \subseteq Done'
      BY MeasuredStays
    <2> QED BY <1>3, <1>5, <2>1 DEF PassInv
  <1>8. pass'.seed = Foreign => spec'.seeded
    <2>1. Foreign \notin {Nobody} \cup Done
      BY <1>3 DEF Nobody, Foreign
    <2> QED BY <1>0, <1>5, <2>1 DEF PassInv
  <1>7. pass'.step = "Generate" /\ spec'.canary => exps'[0].phase # "Absent"
    <2>1. 0 \in Slots
      BY DEF Slots
    <2>2. pass'.step = "Generate" => pass.step = "Generate" \/ PickSeed
      <3>1. CASE Publish \/ Abort
        BY <3>1 DEF Publish, Abort, NoPass
      <3>2. CASE List
        BY <3>2 DEF List, NoPass
      <3>3. CASE CreateCanary
        BY <1>0, <3>3 DEF CreateCanary, Passes
      <3>4. CASE Create \/ CreateFails
        BY <3>4 DEF Create, CreateFails
      <3>5. CASE Stamp \/ Sync \/ Release \/ UNCHANGED vars
        BY <3>5 DEF Stamp, Sync, Release, vars
      <3>6. CASE \E e \in Slots : Start(e) \/ Finish(e)
        BY <3>6 DEF Start, Finish
      <3> QED BY <3>1, <3>2, <3>3, <3>4, <3>5, <3>6 DEF Next
    <2>3. PickSeed /\ spec.canary => exps[0].phase # "Absent"
      BY DEF PickSeed
    <2> QED BY <1>0, <2>1, <2>2, <2>3, Settled DEF PassInv
  <1> QED BY <1>1, <1>4, <1>6, <1>7, <1>8 DEF PassInv

-----------------------------------------------------------------------------
(* What is generated from the incumbent. *)

CheapInv == \A e \in Slots : exps[e].length = "Cheap" => IsCanary(e) \/ CheapSeed

ControlInv ==
    \A e \in Slots : exps[e].relation = "Remeasure" =>
        /\ exps[e].phase # "Absent"
        /\ ~IsCanary(e)
        /\ e % spec.population = 0
        /\ exps[e].parent \in Slots =>
              /\ exps[e].point = exps[exps[e].parent].point
              /\ ~spec.canary => exps[e].length = exps[exps[e].parent].length

SelectionInv == TypeInv /\ PassInv /\ CheapInv /\ ControlInv

LEMMA SelectionInit == Init => SelectionInv
  <1> SUFFICES ASSUME Init PROVE SelectionInv
    OBVIOUS
  <1>1. \A e \in Slots : exps[e].length = "Full" /\ exps[e].relation = "Seed"
    BY DEF Init, NoExperiment
  <1> QED BY <1>1, TypeInit, PassInit DEF SelectionInv, CheapInv, ControlInv

LEMMA CheapStep == SelectionInv /\ [Next]_vars => CheapInv'
  <1> SUFFICES ASSUME SelectionInv, [Next]_vars,
                      NEW e \in Slots, exps'[e].length = "Cheap"
               PROVE  IsCanary(e)' \/ CheapSeed'
    BY DEF CheapInv, Slots
  <1>1. spec' = spec /\ (IsCanary(e)' <=> IsCanary(e)) /\ (CheapSeed' <=> CheapSeed)
    BY Settled DEF SelectionInv, IsCanary, CheapSeed
  <1>2. exps'[e].length = exps[e].length => IsCanary(e) \/ CheapSeed
    BY DEF SelectionInv, CheapInv
  <1>3. CreateCanary /\ e = 0 => IsCanary(e)
    BY DEF CreateCanary, IsCanary
  <1>4. ASSUME Create, e = pass.next, exps'[e] = New(e) PROVE CheapSeed
    <2>1. pass.next \in Nat
      BY DEF SelectionInv, TypeInv, TypeOK, Passes
    <2>2. pass.seed # Nobody /\ Inherited(pass.seed) = "Cheap"
      BY <1>4, <2>1, NewType DEF SelectionInv, TypeInv
    <2>3. /\ ~spec.canary
          /\ \/ pass.seed \in Slots /\ exps[pass.seed].length = "Cheap"
             \/ pass.seed = Foreign /\ spec.tunable /\ spec.foreign = "Cheap"
      BY <2>2, InheritedType DEF SelectionInv, TypeInv
    <2>4. CASE pass.seed \in Slots /\ exps[pass.seed].length = "Cheap"
      BY <2>3, <2>4 DEF SelectionInv, CheapInv, IsCanary
    <2>5. CASE pass.seed = Foreign /\ spec.tunable /\ spec.foreign = "Cheap"
      BY <2>3, <2>5 DEF SelectionInv, PassInv, CheapSeed
    <2> QED BY <2>3, <2>4, <2>5
  <1> QED BY <1>1, <1>2, <1>3, <1>4, Settled DEF SelectionInv, SameOrigin

LEMMA ControlStep == SelectionInv /\ [Next]_vars => ControlInv'
  <1> SUFFICES ASSUME SelectionInv, [Next]_vars,
                      NEW e \in Slots, exps'[e].relation = "Remeasure"
               PROVE  /\ exps'[e].phase # "Absent"
                      /\ ~IsCanary(e)'
                      /\ e % spec'.population = 0
                      /\ exps'[e].parent \in Slots =>
                           /\ exps'[e].point = exps'[exps'[e].parent].point
                           /\ ~spec'.canary =>
                                exps'[e].length = exps'[exps'[e].parent].length
    BY DEF ControlInv, Slots
  <1> USE DEF SelectionInv
  <1>1. spec' = spec /\ (IsCanary(e)' <=> IsCanary(e))
    BY Settled DEF IsCanary
  <1>2. ASSUME NEW f \in Slots, f \in Done
        PROVE  exps'[f].point = exps[f].point /\ exps'[f].length = exps[f].length
    BY <1>2, Settled DEF SameOrigin, Done
  <1>3. CASE exps[e].phase # "Absent" \/ exps'[e] = exps[e]
    <2>1. exps'[e].phase # "Absent" /\ SameOrigin(e)
      BY <1>3, Settled DEF SameOrigin, ControlInv
    <2>2. exps[e].relation = "Remeasure" /\ exps'[e].parent = exps[e].parent
          /\ exps'[e].point = exps[e].point /\ exps'[e].length = exps[e].length
      BY <2>1 DEF SameOrigin
    <2>3. exps[e].parent \in Slots => exps[e].parent \in Done
      BY DEF PassInv
    <2> QED BY <1>1, <1>2, <2>1, <2>2, <2>3 DEF ControlInv
  <1>4. CASE Create /\ e = pass.next /\ exps'[e] = New(e) /\ exps[e].phase = "Absent"
    <2>1. pass.next \in Nat /\ pass.step = "Generate"
      BY <1>4 DEF TypeInv, TypeOK, Passes, Create
    <2>2. /\ IsControlSlot(e) /\ New(e).phase = "Live"
          /\ New(e).parent = pass.seed /\ New(e).point = PointOf(pass.seed)
          /\ ~spec.canary /\ pass.seed \in Slots =>
                New(e).length = exps[pass.seed].length
      BY <1>4, <2>1, NewType DEF TypeInv
    <2>3. e % spec.population = 0
      BY <2>2 DEF IsControlSlot
    <2>4. ~IsCanary(e)
      BY <1>4, <2>1 DEF PassInv, IsCanary
    <2>5. pass.seed \in Slots => pass.seed \in Done /\ New(e).point = exps[pass.seed].point
      BY <2>2 DEF PassInv, PointOf, Foreign, Slots
    <2> QED BY <1>1, <1>2, <1>4, <2>2, <2>3, <2>4, <2>5
  <1>5. CASE e = 0 /\ exps'[e] = TheCanary
    BY <1>5 DEF TheCanary
  <1> QED BY <1>3, <1>4, <1>5, Settled

LEMMA SelectionStep == SelectionInv /\ [Next]_vars => SelectionInv'
  BY TypeStep, PassStep, CheapStep, ControlStep DEF SelectionInv

LEMMA SelectionKept == Spec => []SelectionInv
  BY SelectionInit, SelectionStep, PTL DEF Spec

\* The canary's overrides do not leak: no other Experiment, of whatever generation,
\* runs at the canary's length, unless the campaign has no canary and is given a
\* cheap seed whose length the schema declares.
THEOREM CanaryStaysCheapAloneHolds == Spec => []CanaryStaysCheapAlone
  <1>1. SelectionInv => CanaryStaysCheapAlone
    BY DEF SelectionInv, CheapInv, CanaryStaysCheapAlone, Listed
  <1> QED BY <1>1, SelectionKept, PTL

\* One control per generation, on another seed than a parent of an earlier index,
\* with its parent's parameters, whatever the population.
THEOREM ControlsMeasureNoiseHolds == Spec => []ControlsMeasureNoise
  <1>1. SelectionInv => ControlsMeasureNoise
    <2> SUFFICES ASSUME SelectionInv, NEW e \in Listed, exps[e].relation = "Remeasure"
                 PROVE  /\ \A f \in Listed : /\ exps[f].relation = "Remeasure"
                                              /\ Generation(e) = Generation(f)
                                              => e = f
                        /\ exps[e].parent \in Listed =>
                              /\ exps[e].parent < e => Seed(e) # Seed(exps[e].parent)
                              /\ ~spec.canary => KeyOf(e) = KeyOf(exps[e].parent)
      BY DEF ControlsMeasureNoise
    <2>1. /\ spec.population \in Nat \ {0}
          /\ \A f \in Listed : f \in Slots /\ f \in Nat
      BY DEF SelectionInv, TypeInv, TypeOK, Listed, Slots
    <2>2. \A f \in Listed : exps[f].relation = "Remeasure" => f % spec.population = 0
      BY <2>1 DEF SelectionInv, ControlInv
    <2>3. \A f \in Listed :
             /\ f % spec.population = 0 /\ Generation(e) = Generation(f) => e = f
             /\ f < e => Generation(f) < Generation(e)
      BY <2>1, <2>2, FirstOfGeneration DEF Generation
    <2>4. \A f \in Listed : Generation(f) \in Nat
      BY <2>1, Division DEF Generation
    <2>5. ASSUME exps[e].parent \in Listed, exps[e].parent < e
          PROVE  Seed(e) # Seed(exps[e].parent)
      <3>1. ~IsCanary(e) /\ Seed(e) = Generation(e)
        BY <2>1 DEF SelectionInv, ControlInv, Seed
      <3>2. Seed(exps[e].parent) \in {-1, Generation(exps[e].parent)}
        BY DEF Seed
      <3> QED BY <2>3, <2>4, <2>5, <3>1, <3>2
    <2>6. ASSUME exps[e].parent \in Listed, ~spec.canary
          PROVE  KeyOf(e) = KeyOf(exps[e].parent)
      <3>1. /\ exps[e].point = exps[exps[e].parent].point
            /\ exps[e].length = exps[exps[e].parent].length
        BY <2>1, <2>6 DEF SelectionInv, ControlInv
      <3> QED BY <3>1 DEF KeyOf
    <2> QED BY <2>2, <2>3, <2>5, <2>6
  <1> QED BY <1>1, SelectionKept, PTL

-----------------------------------------------------------------------------
(* What is kept, and who becomes the incumbent. *)

\* How a pass goes on: what it has listed and chosen stays, and it generates, or
\* publishes, when nothing is left to be stamped.
LEMMA PassCourse ==
    ASSUME TypeInv, [Next]_vars
    PROVE  /\ pass'.step # "Idle" =>
                 \/ /\ List /\ pass.step = "Idle" /\ pass'.step = "Stamp"
                    /\ pass'.done = Done /\ pass'.best = Select(Done, known)
                    /\ pass'.prior = known
                 \/ /\ pass.step # "Idle"
                    /\ pass'.done = pass.done /\ pass'.best = pass.best
                    /\ pass'.prior = pass.prior
           /\ pass'.step \in {"Generate", "Status"} =>
                 ~Stamp /\ (Stamped \/ pass.step \in {"Generate", "Status"})
  <1>1. pass \in Passes
    BY DEF TypeInv, TypeOK
  <1>2. CASE List
    BY <1>1, <1>2 DEF List, NoPass, Done
  <1>3. CASE Stamp
    BY <1>3 DEF Stamp
  <1>4. CASE CreateCanary
    BY <1>1, <1>4 DEF CreateCanary, Stamped, Stamp, Passes
  <1>5. CASE PickSeed
    BY <1>1, <1>5 DEF PickSeed, Stamped, Stamp, Passes
  <1>6. CASE Create \/ CreateFails
    BY <1>1, <1>6 DEF Create, CreateFails, Stamp, Proceed, Passes
  <1>7. CASE Publish \/ Abort
    BY <1>7 DEF Publish, Abort, NoPass
  <1>8. CASE pass' = pass /\ ~Stamp
    BY <1>8 DEF Stamped
  <1>9. CASE Sync \/ Release \/ UNCHANGED vars \/ \E e \in Slots : Start(e) \/ Finish(e)
    <2>1. pass' = pass
      BY <1>9 DEF Sync, Release, vars, Start, Finish
    <2> QED BY <1>3, <1>8, <2>1
  <1> QED BY <1>2, <1>3, <1>4, <1>5, <1>6, <1>7, <1>9 DEF Next

Kept == {e \in Slots : exps[e].decision = "Keep"}
KeptOf(best) == {best} \ ({Nobody} \cup (IF spec.canary THEN {0} ELSE {}))

\* What is kept has succeeded, with a score of its own, and is in the list of any
\* pass; when a pass has stamped, it is the incumbent of the pass.
KeptInv ==
    /\ \A e \in Kept : /\ e \in Done /\ ~IsEcho(e) /\ ~IsCanary(e)
                       /\ pass.step # "Idle" => e \in pass.done
    /\ pass.step \in {"Generate", "Status"} => Kept = KeptOf(pass.best)

LEMMA KeptInit == Init => KeptInv
  <1> SUFFICES ASSUME Init PROVE KeptInv
    OBVIOUS
  <1>1. Kept = {}
    BY DEF Init, NoExperiment, Kept
  <1>2. pass.step = "Idle"
    BY DEF Init, NoPass
  <1> QED BY <1>1, <1>2 DEF KeptInv

LEMMA StampedKeepsOne ==
    ASSUME TypeInv, PassInv, KeptInv, Stamped
    PROVE  Kept = KeptOf(pass.best)
  <1>1. pass.step # "Idle" /\ ToStamp(pass.done, pass.best) = {}
    BY DEF Stamped
  <1>2. ASSUME NEW e \in Slots, e \in pass.done, ~IsEcho(e), ~IsCanary(e)
        PROVE  exps[e].decision = Want(e, pass.best)
    BY <1>1, <1>2 DEF ToStamp, Succeeded
  <1>3. ASSUME NEW e \in Kept PROVE e \in KeptOf(pass.best)
    <2>1. /\ e \in Slots /\ e \in pass.done /\ ~IsEcho(e) /\ ~IsCanary(e)
          /\ exps[e].decision = "Keep"
      BY <1>1 DEF KeptInv, Kept
    <2>2. e = pass.best
      BY <1>2, <2>1 DEF Want
    <2>3. e # Nobody /\ (spec.canary => e # 0)
      BY <2>1 DEF Nobody, Slots, IsCanary
    <2> QED BY <2>2, <2>3 DEF KeptOf
  <1>4. ASSUME NEW e \in KeptOf(pass.best) PROVE e \in Kept
    <2>1. e = pass.best /\ e # Nobody /\ ~IsCanary(e)
      BY DEF KeptOf, IsCanary
    <2>2. e \in Measured(pass.done) /\ e \in pass.done /\ ~IsEcho(e)
      BY <2>1 DEF PassInv, Measured
    <2>3. e \in Slots
      BY <2>2 DEF PassInv, Done
    <2> QED BY <1>2, <2>1, <2>2, <2>3 DEF Want, Kept
  <1> QED BY <1>3, <1>4

LEMMA NewDecision ==
    ASSUME TypeInv, PassInv, [Next]_vars, NEW e \in Slots,
           exps[e].phase = "Absent", exps'[e].decision # exps[e].decision
    PROVE  exps'[e].decision = "None"
  <1>1. TheCanary.decision = "None"
    BY DEF TheCanary, NoExperiment
  <1>2. e = pass.next => New(e).decision = "None"
    BY NewType DEF TypeInv, TypeOK, Passes
  <1> QED BY <1>1, <1>2, Settled

LEMMA KeptStep == TypeInv /\ PassInv /\ KeptInv /\ [Next]_vars => KeptInv'
  <1> SUFFICES ASSUME TypeInv, PassInv, KeptInv, [Next]_vars PROVE KeptInv'
    OBVIOUS
  <1>1. ASSUME NEW e \in Slots
        PROVE  exps'[e].decision = "Keep" <=>
                  \/ exps[e].decision = "Keep" /\ exps'[e].decision = exps[e].decision
                  \/ /\ Stamp /\ e \in ToStamp(pass.done, pass.best)
                     /\ exps'[e].decision = "Keep"
    <2>1. exps[e].phase = "Absent" => exps[e].decision # "Keep"
      BY DEF KeptInv, Kept, Done
    <2> QED BY <2>1, Settled, NewDecision
  <1>2. ASSUME NEW e \in Kept'
        PROVE  /\ e \in Done' /\ ~IsEcho(e)' /\ ~IsCanary(e)'
               /\ pass'.step # "Idle" => e \in pass'.done
    <2>1. e \in Slots /\ exps'[e].decision = "Keep"
      BY DEF Kept, Slots
    <2>2. /\ e \in Done /\ ~IsEcho(e) /\ ~IsCanary(e)
          /\ pass.step # "Idle" => e \in pass.done
      <3>1. CASE Stamp /\ e \in ToStamp(pass.done, pass.best)
        BY <3>1, StampedOnes DEF ToStamp, Succeeded
      <3>2. CASE exps[e].decision = "Keep"
        BY <2>1, <3>2 DEF KeptInv, Kept
      <3> QED BY <1>1, <2>1, <3>1, <3>2
    <2>3. {e} \subseteq Done' /\ (IsEcho(e)' <=> IsEcho(e))
      <3>1. {e} \in SUBSET Done
        BY <2>2
      <3>2. \A x \in {e} : IsEcho(x)' = IsEcho(x)
        BY <3>1, MeasuredStays
      <3> QED BY <3>1, <3>2, MeasuredStays
    <2>4. IsCanary(e)' <=> IsCanary(e)
      BY <2>1, Settled DEF IsCanary
    <2>5. pass'.step # "Idle" => e \in pass'.done
      BY <2>2, PassCourse
    <2> QED BY <2>2, <2>3, <2>4, <2>5
  <1>3. ASSUME pass'.step \in {"Generate", "Status"} PROVE Kept' = KeptOf(pass.best)'
    <2>1. ~Stamp /\ (Stamped \/ pass.step \in {"Generate", "Status"})
          /\ pass'.best = pass.best
      BY <1>3, PassCourse
    <2>2. Kept = KeptOf(pass.best)
      BY <2>1, StampedKeepsOne DEF KeptInv
    <2>3. \A e \in Slots : exps'[e].decision = "Keep" <=> exps[e].decision = "Keep"
      <3> SUFFICES ASSUME NEW e \in Slots
                   PROVE  exps'[e].decision = "Keep" <=> exps[e].decision = "Keep"
        OBVIOUS
      <3>1. exps[e].phase = "Absent" => exps[e].decision # "Keep"
        BY DEF KeptInv, Kept, Done
      <3> QED BY <1>1, <2>1, <3>1, Settled
    <2>4. Kept' = Kept
      BY <2>3 DEF Kept, Slots
    <2>5. spec' = spec
      BY Settled DEF Slots
    <2>6. KeptOf(pass.best)' = KeptOf(pass.best)
      BY <2>1, <2>5 DEF KeptOf
    <2> QED BY <2>2, <2>4, <2>6
  <1> QED BY <1>2, <1>3 DEF KeptInv

LEMMA KeptForever == Spec => [](TypeInv /\ PassInv /\ KeptInv)
  <1>1. Init => TypeInv /\ PassInv /\ KeptInv
    BY TypeInit, PassInit, KeptInit
  <1>2. TypeInv /\ PassInv /\ KeptInv /\ [Next]_vars => (TypeInv /\ PassInv /\ KeptInv)'
    BY TypeStep, PassStep, KeptStep
  <1> QED BY <1>1, <1>2, PTL DEF Spec

LEMMA StatusIsPublished ==
    ASSUME TypeInv, [Next]_vars, status' # status
    PROVE  Publish
  BY DEF Next, vars, List, Stamp, CreateCanary, PickSeed, Create, CreateFails,
         Abort, Sync, Release, Start, Finish

\* Whenever a pass publishes, exactly its incumbent is kept, also after passes that
\* were cut off between two stamps, and from a cache of any age.
THEOREM KeptIsTheIncumbentHolds == Spec => KeptIsTheIncumbent
  <1> DEFINE A == status' # status =>
                    {e \in Slots : exps[e].decision = "Keep"} =
                      {status'.best} \ ({Nobody} \cup (IF spec.canary THEN {0} ELSE {}))
  <1>1. TypeInv /\ PassInv /\ KeptInv /\ [Next]_vars => A
    <2> SUFFICES ASSUME TypeInv, KeptInv, [Next]_vars, status' # status
                 PROVE  Kept = KeptOf(status'.best)
      BY DEF Kept, KeptOf
    <2>1. Publish
      BY StatusIsPublished
    <2>2. status'.best = pass.best /\ pass.step = "Status"
      BY <2>1 DEF Publish
    <2> QED BY <2>2 DEF KeptInv
  <1>2. TypeInv /\ PassInv /\ KeptInv /\ [Next]_vars => [A]_vars
    BY <1>1
  <1>3. [][A]_vars => KeptIsTheIncumbent
    BY PTL DEF KeptIsTheIncumbent
  <1> QED BY <1>2, <1>3, KeptForever, PTL DEF Spec

ControlsDone ==
    {e \in Slots : exps[e].phase = "Succeeded" /\ exps[e].relation = "Remeasure"}

\* `new` may follow on `old`.
Earned(old, new) ==
    \/ new = old
    \/ old = Nobody
    \/ new # Nobody /\ IsColdStart(old) /\ IsColdStart(new)
    \/ Cardinality(ControlsDone) >= 3

\* The published incumbent is measured, and so are the copies of it; the incumbent
\* of the pass may follow on the copy it has read.
LuckInv ==
    /\ {status.best, known, pass.prior} \subseteq Measured(Done) \cup {Nobody}
    /\ pass.step # "Idle" => Earned(pass.prior, pass.best)

LEMMA ClearsCounts ==
    ASSUME NEW challenger, NEW baseline, NEW done, Clears(challenger, baseline, done)
    PROVE  Cardinality(Controls(done)) >= 3
  BY DEF Clears, MinControls

\* The gate: whoever is selected over a measured incumbent has earned it.
LEMMA SelectEarns ==
    ASSUME TypeInv, NEW prior \in Measured(Done) \cup {Nobody}
    PROVE  Earned(prior, Select(Done, prior))
  <1> DEFINE observed == PickBest(Done)
             baseline == IF Controls(Done) = {} THEN Score(prior) ELSE Remeasured(Done)
  <1>1. CASE prior \in Measured(Done) /\ IsColdStart(observed) /\ IsColdStart(prior)
    <2>1. observed \in Measured(Done) /\ Nobody \notin Measured(Done)
      BY <1>1, PickBestIn DEF TypeInv, Done, Measured, Nobody, Slots
    <2> QED BY <1>1, <2>1 DEF Select, Earned
  <1>2. CASE prior \in Measured(Done) /\ Clears(Score(observed), baseline, Done)
    <2>1. Cardinality(Controls(Done)) >= 3
      BY <1>2, ClearsCounts
    <2>2. Controls(Done) \in SUBSET ControlsDone /\ ControlsDone \in SUBSET Slots
      BY DEF Controls, Measured, ControlsDone, Done
    <2>3. /\ Cardinality(Controls(Done)) \in Nat /\ Cardinality(ControlsDone) \in Nat
          /\ Cardinality(Controls(Done)) <= Cardinality(ControlsDone)
      <3>1. IsFiniteSet(ControlsDone)
        BY <2>2, CountedSlots
      <3>2. Controls(Done) \in SUBSET Slots
        BY <2>2
      <3> QED BY <2>2, <3>1, <3>2, CountedSlots, FS_Subset
    <2> QED BY <2>1, <2>3 DEF Earned
  <1>3. CASE /\ prior \in Measured(Done)
             /\ ~(IsColdStart(observed) /\ IsColdStart(prior))
             /\ ~Clears(Score(observed), baseline, Done)
    <2>1. Select(Done, prior) = prior
      BY <1>3 DEF Select
    <2> QED BY <2>1 DEF Earned
  <1>4. CASE prior = Nobody
    BY <1>4 DEF Earned
  <1> QED BY <1>1, <1>2, <1>3, <1>4

LEMMA EarnedStays ==
    ASSUME TypeInv, PassInv, [Next]_vars,
           NEW old \in Done \cup {Nobody}, NEW new \in Done \cup {Nobody},
           Earned(old, new)
    PROVE  Earned(old, new)'
  <1>1. ASSUME NEW e \in Done PROVE IsColdStart(e)' = IsColdStart(e)
    BY Settled DEF IsColdStart, Done, SameOrigin
  <1>2. ControlsDone \subseteq ControlsDone'
    <2>1. ASSUME NEW e \in ControlsDone PROVE e \in ControlsDone'
      <3>1. e \in Slots /\ exps[e].phase = "Succeeded" /\ exps[e].relation = "Remeasure"
        BY DEF ControlsDone
      <3>2. exps'[e].phase = "Succeeded" /\ exps'[e].relation = "Remeasure"
        BY <3>1, Settled DEF SameOrigin
      <3> QED BY <3>1, <3>2 DEF ControlsDone
    <2> QED BY <2>1
  <1>3. ControlsDone \in SUBSET Slots /\ ControlsDone' \in SUBSET Slots
    BY DEF ControlsDone, Slots
  <1>4. /\ Cardinality(ControlsDone) \in Nat /\ Cardinality(ControlsDone') \in Nat
        /\ Cardinality(ControlsDone) <= Cardinality(ControlsDone')
    BY <1>2, <1>3, CountedSlots, FS_Subset
  <1>5. CASE /\ new # Nobody /\ old # Nobody
             /\ IsColdStart(old) /\ IsColdStart(new)
    <2>1. old \in Done /\ new \in Done
      BY <1>5
    <2>2. IsColdStart(old)' /\ IsColdStart(new)'
      BY <1>1, <1>5, <2>1
    <2> QED BY <1>5, <2>2 DEF Earned
  <1>6. CASE new = old \/ old = Nobody
    BY <1>6 DEF Earned
  <1>7. CASE Cardinality(ControlsDone) >= 3
    BY <1>4, <1>7 DEF Earned
  <1> QED BY <1>5, <1>6, <1>7 DEF Earned

LEMMA LuckInit == Init => LuckInv
  <1> SUFFICES ASSUME Init PROVE LuckInv
    OBVIOUS
  <1>1. status.best = Nobody /\ known = Nobody /\ pass.prior = Nobody
    BY DEF Init, NoPass
  <1>2. pass.step = "Idle"
    BY DEF Init, NoPass
  <1> QED BY <1>1, <1>2 DEF LuckInv

\* A copy of the incumbent is of the status, or of a copy of it.
LEMMA Copies ==
    ASSUME TypeInv, [Next]_vars
    PROVE  /\ known' \in {known, status.best}
           /\ pass'.prior \in {Nobody, known, pass.prior}
           /\ status'.best \in {status.best, pass.best}
  <1>1. CASE Publish \/ Abort
    BY <1>1 DEF Publish, Abort, NoPass
  <1>2. CASE List
    BY <1>2 DEF List, NoPass
  <1>3. CASE CreateCanary \/ PickSeed \/ Create \/ CreateFails
    BY <1>3 DEF CreateCanary, PickSeed, Create, CreateFails, Proceed, TypeInv, TypeOK, Passes
  <1>4. CASE Stamp \/ Sync \/ Release \/ UNCHANGED vars
    BY <1>4 DEF Stamp, Sync, Release, vars
  <1>5. CASE \E e \in Slots : Start(e) \/ Finish(e)
    BY <1>5 DEF Start, Finish
  <1> QED BY <1>1, <1>2, <1>3, <1>4, <1>5 DEF Next

LEMMA LuckStep == TypeInv /\ PassInv /\ LuckInv /\ [Next]_vars => LuckInv'
  <1> SUFFICES ASSUME TypeInv, PassInv, LuckInv, [Next]_vars PROVE LuckInv'
    OBVIOUS
  <1>1. Done \subseteq Done' /\ Measured(Done) \subseteq Done
    BY MeasuredStays DEF Measured
  <1>2. ASSUME NEW e \in Measured(Done) PROVE e \in Measured(Done)'
    <2> DEFINE D == {e}
    <2>1. D \in SUBSET Done
      BY <1>1
    <2>2. e \in Measured(D)
      BY <1>2 DEF Measured
    <2> HIDE DEF D
    <2>3. \A S \in SUBSET Done : Measured(S)' = Measured(S)
      BY MeasuredStays
    <2> QED BY <1>1, <2>2, <2>3 DEF Measured
  <1>3. {status.best, known, pass.prior, pass.best} \subseteq Measured(Done) \cup {Nobody}
    BY DEF PassInv, LuckInv, Measured
  <1>4. {status'.best, known', pass'.prior} \subseteq Measured(Done)' \cup {Nobody}
    BY <1>2, <1>3, Copies
  <1>5. ASSUME pass'.step # "Idle" PROVE Earned(pass.prior, pass.best)'
    <2>1. CASE List /\ pass'.best = Select(Done, known) /\ pass'.prior = known
      <3>1. Earned(known, pass'.best)
        BY <1>3, <2>1, SelectEarns
      <3>2. exps' = exps
        BY <2>1 DEF List
      <3> QED BY <2>1, <3>1, <3>2 DEF Earned, IsColdStart, ControlsDone, Slots
    <2>2. CASE pass.step # "Idle" /\ pass'.best = pass.best /\ pass'.prior = pass.prior
      <3>1. pass.prior \in Done \cup {Nobody} /\ pass.best \in Done \cup {Nobody}
        BY <1>1, <1>3
      <3>2. \A old, new \in Done \cup {Nobody} : Earned(old, new) => Earned(old, new)'
        BY EarnedStays
      <3>3. Earned(pass.prior, pass.best)
        BY <2>2 DEF LuckInv
      <3> QED BY <2>2, <3>1, <3>2, <3>3 DEF Earned, IsColdStart
    <2> QED BY <1>5, <2>1, <2>2, PassCourse
  <1> QED BY <1>4, <1>5 DEF LuckInv

\* From a cache of any age: whoever a pass publishes in the place of the incumbent
\* it has read is of the founding cohort, like it, or three controls at least have
\* finished.
THEOREM NoLuckyIncumbentHolds == Spec => NoLuckyIncumbent
  <1> DEFINE Inv == TypeInv /\ PassInv /\ LuckInv
             A == LET old == pass.prior
                      new == status'.best
                  IN status' # status /\ old # new /\ old # Nobody =>
                       \/ new # Nobody /\ IsColdStart(old) /\ IsColdStart(new)
                       \/ Cardinality({e \in Slots : exps[e].phase = "Succeeded"
                                                  /\ exps[e].relation = "Remeasure"}) >= 3
  <1>1. Init => Inv
    BY TypeInit, PassInit, LuckInit
  <1>2. Inv /\ [Next]_vars => Inv'
    BY TypeStep, PassStep, LuckStep
  <1>3. Inv /\ [Next]_vars => [A]_vars
    <2> SUFFICES ASSUME Inv, [Next]_vars, status' # status PROVE A
      OBVIOUS
    <2>1. Publish
      BY StatusIsPublished
    <2>2. status'.best = pass.best /\ pass.step # "Idle"
      BY <2>1 DEF Publish
    <2>3. Earned(pass.prior, pass.best)
      BY <2>2 DEF LuckInv
    <2> QED BY <2>2, <2>3 DEF Earned, ControlsDone
  <1>4. [][A]_vars => NoLuckyIncumbent
    BY PTL DEF NoLuckyIncumbent
  <1> QED BY <1>1, <1>2, <1>3, <1>4, PTL DEF Spec

=============================================================================
