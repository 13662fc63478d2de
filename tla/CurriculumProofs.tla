-------------------------- MODULE CurriculumProofs --------------------------
(***************************************************************************)
(* Proofs about Curriculum for every curriculum, set of templates and      *)
(* robots, number of campaigns, budget, window, sigma and scores.          *)
(***************************************************************************)
EXTENDS Curriculum, FiniteSetTheorems, SequenceTheorems, WellFoundedInduction, TLAPS

-----------------------------------------------------------------------------
(* Numbers. *)

LEMMA LeastNat ==
    ASSUME NEW S, S \subseteq Nat, S # {}
    PROVE  \E n \in S : \A m \in S : n <= m
  <1>1. PICK n \in S : \A m \in S : <<m, n>> \notin OpToRel(<, Nat)
    BY NatLessThanWellFounded, WFMin
  <1>2. \A m \in S : ~(m < n)
    BY <1>1 DEF OpToRel
  <1> QED BY <1>2

\* Induction up to a bound, over a set in the place of a predicate.
LEMMA InductionUpTo ==
    ASSUME NEW N \in Nat, NEW good, 0 \in good,
           \A n \in 1 .. N : n - 1 \in good => n \in good
    PROVE  \A n \in 0 .. N : n \in good
  <1> DEFINE bad == {n \in 0 .. N : n \notin good}
  <1> SUFFICES ASSUME bad # {} PROVE FALSE
    OBVIOUS
  <1>1. bad \subseteq Nat
    OBVIOUS
  <1> HIDE DEF bad
  <1>2. PICK n \in bad : \A m \in bad : n <= m
    BY <1>1, LeastNat
  <1> USE DEF bad
  <1>3. n # 0 /\ n \in 1 .. N /\ n - 1 \in 0 .. N
    BY <1>2
  <1>4. n - 1 \notin bad
    BY <1>2, <1>3
  <1> QED BY <1>2, <1>3, <1>4

\* A family of numbers that is indexed up to a bound has a largest and a smallest.
LEMMA TopExists ==
    ASSUME NEW N \in Nat, NEW D \in SUBSET (1 .. N), D # {},
           NEW f, \A i \in D : f[i] \in Nat
    PROVE  \E top \in D : \A i \in D : f[i] <= f[top]
  <1> DEFINE upTo(n) == {i \in D : i <= n}
             good == {n \in 0 .. N : upTo(n) # {} =>
                         \E top \in upTo(n) : \A i \in upTo(n) : f[i] <= f[top]}
  <1>0. \A i \in D : i \in Nat /\ 1 <= i /\ i <= N /\ f[i] \in Nat
    OBVIOUS
  <1>1. 0 \in good
    <2>1. \A i \in D : ~(i <= 0)
      BY <1>0
    <2>2. upTo(0) = {}
      BY <2>1
    <2> QED BY <2>2
  <1>2. ASSUME NEW n \in 1 .. N, n - 1 \in good PROVE n \in good
    <2>1. n \in Nat /\ n - 1 \in Nat
      OBVIOUS
    <2>2. \A i \in D : i <= n <=> i <= n - 1 \/ i = n
      BY <1>0, <2>1
    <2>3. upTo(n) = upTo(n - 1) \cup {i \in D : i = n}
      BY <2>2
    <2>4. upTo(n - 1) # {} =>
             \E top \in upTo(n - 1) : \A i \in upTo(n - 1) : f[i] <= f[top]
      BY <1>2
    <2> SUFFICES ASSUME upTo(n) # {}
                 PROVE  \E top \in upTo(n) : \A i \in upTo(n) : f[i] <= f[top]
      OBVIOUS
    <2>5. \A i \in upTo(n - 1) : i \in D
      OBVIOUS
    <2> HIDE DEF upTo, good
    <2>6. CASE n \notin D
      BY <2>3, <2>4, <2>6
    <2>7. CASE n \in D /\ upTo(n - 1) = {}
      BY <1>0, <2>3, <2>7
    <2>8. CASE n \in D /\ upTo(n - 1) # {}
      <3>1. PICK top \in upTo(n - 1) : \A i \in upTo(n - 1) : f[i] <= f[top]
        BY <2>4, <2>8
      <3>2. upTo(n) = upTo(n - 1) \cup {n}
        BY <2>3, <2>8
      <3>3. CASE f[n] <= f[top]
        BY <3>1, <3>2, <3>3
      <3>4. CASE ~(f[n] <= f[top])
        <4>1. f[n] \in Nat /\ f[top] \in Nat /\ f[top] <= f[n]
          <5>1. n \in D /\ top \in D
            BY <2>5, <2>8
          <5>2. f[n] \in Nat /\ f[top] \in Nat
            BY <1>0, <5>1
          <5> QED BY <3>4, <5>2
        <4>2. \A i \in upTo(n - 1) : f[i] \in Nat /\ f[i] <= f[top]
          BY <1>0, <2>5, <3>1
        <4>3. \A i \in upTo(n) : f[i] <= f[n]
          BY <3>2, <4>1, <4>2
        <4> QED BY <3>2, <4>3
      <3> QED BY <3>3, <3>4
    <2> QED BY <2>6, <2>7, <2>8
  <1> HIDE DEF good
  <1>3. N \in good
    BY <1>1, <1>2, InductionUpTo
  <1>4. upTo(N) = D
    <2>1. \A i \in D : i <= N
      BY <1>0
    <2> QED BY <2>1
  <1> QED BY <1>3, <1>4 DEF good

\* The values of f, and 0.
Values(f) == {f[i] : i \in DOMAIN f} \cup {0}

LEMMA MaxIsThere ==
    ASSUME NEW N \in Nat, NEW D \in SUBSET (1 .. N), NEW f \in [D -> Nat]
    PROVE  /\ Values(f) \subseteq Nat /\ Max(Values(f)) \in Values(f)
           /\ Max(Values(f)) > 0 => \E i \in D : f[i] = Max(Values(f))
  <1> DEFINE S == Values(f)
  <1>1. S \subseteq Nat /\ \A m \in S : m = 0 \/ \E i \in D : m = f[i]
    BY DEF Values
  <1>2. 0 \in S /\ \A i \in D : f[i] \in S
    BY DEF Values
  <1> HIDE DEF S
  <1>3. \E top \in S : \A m \in S : top >= m
    <2>1. CASE D = {}
      BY <1>1, <1>2, <2>1
    <2>2. CASE D # {}
      <3>0. \A i \in D : f[i] \in Nat
        OBVIOUS
      <3>1. PICK top \in D : \A i \in D : f[i] <= f[top]
        BY <2>2, <3>0, TopExists
      <3>2. f[top] \in S /\ f[top] \in Nat
        BY <1>2, <3>0
      <3>3. \A i \in D : f[i] \in Nat /\ f[top] >= f[i]
        BY <3>0, <3>1, <3>2
      <3>4. \A m \in S : f[top] >= m
        BY <1>1, <3>2, <3>3
      <3> QED BY <3>2, <3>4
    <2> QED BY <2>1, <2>2
  <1> DEFINE high == Max(S)
  <1>4. high \in S
    BY <1>3 DEF Max
  <1> HIDE DEF high
  <1>5. high > 0 => \E i \in D : f[i] = high
    BY <1>1, <1>4
  <1> QED BY <1>1, <1>4, <1>5 DEF high, S

LEMMA MinIsThere ==
    ASSUME NEW S, S \subseteq Nat, S # {}
    PROVE  Min(S) \in S
  <1>1. \E x \in S : \A y \in S : x <= y
    BY LeastNat
  <1> QED BY <1>1 DEF Min

-----------------------------------------------------------------------------
(* The recursions have solutions, so each is its last value. *)

LEMMA RunsUnfold ==
    ASSUME NEW cs, NEW C
    PROVE  \E upTo :
              /\ RunsOf(cs, C) = upTo[MaxCampaigns]
              /\ upTo[0] = 0
              /\ \A n \in Campaigns :
                    upTo[n] = IF n \in C THEN upTo[n - 1] + cs[n].succeeded
                                         ELSE upTo[n - 1]
  <1> DEFINE Step(f, n) == IF n = 0 THEN 0
                           ELSE IF n \in C THEN f[n - 1] + cs[n].succeeded
                           ELSE f[n - 1]
             Solves(f, m) == f = [n \in 0 .. m |-> Step(f, n)]
             upTo == CHOOSE f : Solves(f, MaxCampaigns)
             solved == {m \in 0 .. MaxCampaigns : \E f : Solves(f, m)}
  <1>0. MaxCampaigns \in Nat /\ Campaigns = 1 .. MaxCampaigns
    BY NumbersAssumption DEF Campaigns
  <1>1. RunsOf(cs, C) = upTo[MaxCampaigns]
    BY DEF RunsOf
  <1>2. \E f : Solves(f, 0)
    <2>1. Solves([n \in 0 .. 0 |-> 0], 0)
      OBVIOUS
    <2> QED BY <2>1
  <1>3. ASSUME NEW m \in 1 .. MaxCampaigns, NEW f, Solves(f, m - 1)
        PROVE  \E g : Solves(g, m)
    <2> DEFINE g == [n \in 0 .. m |-> IF n < m THEN f[n] ELSE Step(f, m)]
    <2>1. \A n \in 0 .. (m - 1) : f[n] = Step(f, n)
      BY <1>3
    <2>2. \A n \in 0 .. m : g[n] = Step(g, n)
      <3> SUFFICES ASSUME NEW n \in 0 .. m PROVE g[n] = Step(g, n)
        OBVIOUS
      <3>1. n # 0 => g[n - 1] = f[n - 1]
        OBVIOUS
      <3>2. Step(g, n) = Step(f, n)
        BY <3>1
      <3>3. CASE n < m
        BY <2>1, <3>2, <3>3
      <3>4. CASE n = m
        BY <3>2, <3>4
      <3> QED BY <3>3, <3>4
    <2>3. Solves(g, m)
      BY <2>2
    <2> QED BY <2>3
  <1> HIDE DEF Solves
  <1>4. MaxCampaigns \in solved
    <2>1. 0 \in solved
      BY <1>0, <1>2
    <2>2. \A m \in 1 .. MaxCampaigns : m - 1 \in solved => m \in solved
      BY <1>0, <1>3
    <2> HIDE DEF solved
    <2>3. \A m \in 0 .. MaxCampaigns : m \in solved
      BY <1>0, <2>1, <2>2, InductionUpTo
    <2> QED BY <1>0, <2>3
  <1>5. Solves(upTo, MaxCampaigns)
    BY <1>4
  <1> HIDE DEF upTo
  <1>6. \A n \in 0 .. MaxCampaigns : upTo[n] = Step(upTo, n)
    BY <1>5 DEF Solves
  <1>7. upTo[0] = 0
    BY <1>0, <1>6
  <1>8. \A n \in Campaigns :
           upTo[n] = IF n \in C THEN upTo[n - 1] + cs[n].succeeded ELSE upTo[n - 1]
    BY <1>0, <1>6
  <1> QED BY <1>1, <1>7, <1>8

LEMMA FoldsUnfold ==
    ASSUME NEW st, NEW cs
    PROVE  \E upTo :
              /\ FoldedAll(st, cs) = upTo[MaxCampaigns]
              /\ upTo[0] = st
              /\ \A n \in Campaigns :
                    upTo[n] = IF n \in Over(cs) \ st.folded
                              THEN Folded(upTo[n - 1], n, cs[n]) ELSE upTo[n - 1]
  <1> DEFINE Step(f, n) == IF n = 0 THEN st
                           ELSE IF n \in Over(cs) \ st.folded
                           THEN Folded(f[n - 1], n, cs[n])
                           ELSE f[n - 1]
             Solves(f, m) == f = [n \in 0 .. m |-> Step(f, n)]
             upTo == CHOOSE f : Solves(f, MaxCampaigns)
             solved == {m \in 0 .. MaxCampaigns : \E f : Solves(f, m)}
  <1>0. MaxCampaigns \in Nat /\ Campaigns = 1 .. MaxCampaigns
    BY NumbersAssumption DEF Campaigns
  <1>1. FoldedAll(st, cs) = upTo[MaxCampaigns]
    BY DEF FoldedAll
  <1>2. \E f : Solves(f, 0)
    <2>1. Solves([n \in 0 .. 0 |-> st], 0)
      OBVIOUS
    <2> QED BY <2>1
  <1>3. ASSUME NEW m \in 1 .. MaxCampaigns, NEW f, Solves(f, m - 1)
        PROVE  \E g : Solves(g, m)
    <2> DEFINE g == [n \in 0 .. m |-> IF n < m THEN f[n] ELSE Step(f, m)]
    <2>1. \A n \in 0 .. (m - 1) : f[n] = Step(f, n)
      BY <1>3
    <2>2. \A n \in 0 .. m : g[n] = Step(g, n)
      <3> SUFFICES ASSUME NEW n \in 0 .. m PROVE g[n] = Step(g, n)
        OBVIOUS
      <3>1. n # 0 => g[n - 1] = f[n - 1]
        OBVIOUS
      <3>2. Step(g, n) = Step(f, n)
        BY <3>1
      <3>3. CASE n < m
        BY <2>1, <3>2, <3>3
      <3>4. CASE n = m
        BY <3>2, <3>4
      <3> QED BY <3>3, <3>4
    <2>3. Solves(g, m)
      BY <2>2
    <2> QED BY <2>3
  <1> HIDE DEF Solves
  <1>4. MaxCampaigns \in solved
    <2>1. 0 \in solved
      BY <1>0, <1>2
    <2>2. \A m \in 1 .. MaxCampaigns : m - 1 \in solved => m \in solved
      BY <1>0, <1>3
    <2> HIDE DEF solved
    <2>3. \A m \in 0 .. MaxCampaigns : m \in solved
      BY <1>0, <2>1, <2>2, InductionUpTo
    <2> QED BY <1>0, <2>3
  <1>5. Solves(upTo, MaxCampaigns)
    BY <1>4
  <1> HIDE DEF upTo
  <1>6. \A n \in 0 .. MaxCampaigns : upTo[n] = Step(upTo, n)
    <2>1. upTo = [n \in 0 .. MaxCampaigns |-> Step(upTo, n)]
      BY <1>5 DEF Solves
    <2> HIDE DEF Step
    <2> QED BY <2>1
  <1>7. upTo[0] = st
    <2>1. Step(upTo, 0) = st
      OBVIOUS
    <2>2. 0 \in 0 .. MaxCampaigns
      BY <1>0
    <2> HIDE DEF Step
    <2> QED BY <1>6, <2>1, <2>2
  <1>8. \A n \in Campaigns :
           upTo[n] = IF n \in Over(cs) \ st.folded
                     THEN Folded(upTo[n - 1], n, cs[n]) ELSE upTo[n - 1]
    BY <1>0, <1>6
  <1> QED BY <1>1, <1>7, <1>8

-----------------------------------------------------------------------------
(* What the data is made of. *)

LEMMA CampaignNumbers ==
    /\ MaxCampaigns \in Nat /\ Campaigns = 1 .. MaxCampaigns /\ Campaigns \subseteq Nat
    /\ \A c \in Campaigns : 1 <= c /\ c <= MaxCampaigns
  BY NumbersAssumption DEF Campaigns

LEMMA StageFacts ==
    ASSUME stages \in Curricula
    PROVE  /\ Len(stages) \in Nat /\ Len(stages) > 0 /\ DOMAIN stages = 1 .. Len(stages)
           /\ \A k \in DOMAIN stages :
                 /\ stages[k] \in StageSpecs
                 /\ stages[k].templates \in Seq(Templates)
                 /\ stages[k].seedFrom \in 0 .. Len(stages)
                 /\ Len(stages[k].templates) \in Nat
                 /\ DOMAIN stages[k].templates = 1 .. Len(stages[k].templates)
                 /\ \A i \in DOMAIN stages[k].templates : stages[k].templates[i] \in Templates
                 /\ TemplatesOf(k) \subseteq Templates
  <1>1. stages \in Seq(StageSpecs) /\ stages # <<>>
    BY CurriculaAssumption
  <1>2. Len(stages) \in Nat /\ DOMAIN stages = 1 .. Len(stages)
    BY <1>1
  <1>3. Len(stages) # 0
    BY <1>1, EmptySeq
  <1>4. ASSUME NEW k \in DOMAIN stages
        PROVE  /\ stages[k] \in StageSpecs
               /\ stages[k].templates \in Seq(Templates)
               /\ stages[k].seedFrom \in 0 .. Len(stages)
    <2>1. stages[k] \in StageSpecs
      BY <1>1, <1>2
    <2>2. stages[k].seedFrom <= Len(stages)
      BY CurriculaAssumption
    <2>3. stages[k].templates \in Seq(Templates) /\ stages[k].seedFrom \in Nat
      BY <2>1 DEF StageSpecs
    <2> QED BY <1>2, <2>1, <2>2, <2>3
  <1>5. ASSUME NEW k \in DOMAIN stages
        PROVE  /\ Len(stages[k].templates) \in Nat
               /\ DOMAIN stages[k].templates = 1 .. Len(stages[k].templates)
               /\ \A i \in DOMAIN stages[k].templates : stages[k].templates[i] \in Templates
    BY <1>4
  <1>6. ASSUME NEW k \in DOMAIN stages PROVE TemplatesOf(k) \subseteq Templates
    BY <1>5 DEF TemplatesOf
  <1> QED BY <1>2, <1>3, <1>4, <1>5, <1>6

\* The score of a row is that of one of its campaigns, or 0, and no campaign's is above.
LEMMA RowBestIs ==
    ASSUME NEW cs \in [Campaigns -> CampaignRecords], NEW t
    PROVE  /\ RowBest(cs, t) \in Nat
           /\ RowBest(cs, t) > 0 => \E c \in Of(cs, t) : cs[c].best = RowBest(cs, t)
  <1> DEFINE D == Of(cs, t)
             f == [c \in D |-> cs[c].best]
  <1>1. D \in SUBSET (1 .. MaxCampaigns) /\ f \in [D -> Nat]
    BY CampaignNumbers DEF Of, CampaignRecords
  <1>2. RowBest(cs, t) = Max(Values(f))
    BY DEF RowBest, Values
  <1>3. \A c \in D : f[c] = cs[c].best
    OBVIOUS
  <1> HIDE DEF f, D
  <1>4. /\ Values(f) \subseteq Nat /\ Max(Values(f)) \in Values(f)
        /\ Max(Values(f)) > 0 => \E c \in D : f[c] = Max(Values(f))
    BY <1>1, CampaignNumbers, MaxIsThere
  <1> QED BY <1>2, <1>3, <1>4 DEF D

LEMMA RowWinnerIs ==
    ASSUME NEW cs \in [Campaigns -> CampaignRecords], NEW t
    PROVE  RowWinner(cs, t) \in 0 .. MaxCampaigns
  <1> DEFINE S == {c \in Of(cs, t) : cs[c].best = RowBest(cs, t)}
  <1>1. CASE RowBest(cs, t) = 0
    BY <1>1, CampaignNumbers DEF RowWinner
  <1>2. CASE RowBest(cs, t) # 0
    <2>1. S # {}
      BY <1>2, RowBestIs
    <2>2. S \subseteq Campaigns /\ S \subseteq Nat
      BY CampaignNumbers DEF Of
    <2>3. RowWinner(cs, t) = Min(S)
      BY <1>2 DEF RowWinner
    <2> HIDE DEF S
    <2>4. Min(S) \in S
      BY <2>1, <2>2, MinIsThere
    <2>5. Min(S) \in 1 .. MaxCampaigns
      BY <2>2, <2>4, CampaignNumbers
    <2> QED BY <2>3, <2>5, CampaignNumbers
  <1> QED BY <1>1, <1>2

\* The score of a stage is that of one of its rows, or 0.
LEMMA StageBestIs ==
    ASSUME stages \in Curricula, NEW k \in DOMAIN stages,
           NEW cs \in [Campaigns -> CampaignRecords]
    PROVE  /\ StageBest(cs, k) \in Nat
           /\ StageBest(cs, k) > 0 =>
                 \E t \in TemplatesOf(k) : RowBest(cs, t) = StageBest(cs, k)
  <1> DEFINE rows == stages[k].templates
             D == DOMAIN rows
             f == [i \in D |-> RowBest(cs, rows[i])]
  <1>1. Len(rows) \in Nat /\ D \in SUBSET (1 .. Len(rows)) /\ f \in [D -> Nat]
    BY StageFacts, RowBestIs
  <1>2. \A i \in D : f[i] = RowBest(cs, rows[i]) /\ rows[i] \in TemplatesOf(k)
    BY DEF TemplatesOf
  <1>3. StageBest(cs, k) = Max(Values(f))
    <2>1. {RowBest(cs, t) : t \in TemplatesOf(k)} = {f[i] : i \in DOMAIN f}
      BY DEF TemplatesOf
    <2> QED BY <2>1 DEF StageBest, Values
  <1> HIDE DEF f, D, rows
  <1>4. /\ Values(f) \subseteq Nat /\ Max(Values(f)) \in Values(f)
        /\ Max(Values(f)) > 0 => \E i \in D : f[i] = Max(Values(f))
    BY <1>1, MaxIsThere
  <1> QED BY <1>2, <1>3, <1>4

LEMMA StageWinnerIs ==
    ASSUME NEW k, NEW cs \in [Campaigns -> CampaignRecords]
    PROVE  StageWinner(cs, k) \in 0 .. MaxCampaigns
  BY RowWinnerIs, CampaignNumbers DEF StageWinner

-----------------------------------------------------------------------------
(* What the pass makes of the status. *)

\* The part of TypeOK that is about a status, of the pass's copy too.
Sound(st) ==
    /\ st \in Statuses
    /\ st.stage \in DOMAIN stages
    /\ DOMAIN st.history = DOMAIN stages
    /\ \A k \in DOMAIN stages :
          st.history[k].promoted => k < st.stage /\ st.history[k].entered

LEMMA FirstIsSound ==
    ASSUME stages \in Curricula PROVE Sound(FirstStatus(Len(stages)))
  <1>1. AnyTemplate \in Templates
    BY CurriculaAssumption DEF AnyTemplate
  <1>2. NoRecord \in StageRecords
    BY CampaignNumbers DEF NoRecord, StageRecords
  <1> DEFINE h == [k \in 1 .. Len(stages) |-> NoRecord]
  <1>3. Len(stages) \in Nat /\ Len(stages) > 0 /\ DOMAIN stages = 1 .. Len(stages)
    BY StageFacts
  <1>4. h \in Seq(StageRecords) /\ DOMAIN h = DOMAIN stages
    BY <1>2, <1>3
  <1>5. \A k \in DOMAIN stages : h[k].promoted = FALSE
    BY <1>3 DEF NoRecord
  <1> HIDE DEF h
  <1>6. FirstStatus(Len(stages)) =
            [stage |-> 1, history |-> h, stagnation |-> 0, folded |-> {},
             current |-> {}, best |-> 0, score |-> 0, template |-> AnyTemplate]
    BY DEF FirstStatus, h
  <1>7. FirstStatus(Len(stages)) \in Statuses
    BY <1>1, <1>4, <1>6, CampaignNumbers DEF Statuses
  <1> QED BY <1>3, <1>4, <1>5, <1>6, <1>7 DEF Sound

LEMMA FoldedIs ==
    ASSUME NEW st \in Statuses, NEW c \in Campaigns, NEW rec \in CampaignRecords
    PROVE  LET next == Folded(st, c, rec) IN
           /\ next \in Statuses
           /\ next.stage = st.stage /\ next.history = st.history
           /\ next.current = st.current /\ next.folded = st.folded \cup {c}
           /\ next.stagnation <= st.stagnation + 1
           /\ ~Counts(rec) => next.stagnation = st.stagnation
  <1>1. c \in 0 .. MaxCampaigns
    BY DEF Campaigns
  <1>2. rec.best \in Nat /\ rec.template \in Templates
    BY DEF CampaignRecords
  <1>3. st.stagnation \in Nat
    BY DEF Statuses
  <1>4. Folded(st, c, rec).stagnation <= st.stagnation + 1
    BY <1>3 DEF Folded, Statuses
  <1>5. ~Counts(rec) => Folded(st, c, rec).stagnation = st.stagnation
    BY DEF Folded, Statuses
  <1>6. /\ Folded(st, c, rec).stage = st.stage
        /\ Folded(st, c, rec).history = st.history
        /\ Folded(st, c, rec).current = st.current
        /\ Folded(st, c, rec).folded = st.folded \cup {c}
    BY DEF Folded, Statuses
  <1>7. Folded(st, c, rec) \in Statuses
    <2> DEFINE a == Improves(st, rec)
               b == Counts(rec)
    <2> HIDE DEF a, b
    <2>1. Folded(st, c, rec) =
             [st EXCEPT !.folded = @ \cup {c},
                        !.best = IF a THEN c ELSE @,
                        !.score = IF a THEN rec.best ELSE @,
                        !.template = IF a THEN rec.template ELSE @,
                        !.stagnation = IF ~b THEN @ ELSE IF a THEN 0 ELSE @ + 1]
      BY DEF Folded, a, b
    <2>2. /\ st = [stage |-> st.stage, history |-> st.history,
                   stagnation |-> st.stagnation, folded |-> st.folded,
                   current |-> st.current, best |-> st.best, score |-> st.score,
                   template |-> st.template]
          /\ st.stage \in Nat /\ st.history \in Seq(StageRecords)
          /\ st.folded \in SUBSET Campaigns /\ st.current \in SUBSET Campaigns
          /\ st.best \in 0 .. MaxCampaigns /\ st.score \in Nat /\ st.template \in Templates
      BY DEF Statuses
    <2>3. Folded(st, c, rec) =
             [stage |-> st.stage, history |-> st.history,
              stagnation |-> IF ~b THEN st.stagnation
                             ELSE IF a THEN 0 ELSE st.stagnation + 1,
              folded |-> st.folded \cup {c}, current |-> st.current,
              best |-> IF a THEN c ELSE st.best,
              score |-> IF a THEN rec.best ELSE st.score,
              template |-> IF a THEN rec.template ELSE st.template]
      BY <2>1, <2>2
    <2>4. /\ (IF ~b THEN st.stagnation ELSE IF a THEN 0 ELSE st.stagnation + 1) \in Nat
          /\ (IF a THEN c ELSE st.best) \in 0 .. MaxCampaigns
          /\ (IF a THEN rec.best ELSE st.score) \in Nat
          /\ (IF a THEN rec.template ELSE st.template) \in Templates
      BY <1>1, <1>2, <1>3, <2>2
    <2> QED BY <2>2, <2>3, <2>4 DEF Statuses
  <1> QED BY <1>4, <1>5, <1>6, <1>7

\* The campaigns of the stage that ran something, among those of F.
Counted(F, cs) == {c \in F : cs[c].template \in Allowed /\ cs[c].done > 0}

\* Folding touches the best and the stagnation, and the latter goes up only with a
\* campaign of the stage that ran.
LEMMA FoldedAllIs ==
    ASSUME NEW st \in Statuses, NEW cs \in [Campaigns -> CampaignRecords],
           st.stagnation <= Cardinality(Counted(st.folded, cs))
    PROVE  LET next == FoldedAll(st, cs) IN
           /\ next \in Statuses
           /\ next.stage = st.stage /\ next.history = st.history
           /\ next.current = st.current
           /\ next.folded = st.folded \cup Over(cs)
           /\ next.stagnation <= Cardinality(Counted(next.folded, cs))
  <1>0. PICK upTo :
           /\ FoldedAll(st, cs) = upTo[MaxCampaigns]
           /\ upTo[0] = st
           /\ \A n \in Campaigns :
                 upTo[n] = IF n \in Over(cs) \ st.folded
                           THEN Folded(upTo[n - 1], n, cs[n]) ELSE upTo[n - 1]
    BY FoldsUnfold
  <1> DEFINE before(n) == {c \in Over(cs) : c <= n}
             Holds(n) == /\ upTo[n] \in Statuses
                         /\ upTo[n].stage = st.stage /\ upTo[n].history = st.history
                         /\ upTo[n].current = st.current
                         /\ upTo[n].folded = st.folded \cup before(n)
                         /\ upTo[n].stagnation <= Cardinality(Counted(upTo[n].folded, cs))
             good == {n \in 0 .. MaxCampaigns : Holds(n)}
  <1>1. MaxCampaigns \in Nat /\ Campaigns = 1 .. MaxCampaigns /\ Over(cs) \subseteq Campaigns
    BY NumbersAssumption DEF Campaigns, Over
  <1>2. before(0) = {} /\ before(MaxCampaigns) = Over(cs)
    BY <1>1
  <1>3. \A n \in Campaigns :
           before(n) = before(n - 1) \cup (IF n \in Over(cs) THEN {n} ELSE {})
    BY <1>1
  <1>4. Holds(0)
    BY <1>0, <1>2
  <1>5. ASSUME NEW n \in Campaigns, Holds(n - 1) PROVE Holds(n)
    <2> DEFINE old == upTo[n - 1]
    <2>1. CASE n \notin Over(cs) \ st.folded
      <3>1. upTo[n] = old
        BY <1>0, <2>1
      <3>2. st.folded \cup before(n) = st.folded \cup before(n - 1)
        BY <1>3, <2>1
      <3> HIDE DEF before
      <3> QED BY <1>5, <3>1, <3>2
    <2>2. CASE n \in Over(cs) \ st.folded
      <3>1. upTo[n] = Folded(old, n, cs[n])
        BY <1>0, <2>2
      <3>2. before(n) = before(n - 1) \cup {n} /\ n \notin before(n - 1)
        BY <1>1, <1>3, <2>2
      <3> HIDE DEF before, old
      <3>3. /\ old \in Statuses
            /\ old.stage = st.stage /\ old.history = st.history
            /\ old.current = st.current
            /\ old.folded = st.folded \cup before(n - 1)
            /\ old.stagnation <= Cardinality(Counted(old.folded, cs))
        BY <1>5 DEF old
      <3>4. cs[n] \in CampaignRecords
        OBVIOUS
      <3>5. /\ upTo[n] \in Statuses
            /\ upTo[n].stage = old.stage /\ upTo[n].history = old.history
            /\ upTo[n].current = old.current /\ upTo[n].folded = old.folded \cup {n}
            /\ upTo[n].stagnation <= old.stagnation + 1
            /\ ~Counts(cs[n]) => upTo[n].stagnation = old.stagnation
        BY <3>1, <3>3, <3>4, FoldedIs
      <3>6. n \notin old.folded
        BY <2>2, <3>2, <3>3
      <3>7. /\ IsFiniteSet(Counted(old.folded, cs))
            /\ Cardinality(Counted(old.folded, cs)) \in Nat
        <4>0. old.folded \subseteq Campaigns
          BY <3>3 DEF Statuses
        <4>1. Counted(old.folded, cs) \subseteq 1 .. MaxCampaigns
          BY <1>1, <4>0 DEF Counted
        <4>2. IsFiniteSet(1 .. MaxCampaigns)
          BY <1>1, FS_Interval
        <4>3. IsFiniteSet(Counted(old.folded, cs))
          BY <4>1, <4>2, FS_Subset
        <4> QED BY <4>3, FS_CardinalityType
      <3>8. old.stagnation \in Nat /\ upTo[n].stagnation \in Nat
        BY <3>3, <3>5 DEF Statuses
      <3>9. upTo[n].stagnation <= Cardinality(Counted(upTo[n].folded, cs))
        <4>1. CASE Counts(cs[n])
          <5>1. Counted(upTo[n].folded, cs) = Counted(old.folded, cs) \cup {n}
            BY <3>5, <4>1 DEF Counted, Counts
          <5>2. n \notin Counted(old.folded, cs)
            BY <3>6 DEF Counted
          <5>3. Cardinality(Counted(upTo[n].folded, cs))
                    = Cardinality(Counted(old.folded, cs)) + 1
            BY <3>7, <5>1, <5>2, FS_AddElement
          <5> QED BY <3>3, <3>5, <3>7, <3>8, <5>3
        <4>2. CASE ~Counts(cs[n])
          <5>1. Counted(upTo[n].folded, cs) = Counted(old.folded, cs)
            BY <3>5, <4>2 DEF Counted, Counts
          <5> QED BY <3>3, <3>5, <4>2, <5>1
        <4> QED BY <4>1, <4>2
      <3> QED BY <3>2, <3>3, <3>5, <3>9
    <2> QED BY <2>1, <2>2
  <1> HIDE DEF Holds
  <1>6. Holds(MaxCampaigns)
    <2>1. 0 \in good
      BY <1>1, <1>4
    <2>2. \A n \in 1 .. MaxCampaigns : n - 1 \in good => n \in good
      BY <1>1, <1>5
    <2> HIDE DEF good
    <2>3. \A n \in 0 .. MaxCampaigns : n \in good
      BY <1>1, <2>1, <2>2, InductionUpTo
    <2> USE DEF good
    <2> QED BY <1>1, <2>3
  <1> QED BY <1>0, <1>2, <1>6 DEF Holds

\* What has been measured brings the record of the stage up to date; it promotes the
\* drive by one stage, if at all, and then stagnation starts again.
LEMMA EvaluatedIs ==
    ASSUME stages \in Curricula, NEW st, Sound(st),
           NEW cs \in [Campaigns -> CampaignRecords]
    PROVE  LET next == Evaluated(st, cs) IN
           /\ Sound(next)
           /\ next.folded = st.folded /\ next.current = st.current
           /\ \/ next.stage = st.stage /\ next.stagnation = st.stagnation
              \/ /\ next.stage = st.stage + 1 /\ IsPassed(cs, st.stage)
                 /\ next.stagnation = 0
  <1> DEFINE k == st.stage
             h == st.history
             rec == Recorded(h[k], cs, k)
             h1 == [h EXCEPT ![k] = rec]
             now == Unpromoted(st, cs)
             next == Evaluated(st, cs)
  <1>1. /\ Len(stages) \in Nat /\ DOMAIN stages = 1 .. Len(stages)
        /\ k \in DOMAIN stages /\ k \in Nat /\ h \in Seq(StageRecords)
        /\ DOMAIN h = DOMAIN stages
    BY StageFacts DEF Sound, Statuses
  <1>2. h[k] \in StageRecords
    BY <1>1
  <1>3. rec \in StageRecords /\ rec.entered /\ rec.promoted = h[k].promoted
    <2>1. StageWinner(cs, k) \in 0 .. MaxCampaigns
      BY StageWinnerIs
    <2> DEFINE w == [t \in Templates |-> IF t \in TemplatesOf(k) THEN RowWinner(cs, t) ELSE 0]
               b == IF StageWinner(cs, k) = 0 THEN h[k].best ELSE StageWinner(cs, k)
    <2>2. w \in [Templates -> 0 .. MaxCampaigns]
      BY RowWinnerIs, CampaignNumbers
    <2>3. b \in 0 .. MaxCampaigns
      BY <1>2, <2>1 DEF StageRecords
    <2>4. rec = [h[k] EXCEPT !.entered = TRUE, !.winner = w, !.best = b]
      BY <1>2 DEF Recorded, StageRecords
    <2> HIDE DEF w, b, rec
    <2> QED BY <1>2, <2>2, <2>3, <2>4 DEF StageRecords
  <1> HIDE DEF rec
  <1>4. h1 \in Seq(StageRecords) /\ DOMAIN h1 = DOMAIN stages
    BY <1>1, <1>3, ExceptSeq
  <1>5. \A i \in DOMAIN stages : h1[i] = IF i = k THEN rec ELSE h[i]
    BY <1>1
  <1>6. \A i \in DOMAIN stages : h[i].promoted => i < k /\ h[i].entered
    BY DEF Sound
  <1>7. h[k].promoted = FALSE
    <2>1. ~h[k].promoted
      BY <1>1, <1>6
    <2>2. h[k].promoted \in BOOLEAN
      BY <1>2 DEF StageRecords
    <2> QED BY <2>1, <2>2
  <1>8. now = [st EXCEPT !.history = h1]
    BY <1>1 DEF Unpromoted, Sound, Statuses, rec
  <1>9. st \in Statuses
    BY DEF Sound
  <1> HIDE DEF h1, now
  <1>10. /\ now \in Statuses /\ now.stage = k /\ now.history = h1
         /\ now.folded = st.folded /\ now.current = st.current
         /\ now.stagnation = st.stagnation
    BY <1>4, <1>8, <1>9 DEF Statuses
  <1>11. Sound(now)
    <2>1. ASSUME NEW i \in DOMAIN stages, h1[i].promoted PROVE i < k /\ h1[i].entered
      <3>1. i # k
        BY <1>3, <1>5, <1>7, <2>1
      <3> QED BY <1>5, <1>6, <2>1, <3>1
    <2> QED BY <1>1, <1>4, <1>10, <2>1 DEF Sound
  <1>12. CASE ~(IsPassed(cs, k) /\ k < Len(stages))
    <2>1. next = now
      BY <1>12 DEF Evaluated, now
    <2> QED BY <1>10, <1>11, <2>1
  <1>13. CASE IsPassed(cs, k) /\ k < Len(stages)
    <2> DEFINE r1 == [h1[k] EXCEPT !.promoted = TRUE]
               r2 == [h1[k + 1] EXCEPT !.entered = TRUE]
               h2 == [h1 EXCEPT ![k] = r1]
               h3 == [h2 EXCEPT ![k + 1] = r2]
    <2>1. k + 1 \in DOMAIN stages /\ k + 1 # k
      BY <1>1, <1>13
    <2>2. next = Promoted(now)
      BY <1>13 DEF Evaluated, now
    <2>3. /\ h1[k] = rec /\ h1[k] \in StageRecords
          /\ h1[k + 1] = h[k + 1] /\ h1[k + 1] \in StageRecords
      BY <1>1, <1>3, <1>5, <2>1
    <2>4. /\ r1 \in StageRecords /\ r1.entered /\ r1.promoted
          /\ r2 \in StageRecords /\ r2.entered /\ r2.promoted = h[k + 1].promoted
      BY <1>3, <2>3 DEF StageRecords
    <2>5. next = [now EXCEPT !.history = h3, !.stage = k + 1, !.stagnation = 0]
      <3>1. h2[k + 1] = h1[k + 1] /\ h2[k] = r1
        BY <1>1, <1>4, <2>1
      <3> QED BY <1>4, <1>10, <2>1, <2>2, <3>1 DEF Promoted, Statuses
    <2> HIDE DEF r1, r2
    <2>6. h2 \in Seq(StageRecords) /\ DOMAIN h2 = DOMAIN stages
      BY <1>1, <1>4, <2>4, ExceptSeq
    <2>7. h3 \in Seq(StageRecords) /\ DOMAIN h3 = DOMAIN stages
      BY <2>1, <2>4, <2>6, ExceptSeq
    <2>8. \A i \in DOMAIN stages :
             h3[i] = IF i = k + 1 THEN r2 ELSE IF i = k THEN r1 ELSE h1[i]
      BY <1>1, <1>4, <2>1, <2>6
    <2> HIDE DEF h2, h3, next
    <2>9. /\ next \in Statuses /\ next.stage = k + 1 /\ next.history = h3
          /\ next.folded = st.folded /\ next.current = st.current /\ next.stagnation = 0
      <3> DEFINE j == k + 1
      <3>0. j \in Nat
        BY <1>1
      <3> HIDE DEF j
      <3>1. next = [now EXCEPT !.history = h3, !.stage = j, !.stagnation = 0]
        BY <2>5 DEF j
      <3>2. now \in Statuses /\ h3 \in Seq(StageRecords)
        BY <1>10, <2>7
      <3>3. next \in Statuses
        BY <3>0, <3>1, <3>2 DEF Statuses
      <3>4. /\ next.stage = j /\ next.history = h3 /\ next.folded = now.folded
            /\ next.current = now.current /\ next.stagnation = 0
        BY <3>1, <3>2 DEF Statuses
      <3> QED BY <1>10, <3>3, <3>4 DEF j
    <2>10. ASSUME NEW i \in DOMAIN stages, h3[i].promoted
           PROVE  i < k + 1 /\ h3[i].entered
      <3>1. i # k + 1
        <4>1. ~h[k + 1].promoted
          BY <1>1, <1>6, <2>1
        <4> QED BY <2>4, <2>8, <2>10, <4>1
      <3>2. CASE i = k
        BY <1>1, <2>4, <2>8, <3>1, <3>2
      <3>3. CASE i # k
        <4>1. h3[i] = h[i]
          BY <1>5, <2>8, <3>1, <3>3
        <4>2. i < k /\ h[i].entered
          BY <1>6, <2>10, <4>1
        <4> QED BY <1>1, <4>1, <4>2
      <3> QED BY <3>2, <3>3
    <2>11. Sound(next)
      BY <2>1, <2>7, <2>9, <2>10 DEF Sound
    <2> QED BY <1>13, <2>9, <2>11 DEF next
  <1> QED BY <1>12, <1>13

-----------------------------------------------------------------------------
(* The campaigns. *)

\* What is so of one campaign at all times.
GoodRecord(rec) ==
    /\ rec \in CampaignRecords
    /\ rec.succeeded <= rec.done /\ rec.done <= rec.total
    /\ rec.phase = "Absent" => rec.total = 0
    /\ rec.best > 0 => rec.succeeded > 0
    /\ ~rec.crossed

\* A campaign keeps its template and what it has measured.
Outgrows(old, new) ==
    /\ old.done <= new.done /\ old.succeeded <= new.succeeded /\ old.best <= new.best
    /\ old.phase # "Absent" => new.phase # "Absent" /\ new.template = old.template

CampsInv(cs) ==
    /\ DOMAIN cs = Campaigns /\ cs = [c \in Campaigns |-> cs[c]]
    /\ \A c \in Campaigns : GoodRecord(cs[c])
Grows(cs, ds) == \A c \in Campaigns : Outgrows(cs[c], ds[c])

LEMMA PairMax ==
    ASSUME NEW a \in Nat, NEW b \in Nat
    PROVE  Max({a, b}) \in Nat /\ a <= Max({a, b})
  <1> DEFINE S == {a, b}
  <1>1. \E top \in S : \A m \in S : top >= m
    BY a <= b \/ b <= a
  <1>2. Max(S) \in S /\ \A m \in S : Max(S) >= m
    <2> HIDE DEF S
    <2> QED BY <1>1 DEF Max
  <1> DEFINE high == Max(S)
  <1> HIDE DEF high
  <1>3. high \in S /\ high >= a
    BY <1>2 DEF high
  <1>4. high \in Nat /\ a <= high
    BY <1>3
  <1> QED BY <1>4 DEF high

LEMMA CampsTyped ==
    ASSUME NEW cs, CampsInv(cs) PROVE cs \in [Campaigns -> CampaignRecords]
  BY DEF CampsInv, GoodRecord

\* One campaign changes.
LEMMA OneChanges ==
    ASSUME NEW cs, CampsInv(cs), NEW c \in Campaigns, NEW rec, GoodRecord(rec),
           Outgrows(cs[c], rec)
    PROVE  CampsInv([cs EXCEPT ![c] = rec]) /\ Grows(cs, [cs EXCEPT ![c] = rec])
  <1> DEFINE ds == [cs EXCEPT ![c] = rec]
  <1>1. DOMAIN ds = Campaigns /\ \A d \in Campaigns : ds[d] = IF d = c THEN rec ELSE cs[d]
    BY DEF CampsInv
  <1>2. ds = [d \in Campaigns |-> ds[d]]
    BY DEF CampsInv
  <1> HIDE DEF ds
  <1>3. \A d \in Campaigns : GoodRecord(ds[d])
    BY <1>1 DEF CampsInv
  <1>4. \A d \in Campaigns : d # c => Outgrows(cs[d], ds[d])
    <2>1. ASSUME NEW d \in Campaigns, d # c PROVE Outgrows(cs[d], cs[d])
      BY DEF Outgrows, CampsInv, GoodRecord, CampaignRecords
    <2> QED BY <1>1, <2>1
  <1>5. Outgrows(cs[c], ds[c])
    BY <1>1
  <1> QED BY <1>1, <1>2, <1>3, <1>4, <1>5 DEF CampsInv, Grows, ds

LEMMA NothingChanges ==
    ASSUME NEW cs, CampsInv(cs) PROVE Grows(cs, cs)
  BY DEF Outgrows, CampsInv, GoodRecord, CampaignRecords, Grows

LEMMA WorldStep ==
    ASSUME CampsInv(camps), NEW c \in Campaigns, Launch(c) \/ Finish(c) \/ Complete(c)
    PROVE  CampsInv(camps') /\ Grows(camps, camps')
  <1> DEFINE me == camps[c]
  <1>1. GoodRecord(me)
    BY DEF CampsInv
  <1>2. /\ me \in CampaignRecords /\ me.total \in Nat /\ me.done \in Nat
        /\ me.succeeded \in Nat /\ me.best \in Nat /\ me.phase \in {"Absent", "Active", "Ended"}
    BY <1>1 DEF GoodRecord, CampaignRecords
  <1>3. \E rec : camps' = [camps EXCEPT ![c] = rec] /\ GoodRecord(rec) /\ Outgrows(me, rec)
    <2>1. CASE Launch(c)
      <3> DEFINE rec == [me EXCEPT !.total = @ + 1]
      <3>1. camps' = [camps EXCEPT ![c] = rec] /\ me.phase = "Active"
        BY <2>1 DEF Launch, Set
      <3> HIDE DEF me
      <3>2. GoodRecord(rec)
        BY <1>1, <1>2, <3>1 DEF GoodRecord, CampaignRecords
      <3>3. Outgrows(me, rec)
        BY <1>1, <1>2 DEF Outgrows, CampaignRecords
      <3> QED BY <3>1, <3>2, <3>3
    <2>2. CASE Finish(c)
      <3>0. me.done < me.total
        BY <2>2 DEF Finish
      <3>1. CASE camps' = [camps EXCEPT ![c] = [me EXCEPT !.done = @ + 1]]
        <4> DEFINE rec == [me EXCEPT !.done = @ + 1]
        <4> HIDE DEF me
        <4>1. GoodRecord(rec)
          BY <1>1, <1>2, <3>0 DEF GoodRecord, CampaignRecords
        <4>2. Outgrows(me, rec)
          BY <1>1, <1>2 DEF Outgrows, CampaignRecords
        <4> QED BY <3>1, <4>1, <4>2
      <3>2. ASSUME NEW s \in Scores,
                   camps' = [camps EXCEPT ![c] =
                                [me EXCEPT !.done = @ + 1, !.succeeded = @ + 1,
                                           !.best = Max({@, s})]]
            PROVE  \E rec : /\ camps' = [camps EXCEPT ![c] = rec]
                            /\ GoodRecord(rec) /\ Outgrows(me, rec)
        <4>1. Max({me.best, s}) \in Nat /\ me.best <= Max({me.best, s})
          BY <1>2, NumbersAssumption, PairMax
        <4> DEFINE high == Max({me.best, s})
                   rec == [me EXCEPT !.done = @ + 1, !.succeeded = @ + 1, !.best = high]
        <4>2. camps' = [camps EXCEPT ![c] = rec]
          BY <3>2
        <4> HIDE DEF high, me
        <4>3. high \in Nat /\ me.best <= high
          BY <4>1 DEF high
        <4>4. GoodRecord(rec)
          <5>1. rec \in CampaignRecords
            <6> DEFINE r1 == [me EXCEPT !.done = me.done + 1]
                       r2 == [r1 EXCEPT !.succeeded = me.succeeded + 1]
            <6>1. rec = [r2 EXCEPT !.best = high]
              BY <1>2 DEF CampaignRecords
            <6>2. r1 \in CampaignRecords
              BY <1>2 DEF CampaignRecords
            <6> HIDE DEF r1, rec
            <6>3. r2 \in CampaignRecords
              BY <1>2, <6>2 DEF CampaignRecords
            <6> HIDE DEF r2
            <6> QED BY <4>3, <6>1, <6>3 DEF CampaignRecords
          <5>2. /\ rec.done = me.done + 1 /\ rec.succeeded = me.succeeded + 1
                /\ rec.total = me.total /\ rec.phase = me.phase /\ rec.best = high
                /\ rec.crossed = me.crossed
            BY <1>2 DEF CampaignRecords
          <5> HIDE DEF rec
          <5> QED BY <1>1, <1>2, <3>0, <4>3, <5>1, <5>2 DEF GoodRecord
        <4>5. Outgrows(me, rec)
          BY <1>1, <1>2, <4>3 DEF Outgrows, CampaignRecords
        <4> QED BY <4>2, <4>4, <4>5
      <3>3. \/ camps' = [camps EXCEPT ![c] = [me EXCEPT !.done = @ + 1]]
            \/ \E s \in Scores :
                  camps' = [camps EXCEPT ![c] =
                                [me EXCEPT !.done = @ + 1, !.succeeded = @ + 1,
                                           !.best = Max({@, s})]]
        BY <2>2 DEF Finish, Set
      <3> QED BY <3>1, <3>2, <3>3
    <2>3. CASE Complete(c)
      <3> DEFINE rec == [me EXCEPT !.phase = "Ended"]
      <3>1. camps' = [camps EXCEPT ![c] = rec]
        BY <2>3 DEF Complete, Set
      <3> HIDE DEF me
      <3>2. GoodRecord(rec)
        BY <1>1, <1>2 DEF GoodRecord, CampaignRecords
      <3>3. Outgrows(me, rec)
        BY <1>1, <1>2 DEF Outgrows, CampaignRecords
      <3> QED BY <3>1, <3>2, <3>3
    <2> QED BY <2>1, <2>2, <2>3
  <1>4. PICK rec : camps' = [camps EXCEPT ![c] = rec] /\ GoodRecord(rec) /\ Outgrows(me, rec)
    BY <1>3
  <1>5. /\ CampsInv([camps EXCEPT ![c] = rec])
        /\ Grows(camps, [camps EXCEPT ![c] = rec])
    BY <1>4, OneChanges
  <1> QED BY <1>4, <1>5

LEMMA WindDownStep ==
    ASSUME CampsInv(camps), pass \in Passes, NEW c \in Campaigns, WindDown(c)
    PROVE  CampsInv(camps') /\ Grows(camps, camps')
  <1> DEFINE me == camps[c]
             rec == [me EXCEPT !.max = pass.total[c]]
  <1>1. camps' = camps \/ camps' = [camps EXCEPT ![c] = rec]
    BY DEF WindDown
  <1>2. GoodRecord(me) /\ pass.total[c] \in Nat
    BY DEF CampsInv, Passes
  <1> HIDE DEF me
  <1>3. GoodRecord(rec)
    BY <1>2 DEF GoodRecord, CampaignRecords
  <1>4. Outgrows(me, rec)
    BY <1>2 DEF Outgrows, GoodRecord, CampaignRecords
  <1> USE DEF me
  <1> HIDE DEF rec
  <1>5. CampsInv([camps EXCEPT ![c] = rec]) /\ Grows(camps, [camps EXCEPT ![c] = rec])
    BY <1>3, <1>4, OneChanges
  <1> QED BY <1>1, <1>5, NothingChanges

\* The seed an action that names none is given fits its template.
LEMMA SeedFits ==
    ASSUME stages \in Curricula, Sound(status), NEW t \in Allowed, NEW kind
    PROVE  DefaultSeed(t, kind) # 0 => Fits(t, DefaultSeed(t, kind))
  <1> DEFINE own == {i \in DOMAIN stages : t \in TemplatesOf(i)}
             k == Min(own)
             from == stages[k].seedFrom
             list == Candidates(t)
             fitting == {i \in DOMAIN list : list[i] # 0 /\ Fits(t, list[i])}
  <1>1. k \in DOMAIN stages
    <2>1. status.stage \in own /\ own \subseteq Nat
      BY StageFacts DEF Sound, Allowed
    <2> HIDE DEF own
    <2>2. Min(own) \in own
      BY <2>1, MinIsThere
    <2> QED BY <2>2 DEF own
  <1>2. from \in 0 .. Len(stages)
    <2> HIDE DEF k
    <2> QED BY <1>1, StageFacts
  <1>3. DOMAIN list \subseteq Nat
    <2> HIDE DEF k
    <2>1. CASE from = 0
      <3>1. list = <<>>
        BY <2>1 DEF Candidates, k
      <3> QED BY <3>1
    <2>2. CASE from # 0
      <3> DEFINE rows == stages[from].templates
                 won == [i \in DOMAIN rows |-> status.history[from].winner[rows[i]]]
                 last == <<status.history[from].best>>
      <3>0. list = won \o last
        BY <2>2 DEF Candidates, k
      <3>1. from \in DOMAIN stages
        BY <1>2, <2>2, StageFacts
      <3>2. Len(rows) \in Nat /\ DOMAIN rows = 1 .. Len(rows)
        BY <3>1, StageFacts
      <3>3. \A i \in DOMAIN rows : rows[i] \in Templates
        BY <3>1, StageFacts
      <3>4. status.history \in Seq(StageRecords) /\ from \in DOMAIN status.history
        BY <3>1 DEF Sound, Statuses
      <3>5. status.history[from] \in StageRecords
        BY <3>4
      <3>6. won \in [1 .. Len(rows) -> 0 .. MaxCampaigns]
        BY <3>2, <3>3, <3>5 DEF StageRecords
      <3>7. status.history[from].best \in 0 .. MaxCampaigns
        BY <3>5 DEF StageRecords
      <3> HIDE DEF won, rows
      <3>8. won \in Seq(0 .. MaxCampaigns)
        BY <3>2, <3>6, SeqDef
      <3>9. last \in Seq(0 .. MaxCampaigns)
        BY <3>7
      <3> HIDE DEF last
      <3>10. won \o last \in Seq(0 .. MaxCampaigns)
        BY <3>8, <3>9, ConcatProperties
      <3>11. list \in Seq(0 .. MaxCampaigns)
        BY <3>0, <3>10
      <3> HIDE DEF list
      <3> QED BY <3>11
    <2> QED BY <2>1, <2>2
  <1> HIDE DEF k, list
  <1>4. fitting # {} => list[Min(fitting)] # 0 /\ Fits(t, list[Min(fitting)])
    <2>1. fitting \subseteq Nat
      BY <1>3
    <2>2. \A i \in fitting : list[i] # 0 /\ Fits(t, list[i])
      OBVIOUS
    <2> HIDE DEF fitting
    <2> QED BY <2>1, <2>2, MinIsThere
  <1>5. DefaultSeed(t, kind) =
            IF fitting # {} THEN list[Min(fitting)]
            ELSE IF kind = "consolidate" /\ status.best # 0 /\ Fits(t, status.best)
                 THEN status.best ELSE 0
    BY DEF DefaultSeed, list
  <1> HIDE DEF fitting
  <1> QED BY <1>4, <1>5

LEMMA ForkStep ==
    ASSUME stages \in Curricula, Sound(status), CampsInv(camps), NEW c \in Campaigns,
           NEW t \in Templates, NEW kind, NEW named, Fork(c, t, kind, named)
    PROVE  CampsInv(camps') /\ Grows(camps, camps')
  <1> DEFINE seed == IF named # 0 THEN named ELSE DefaultSeed(t, kind)
             crossed == seed # 0 /\ Crossed(t, seed)
             r1 == [NoCampaign EXCEPT !.phase = "Active"]
             r2 == [r1 EXCEPT !.template = t]
             r3 == [r2 EXCEPT !.max = Budget]
             rec == [NoCampaign EXCEPT !.phase = "Active", !.template = t,
                                       !.max = Budget, !.crossed = crossed]
  <1>1. t \in Allowed /\ camps[c].phase = "Absent" /\ (named # 0 => Fits(t, named))
    BY DEF Fork
  <1>2. crossed = FALSE
    <2>1. CASE named # 0
      BY <1>1, <2>1 DEF Fits
    <2>2. CASE named = 0
      <3>1. seed = DefaultSeed(t, kind)
        BY <2>2
      <3> HIDE DEF seed
      <3> QED BY <1>1, <3>1, SeedFits DEF Fits
    <2> QED BY <2>1, <2>2
  <1>3. camps' = [camps EXCEPT ![c] = rec]
    BY DEF Fork
  <1> HIDE DEF crossed
  <1>4. rec \in CampaignRecords
    <2>1. NoCampaign \in CampaignRecords
      BY CurriculaAssumption DEF NoCampaign, CampaignRecords, AnyTemplate
    <2>2. rec = [r3 EXCEPT !.crossed = FALSE]
      BY <1>2 DEF NoCampaign
    <2> HIDE DEF rec
    <2>3. r1 \in CampaignRecords
      BY <2>1 DEF CampaignRecords
    <2> HIDE DEF r1
    <2>4. r2 \in CampaignRecords
      BY <2>3 DEF CampaignRecords
    <2> HIDE DEF r2
    <2>5. r3 \in CampaignRecords
      BY <2>4, NumbersAssumption DEF CampaignRecords
    <2> HIDE DEF r3
    <2> QED BY <2>2, <2>5 DEF CampaignRecords
  <1>5. /\ rec.phase = "Active" /\ rec.total = 0 /\ rec.done = 0 /\ rec.succeeded = 0
        /\ rec.best = 0 /\ rec.crossed = FALSE
    BY <1>2 DEF NoCampaign
  <1> HIDE DEF rec
  <1>6. GoodRecord(rec)
    BY <1>4, <1>5 DEF GoodRecord
  <1>7. Outgrows(camps[c], rec)
    <2>1. GoodRecord(camps[c])
      BY DEF CampsInv
    <2> QED BY <1>1, <1>5, <2>1 DEF GoodRecord, Outgrows, CampaignRecords
  <1>8. CampsInv([camps EXCEPT ![c] = rec]) /\ Grows(camps, [camps EXCEPT ![c] = rec])
    BY <1>6, <1>7, OneChanges
  <1> QED BY <1>3, <1>8

\* The campaigns in any step.
LEMMA CampsStep ==
    ASSUME stages \in Curricula, Sound(status), pass \in Passes, CampsInv(camps),
           [Next]_vars
    PROVE  CampsInv(camps') /\ Grows(camps, camps')
  <1>1. CASE camps' = camps
    BY <1>1, NothingChanges
  <1>2. ASSUME NEW c \in Campaigns, Launch(c) \/ Finish(c) \/ Complete(c)
        PROVE  CampsInv(camps') /\ Grows(camps, camps')
    BY <1>2, WorldStep
  <1>3. ASSUME NEW c \in Campaigns, WindDown(c) PROVE CampsInv(camps') /\ Grows(camps, camps')
    BY <1>3, WindDownStep
  <1>4. CASE Propose
    BY <1>4, ForkStep DEF Propose
  <1>5. Begin \/ Answered \/ Write \/ Abort \/ UNCHANGED vars => camps' = camps
    BY DEF Begin, Answered, Write, Abort, vars
  <1> QED BY <1>1, <1>2, <1>3, <1>4, <1>5 DEF Next, PassStep, World

-----------------------------------------------------------------------------
(* Evidence. *)

LEMMA RunsMonotone ==
    ASSUME NEW cs \in [Campaigns -> CampaignRecords],
           NEW ds \in [Campaigns -> CampaignRecords], NEW S, NEW T,
           \A n \in Campaigns : n \in S =>
              cs[n].succeeded = 0 \/ (n \in T /\ cs[n].succeeded <= ds[n].succeeded)
    PROVE  RunsOf(cs, S) \in Nat /\ RunsOf(ds, T) \in Nat /\ RunsOf(cs, S) <= RunsOf(ds, T)
  <1>1. PICK f : /\ RunsOf(cs, S) = f[MaxCampaigns]
                 /\ f[0] = 0
                 /\ \A n \in Campaigns :
                       f[n] = IF n \in S THEN f[n - 1] + cs[n].succeeded ELSE f[n - 1]
    BY RunsUnfold
  <1>2. PICK g : /\ RunsOf(ds, T) = g[MaxCampaigns]
                 /\ g[0] = 0
                 /\ \A n \in Campaigns :
                       g[n] = IF n \in T THEN g[n - 1] + ds[n].succeeded ELSE g[n - 1]
    BY RunsUnfold
  <1>3. \A n \in Campaigns : cs[n].succeeded \in Nat /\ ds[n].succeeded \in Nat
    BY DEF CampaignRecords
  <1> DEFINE Holds(n) == f[n] \in Nat /\ g[n] \in Nat /\ f[n] <= g[n]
             good == {n \in 0 .. MaxCampaigns : Holds(n)}
  <1>4. Holds(0)
    BY <1>1, <1>2
  <1>5. ASSUME NEW n \in Campaigns, Holds(n - 1) PROVE Holds(n)
    <2> DEFINE a == cs[n].succeeded
               b == ds[n].succeeded
               x == f[n - 1]
               y == g[n - 1]
    <2>1. /\ a \in Nat /\ b \in Nat /\ x \in Nat /\ y \in Nat /\ x <= y
          /\ n \in S => a = 0 \/ (n \in T /\ a <= b)
      BY <1>3, <1>5
    <2>2. f[n] = IF n \in S THEN x + a ELSE x
      BY <1>1
    <2>3. g[n] = IF n \in T THEN y + b ELSE y
      BY <1>2
    <2> HIDE DEF a, b, x, y
    <2> QED BY <2>1, <2>2, <2>3
  <1> HIDE DEF Holds
  <1>6. Holds(MaxCampaigns)
    <2>1. 0 \in good
      BY <1>4, CampaignNumbers
    <2>2. \A n \in 1 .. MaxCampaigns : n - 1 \in good => n \in good
      BY <1>5, CampaignNumbers
    <2> HIDE DEF good
    <2>3. \A n \in 0 .. MaxCampaigns : n \in good
      BY <2>1, <2>2, CampaignNumbers, InductionUpTo
    <2> USE DEF good
    <2> QED BY <2>3, CampaignNumbers
  <1> QED BY <1>1, <1>2, <1>6 DEF Holds

\* The campaigns of template t that had a run succeed.
GoodOf(cs, t) == {c \in Campaigns : cs[c].template = t /\ cs[c].succeeded > 0}
Reached(cs, C, k) == \E c \in C : cs[c].best >= stages[k].threshold
EnoughRuns(cs, C, k) == RunsOf(cs, C) >= stages[k].least

\* What StageIsEarned asks of stage k.
Evidence(cs, k) ==
    LET all == UNION {GoodOf(cs, t) : t \in TemplatesOf(k)} IN
    /\ stages[k].gated
    /\ Reached(cs, all, k)
    /\ EnoughRuns(cs, all, k)
    /\ stages[k].quantifier = "All" =>
           \A t \in TemplatesOf(k) :
              Reached(cs, GoodOf(cs, t), k) /\ EnoughRuns(cs, GoodOf(cs, t), k)

\* A campaign that succeeded stays in the set of its template.
LEMMA GoodOfGrows ==
    ASSUME NEW cs, CampsInv(cs), NEW ds, CampsInv(ds), Grows(cs, ds), NEW t
    PROVE  \A c \in GoodOf(cs, t) :
              /\ c \in GoodOf(ds, t)
              /\ cs[c].succeeded <= ds[c].succeeded /\ cs[c].best <= ds[c].best
  <1> SUFFICES ASSUME NEW c \in GoodOf(cs, t)
               PROVE  /\ c \in GoodOf(ds, t)
                      /\ cs[c].succeeded <= ds[c].succeeded /\ cs[c].best <= ds[c].best
    OBVIOUS
  <1>1. c \in Campaigns /\ cs[c].template = t /\ cs[c].succeeded > 0
    BY DEF GoodOf
  <1>2. GoodRecord(cs[c]) /\ GoodRecord(ds[c]) /\ Outgrows(cs[c], ds[c])
    BY <1>1 DEF CampsInv, Grows
  <1>3. cs[c].phase # "Absent"
    BY <1>1, <1>2 DEF GoodRecord, CampaignRecords
  <1>4. /\ ds[c].template = t /\ cs[c].succeeded <= ds[c].succeeded
        /\ cs[c].best <= ds[c].best
    BY <1>1, <1>2, <1>3 DEF Outgrows
  <1>5. ds[c].succeeded > 0
    BY <1>1, <1>2, <1>4 DEF GoodRecord, CampaignRecords
  <1> QED BY <1>1, <1>4, <1>5 DEF GoodOf

LEMMA ReachedGrows ==
    ASSUME stages \in Curricula, NEW k \in DOMAIN stages,
           NEW cs, CampsInv(cs), NEW ds, CampsInv(ds), NEW S \in SUBSET Campaigns, NEW T,
           \A c \in S : c \in T /\ cs[c].best <= ds[c].best, Reached(cs, S, k)
    PROVE  Reached(ds, T, k)
  <1>1. PICK c \in S : cs[c].best >= stages[k].threshold
    BY DEF Reached
  <1>2. c \in T /\ cs[c].best <= ds[c].best
    OBVIOUS
  <1>3. cs[c].best \in Nat /\ ds[c].best \in Nat
    BY DEF CampsInv, GoodRecord, CampaignRecords
  <1>4. stages[k].threshold \in Nat
    BY StageFacts DEF StageSpecs
  <1>5. ds[c].best >= stages[k].threshold
    BY <1>1, <1>2, <1>3, <1>4
  <1> QED BY <1>2, <1>5 DEF Reached

LEMMA EnoughGrows ==
    ASSUME stages \in Curricula, NEW k \in DOMAIN stages,
           NEW cs, CampsInv(cs), NEW ds, CampsInv(ds), NEW S, NEW T,
           \A n \in Campaigns : n \in S =>
              cs[n].succeeded = 0 \/ (n \in T /\ cs[n].succeeded <= ds[n].succeeded),
           EnoughRuns(cs, S, k)
    PROVE  EnoughRuns(ds, T, k)
  <1>1. stages[k].least \in Nat
    BY StageFacts DEF StageSpecs
  <1>2. /\ RunsOf(cs, S) \in Nat /\ RunsOf(ds, T) \in Nat
        /\ RunsOf(cs, S) <= RunsOf(ds, T)
    BY CampsTyped, RunsMonotone
  <1> QED BY <1>1, <1>2 DEF EnoughRuns

\* Evidence is not lost: campaigns only gain runs and scores.
LEMMA EvidenceStays ==
    ASSUME stages \in Curricula, NEW k \in DOMAIN stages,
           NEW cs, CampsInv(cs), NEW ds, CampsInv(ds), Grows(cs, ds), Evidence(cs, k)
    PROVE  Evidence(ds, k)
  <1> DEFINE all(es) == UNION {GoodOf(es, t) : t \in TemplatesOf(k)}
  <1>1. \A t : GoodOf(cs, t) \in SUBSET Campaigns
    BY DEF GoodOf
  <1>2. \A c \in all(cs) :
           /\ c \in all(ds) /\ c \in Campaigns
           /\ cs[c].succeeded <= ds[c].succeeded /\ cs[c].best <= ds[c].best
    BY <1>1, GoodOfGrows
  <1>3. ASSUME NEW t \in TemplatesOf(k), Reached(cs, GoodOf(cs, t), k),
               EnoughRuns(cs, GoodOf(cs, t), k)
        PROVE  Reached(ds, GoodOf(ds, t), k) /\ EnoughRuns(ds, GoodOf(ds, t), k)
    <2>1. \A c \in GoodOf(cs, t) :
             /\ c \in GoodOf(ds, t)
             /\ cs[c].succeeded <= ds[c].succeeded /\ cs[c].best <= ds[c].best
      BY GoodOfGrows
    <2>2. Reached(ds, GoodOf(ds, t), k)
      BY <1>1, <1>3, <2>1, ReachedGrows
    <2>3. EnoughRuns(ds, GoodOf(ds, t), k)
      BY <1>3, <2>1, EnoughGrows
    <2> QED BY <2>2, <2>3
  <1>4. stages[k].gated /\ Reached(cs, all(cs), k) /\ EnoughRuns(cs, all(cs), k)
    BY DEF Evidence
  <1>5. stages[k].quantifier = "All" =>
           \A t \in TemplatesOf(k) :
              Reached(ds, GoodOf(ds, t), k) /\ EnoughRuns(ds, GoodOf(ds, t), k)
    BY <1>3 DEF Evidence
  <1> HIDE DEF all
  <1>6. Reached(ds, all(ds), k)
    <2>1. all(cs) \in SUBSET Campaigns
      BY <1>2
    <2> QED BY <1>2, <1>4, <2>1, ReachedGrows
  <1>7. EnoughRuns(ds, all(ds), k)
    BY <1>2, <1>4, EnoughGrows
  <1> QED BY <1>4, <1>5, <1>6, <1>7 DEF Evidence, all

\* A campaign with a score had a run succeed.
LEMMA ScoreIsOfASuccess ==
    ASSUME NEW cs, CampsInv(cs), NEW t, RowBest(cs, t) > 0
    PROVE  \E c \in GoodOf(cs, t) : cs[c].best = RowBest(cs, t)
  <1>1. PICK c \in Of(cs, t) : cs[c].best = RowBest(cs, t)
    BY CampsTyped, RowBestIs
  <1>2. c \in Campaigns /\ cs[c].template = t
    BY DEF Of
  <1>3. cs[c].succeeded > 0
    BY <1>1, <1>2 DEF CampsInv, GoodRecord
  <1> QED BY <1>1, <1>2, <1>3 DEF GoodOf

\* Of the campaigns that count for a row only the good ones have runs that succeeded.
LEMMA RowIsOfTheGood ==
    ASSUME NEW cs, CampsInv(cs), NEW t, NEW n \in Of(cs, t)
    PROVE  cs[n].succeeded = 0 \/ n \in GoodOf(cs, t)
  <1>1. n \in Campaigns /\ cs[n].template = t
    BY DEF Of
  <1>2. cs[n].succeeded \in Nat
    BY <1>1 DEF CampsInv, GoodRecord, CampaignRecords
  <1> QED BY <1>1, <1>2 DEF GoodOf

\* What promotes a drive is evidence for the stage it leaves.
LEMMA EvidenceFound ==
    ASSUME stages \in Curricula, NEW k \in DOMAIN stages, NEW cs, CampsInv(cs),
           IsPassed(cs, k)
    PROVE  Evidence(cs, k)
  <1> DEFINE all == UNION {GoodOf(cs, t) : t \in TemplatesOf(k)}
             rows == UNION {Of(cs, t) : t \in TemplatesOf(k)}
             Row(t) == Reached(cs, GoodOf(cs, t), k) /\ EnoughRuns(cs, GoodOf(cs, t), k)
  <1>0. stages[k] \in StageSpecs /\ cs \in [Campaigns -> CampaignRecords]
    BY StageFacts, CampsTyped
  <1>1. \A n \in Campaigns : cs[n].succeeded \in Nat
    BY <1>0 DEF CampaignRecords
  <1>2. \A t \in TemplatesOf(k) : \A c \in GoodOf(cs, t) : c \in all
    OBVIOUS
  <1>3. CASE /\ stages[k].quantifier = "Any" /\ stages[k].gated
             /\ StageRuns(cs, k) >= stages[k].least
             /\ StageBest(cs, k) > 0 /\ StageBest(cs, k) >= stages[k].threshold
    <2>1. PICK t \in TemplatesOf(k) : RowBest(cs, t) = StageBest(cs, k)
      BY <1>0, <1>3, StageBestIs
    <2>2. PICK c \in GoodOf(cs, t) : cs[c].best = StageBest(cs, k)
      BY <1>3, <2>1, ScoreIsOfASuccess
    <2>3. Reached(cs, all, k)
      BY <1>2, <1>3, <2>2 DEF Reached
    <2>4. EnoughRuns(cs, rows, k)
      BY <1>3 DEF EnoughRuns, StageRuns
    <2>5. \A n \in Campaigns : n \in rows =>
             cs[n].succeeded = 0 \/ (n \in all /\ cs[n].succeeded <= cs[n].succeeded)
      <3> SUFFICES ASSUME NEW n \in Campaigns, NEW u \in TemplatesOf(k), n \in Of(cs, u)
                   PROVE  \/ cs[n].succeeded = 0
                          \/ n \in all /\ cs[n].succeeded <= cs[n].succeeded
        OBVIOUS
      <3> QED BY <1>1, <1>2, RowIsOfTheGood
    <2> HIDE DEF all, rows
    <2>6. EnoughRuns(cs, all, k)
      BY <2>4, <2>5, EnoughGrows
    <2> QED BY <1>3, <2>3, <2>6 DEF Evidence, all
  <1>4. CASE /\ stages[k].quantifier = "All" /\ stages[k].gated
             /\ TemplatesOf(k) # {} /\ \A t \in TemplatesOf(k) : RowPassed(cs, k, t)
    <2>1. ASSUME NEW t \in TemplatesOf(k) PROVE Row(t)
      <3>1. /\ RowBest(cs, t) >= stages[k].threshold /\ RowBest(cs, t) > 0
            /\ RowRuns(cs, t) >= stages[k].least
        BY <1>4 DEF RowPassed
      <3>2. Reached(cs, GoodOf(cs, t), k)
        BY <3>1, ScoreIsOfASuccess DEF Reached
      <3>3. EnoughRuns(cs, Of(cs, t), k)
        BY <3>1 DEF EnoughRuns, RowRuns
      <3>4. \A n \in Campaigns : n \in Of(cs, t) =>
               \/ cs[n].succeeded = 0
               \/ n \in GoodOf(cs, t) /\ cs[n].succeeded <= cs[n].succeeded
        BY <1>1, RowIsOfTheGood
      <3>5. EnoughRuns(cs, GoodOf(cs, t), k)
        BY <3>3, <3>4, EnoughGrows
      <3> QED BY <3>2, <3>5
    <2>2. PICK t \in TemplatesOf(k) : Row(t)
      BY <1>4, <2>1
    <2>3. Reached(cs, all, k)
      BY <1>2, <2>2 DEF Reached
    <2>4. \A n \in Campaigns : n \in GoodOf(cs, t) =>
             \/ cs[n].succeeded = 0
             \/ n \in all /\ cs[n].succeeded <= cs[n].succeeded
      BY <1>1, <1>2
    <2>5. EnoughRuns(cs, all, k)
      <3> HIDE DEF all
      <3> QED BY <2>2, <2>4, EnoughGrows
    <2>6. \A u \in TemplatesOf(k) :
             Reached(cs, GoodOf(cs, u), k) /\ EnoughRuns(cs, GoodOf(cs, u), k)
      BY <2>1
    <2> QED BY <1>4, <2>3, <2>5, <2>6 DEF Evidence
  <1> QED BY <1>3, <1>4 DEF IsPassed

-----------------------------------------------------------------------------
(* The invariant. *)

\* The campaigns of F of stage k that ran something.
CountedOf(cs, F, k) ==
    {c \in F : cs[c].template \in TemplatesOf(k) /\ cs[c].done > 0}

\* What is so of the status and of the copy of it that a pass works on.
Steady(st, cs) ==
    /\ Sound(st)
    /\ st.stagnation <= Cardinality(CountedOf(cs, st.folded, st.stage))
    /\ \A k \in DOMAIN stages : k < st.stage => Evidence(cs, k)

CurriculumInv ==
    /\ stages \in Curricula
    /\ CampsInv(camps)
    /\ pass \in Passes
    /\ cuts \in 0 .. MaxCuts
    /\ Steady(status, camps)
    /\ pass.step # "Idle" => Steady(pass.st, camps)

LEMMA CountedFinite ==
    ASSUME NEW cs, NEW F \in SUBSET Campaigns, NEW k
    PROVE  /\ IsFiniteSet(CountedOf(cs, F, k))
           /\ Cardinality(CountedOf(cs, F, k)) \in Nat
  <1>1. CountedOf(cs, F, k) \subseteq 1 .. MaxCampaigns
    BY CampaignNumbers DEF CountedOf
  <1>2. IsFiniteSet(1 .. MaxCampaigns)
    BY CampaignNumbers, FS_Interval
  <1>3. IsFiniteSet(CountedOf(cs, F, k))
    BY <1>1, <1>2, FS_Subset
  <1> QED BY <1>3, FS_CardinalityType

\* What the campaigns do keeps a status steady.
LEMMA SteadyStays ==
    ASSUME stages \in Curricula, NEW st, NEW cs, CampsInv(cs), NEW ds, CampsInv(ds),
           Grows(cs, ds), Steady(st, cs)
    PROVE  Steady(st, ds)
  <1>1. Sound(st) /\ st.folded \in SUBSET Campaigns /\ st.stagnation \in Nat
    BY DEF Steady, Sound, Statuses
  <1>2. \A k \in DOMAIN stages : k < st.stage => Evidence(ds, k)
    BY EvidenceStays DEF Steady
  <1> DEFINE old == CountedOf(cs, st.folded, st.stage)
             new == CountedOf(ds, st.folded, st.stage)
  <1>3. old \subseteq new
    <2>1. ASSUME NEW c \in old PROVE c \in new
      <3>1. c \in Campaigns /\ c \in st.folded /\ cs[c].done > 0
            /\ cs[c].template \in TemplatesOf(st.stage)
        BY <1>1 DEF CountedOf
      <3>2. GoodRecord(cs[c]) /\ GoodRecord(ds[c]) /\ Outgrows(cs[c], ds[c])
        BY <3>1 DEF CampsInv, Grows
      <3>3. cs[c].phase # "Absent"
        BY <3>1, <3>2 DEF GoodRecord, CampaignRecords
      <3>4. ds[c].template = cs[c].template
        BY <3>2, <3>3 DEF Outgrows
      <3>5. ds[c].done > 0
        BY <3>1, <3>2 DEF Outgrows, GoodRecord, CampaignRecords
      <3> QED BY <3>1, <3>4, <3>5 DEF CountedOf
    <2> QED BY <2>1
  <1>4. IsFiniteSet(new) /\ Cardinality(new) \in Nat /\ Cardinality(old) \in Nat
    BY <1>1, CountedFinite
  <1> HIDE DEF old, new
  <1>5. Cardinality(old) <= Cardinality(new)
    BY <1>3, <1>4, FS_Subset
  <1>6. st.stagnation <= Cardinality(old)
    BY DEF Steady, old
  <1>7. st.stagnation <= Cardinality(new)
    BY <1>1, <1>4, <1>5, <1>6
  <1> QED BY <1>1, <1>2, <1>7 DEF Steady, new

\* The status that a pass sets out with is steady, on the list it took.
LEMMA BeginStep ==
    ASSUME CurriculumInv, Begin
    PROVE  pass' \in Passes /\ Steady(pass'.st, camps)
  <1> DEFINE folded == FoldedAll(status, camps)
             listed == [folded EXCEPT !.current = @ \cap Active(camps)]
             st == Evaluated(listed, camps)
             old == Windable(camps, st.stage)
             total == [c \in Campaigns |-> IF c \in old THEN camps[c].total ELSE 0]
  <1>1. /\ stages \in Curricula /\ CampsInv(camps) /\ Steady(status, camps)
        /\ camps \in [Campaigns -> CampaignRecords]
    BY CampsTyped DEF CurriculumInv
  <1>2. Sound(status) /\ status \in Statuses
    BY <1>1 DEF Steady, Sound
  <1>3. status.stagnation <= Cardinality(Counted(status.folded, camps))
    BY <1>1 DEF Steady, Counted, CountedOf, Allowed
  <1>4. /\ folded \in Statuses
        /\ folded.stage = status.stage /\ folded.history = status.history
        /\ folded.stagnation <= Cardinality(Counted(folded.folded, camps))
    BY <1>1, <1>2, <1>3, FoldedAllIs
  <1> HIDE DEF folded
  <1>5. /\ listed \in Statuses
        /\ listed.stage = status.stage /\ listed.history = status.history
        /\ listed.stagnation = folded.stagnation /\ listed.folded = folded.folded
    BY <1>4 DEF Statuses
  <1> HIDE DEF listed
  <1>6. Sound(listed)
    BY <1>2, <1>5 DEF Sound
  <1>7. /\ Sound(st) /\ st.folded = listed.folded
        /\ \/ st.stage = status.stage /\ st.stagnation = listed.stagnation
           \/ /\ st.stage = status.stage + 1 /\ IsPassed(camps, status.stage)
              /\ st.stagnation = 0
    BY <1>1, <1>5, <1>6, EvaluatedIs
  <1> HIDE DEF st
  <1>8. st \in Statuses /\ st.folded \in SUBSET Campaigns /\ status.stage \in Nat
    BY <1>2, <1>7 DEF Sound, Statuses
  <1>9. st.stagnation <= Cardinality(CountedOf(camps, st.folded, st.stage))
    <2>1. CASE st.stage = status.stage /\ st.stagnation = listed.stagnation
      <3>1. CountedOf(camps, st.folded, st.stage) = Counted(folded.folded, camps)
        BY <1>5, <1>7, <2>1 DEF Counted, CountedOf, Allowed
      <3> QED BY <1>4, <1>5, <2>1, <3>1
    <2>2. CASE st.stagnation = 0
      BY <1>8, <2>2, CountedFinite
    <2> QED BY <1>7, <2>1, <2>2
  <1>10. ASSUME NEW k \in DOMAIN stages, k < st.stage PROVE Evidence(camps, k)
    <2>1. k \in Nat
      BY <1>1, StageFacts
    <2>2. CASE k < status.stage
      BY <1>1, <2>2 DEF Steady
    <2>3. CASE ~(k < status.stage)
      <3>1. k = status.stage /\ IsPassed(camps, status.stage)
        BY <1>7, <1>8, <1>10, <2>1, <2>3
      <3> QED BY <1>1, <3>1, EvidenceFound
    <2> QED BY <2>2, <2>3
  <1>11. Steady(st, camps)
    BY <1>7, <1>9, <1>10 DEF Steady
  <1>12. pass' = [step |-> AfterWindDown(st, camps), st |-> st, winding |-> old,
                  total |-> total]
    BY DEF Begin, st, listed, folded
  <1>13. AfterWindDown(st, camps) \in {"Idle", "Propose", "Write"}
    BY DEF AfterWindDown
  <1>14. old \in SUBSET Campaigns
    BY DEF Windable, Active
  <1>15. total \in [Campaigns -> Nat]
    BY <1>1 DEF CampaignRecords
  <1> HIDE DEF old, total
  <1> QED BY <1>8, <1>11, <1>12, <1>13, <1>14, <1>15 DEF Passes

LEMMA NoPassTyped ==
    NoPass \in Passes
  <1>1. FirstStatus(0) \in Statuses
    <2>1. AnyTemplate \in Templates
      BY CurriculaAssumption DEF AnyTemplate
    <2> DEFINE none == [k \in 1 .. 0 |-> NoRecord]
    <2>2. none \in Seq(StageRecords)
      OBVIOUS
    <2> HIDE DEF none
    <2>3. FirstStatus(0) = [stage |-> 1, history |-> none, stagnation |-> 0, folded |-> {},
                            current |-> {}, best |-> 0, score |-> 0,
                            template |-> AnyTemplate]
      BY DEF FirstStatus, none
    <2> QED BY <2>1, <2>2, <2>3, CampaignNumbers DEF Statuses
  <1> QED BY <1>1 DEF NoPass, Passes

\* What a step makes of the status and of the pass's copy is steady on the campaigns
\* as they were.
LEMMA PassKept ==
    ASSUME CurriculumInv, [Next]_vars
    PROVE  /\ stages' = stages /\ cuts' \in 0 .. MaxCuts /\ pass' \in Passes
           /\ Steady(status', camps)
           /\ pass'.step # "Idle" => Steady(pass'.st, camps)
  <1> USE DEF CurriculumInv
  <1>1. CASE Begin
    BY <1>1, BeginStep DEF Begin
  <1>2. ASSUME NEW c \in Campaigns, WindDown(c)
        PROVE  /\ stages' = stages /\ cuts' \in 0 .. MaxCuts /\ pass' \in Passes
               /\ status' = status /\ pass'.step = pass.step /\ pass'.st = pass.st
    <2> DEFINE wound == [pass EXCEPT !.winding = @ \ {c}]
               total == [pass.total EXCEPT ![c] = 0]
    <2>1. stages' = stages /\ status' = status
      BY <1>2 DEF WindDown
    <2>2. cuts' \in 0 .. MaxCuts
      BY <1>2, NumbersAssumption DEF WindDown
    <2>3. pass' = [wound EXCEPT !.total = total]
      BY <1>2 DEF WindDown, Passes
    <2>4. wound \in Passes /\ wound.step = pass.step /\ wound.st = pass.st
      BY DEF Passes
    <2>5. total \in [Campaigns -> Nat]
      BY DEF Passes
    <2> HIDE DEF wound, total
    <2> QED BY <2>1, <2>2, <2>3, <2>4, <2>5 DEF Passes
  <1>3. CASE Answered
    <2>1. pass' = [pass EXCEPT !.step = "Write"] /\ pass.step # "Idle"
      BY <1>3 DEF Answered
    <2>2. pass' \in Passes /\ pass'.st = pass.st
      BY <2>1 DEF Passes
    <2> QED BY <1>3, <2>1, <2>2 DEF Answered
  <1>4. CASE Write
    <2>1. pass.step # "Idle" /\ status' = pass.st /\ pass' = NoPass
      BY <1>4 DEF Write
    <2> QED BY <1>4, <2>1, NoPassTyped DEF Write, NoPass
  <1>5. CASE Abort
    BY <1>5, NoPassTyped, NumbersAssumption DEF Abort, NoPass
  <1>6. CASE Propose
    <2>1. PICK c \in Campaigns, t \in Templates, kind \in {"fork", "consolidate"},
              named \in 0 .. MaxCampaigns : Fork(c, t, kind, named)
      BY <1>6 DEF Propose
    <2> DEFINE st == [pass.st EXCEPT !.current = @ \cup {c}]
    <2>2. pass' = [pass EXCEPT !.st = st] /\ pass.step # "Idle"
      BY <2>1 DEF Fork, Passes
    <2>3. Steady(pass.st, camps)
      BY <2>2
    <2>4. pass.st \in Statuses
      BY DEF Passes
    <2>5. /\ st \in Statuses /\ st.stage = pass.st.stage /\ st.history = pass.st.history
          /\ st.stagnation = pass.st.stagnation /\ st.folded = pass.st.folded
      BY <2>4 DEF Statuses
    <2> HIDE DEF st
    <2>6. Steady(st, camps)
      BY <2>3, <2>5 DEF Steady, Sound
    <2>7. pass' \in Passes /\ pass'.st = st
      BY <2>2, <2>5 DEF Passes
    <2> QED BY <2>1, <2>6, <2>7 DEF Fork
  <1>7. ASSUME NEW c \in Campaigns, Launch(c) \/ Finish(c) \/ Complete(c)
        PROVE  UNCHANGED <<stages, status, pass, cuts>>
    BY <1>7 DEF Launch, Finish, Complete, Set
  <1>8. CASE UNCHANGED vars
    BY <1>8 DEF vars
  <1>9. CASE \E c \in Campaigns : WindDown(c)
    BY <1>2, <1>9
  <1>10. CASE \E c \in Campaigns : Launch(c) \/ Finish(c) \/ Complete(c)
    BY <1>7, <1>10
  <1> QED BY <1>1, <1>3, <1>4, <1>5, <1>6, <1>8, <1>9, <1>10 DEF Next, PassStep, World

LEMMA CurriculumStep ==
    CurriculumInv /\ [Next]_vars => CurriculumInv'
  <1> SUFFICES ASSUME CurriculumInv, [Next]_vars PROVE CurriculumInv'
    OBVIOUS
  <1>1. /\ stages \in Curricula /\ CampsInv(camps) /\ pass \in Passes /\ Sound(status)
    BY DEF CurriculumInv, Steady
  <1>2. CampsInv(camps') /\ Grows(camps, camps')
    BY <1>1, CampsStep
  <1>3. /\ stages' = stages /\ cuts' \in 0 .. MaxCuts /\ pass' \in Passes
        /\ Steady(status', camps)
        /\ pass'.step # "Idle" => Steady(pass'.st, camps)
    BY PassKept
  <1>4. Steady(status', camps') /\ (pass'.step # "Idle" => Steady(pass'.st, camps'))
    BY <1>1, <1>2, <1>3, SteadyStays
  <1>5. ASSUME NEW k PROVE TemplatesOf(k)' = TemplatesOf(k)
    BY <1>3 DEF TemplatesOf
  <1>6. ASSUME NEW st, NEW cs, Steady(st, cs) PROVE Steady(st, cs)'
    <2>1. Sound(st)'
      BY <1>3, <1>6 DEF Steady, Sound
    <2>2. (st.stagnation <= Cardinality(CountedOf(cs, st.folded, st.stage)))'
      BY <1>5, <1>6 DEF Steady, CountedOf
    <2>3. \A k \in DOMAIN stages : Evidence(cs, k) => Evidence(cs, k)'
      BY <1>3, <1>5 DEF Evidence, Reached, EnoughRuns
    <2>4. (\A k \in DOMAIN stages : k < st.stage => Evidence(cs, k))'
      BY <1>3, <1>6, <2>3 DEF Steady
    <2> QED BY <2>1, <2>2, <2>4 DEF Steady
  <1> QED BY <1>1, <1>2, <1>3, <1>4, <1>6 DEF CurriculumInv

LEMMA CurriculumInit ==
    Init => CurriculumInv
  <1> SUFFICES ASSUME Init PROVE CurriculumInv
    OBVIOUS
  <1>1. /\ stages \in Curricula /\ camps = [c \in Campaigns |-> NoCampaign]
        /\ status = FirstStatus(Len(stages)) /\ pass = NoPass /\ cuts \in 0 .. MaxCuts
    BY NumbersAssumption DEF Init
  <1>2. NoCampaign \in CampaignRecords
    BY CurriculaAssumption DEF NoCampaign, CampaignRecords, AnyTemplate
  <1>3. GoodRecord(NoCampaign)
    BY <1>2 DEF GoodRecord, NoCampaign
  <1>4. CampsInv(camps)
    BY <1>1, <1>3 DEF CampsInv
  <1>5. Sound(status)
    BY <1>1, FirstIsSound
  <1>6. status.stage = 1 /\ status.stagnation = 0 /\ status.folded = {}
    BY <1>1 DEF FirstStatus
  <1>7. status.stagnation <= Cardinality(CountedOf(camps, status.folded, status.stage))
    BY <1>6, CountedFinite
  <1>8. \A k \in DOMAIN stages : ~(k < status.stage)
    BY <1>1, <1>6, StageFacts
  <1>9. Steady(status, camps)
    BY <1>5, <1>7, <1>8 DEF Steady
  <1>10. pass \in Passes /\ pass.step = "Idle"
    BY <1>1, NoPassTyped DEF NoPass
  <1> QED BY <1>1, <1>4, <1>9, <1>10 DEF CurriculumInv

\* The invariant that the theorems below rest on.
LEMMA CurriculumInvHolds ==
    Spec => []CurriculumInv
  BY CurriculumInit, CurriculumStep, PTL DEF Spec

-----------------------------------------------------------------------------

\* All of the state has its type: the history has a record for every stage, and only a
\* stage before the current one is promoted (reconcile_phase, evaluate_promotion).
THEOREM TypeCorrect == Spec => []TypeOK
  <1>1. CurriculumInv => TypeOK
    <2> SUFFICES ASSUME CurriculumInv PROVE TypeOK
      OBVIOUS
    <2>1. camps \in [Campaigns -> CampaignRecords]
      BY CampsTyped DEF CurriculumInv
    <2>2. Sound(status)
      BY DEF CurriculumInv, Steady
    <2>3. \A c \in Campaigns : /\ camps[c].succeeded <= camps[c].done
                               /\ camps[c].done <= camps[c].total
      BY DEF CurriculumInv, CampsInv, GoodRecord
    <2> QED BY <2>1, <2>2, <2>3 DEF CurriculumInv, TypeOK, Sound
  <1> QED BY <1>1, CurriculumInvHolds, PTL

\* No campaign starts from the weights of another robot (robot_matches,
\* stage_seed_candidates, build_campaign), whichever seed it is given.
THEOREM MorphologyIsKept == Spec => []MorphologyHolds
  <1>1. CurriculumInv => MorphologyHolds
    BY DEF CurriculumInv, CampsInv, GoodRecord, MorphologyHolds
  <1> QED BY <1>1, CurriculumInvHolds, PTL

\* What stagnation counts are campaigns of the current stage that ran and were folded
\* (fold_campaign and the promotion that starts the counter again).
THEOREM StagnationIsCounted == Spec => []StagnationIsOfTheStage
  <1>1. CurriculumInv => StagnationIsOfTheStage
    BY DEF CurriculumInv, Steady, CountedOf, StagnationIsOfTheStage, Allowed
  <1> QED BY <1>1, CurriculumInvHolds, PTL

\* A drive that is past a stage has the evidence for it (evaluate_promotion), though the
\* status it wrote is of a list that was read before.
THEOREM StagesAreEarned == Spec => []StageIsEarned
  <1>1. CurriculumInv => StageIsEarned
    <2> SUFFICES ASSUME CurriculumInv, NEW k \in DOMAIN stages, k < status.stage
                 PROVE  LET good(t) == {c \in Campaigns : /\ camps[c].template = t
                                                          /\ camps[c].succeeded > 0}
                            reached(cs) ==
                                \E c \in cs : camps[c].best >= stages[k].threshold
                            all == UNION {good(t) : t \in TemplatesOf(k)} IN
                        /\ stages[k].gated
                        /\ reached(all)
                        /\ RunsOf(camps, all) >= stages[k].least
                        /\ stages[k].quantifier = "All" =>
                              \A t \in TemplatesOf(k) :
                                 /\ reached(good(t))
                                 /\ RunsOf(camps, good(t)) >= stages[k].least
      BY DEF StageIsEarned
    <2>1. Evidence(camps, k)
      BY DEF CurriculumInv, Steady
    <2> QED BY <2>1 DEF Evidence, Reached, EnoughRuns, GoodOf
  <1> QED BY <1>1, CurriculumInvHolds, PTL

=============================================================================
