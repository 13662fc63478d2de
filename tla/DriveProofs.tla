---------------------------- MODULE DriveProofs ----------------------------
(***************************************************************************)
(* Every campaign is folded once: the lifetime count of a drive is that of *)
(* the campaigns in its ledger, for any names, limits and bounds, whatever *)
(* passes are cut off and however old the copies are they start from. No   *)
(* more of the drive's campaigns are in flight than its branches, but for  *)
(* the orphans, and nothing is started past a proposal that awaits its     *)
(* approval, but by a pass that began from a stale copy or an approval     *)
(* that was given to an earlier proposal with the same id.                 *)
(* The second part is about the drive's proposer, module Proposer.         *)
(***************************************************************************)
EXTENDS Drive, Proposer, FiniteSetTheorems, SequenceTheorems, WellFoundedInduction,
        TLAPS

\* A status keeps a ledger of campaigns and the count of it. Of the other fields
\* it is enough here that they are there.
Counted(st) ==
    /\ st = [phase |-> st.phase, current |-> st.current, folded |-> st.folded,
             completed |-> st.completed, stagnation |-> st.stagnation,
             proposals |-> st.proposals, memory |-> st.memory]
    /\ st.folded \subseteq Campaigns
    /\ st.completed = Cardinality(st.folded)

\* A pass has a status that counts, and still to fold what its ledger has not.
Folding(p) ==
    /\ p = [step |-> p.step, fresh |-> p.fresh, active |-> p.active, todo |-> p.todo,
            paused |-> p.paused, annotation |-> p.annotation, st |-> p.st,
            phase |-> p.phase, asked |-> p.asked, made |-> p.made,
            actions |-> p.actions, decision |-> p.decision]
    /\ Counted(p.st)
    /\ p.todo \subseteq Campaigns \ p.st.folded

CountInv ==
    /\ Counted(status)
    /\ Counted(seen)
    /\ Folding(pass)

-----------------------------------------------------------------------------

\* Nothing is folded in an empty status.
LEMMA NothingCounted == Counted(NoStatus) /\ Folding(NoPass)
<1>1. Cardinality({}) = 0
  BY FS_EmptySet
<1>2. Counted(NoStatus)
  BY <1>1 DEF Counted, NoStatus
<1> QED BY <1>2 DEF Folding, NoPass

\* The bookkeeping of a fold counts the campaign and enters it in the ledger.
LEMMA FoldCounts ==
    ASSUME NEW st, Counted(st), NEW c \in Campaigns \ st.folded, NEW outcome
    PROVE  /\ Counted(Folded(st, c, outcome))
           /\ Folded(st, c, outcome).folded = st.folded \cup {c}
<1> DEFINE branches == Retained(st.current, Campaigns \ {c})
           stagnation == IF outcome = "Better" THEN 0
                         ELSE IF outcome = "NotBetter" THEN st.stagnation + 1
                         ELSE st.stagnation
<1>1. Folded(st, c, outcome) =
        [st EXCEPT !.current = branches, !.folded = @ \cup {c},
                   !.completed = @ + 1, !.stagnation = stagnation]
  BY DEF Folded
<1> HIDE DEF branches, stagnation
<1>2. Folded(st, c, outcome) =
        [phase |-> st.phase, current |-> branches, folded |-> st.folded \cup {c},
         completed |-> st.completed + 1, stagnation |-> stagnation,
         proposals |-> st.proposals, memory |-> st.memory]
  BY <1>1 DEF Counted
<1>3. IsFiniteSet(st.folded)
  BY CampaignsAssumption, FS_Subset DEF Counted
<1>4. Cardinality(st.folded \cup {c}) = Cardinality(st.folded) + 1
  BY <1>3, FS_AddElement
<1> QED BY <1>2, <1>4 DEF Counted

-----------------------------------------------------------------------------

LEMMA CountInit == Init => CountInv
  BY NothingCounted DEF Init, CountInv

\* No step of a pass, and nothing around it, spoils the count.
LEMMA CountStep == CountInv /\ [Next]_vars => CountInv'
<1> SUFFICES ASSUME CountInv, [Next]_vars PROVE CountInv'
  OBVIOUS
<1> USE DEF CountInv
<1>1. CASE List
  <2>1. pass'.st = seen /\ pass'.todo = Over \ seen.folded
    BY <1>1 DEF List, Unfolded, NoPass
  <2>2. Over \subseteq Campaigns
    BY DEF Over
  <2>3. Folding(pass')
    BY <1>1, <2>1, <2>2 DEF List, Folding, NoPass
  <2> QED BY <1>1, <2>3 DEF List
<1>2. ASSUME NEW c \in Campaigns, Fold(c) PROVE CountInv'
  <2>1. PICK outcome \in {"Better", "NotBetter", "NeverRan"} :
          pass' = [pass EXCEPT !.st = Folded(@, c, outcome), !.todo = @ \ {c}]
    BY <1>2 DEF Fold
  <2>2. c \in Campaigns \ pass.st.folded
    BY <1>2 DEF Fold, Folding
  <2>3. /\ Counted(Folded(pass.st, c, outcome))
        /\ Folded(pass.st, c, outcome).folded = pass.st.folded \cup {c}
    BY <2>2, FoldCounts DEF Folding
  <2>4. Folding(pass')
    BY <2>1, <2>3 DEF Folding
  <2> QED BY <1>2, <2>4 DEF Fold
<1>3. CASE Decide
  <2> DEFINE new == [pass.st EXCEPT
                       !.current = Retained(@, pass.active),
                       !.proposals = Approved(@, pass.annotation)]
  <2>1. PICK phase, step :
          pass' = [pass EXCEPT !.st = new, !.phase = phase, !.step = step]
    BY <1>3 DEF Decide
  <2>2. PICK branches, proposals :
          new = [pass.st EXCEPT !.current = branches, !.proposals = proposals]
    OBVIOUS
  <2> HIDE DEF new
  <2>3. Counted(new) /\ new.folded = pass.st.folded
    BY <2>2 DEF Folding, Counted
  <2>4. Folding(pass')
    BY <2>1, <2>3 DEF Folding
  <2> QED BY <1>3, <2>4 DEF Decide
<1>4. CASE NoProposal
  <2>1. PICK proposals :
          pass' = [pass EXCEPT !.step = "Write", !.asked = TRUE,
                               !.st.proposals = proposals]
    BY <1>4 DEF NoProposal
  <2>2. Folding(pass')
    BY <2>1 DEF Folding, Counted
  <2> QED BY <1>4, <2>2 DEF NoProposal
<1>5. CASE Structural \/ Skip \/ Invalid \/ ForkFails
  <2>1. Folding(pass')
    BY <1>5 DEF Structural, Skip, Invalid, ForkFails, Folding
  <2> QED BY <1>5, <2>1 DEF Structural, Skip, Invalid, ForkFails
<1>6. ASSUME NEW c \in Campaigns, Fork(c) PROVE CountInv'
  <2>1. Folding(pass')
    BY <1>6 DEF Fork, Folding
  <2> QED BY <1>6, <2>1 DEF Fork
<1>7. CASE Conclude
  <2>1. PICK phase, branches, proposals :
          pass' = [pass EXCEPT !.step = "Write", !.phase = phase,
                               !.st.current = branches, !.st.proposals = proposals]
    BY <1>7 DEF Conclude
  <2>2. Folding(pass')
    BY <2>1 DEF Folding, Counted
  <2> QED BY <1>7, <2>2 DEF Conclude
<1>8. CASE Write
  <2>1. Counted(status')
    BY <1>8 DEF Write, Folding, Counted
  <2> QED BY <1>8, <2>1, NothingCounted DEF Write
<1>9. CASE Abort
  BY <1>9, NothingCounted DEF Abort
<1>10. CASE Sync
  BY <1>10 DEF Sync
<1>11. CASE Environment
  BY <1>11 DEF Environment, End, Delete, Approve, Pause
<1>12. CASE UNCHANGED vars
  BY <1>12 DEF vars
<1> QED BY <1>1, <1>2, <1>3, <1>4, <1>5, <1>6, <1>7, <1>8, <1>9, <1>10, <1>11, <1>12
        DEF Next, PassStep

\* "Fold each campaign EXACTLY once" (drive_reconciler.rs): the count in the
\* status is always that of the campaigns folded.
THEOREM FoldedOnce == Spec => []CountedOnce
<1>1. CountInv => CountedOnce
  BY DEF CountInv, Counted, CountedOnce
<1> QED BY CountInit, CountStep, <1>1, PTL DEF Spec

-----------------------------------------------------------------------------
(* What a retain leaves of a list. *)

LEMMA LeastNat ==
    ASSUME NEW S, S \subseteq Nat, S # {}
    PROVE  \E n \in S : \A m \in S : n <= m
<1>1. PICK n \in S : \A m \in S : <<m, n>> \notin OpToRel(<, Nat)
  BY NatLessThanWellFounded, WFMin
<1>2. \A m \in S : ~(m < n)
  BY <1>1 DEF OpToRel
<1> QED BY <1>2

\* The recursion of Retained has a solution, so Retained is its last value.
LEMMA RetainedUnfolds ==
    ASSUME NEW list, Len(list) \in Nat, NEW kept
    PROVE  \E upTo :
              /\ Retained(list, kept) = upTo[Len(list)]
              /\ upTo[0] = <<>>
              /\ \A n \in 1..Len(list) :
                    upTo[n] = IF list[n] \in kept THEN Append(upTo[n - 1], list[n])
                                                  ELSE upTo[n - 1]
<1> DEFINE Step(f, n) == IF n = 0 THEN <<>>
                         ELSE IF list[n] \in kept THEN Append(f[n - 1], list[n])
                         ELSE f[n - 1]
           Solves(f, m) == f = [n \in 0..m |-> Step(f, n)]
           upTo == CHOOSE f : Solves(f, Len(list))
           unsolved == {m \in 0..Len(list) : ~\E f : Solves(f, m)}
<1>1. Retained(list, kept) = upTo[Len(list)]
  BY DEF Retained
<1>2. \E f : Solves(f, 0)
  <2>1. Solves([n \in 0..0 |-> <<>>], 0)
    OBVIOUS
  <2> QED BY <2>1
<1>3. ASSUME NEW m \in 1..Len(list), NEW f, Solves(f, m - 1)
      PROVE  \E g : Solves(g, m)
  <2> DEFINE g == [n \in 0..m |-> IF n < m THEN f[n] ELSE Step(f, m)]
  <2>1. \A n \in 0..(m - 1) : f[n] = Step(f, n)
    BY <1>3
  <2>2. \A n \in 0..m : g[n] = Step(g, n)
    <3> SUFFICES ASSUME NEW n \in 0..m PROVE g[n] = Step(g, n)
      OBVIOUS
    <3>1. n # 0 => g[n - 1] = f[n - 1]
      OBVIOUS
    <3>2. Step(g, n) = Step(f, n)
      BY <3>1
    <3>3. CASE n < m
      BY <2>1, <3>2, <3>3
    <3>4. CASE n = m
      BY <3>2, <3>4
    <3> QED BY <3>3, <3>4
  <2>3. Solves(g, m)
    BY <2>2
  <2> QED BY <2>3
<1> HIDE DEF Solves
<1>4. unsolved = {}
  <2> SUFFICES ASSUME unsolved # {} PROVE FALSE
    OBVIOUS
  <2> unsolved \subseteq Nat
    OBVIOUS
  <2> HIDE DEF unsolved
  <2>1. PICK m \in unsolved : \A k \in unsolved : m <= k
    BY LeastNat
  <2> USE DEF unsolved
  <2>2. m # 0
    BY <1>2
  <2>3. m \in 1..Len(list) /\ m - 1 \notin unsolved
    BY <2>1, <2>2
  <2>4. \E f : Solves(f, m - 1)
    BY <2>3
  <2> QED BY <1>3, <2>3, <2>4
<1>5. \E f : Solves(f, Len(list))
  BY <1>4
<1>6. Solves(upTo, Len(list))
  BY <1>5
<1> HIDE DEF upTo
<1>7. \A n \in 0..Len(list) : upTo[n] = Step(upTo, n)
  BY <1>6 DEF Solves
<1>8. upTo[0] = <<>>
  BY <1>7
<1>9. \A n \in 1..Len(list) :
        upTo[n] = IF list[n] \in kept THEN Append(upTo[n - 1], list[n]) ELSE upTo[n - 1]
  BY <1>7
<1> QED BY <1>1, <1>8, <1>9

\* A retain leaves a list of the names that are kept, no longer than it was.
LEMMA RetainedNames ==
    ASSUME NEW list \in Seq(Campaigns), NEW kept
    PROVE  /\ Retained(list, kept) \in Seq(Campaigns)
           /\ Len(Retained(list, kept)) <= Len(list)
           /\ Names(Retained(list, kept)) = Names(list) \cap kept
<1>0. Len(list) \in Nat
  OBVIOUS
<1> DOMAIN list = 1..Len(list)
  OBVIOUS
<1>1. PICK upTo :
        /\ Retained(list, kept) = upTo[Len(list)]
        /\ upTo[0] = <<>>
        /\ \A n \in 1..Len(list) :
              upTo[n] = IF list[n] \in kept THEN Append(upTo[n - 1], list[n])
                                            ELSE upTo[n - 1]
  BY <1>0, RetainedUnfolds
<1> DEFINE before(n) == {list[i] : i \in 1..n}
           Holds(n) == /\ upTo[n] \in Seq(Campaigns)
                       /\ Len(upTo[n]) <= n
                       /\ Names(upTo[n]) = before(n) \cap kept
           fails == {n \in 0..Len(list) : ~Holds(n)}
<1>2. Holds(0)
  <2>1. upTo[0] = <<>> /\ before(0) = {}
    BY <1>1
  <2>2. Names(<<>>) = {}
    BY DEF Names
  <2> QED BY <2>1, <2>2
<1>3. ASSUME NEW n \in 1..Len(list), Holds(n - 1) PROVE Holds(n)
  <2>1. before(n) = before(n - 1) \cup {list[n]}
    OBVIOUS
  <2>2. CASE list[n] \notin kept
    <3>1. upTo[n] = upTo[n - 1]
      BY <1>1, <2>2
    <3> QED BY <1>3, <2>1, <2>2, <3>1
  <2>3. CASE list[n] \in kept
    <3> DEFINE old == upTo[n - 1]
    <3>1. upTo[n] = Append(old, list[n])
      BY <1>1, <2>3
    <3>2. old \in Seq(Campaigns) /\ Len(old) <= n - 1 /\ Names(old) = before(n - 1) \cap kept
      BY <1>3
    <3> HIDE DEF old, before
    <3>3. list[n] \in Campaigns
      OBVIOUS
    <3>4. /\ Append(old, list[n]) \in Seq(Campaigns)
          /\ Len(Append(old, list[n])) = Len(old) + 1
          /\ \A i \in 1..Len(old) : Append(old, list[n])[i] = old[i]
          /\ Append(old, list[n])[Len(old) + 1] = list[n]
      BY <3>2, <3>3, AppendProperties
    <3>5. Names(Append(old, list[n])) = Names(old) \cup {list[n]}
      BY <3>2, <3>4 DEF Names
    <3> QED BY <2>1, <2>3, <3>1, <3>2, <3>4, <3>5
  <2> QED BY <2>2, <2>3
<1> HIDE DEF Holds
<1>4. fails = {}
  <2> SUFFICES ASSUME fails # {} PROVE FALSE
    OBVIOUS
  <2> fails \subseteq Nat
    OBVIOUS
  <2> HIDE DEF fails
  <2>1. PICK n \in fails : \A k \in fails : n <= k
    BY LeastNat
  <2> USE DEF fails
  <2>2. n \in 1..Len(list) /\ n - 1 \notin fails
    BY <1>2, <2>1
  <2> QED BY <1>3, <2>2
<1>5. Holds(Len(list))
  BY <1>4
<1>6. Names(list) = before(Len(list))
  BY DEF Names
<1> QED BY <1>1, <1>5, <1>6 DEF Holds

\* There are no more names in a list than it is long.
LEMMA NamesCounted ==
    ASSUME NEW list \in Seq(Campaigns)
    PROVE  Names(list) \subseteq Campaigns /\ Cardinality(Names(list)) <= Len(list)
<1>1. Len(list) \in Nat /\ DOMAIN list = 1..Len(list) /\ list \in [1..Len(list) -> Campaigns]
  OBVIOUS
<1>2. list \in Surjection(1..Len(list), Names(list))
  BY <1>1 DEF Surjection, Names
<1>3. ExistsSurjection(1..Len(list), Names(list))
  BY <1>2 DEF ExistsSurjection
<1>4. Cardinality(Names(list)) <= Len(list)
  BY <1>1, <1>3, FS_SurjCardinalityBound
<1> QED BY <1>1, <1>4 DEF Names

-----------------------------------------------------------------------------
(* The types. *)

\* The ring of proposals is as short in every copy of the status.
TypeInv ==
    /\ TypeOK
    /\ Len(seen.proposals) <= RingCap
    /\ Len(pass.st.proposals) <= RingCap

\* A proposal that is pushed takes the place of the oldest, when the ring is full.
LEMMA PushFits ==
    ASSUME NEW proposals \in Seq(Proposals), Len(proposals) <= RingCap,
           NEW p \in Proposals
    PROVE  Push(proposals, p) \in Seq(Proposals) /\ Len(Push(proposals, p)) <= RingCap
<1> DEFINE rest == IF Len(proposals) = RingCap THEN Tail(proposals) ELSE proposals
<1>1. RingCap \in Nat /\ RingCap # 0 /\ Len(proposals) \in Nat
  BY BoundsAssumption
<1>2. rest \in Seq(Proposals) /\ Len(rest) < RingCap
  <2>1. CASE Len(proposals) = RingCap
    <3>1. proposals # <<>>
      BY <1>1, <2>1
    <3>2. Tail(proposals) \in Seq(Proposals) /\ Len(Tail(proposals)) = Len(proposals) - 1
      BY <3>1, HeadTailProperties
    <3> QED BY <1>1, <2>1, <3>2
  <2>2. CASE Len(proposals) # RingCap
    BY <1>1, <2>2
  <2> QED BY <2>1, <2>2
<1>3. Push(proposals, p) = Append(rest, p)
  BY DEF Push
<1> HIDE DEF rest
<1>4. Append(rest, p) \in Seq(Proposals) /\ Len(Append(rest, p)) = Len(rest) + 1
  BY <1>2, AppendProperties
<1>5. Len(rest) \in Nat
  BY <1>2
<1> QED BY <1>1, <1>2, <1>3, <1>4, <1>5

\* Approvals change neither how many proposals there are nor what they are.
LEMMA ApprovedFits ==
    ASSUME NEW proposals \in Seq(Proposals), NEW note \in Annotations
    PROVE  /\ Approved(proposals, note) \in Seq(Proposals)
           /\ Len(Approved(proposals, note)) = Len(proposals)
<1>1. Len(proposals) \in Nat /\ DOMAIN proposals = 1..Len(proposals)
  OBVIOUS
<1>2. ASSUME NEW i \in 1..Len(proposals) PROVE Approved(proposals, note)[i] \in Proposals
  <2>1. proposals[i] \in Proposals
    OBVIOUS
  <2>2. [proposals[i] EXCEPT !.decision = "Approved"] \in Proposals
    BY <2>1 DEF Proposals, Decisions
  <2> QED BY <1>1, <2>1, <2>2 DEF Approved
<1>3. Approved(proposals, note) \in [1..Len(proposals) -> Proposals]
  BY <1>1, <1>2 DEF Approved
<1> QED BY <1>1, <1>3, IsASeq, LenProperties

LEMMA AwaitingIds ==
    ASSUME NEW proposals \in Seq(Proposals)
    PROVE  Awaiting(proposals) \subseteq Nat
<1>1. \A i \in DOMAIN proposals : proposals[i].id \in Nat
  <2>1. \A i \in DOMAIN proposals : proposals[i] \in Proposals
    OBVIOUS
  <2> QED BY <2>1 DEF Proposals
<1> QED BY <1>1 DEF Awaiting

LEMMA FoldedType ==
    ASSUME NEW st \in Statuses, NEW c \in Campaigns, NEW outcome
    PROVE  /\ Folded(st, c, outcome) \in Statuses
           /\ Folded(st, c, outcome).proposals = st.proposals
           /\ Folded(st, c, outcome).current = Retained(st.current, Campaigns \ {c})
<1> DEFINE branches == Retained(st.current, Campaigns \ {c})
           stagnation == IF outcome = "Better" THEN 0
                         ELSE IF outcome = "NotBetter" THEN st.stagnation + 1
                         ELSE st.stagnation
<1>1. Folded(st, c, outcome) =
        [st EXCEPT !.current = branches, !.folded = @ \cup {c},
                   !.completed = @ + 1, !.stagnation = stagnation]
  BY DEF Folded
<1>2. /\ st.current \in Seq(Campaigns) /\ stagnation \in Nat
      /\ st.completed + 1 \in Nat /\ st.folded \cup {c} \in SUBSET Campaigns
  BY DEF Statuses
<1>3. branches \in Seq(Campaigns)
  BY <1>2, RetainedNames
<1> HIDE DEF branches, stagnation
<1>4. Folded(st, c, outcome) \in Statuses
  BY <1>1, <1>2, <1>3 DEF Statuses
<1>5. Folded(st, c, outcome).proposals = st.proposals
  BY <1>1 DEF Statuses
<1>6. Folded(st, c, outcome).current = branches
  BY <1>1 DEF Statuses
<1> QED BY <1>4, <1>5, <1>6 DEF branches

LEMMA RecordType ==
    ASSUME pass \in Passes, NEW decision \in Decisions
    PROVE  Record(decision) \in Proposals
<1>1. pass.st \in Statuses
  BY DEF Passes
<1>2. pass.st.completed \in Nat /\ Len(pass.st.proposals) \in Nat
  BY <1>1 DEF Statuses
<1>3. NextId(pass.st) \in Nat
  BY <1>2 DEF NextId
<1> QED BY <1>3 DEF Record, Proposals

LEMMA NothingTyped ==
    /\ NoStatus \in Statuses /\ Len(NoStatus.proposals) = 0
    /\ NoPass \in Passes /\ Len(NoPass.st.proposals) = 0
<1>1. <<>> \in Seq(Campaigns) /\ <<>> \in Seq(Proposals)
  OBVIOUS
<1>2. NoStatus \in Statuses /\ NoStatus.proposals = <<>>
  BY <1>1 DEF NoStatus, Statuses, Phases
<1>3. NoPass \in Passes /\ NoPass.st = NoStatus
  BY <1>1, <1>2 DEF NoPass, Passes, Steps, NoAnnotation, Annotations, Phases, Decisions
<1> QED BY <1>2, <1>3

LEMMA TypeInit == Init => TypeInv
<1> SUFFICES ASSUME Init PROVE TypeInv
  OBVIOUS
<1>1. NoAnnotation \in Annotations
  BY DEF NoAnnotation, Annotations
<1>2. [c \in Campaigns |-> "Absent"] \in [Campaigns -> CampaignPhases]
  BY DEF CampaignPhases
<1>3. RingCap \in Nat
  BY BoundsAssumption
<1>4. paused \in BOOLEAN
  BY DEF Init
<1>5. TypeOK
  BY <1>1, <1>2, <1>3, <1>4, NothingTyped DEF Init, TypeOK
<1>6. Len(seen.proposals) <= RingCap /\ Len(pass.st.proposals) <= RingCap
  BY <1>3, NothingTyped DEF Init
<1> QED BY <1>5, <1>6 DEF TypeInv

LEMMA TypeStep == TypeInv /\ [Next]_vars => TypeInv'
<1> SUFFICES ASSUME TypeInv, [Next]_vars PROVE TypeInv'
  OBVIOUS
<1> USE DEF TypeInv, TypeOK, human
<1>0. /\ pass.st \in Statuses /\ pass.st.current \in Seq(Campaigns)
      /\ pass.st.proposals \in Seq(Proposals)
      /\ pass.made \in Seq(Campaigns) /\ pass.actions \in Nat
      /\ pass.annotation \in Annotations
  BY DEF Passes, Statuses
<1>1. CASE List
  <2>1. Active \subseteq Campaigns /\ Unfolded \subseteq Campaigns
    BY DEF Active, Unfolded, Over
  <2>2. pass' \in Passes /\ pass'.st = seen
    BY <1>1, <2>1, NothingTyped DEF List, Passes, Steps
  <2>3. orphans' \subseteq Campaigns /\ troubles' \in Nat
    BY <1>1, <2>1 DEF List
  <2> QED BY <1>1, <2>2, <2>3 DEF List
<1>2. ASSUME NEW c \in Campaigns, Fold(c) PROVE TypeInv'
  <2>1. PICK outcome \in {"Better", "NotBetter", "NeverRan"} :
          pass' = [pass EXCEPT !.st = Folded(@, c, outcome), !.todo = @ \ {c}]
    BY <1>2 DEF Fold
  <2>2. /\ Folded(pass.st, c, outcome) \in Statuses
        /\ Folded(pass.st, c, outcome).proposals = pass.st.proposals
    BY <1>0, FoldedType
  <2>3. pass' \in Passes /\ pass'.st = Folded(pass.st, c, outcome)
    BY <2>1, <2>2 DEF Passes
  <2>4. reports' \subseteq Campaigns
    BY <1>2 DEF Fold
  <2> QED BY <1>2, <2>2, <2>3, <2>4 DEF Fold
<1>3. CASE Decide
  <2> DEFINE branches == Retained(pass.st.current, pass.active)
             proposals == Approved(pass.st.proposals, pass.annotation)
             new == [pass.st EXCEPT !.current = branches, !.proposals = proposals]
             step == IF PhaseOf(new) = "Proposing"
                          /\ Len(new.current) < spec.maxActiveBranches
                     THEN "Propose" ELSE "Write"
             phase == PhaseOf(new)
  <2>1. pass' = [pass EXCEPT !.st = new, !.phase = phase, !.step = step]
    BY <1>3 DEF Decide
  <2>2. branches \in Seq(Campaigns)
    BY <1>0, RetainedNames
  <2>3. proposals \in Seq(Proposals) /\ Len(proposals) = Len(pass.st.proposals)
    BY <1>0, ApprovedFits
  <2>4. phase \in Phases
    BY DEF PhaseOf, Phases
  <2>5. step \in Steps
    BY DEF Steps
  <2> HIDE DEF branches, proposals, step, phase
  <2>6. new \in Statuses /\ new.proposals = proposals
    BY <1>0, <2>2, <2>3 DEF Statuses
  <2> HIDE DEF new
  <2>7. pass' \in Passes /\ pass'.st = new
    BY <2>1, <2>4, <2>5, <2>6 DEF Passes
  <2> QED BY <1>3, <2>3, <2>6, <2>7 DEF Decide
<1>4. CASE NoProposal
  <2>1. PICK proposals :
          /\ proposals \in {Push(pass.st.proposals, Record("Rejected")), pass.st.proposals}
          /\ pass' = [pass EXCEPT !.step = "Write", !.asked = TRUE,
                                  !.st = [@ EXCEPT !.proposals = proposals]]
    BY <1>0, <1>4 DEF NoProposal, Statuses, Passes
  <2>2. Record("Rejected") \in Proposals
    BY RecordType DEF Decisions
  <2>3. proposals \in Seq(Proposals) /\ Len(proposals) <= RingCap
    BY <1>0, <2>1, <2>2, PushFits
  <2>4. [pass.st EXCEPT !.proposals = proposals] \in Statuses
    BY <1>0, <2>3 DEF Statuses
  <2>5. pass' \in Passes /\ pass'.st = [pass.st EXCEPT !.proposals = proposals]
    BY <2>1, <2>4 DEF Passes, Steps
  <2>6. pass'.st.proposals = proposals
    BY <1>0, <2>5 DEF Statuses
  <2> QED BY <1>4, <2>3, <2>5, <2>6 DEF NoProposal
<1>5. CASE Structural \/ Skip \/ Invalid \/ ForkFails
  <2> DEFINE actions == pass.actions + 1
  <2>1. <<>> \in Seq(Campaigns) /\ actions \in Nat
    BY <1>0
  <2>2. PICK decision \in Decisions :
          \/ pass' = [pass EXCEPT !.actions = actions, !.decision = decision]
          \/ pass' = [pass EXCEPT !.actions = actions]
          \/ pass' = [pass EXCEPT !.step = "Write", !.asked = TRUE, !.made = <<>>]
    BY <1>5 DEF Structural, Skip, Invalid, ForkFails, Decisions
  <2> HIDE DEF actions
  <2>3. pass' \in Passes /\ pass'.st = pass.st
    BY <1>0, <2>1, <2>2 DEF Passes, Steps
  <2> QED BY <1>5, <2>3 DEF Structural, Skip, Invalid, ForkFails
<1>6. ASSUME NEW c \in Campaigns, Fork(c) PROVE TypeInv'
  <2> DEFINE actions == pass.actions + 1
             made == Append(pass.made, c)
  <2>2. pass' = [pass EXCEPT !.actions = actions, !.made = made]
    BY <1>6 DEF Fork
  <2>1. actions \in Nat /\ made \in Seq(Campaigns)
    BY <1>0
  <2> HIDE DEF actions, made
  <2>3. pass' \in Passes /\ pass'.st = pass.st
    BY <1>0, <2>1, <2>2 DEF Passes
  <2>4. camps' \in [Campaigns -> CampaignPhases]
    BY <1>6 DEF Fork, CampaignPhases
  <2> QED BY <1>6, <2>3, <2>4 DEF Fork
<1>7. CASE Conclude
  <2> DEFINE decision == IF pass.made = <<>> /\ pass.decision = "Accepted"
                         THEN "Rejected" ELSE pass.decision
             branches == pass.st.current \o pass.made
             proposals == Push(pass.st.proposals, Record(decision))
             phase == IF pass.made = <<>> THEN pass.phase ELSE "CampaignRunning"
  <2>1. pass' = [pass EXCEPT !.step = "Write", !.phase = phase,
                             !.st = [@ EXCEPT !.current = branches,
                                              !.proposals = proposals]]
    BY <1>0, <1>7 DEF Conclude, Statuses, Passes
  <2>2. decision \in Decisions /\ phase \in Phases
    BY DEF Passes, Decisions, Phases
  <2>3. proposals \in Seq(Proposals) /\ Len(proposals) <= RingCap
    BY <1>0, <2>2, RecordType, PushFits
  <2>4. branches \in Seq(Campaigns)
    BY <1>0, ConcatProperties
  <2> HIDE DEF decision, branches, proposals, phase
  <2>5. [pass.st EXCEPT !.current = branches, !.proposals = proposals] \in Statuses
    BY <1>0, <2>3, <2>4 DEF Statuses
  <2>6. /\ pass' \in Passes
        /\ pass'.st = [pass.st EXCEPT !.current = branches, !.proposals = proposals]
    BY <2>1, <2>2, <2>5 DEF Passes, Steps
  <2>7. pass'.st.proposals = proposals
    BY <1>0, <2>6 DEF Statuses
  <2> QED BY <1>7, <2>3, <2>6, <2>7 DEF Conclude
<1>8. CASE Write
  <2>1. PICK memory \in {"Unknown", "True", "False"} :
          status' = [pass.st EXCEPT !.phase = pass.phase, !.memory = memory]
    BY <1>8 DEF Write
  <2>2. status' \in Statuses /\ status'.proposals = pass.st.proposals
    BY <1>0, <2>1 DEF Statuses, Passes
  <2>3. annotation' \in Annotations
    BY <1>8 DEF Write, Annotations
  <2>4. RingCap \in Nat
    BY BoundsAssumption
  <2>5. ids' \in [highest : Nat, repeated : BOOLEAN]
    <3>1. \A id \in Awaiting(pass.st.proposals) : id \in Nat
      BY <1>0, AwaitingIds
    <3>2. \A id \in Asked : id \in Nat
      BY <3>1 DEF Asked
    <3>3. CASE UNCHANGED ids
      BY <3>3
    <3>4. ASSUME NEW id \in Asked,
                 ids' = [highest |-> IF id <= ids.highest THEN ids.highest ELSE id,
                         repeated |-> id <= ids.highest]
          PROVE  ids' \in [highest : Nat, repeated : BOOLEAN]
      <4>1. (IF id <= ids.highest THEN ids.highest ELSE id) \in Nat
        BY <3>2
      <4>2. (id <= ids.highest) \in BOOLEAN
        OBVIOUS
      <4> QED BY <3>4, <4>1, <4>2
    <3> QED BY <1>8, <3>3, <3>4 DEF Write
  <2> QED BY <1>8, <2>2, <2>3, <2>4, <2>5, NothingTyped DEF Write
<1>9. CASE Abort
  <2>1. RingCap \in Nat
    BY BoundsAssumption
  <2> QED BY <1>9, <2>1, NothingTyped DEF Abort
<1>10. CASE Sync
  BY <1>10 DEF Sync
<1>11. ASSUME NEW c \in Campaigns, End(c) \/ Delete(c) PROVE TypeInv'
  <2>1. camps' \in [Campaigns -> CampaignPhases]
    BY <1>11 DEF End, Delete, CampaignPhases
  <2>2. reports' \subseteq Campaigns /\ troubles' \in Nat
    BY <1>11 DEF End, Delete
  <2> QED BY <1>11, <2>1, <2>2 DEF End, Delete
<1>12. CASE Approve
  <2>1. PICK i \in DOMAIN status.proposals :
          annotation' = [id |-> status.proposals[i].id, fresh |-> TRUE]
    BY <1>12 DEF Approve
  <2>2. status.proposals \in Seq(Proposals)
    BY DEF Statuses
  <2>3. status.proposals[i] \in Proposals
    BY <2>2
  <2>4. annotation' \in Annotations
    BY <2>1, <2>3 DEF Proposals, Annotations
  <2> QED BY <1>12, <2>4 DEF Approve
<1>13. CASE Pause
  BY <1>13 DEF Pause
<1>14. CASE UNCHANGED vars
  BY <1>14 DEF vars
<1> QED BY <1>1, <1>2, <1>3, <1>4, <1>5, <1>6, <1>7, <1>8, <1>9, <1>10, <1>11, <1>12,
           <1>13, <1>14 DEF Next, PassStep, Environment

\* The status is a status, and its ring of proposals is never over its capacity.
THEOREM TypeCorrect == Spec => []TypeOK
<1>1. TypeInv => TypeOK
  BY DEF TypeInv
<1> QED BY TypeInit, TypeStep, <1>1, PTL DEF Spec

-----------------------------------------------------------------------------
(* The approval. *)

Waiting(st) == Awaiting(st.proposals)

\* The ids that await an approval are not above the highest.
Known(st) == \A id \in Waiting(st) : id <= ids.highest

\* What approves the proposal that awaits it was set for that proposal, unless its
\* id is one an earlier proposal had.
ReadOf(note) == \A id \in Waiting(status) : note.id = id => note.fresh \/ ids.repeated

\* While it folds, a pass has the proposals of the status it began from; while it
\* proposes, its own await nothing, and those of the status are approved by what it
\* has read; before it writes, they have either none that its annotation approves,
\* or the new one alone.
ApprovalPass ==
    /\ pass.step # "Idle" => annotation = pass.annotation \/ annotation.fresh
    /\ pass.step \in {"Fold", "Propose"} => ReadOf(pass.annotation) /\ ~pass.asked
    /\ pass.step = "Fold" => /\ Known(pass.st)
                             /\ pass.decision = "Accepted"
                             /\ pass.fresh => Waiting(pass.st) = Waiting(status)
    /\ pass.step = "Propose" =>
          /\ Waiting(pass.st) = {}
          /\ pass.fresh => Waiting(status) \subseteq {pass.annotation.id}
    /\ pass.step = "Write" =>
          \/ Known(pass.st) /\ Asked = {} /\ pass.annotation.id \notin Waiting(pass.st)
          \/ \E id \in Nat : Asked = {id} /\ Waiting(pass.st) = {id}

ApprovalInv ==
    /\ annotation.id <= ids.highest
    /\ Known(status)
    /\ Known(seen)
    /\ ReadOf(annotation)
    /\ ApprovalPass

\* An approval takes the proposal it names from those that await one.
LEMMA AwaitingApproved ==
    ASSUME NEW proposals \in Seq(Proposals), NEW note \in Annotations
    PROVE  Awaiting(Approved(proposals, note)) = Awaiting(proposals) \ {note.id}
<1> DEFINE after == Approved(proposals, note)
<1>1. DOMAIN after = DOMAIN proposals
  BY DEF Approved
<1>2. ASSUME NEW i \in DOMAIN proposals
      PROVE  /\ after[i].id = proposals[i].id
             /\ after[i].decision = "AwaitingApproval" <=>
                   /\ proposals[i].decision = "AwaitingApproval"
                   /\ proposals[i].id # note.id
  <2>1. proposals[i] \in Proposals
    OBVIOUS
  <2>2. after[i] =
           IF proposals[i].decision = "AwaitingApproval" /\ proposals[i].id = note.id
           THEN [proposals[i] EXCEPT !.decision = "Approved"]
           ELSE proposals[i]
    BY DEF Approved
  <2> HIDE DEF after
  <2> QED BY <2>1, <2>2 DEF Proposals
<1> HIDE DEF after
<1>3. Awaiting(after) = Awaiting(proposals) \ {note.id}
  BY <1>1, <1>2 DEF Awaiting
<1> QED BY <1>3 DEF after

\* Of a ring in which nothing awaits an approval, one that is pushed may.
LEMMA AwaitingPushed ==
    ASSUME NEW proposals \in Seq(Proposals), Len(proposals) <= RingCap,
           Awaiting(proposals) = {}, NEW p \in Proposals
    PROVE  Awaiting(Push(proposals, p)) =
               IF p.decision = "AwaitingApproval" THEN {p.id} ELSE {}
<1> DEFINE rest == IF Len(proposals) = RingCap THEN Tail(proposals) ELSE proposals
           ring == Append(rest, p)
<1>1. \A i \in 1..Len(proposals) : proposals[i].decision # "AwaitingApproval"
  <2> SUFFICES ASSUME NEW i \in DOMAIN proposals,
                      proposals[i].decision = "AwaitingApproval"
               PROVE  FALSE
    OBVIOUS
  <2>1. proposals[i].id \in Awaiting(proposals)
    BY DEF Awaiting
  <2> QED BY <2>1
<1>2. /\ rest \in Seq(Proposals)
      /\ \A i \in 1..Len(rest) : rest[i].decision # "AwaitingApproval"
  <2>1. CASE Len(proposals) = RingCap
    <3>1. proposals # <<>>
      BY <2>1, BoundsAssumption
    <3>2. /\ Tail(proposals) \in Seq(Proposals)
          /\ Len(Tail(proposals)) = Len(proposals) - 1
          /\ \A i \in 1..Len(Tail(proposals)) : Tail(proposals)[i] = proposals[i + 1]
      BY <3>1, HeadTailProperties
    <3>3. \A i \in 1..Len(Tail(proposals)) : i + 1 \in 1..Len(proposals)
      BY <3>2
    <3> QED BY <1>1, <2>1, <3>2, <3>3
  <2>2. CASE Len(proposals) # RingCap
    BY <1>1, <2>2
  <2> QED BY <2>1, <2>2
<1> HIDE DEF rest
<1>3. /\ ring \in Seq(Proposals) /\ Len(ring) = Len(rest) + 1
      /\ \A i \in 1..Len(rest) : ring[i] = rest[i]
      /\ ring[Len(rest) + 1] = p
  BY <1>2, AppendProperties
<1>4. Len(rest) \in Nat
  BY <1>2
<1>5. Push(proposals, p) = ring
  BY DEF Push, rest
<1> HIDE DEF ring
<1>6. DOMAIN ring = 1..(Len(rest) + 1)
  BY <1>3, <1>4
<1>7. ASSUME NEW i \in DOMAIN ring, ring[i].decision = "AwaitingApproval"
      PROVE  i = Len(rest) + 1
  BY <1>2, <1>3, <1>4, <1>6, <1>7
<1>8. Len(rest) + 1 \in DOMAIN ring
  BY <1>4, <1>6
<1>9. Awaiting(ring) = IF p.decision = "AwaitingApproval" THEN {p.id} ELSE {}
  BY <1>3, <1>7, <1>8 DEF Awaiting
<1> QED BY <1>5, <1>9

LEMMA ApprovalInit == Init => ApprovalInv
<1> SUFFICES ASSUME Init PROVE ApprovalInv
  OBVIOUS
<1>1. Waiting(NoStatus) = {}
  BY DEF Waiting, Awaiting, NoStatus
<1>2. Known(status) /\ Known(seen) /\ ReadOf(annotation)
  BY <1>1 DEF Init, Known, ReadOf
<1>3. annotation.id <= ids.highest
  BY DEF Init, NoAnnotation
<1>4. pass.step = "Idle"
  BY DEF Init, NoPass
<1> QED BY <1>2, <1>3, <1>4 DEF ApprovalInv, ApprovalPass

\* A drive that requires approvals and goes on to propose awaits none.
LEMMA ApprovalDecide ==
    ASSUME TypeInv, ApprovalInv, Decide, spec.policy = "RequireApproval"
    PROVE  ApprovalPass'
<1> DEFINE branches == Retained(pass.st.current, pass.active)
           proposals == Approved(pass.st.proposals, pass.annotation)
           new == [pass.st EXCEPT !.current = branches, !.proposals = proposals]
           step == IF PhaseOf(new) = "Proposing"
                        /\ Len(new.current) < spec.maxActiveBranches
                   THEN "Propose" ELSE "Write"
           phase == PhaseOf(new)
<1>0. /\ pass \in Passes /\ pass.st \in Statuses
      /\ pass.st.proposals \in Seq(Proposals) /\ pass.annotation \in Annotations
  BY DEF TypeInv, TypeOK, Passes, Statuses
<1>1. /\ pass.step = "Fold" /\ UNCHANGED <<spec, annotation, ids, status>>
      /\ pass' = [pass EXCEPT !.st = new, !.phase = phase, !.step = step]
  BY DEF Decide, human
<1>2. step \in {"Propose", "Write"} /\ (step = "Propose" => ~Held(new))
  BY DEF PhaseOf
<1>3. Awaiting(proposals) = Waiting(pass.st) \ {pass.annotation.id}
  BY <1>0, AwaitingApproved DEF Waiting
<1> HIDE DEF branches, proposals, step, phase
<1>4. new.proposals = proposals
  BY <1>0 DEF Statuses
<1>5. Waiting(new) = Waiting(pass.st) \ {pass.annotation.id}
  BY <1>3, <1>4 DEF Waiting
<1>6. step = "Propose" => Waiting(new) = {}
  BY <1>2 DEF Held, Waiting
<1> HIDE DEF new
<1>7. /\ pass'.st = new /\ pass'.step = step /\ pass'.annotation = pass.annotation
      /\ pass'.asked = pass.asked /\ pass'.decision = pass.decision
      /\ pass'.fresh = pass.fresh
  BY <1>0, <1>1 DEF Passes
<1>8. Waiting(pass.st)' = Waiting(new) /\ Waiting(status)' = Waiting(status)
  BY <1>1, <1>7 DEF Waiting
<1>9. ReadOf(pass.annotation)' /\ pass'.asked = FALSE
  BY <1>0, <1>1, <1>7, <1>8 DEF ApprovalInv, ApprovalPass, ReadOf, Passes
<1>10. Known(pass.st)' /\ Asked' = {} /\ (pass.annotation.id \notin Waiting(pass.st))'
  BY <1>1, <1>5, <1>7, <1>8 DEF ApprovalInv, ApprovalPass, Known, Asked
<1>11. pass'.step = "Propose" =>
          /\ Waiting(pass.st)' = {}
          /\ pass'.fresh => Waiting(status)' \subseteq {pass'.annotation.id}
  BY <1>1, <1>5, <1>6, <1>7, <1>8 DEF ApprovalInv, ApprovalPass
<1>12. annotation' = pass'.annotation \/ annotation'.fresh
  BY <1>1, <1>7 DEF ApprovalInv, ApprovalPass
<1> QED BY <1>2, <1>7, <1>9, <1>10, <1>11, <1>12 DEF ApprovalPass

\* What a pass that has proposed records: nothing that awaits an approval, or the
\* proposal it has asked for.
LEMMA ApprovalConclude ==
    ASSUME TypeInv, ApprovalInv, NoProposal \/ ForkFails \/ Conclude
    PROVE  ApprovalPass'
<1>0. /\ pass \in Passes /\ pass.st \in Statuses /\ pass.decision \in Decisions
      /\ pass.st.proposals \in Seq(Proposals) /\ Len(pass.st.proposals) <= RingCap
  BY DEF TypeInv, TypeOK, Passes, Statuses
<1>1. pass.step = "Propose" /\ Waiting(pass.st) = {} /\ pass.asked = FALSE
  BY <1>0 DEF NoProposal, ForkFails, Conclude, Acting, ApprovalInv, ApprovalPass, Passes
<1>2. /\ pass'.step = "Write" /\ pass'.annotation = pass.annotation
      /\ UNCHANGED <<annotation>>
  BY <1>0 DEF NoProposal, ForkFails, Conclude, Passes, human
<1>3. \/ Waiting(pass.st)' = {} /\ Asked' = {}
      \/ \E id \in Nat : Asked' = {id} /\ Waiting(pass.st)' = {id}
  <2>1. CASE NoProposal
    <3>1. PICK proposals :
            /\ proposals \in {Push(pass.st.proposals, Record("Rejected")),
                              pass.st.proposals}
            /\ pass' = [pass EXCEPT !.step = "Write", !.asked = TRUE,
                                    !.st = [@ EXCEPT !.proposals = proposals]]
      BY <1>0, <2>1 DEF NoProposal, Statuses, Passes
    <3>2. Record("Rejected") \in Proposals
      BY <1>0, RecordType DEF Decisions
    <3>3. Record("Rejected").decision = "Rejected"
      BY DEF Record
    <3>4. Awaiting(proposals) = {}
      BY <1>0, <1>1, <3>1, <3>2, <3>3, AwaitingPushed DEF Waiting
    <3>5. pass'.st.proposals = proposals /\ pass'.asked = TRUE
      BY <1>0, <3>1 DEF Passes, Statuses
    <3> QED BY <3>4, <3>5 DEF Waiting, Asked
  <2>2. CASE ForkFails
    <3>1. pass'.st = pass.st /\ pass'.asked = TRUE
      BY <1>0, <2>2 DEF ForkFails, Passes
    <3> QED BY <1>1, <3>1 DEF Waiting, Asked
  <2>3. CASE Conclude
    <3> DEFINE decision == IF pass.made = <<>> /\ pass.decision = "Accepted"
                           THEN "Rejected" ELSE pass.decision
               branches == pass.st.current \o pass.made
               p == Record(decision)
               proposals == Push(pass.st.proposals, p)
               phase == IF pass.made = <<>> THEN pass.phase ELSE "CampaignRunning"
    <3>1. pass' = [pass EXCEPT !.step = "Write", !.phase = phase,
                               !.st = [@ EXCEPT !.current = branches,
                                                !.proposals = proposals]]
      BY <1>0, <2>3 DEF Conclude, Statuses, Passes
    <3>2. /\ decision \in Decisions
          /\ decision = "AwaitingApproval" <=> pass.decision = "AwaitingApproval"
      BY <1>0 DEF Decisions
    <3>3. p \in Proposals /\ p.decision = decision /\ p.id \in Nat
      <4>1. p \in Proposals
        BY <1>0, <3>2, RecordType
      <4> QED BY <4>1 DEF Record, Proposals
    <3> HIDE DEF decision, branches, phase, p
    <3>4. Awaiting(proposals) = IF decision = "AwaitingApproval" THEN {p.id} ELSE {}
      BY <1>0, <1>1, <3>3, AwaitingPushed DEF Waiting
    <3> HIDE DEF proposals
    <3>5. /\ pass'.st.proposals = proposals /\ pass'.asked = FALSE
          /\ pass'.decision = pass.decision
      BY <1>0, <1>1, <3>1 DEF Passes, Statuses
    <3> QED BY <3>2, <3>3, <3>4, <3>5 DEF Waiting, Asked
  <2> QED BY <2>1, <2>2, <2>3
<1>4. annotation' = pass'.annotation \/ annotation'.fresh
  BY <1>1, <1>2 DEF ApprovalInv, ApprovalPass
<1>5. Waiting(pass.st)' = {} => Known(pass.st)'
  BY DEF Known
<1> QED BY <1>2, <1>3, <1>4, <1>5 DEF ApprovalPass

\* A proposal that is recorded and awaits its approval leaves no approval fresh.
LEMMA ApprovalWrite ==
    ASSUME TypeInv, ApprovalInv, Write
    PROVE  ApprovalInv'
<1>0. /\ pass.st \in Statuses /\ pass.step = "Write"
      /\ annotation \in Annotations /\ ids \in [highest : Nat, repeated : BOOLEAN]
  BY DEF TypeInv, TypeOK, Passes, Write
<1>1. Waiting(status)' = Waiting(pass.st)
  <2>1. PICK memory :
          status' = [pass.st EXCEPT !.phase = pass.phase, !.memory = memory]
    BY DEF Write
  <2> QED BY <1>0, <2>1 DEF Waiting, Statuses
<1>2. /\ annotation' = [annotation EXCEPT !.fresh = @ /\ Asked = {}]
      /\ pass' = NoPass /\ seen' = seen
      /\ Asked = {} => ids' = ids
      /\ Asked # {} =>
            \E id \in Asked :
               ids' = [highest |-> IF id <= ids.highest THEN ids.highest ELSE id,
                       repeated |-> id <= ids.highest]
  BY DEF Write
<1>3. ApprovalPass'
  BY <1>2 DEF ApprovalPass, NoPass
<1>4. Waiting(seen) \subseteq Nat /\ Waiting(pass.st) \subseteq Nat
  BY <1>0, AwaitingIds DEF Waiting, TypeInv, TypeOK, Statuses
<1>5. annotation'.id = annotation.id /\ annotation.id \in Nat
  BY <1>0, <1>2 DEF Annotations
<1>6. CASE Known(pass.st) /\ Asked = {} /\ pass.annotation.id \notin Waiting(pass.st)
  <2>1. ids' = ids /\ annotation' = annotation
    BY <1>0, <1>2, <1>6 DEF Annotations
  <2>2. Known(status)' /\ Known(seen)'
    BY <1>1, <1>2, <1>6, <2>1 DEF Known, ApprovalInv, Waiting
  <2>3. annotation = pass.annotation \/ annotation.fresh
    BY <1>0 DEF ApprovalInv, ApprovalPass
  <2>4. ReadOf(annotation)'
    BY <1>1, <1>6, <2>1, <2>3 DEF ReadOf
  <2> QED BY <1>3, <2>1, <2>2, <2>4 DEF ApprovalInv
<1>7. ASSUME NEW id \in Nat, Asked = {id}, Waiting(pass.st) = {id} PROVE ApprovalInv'
  <2>1. ids' = [highest |-> IF id <= ids.highest THEN ids.highest ELSE id,
                repeated |-> id <= ids.highest]
    BY <1>2, <1>7
  <2>2. /\ ids'.highest \in Nat /\ ids.highest <= ids'.highest /\ id <= ids'.highest
        /\ ids'.repeated <=> id <= ids.highest
    <3>1. /\ ids'.highest = (IF id <= ids.highest THEN ids.highest ELSE id)
          /\ ids'.repeated = (id <= ids.highest)
      BY <2>1
    <3>2. ids.highest \in Nat
      BY <1>0
    <3>3. /\ ids'.highest \in Nat /\ ids.highest <= ids'.highest
          /\ id <= ids'.highest
      BY <3>1, <3>2
    <3>4. ids'.repeated <=> id <= ids.highest
      BY <3>1, Zenon
    <3> QED BY <3>3, <3>4
  <2>3. annotation.id <= ids.highest /\ Known(seen)
    BY DEF ApprovalInv
  <2>4. annotation'.id <= ids'.highest
    BY <1>0, <1>5, <2>2, <2>3
  <2>5. Known(seen)'
    <3> SUFFICES ASSUME NEW i \in Waiting(seen) PROVE i <= ids'.highest
      BY <1>2 DEF Known, Waiting
    <3>1. i \in Nat /\ i <= ids.highest
      BY <1>4, <2>3 DEF Known
    <3> QED BY <1>0, <2>2, <3>1
  <2>6. Known(status)'
    BY <1>1, <1>7, <2>2 DEF Known
  <2>7. ReadOf(annotation)'
    BY <1>1, <1>5, <1>7, <2>2, <2>3 DEF ReadOf
  <2> QED BY <1>3, <2>4, <2>5, <2>6, <2>7 DEF ApprovalInv
<1> QED BY <1>0, <1>6, <1>7 DEF ApprovalInv, ApprovalPass

LEMMA ApprovalStep ==
    ASSUME TypeInv, ApprovalInv, [Next]_vars, spec.policy = "RequireApproval"
    PROVE  ApprovalInv'
<1>0. /\ pass \in Passes /\ pass.st \in Statuses
      /\ status \in Statuses /\ annotation \in Annotations
  BY DEF TypeInv, TypeOK, Passes
\* What most steps of a pass leave alone.
<1>a. ASSUME UNCHANGED <<annotation, ids, status, seen>>, ApprovalPass'
      PROVE  ApprovalInv'
  BY <1>a DEF ApprovalInv, Known, ReadOf, Waiting
<1>1. CASE List
  <2>1. /\ pass'.step = "Fold" /\ pass'.annotation = annotation /\ pass'.st = seen
        /\ pass'.decision = "Accepted" /\ pass'.asked = FALSE
        /\ pass'.fresh = (seen = status)
        /\ UNCHANGED <<annotation, ids, status, seen>>
    BY <1>1 DEF List, NoPass
  <2>2. ApprovalPass'
    BY <2>1 DEF ApprovalPass, ApprovalInv, Known, ReadOf, Waiting
  <2> QED BY <1>a, <2>1, <2>2
<1>2. ASSUME NEW c \in Campaigns, Fold(c) PROVE ApprovalInv'
  <2>1. PICK outcome \in {"Better", "NotBetter", "NeverRan"} :
          pass' = [pass EXCEPT !.st = Folded(@, c, outcome), !.todo = @ \ {c}]
    BY <1>2 DEF Fold
  <2>2. Folded(pass.st, c, outcome).proposals = pass.st.proposals
    BY <1>0, FoldedType
  <2>3. /\ pass.step = "Fold" /\ pass'.step = "Fold"
        /\ pass'.annotation = pass.annotation /\ pass'.st.proposals = pass.st.proposals
        /\ pass'.decision = pass.decision /\ pass'.asked = pass.asked
        /\ pass'.fresh = pass.fresh
        /\ UNCHANGED <<annotation, ids, status, seen>>
    BY <1>0, <1>2, <2>1, <2>2 DEF Fold, Passes, human
  <2>4. ApprovalPass'
    BY <2>3 DEF ApprovalPass, ApprovalInv, Known, ReadOf, Waiting
  <2> QED BY <1>a, <2>3, <2>4
<1>3. CASE Decide
  <2>1. UNCHANGED <<annotation, ids, status, seen>>
    BY <1>3 DEF Decide, human
  <2> QED BY <1>3, <1>a, <2>1, ApprovalDecide
<1>4. CASE Structural \/ Skip \/ Invalid \/ \E c \in Campaigns : Fork(c)
  <2>1. /\ pass.step = "Propose" /\ pass'.step = "Propose"
        /\ pass'.annotation = pass.annotation /\ pass'.st = pass.st
        /\ pass'.asked = pass.asked /\ pass'.fresh = pass.fresh
        /\ UNCHANGED <<annotation, ids, status, seen>>
    BY <1>0, <1>4 DEF Structural, Skip, Invalid, Fork, Acting, Passes, human
  <2>2. ApprovalPass'
    BY <2>1 DEF ApprovalPass, ApprovalInv, ReadOf, Waiting
  <2> QED BY <1>a, <2>1, <2>2
<1>5. CASE NoProposal \/ ForkFails \/ Conclude
  <2>1. UNCHANGED <<annotation, ids, status, seen>>
    BY <1>5 DEF NoProposal, ForkFails, Conclude, human
  <2> QED BY <1>5, <1>a, <2>1, ApprovalConclude
<1>6. CASE Write
  BY <1>6, ApprovalWrite
<1>7. CASE Abort
  <2>1. pass'.step = "Idle" /\ UNCHANGED <<annotation, ids, status, seen>>
    BY <1>7 DEF Abort, NoPass
  <2>2. ApprovalPass'
    BY <2>1 DEF ApprovalPass
  <2> QED BY <1>a, <2>1, <2>2
<1>8. CASE Sync \/ Pause \/ \E c \in Campaigns : End(c) \/ Delete(c)
  <2>1. UNCHANGED <<annotation, ids, status, pass>> /\ seen' \in {seen, status}
    BY <1>8 DEF Sync, Pause, End, Delete, human
  <2>2. Asked' = Asked
    BY <2>1 DEF Asked
  <2>3. ApprovalPass'
    BY <2>1, <2>2 DEF ApprovalPass, ApprovalInv, Known, ReadOf, Waiting
  <2> QED BY <2>1, <2>3 DEF ApprovalInv, Known, ReadOf, Waiting
<1>9. CASE Approve
  <2>1. PICK i \in DOMAIN status.proposals :
          /\ status.proposals[i].decision = "AwaitingApproval"
          /\ annotation' = [id |-> status.proposals[i].id, fresh |-> TRUE]
    BY <1>9 DEF Approve
  <2>2. /\ annotation'.fresh /\ annotation'.id \in Waiting(status)
        /\ UNCHANGED <<ids, status, pass>> /\ seen' = status
    BY <1>9, <2>1 DEF Approve, Waiting, Awaiting
  <2>3. Asked' = Asked
    BY <2>2 DEF Asked
  <2>4. ApprovalPass'
    BY <2>2, <2>3 DEF ApprovalPass, ApprovalInv, Known, ReadOf, Waiting
  <2> QED BY <2>2, <2>4 DEF ApprovalInv, Known, ReadOf, Waiting
<1>10. CASE UNCHANGED vars
  <2>1. UNCHANGED <<annotation, ids, status, seen, pass>>
    BY <1>10 DEF vars
  <2> QED BY <2>1 DEF ApprovalInv, ApprovalPass, Known, ReadOf, Waiting, Asked
<1> QED BY <1>1, <1>2, <1>3, <1>4, <1>5, <1>6, <1>7, <1>8, <1>9, <1>10
        DEF Next, PassStep, Environment

\* "RequireApproval" (research_drive.rs): whatever passes are cut off and however
\* old the copies are they start from, one that began from the stored status creates
\* no campaign past a proposal that awaits an approval, unless it has read an
\* approval set for that proposal, or for one before it with the same id.
THEOREM ApprovalHolds == Spec => NothingUnapproved
<1> DEFINE Inv == spec.policy = "RequireApproval" => ApprovalInv
<1>1. TypeInv /\ Inv /\ [Next]_vars => Inv'
  <2>1. [Next]_vars => UNCHANGED spec
    BY DEF Next, PassStep, List, Fold, Fork, Decide, NoProposal, Structural, Skip,
           Invalid, ForkFails, Conclude, Write, Abort, Sync, Environment, End, Delete,
           Approve, Pause, vars
  <2> QED BY <2>1, ApprovalStep
<1>2. Init => Inv
  BY ApprovalInit
<1>3. TypeInv /\ Inv /\ [Next]_vars =>
        [\A c \in Campaigns :
            (/\ camps[c] = "Absent"
             /\ camps'[c] = "Active"
             /\ spec.policy = "RequireApproval"
             /\ pass.fresh) =>
                \A id \in Awaiting(status.proposals) :
                    /\ pass.annotation.id = id
                    /\ pass.annotation.fresh \/ ids.repeated]_vars
  <2> SUFFICES ASSUME TypeInv, Inv, [Next]_vars,
                      NEW c \in Campaigns, camps[c] = "Absent", camps'[c] = "Active",
                      spec.policy = "RequireApproval", pass.fresh,
                      NEW id \in Awaiting(status.proposals)
               PROVE  /\ pass.annotation.id = id
                      /\ pass.annotation.fresh \/ ids.repeated
    OBVIOUS
  <2>1. PICK d \in Campaigns : Fork(d) \/ End(d) \/ Delete(d)
    BY DEF Next, PassStep, List, Fold, Decide, NoProposal, Structural, Skip, Invalid,
           ForkFails, Conclude, Write, Abort, Sync, Environment, Approve, Pause, vars
  <2>2. CASE End(d) \/ Delete(d)
    <3>1. \/ camps' = [camps EXCEPT ![d] = "Ended"] /\ camps[d] = "Active"
          \/ camps' = [camps EXCEPT ![d] = "Absent"]
      BY <2>2 DEF End, Delete
    <3> QED BY <3>1 DEF TypeInv, TypeOK
  <2>3. CASE Fork(d)
    <3>1. pass.step = "Propose"
      BY <2>3 DEF Fork, Acting
    <3> QED BY <3>1 DEF ApprovalInv, ApprovalPass, ReadOf, Waiting
  <2> QED BY <2>1, <2>2, <2>3
<1> HIDE DEF Inv
<1> QED BY <1>1, <1>2, <1>3, TypeInit, TypeStep, PTL DEF Spec, NothingUnapproved

-----------------------------------------------------------------------------
(* The branches. *)

InFlight == Active \ orphans

\* While a pass folds, what is in flight was so when it began, and is listed in
\* its status; while it proposes, what is in flight it has listed or made, and
\* these are no more than the branches allowed.
BranchInv ==
    /\ pass.step = "Fold" =>
          /\ Active \subseteq pass.active
          /\ pass.todo \cap pass.active = {}
          /\ InFlight \subseteq Names(pass.st.current)
          /\ pass.made = <<>>
    /\ pass.step = "Propose" =>
          /\ InFlight \subseteq Names(pass.st.current) \cup Names(pass.made)
          /\ Len(pass.st.current) + Len(pass.made) <= spec.maxActiveBranches
    /\ WithinBranches

LEMMA InFlightFinite ==
    ASSUME NEW S, S \subseteq Campaigns
    PROVE  IsFiniteSet(S) /\ Cardinality(S) \in Nat
<1>1. IsFiniteSet(S)
  BY CampaignsAssumption, FS_Subset
<1> QED BY <1>1, FS_CardinalityType

\* When nothing more is in flight, the branches stay within their limit.
LEMMA FewerStayWithin ==
    ASSUME TypeInv, WithinBranches, InFlight' \subseteq InFlight, UNCHANGED spec
    PROVE  WithinBranches'
<1>1. InFlight \subseteq Campaigns /\ InFlight' \subseteq Campaigns
  BY DEF InFlight, Active
<1>2. IsFiniteSet(InFlight) /\ Cardinality(InFlight) \in Nat /\ Cardinality(InFlight') \in Nat
  BY <1>1, InFlightFinite
<1>3. Cardinality(InFlight') <= Cardinality(InFlight)
  BY <1>2, FS_Subset
<1>4. spec.maxActiveBranches \in Nat
  BY SpecsAssumption DEF TypeInv, TypeOK
<1>5. Cardinality(InFlight) <= spec.maxActiveBranches
  BY DEF WithinBranches, InFlight
<1>6. Cardinality(InFlight') <= spec.maxActiveBranches
  BY <1>2, <1>3, <1>4, <1>5
<1>7. Cardinality(InFlight') <= spec'.maxActiveBranches
  BY <1>6
<1> QED BY <1>7 DEF WithinBranches, InFlight

\* Nor when it is all listed, in lists that are together no longer than the limit.
LEMMA ListedStayWithin ==
    ASSUME NEW S, NEW limit \in Nat,
           NEW one \in Seq(Campaigns), NEW other \in Seq(Campaigns),
           S \subseteq Names(one) \cup Names(other), Len(one) + Len(other) <= limit
    PROVE  Cardinality(S) <= limit
<1>1. /\ Names(one) \subseteq Campaigns /\ Cardinality(Names(one)) <= Len(one)
      /\ Names(other) \subseteq Campaigns /\ Cardinality(Names(other)) <= Len(other)
  BY NamesCounted
<1> DEFINE A == Names(one)
           B == Names(other)
<1>2. /\ IsFiniteSet(A) /\ Cardinality(A) \in Nat
      /\ IsFiniteSet(B) /\ Cardinality(B) \in Nat
      /\ Cardinality(A \cap B) \in Nat
      /\ IsFiniteSet(A \cup B) /\ Cardinality(A \cup B) \in Nat
      /\ IsFiniteSet(S) /\ Cardinality(S) \in Nat
  <2>1. A \cap B \subseteq Campaigns /\ A \cup B \subseteq Campaigns /\ S \subseteq Campaigns
    BY <1>1
  <2> QED BY <1>1, <2>1, InFlightFinite
<1>3. Cardinality(A \cup B) = Cardinality(A) + Cardinality(B) - Cardinality(A \cap B)
  BY <1>2, FS_Union
<1>4. Cardinality(S) <= Cardinality(A \cup B)
  BY <1>2, FS_Subset
<1>5. Len(one) \in Nat /\ Len(other) \in Nat
  OBVIOUS
<1> HIDE DEF A, B
<1>6. Cardinality(A) <= Len(one) /\ Cardinality(B) <= Len(other)
  BY <1>1 DEF A, B
<1> QED BY <1>2, <1>3, <1>4, <1>5, <1>6

LEMMA BranchInit == Init => BranchInv
<1> SUFFICES ASSUME Init PROVE BranchInv
  OBVIOUS
<1>1. InFlight = {}
  BY DEF Init, InFlight, Active
<1>2. Cardinality({}) = 0
  BY FS_EmptySet
<1>3. spec.maxActiveBranches \in Nat
  BY SpecsAssumption DEF Init
<1>4. WithinBranches
  BY <1>1, <1>2, <1>3 DEF WithinBranches, InFlight
<1> QED BY <1>4 DEF Init, NoPass, BranchInv

LEMMA BranchStep == TypeInv /\ BranchInv /\ [Next]_vars => BranchInv'
<1> SUFFICES ASSUME TypeInv, BranchInv, [Next]_vars PROVE BranchInv'
  OBVIOUS
<1> USE DEF BranchInv
<1>0. /\ pass \in Passes /\ pass.st \in Statuses
      /\ pass.st.current \in Seq(Campaigns) /\ pass.made \in Seq(Campaigns)
      /\ seen.current \in Seq(Campaigns)
      /\ camps \in [Campaigns -> CampaignPhases]
      /\ spec.maxActiveBranches \in Nat
  BY SpecsAssumption DEF TypeInv, TypeOK, Passes, Statuses
\* What most steps do: nothing more is in flight after them.
<1>a. ASSUME InFlight' \subseteq InFlight, UNCHANGED spec,
             pass'.step \notin {"Fold", "Propose"}
      PROVE  BranchInv'
  BY <1>a, FewerStayWithin
<1>1. CASE List
  <2>1. /\ pass'.step = "Fold" /\ pass'.active = Active /\ pass'.todo = Unfolded
        /\ pass'.st = seen /\ pass'.made = <<>>
    BY <1>1 DEF List, NoPass
  <2>2. UNCHANGED <<spec, camps>> /\ orphans' = orphans \cup (Active \ Names(seen.current))
    BY <1>1 DEF List
  <2>3. Active' = Active
    BY <2>2 DEF Active
  <2>4. InFlight' \subseteq InFlight /\ InFlight' \subseteq Names(seen.current)
    BY <2>2, <2>3 DEF InFlight
  <2>5. WithinBranches'
    BY <2>2, <2>4, FewerStayWithin
  <2>6. Unfolded \cap Active = {}
    BY DEF Unfolded, Over, Active
  <2> QED BY <2>1, <2>3, <2>4, <2>5, <2>6
<1>2. ASSUME NEW c \in Campaigns, Fold(c) PROVE BranchInv'
  <2>1. PICK outcome \in {"Better", "NotBetter", "NeverRan"} :
          pass' = [pass EXCEPT !.st = Folded(@, c, outcome), !.todo = @ \ {c}]
    BY <1>2 DEF Fold
  <2>2. Folded(pass.st, c, outcome).current = Retained(pass.st.current, Campaigns \ {c})
    BY <1>0, FoldedType
  <2>3. /\ pass.step = "Fold" /\ pass'.step = "Fold" /\ pass'.active = pass.active
        /\ pass'.todo = pass.todo \ {c} /\ pass'.made = pass.made
        /\ pass'.st.current = Retained(pass.st.current, Campaigns \ {c})
    BY <1>0, <1>2, <2>1, <2>2 DEF Fold, Passes
  <2>4. UNCHANGED <<spec, camps, orphans>> /\ c \in pass.todo
    BY <1>2 DEF Fold
  <2>5. Active' = Active /\ InFlight' = InFlight
    BY <2>4 DEF Active, InFlight
  <2>6. Names(pass'.st.current) = Names(pass.st.current) \cap (Campaigns \ {c})
    BY <1>0, <2>3, RetainedNames
  <2>7. InFlight \subseteq Campaigns \ {c}
    BY <2>3, <2>4 DEF InFlight, Active
  <2>8. WithinBranches'
    BY <2>4, <2>5, FewerStayWithin
  <2> QED BY <2>3, <2>5, <2>6, <2>7, <2>8
<1>3. CASE Decide
  <2> DEFINE branches == Retained(pass.st.current, pass.active)
             proposals == Approved(pass.st.proposals, pass.annotation)
             new == [pass.st EXCEPT !.current = branches, !.proposals = proposals]
             step == IF PhaseOf(new) = "Proposing"
                          /\ Len(new.current) < spec.maxActiveBranches
                     THEN "Propose" ELSE "Write"
             phase == PhaseOf(new)
  <2>1. /\ pass.step = "Fold" /\ UNCHANGED <<spec, camps, orphans>>
        /\ pass' = [pass EXCEPT !.st = new, !.phase = phase, !.step = step]
    BY <1>3 DEF Decide
  <2>2. step \in {"Propose", "Write"}
    OBVIOUS
  <2>3. step = "Propose" => Len(new.current) < spec.maxActiveBranches
    OBVIOUS
  <2>4. Names(branches) = Names(pass.st.current) \cap pass.active
    BY <1>0, RetainedNames
  <2>5. branches \in Seq(Campaigns)
    BY <1>0, RetainedNames
  <2> HIDE DEF branches, proposals, step, phase
  <2>6. new.current = branches
    BY <1>0 DEF Statuses
  <2> HIDE DEF new
  <2>7. pass'.st = new /\ pass'.step = step /\ pass'.made = pass.made
    BY <1>0, <2>1 DEF Passes
  <2>8. InFlight' = InFlight /\ InFlight \subseteq Active
    BY <2>1 DEF InFlight, Active
  <2>9. InFlight \subseteq Names(branches)
    BY <2>1, <2>4, <2>8
  <2>10. pass.made = <<>>
    BY <2>1
  <2>11. WithinBranches'
    BY <2>1, <2>8, FewerStayWithin
  <2>12. Len(branches) \in Nat /\ Len(<<>>) = 0
    BY <2>5
  <2>13. Len(pass'.st.current) + Len(pass'.made) = Len(branches)
    BY <2>6, <2>7, <2>10, <2>12
  <2>14. pass'.step = "Propose" =>
           /\ InFlight' \subseteq Names(pass'.st.current) \cup Names(pass'.made)
           /\ Len(pass'.st.current) + Len(pass'.made) <= spec'.maxActiveBranches
    <3>1. InFlight' \subseteq Names(pass'.st.current)
      BY <2>6, <2>7, <2>8, <2>9
    <3>2. step = "Propose" => Len(branches) <= spec'.maxActiveBranches
      BY <1>0, <2>1, <2>3, <2>6, <2>12
    <3> QED BY <2>7, <2>13, <3>1, <3>2
  <2>15. pass'.step # "Fold"
    BY <2>2, <2>7
  <2> QED BY <2>11, <2>14, <2>15
<1>4. CASE Structural \/ Skip \/ Invalid
  <2>1. /\ pass.step = "Propose" /\ pass'.step = "Propose"
        /\ pass'.st = pass.st /\ pass'.made = pass.made
        /\ UNCHANGED <<spec, camps, orphans>>
    BY <1>0, <1>4 DEF Structural, Skip, Invalid, Acting, Passes
  <2>2. InFlight' = InFlight
    BY <2>1 DEF InFlight, Active
  <2>3. WithinBranches'
    BY <2>1, <2>2, FewerStayWithin
  <2> QED BY <2>1, <2>2, <2>3
<1>5. ASSUME NEW c \in Campaigns, Fork(c) PROVE BranchInv'
  <2> DEFINE made == Append(pass.made, c)
  <2>1. /\ pass.step = "Propose" /\ Len(pass.made) < FreeSlots(pass.st)
        /\ camps' = [camps EXCEPT ![c] = "Active"] /\ orphans' = orphans \ {c}
        /\ UNCHANGED spec
        /\ pass'.step = "Propose" /\ pass'.st = pass.st /\ pass'.made = made
    BY <1>0, <1>5 DEF Fork, Acting, Passes
  <2>2. InFlight' \subseteq InFlight \cup {c}
    BY <1>0, <2>1 DEF InFlight, Active
  <2>3. /\ made \in Seq(Campaigns) /\ Len(made) = Len(pass.made) + 1
        /\ \A i \in 1..Len(pass.made) : made[i] = pass.made[i]
        /\ made[Len(pass.made) + 1] = c
    BY <1>0, AppendProperties
  <2>4. Len(pass.made) \in Nat /\ Len(pass.st.current) \in Nat
    BY <1>0
  <2> HIDE DEF made
  <2>5. Names(made) = Names(pass.made) \cup {c}
    <3>1. DOMAIN made = 1..(Len(pass.made) + 1) /\ DOMAIN pass.made = 1..Len(pass.made)
      BY <1>0, <2>3, <2>4
    <3> QED BY <2>3, <2>4, <3>1 DEF Names
  <2>6. Len(pass.st.current) + Len(made) <= spec.maxActiveBranches
    <3> DEFINE room == spec.maxActiveBranches
               listed == Len(pass.st.current)
               started == Len(pass.made)
    <3>1. started < IF listed <= room THEN room - listed ELSE 0
      BY <2>1 DEF FreeSlots
    <3>2. room \in Nat /\ listed \in Nat /\ started \in Nat /\ Len(made) = started + 1
      BY <1>0, <2>3, <2>4
    <3> HIDE DEF room, listed, started
    <3>3. listed + Len(made) <= room
      BY <3>1, <3>2
    <3> QED BY <3>3 DEF room, listed
  <2>7. InFlight' \subseteq Names(pass.st.current) \cup Names(made)
    BY <2>1, <2>2, <2>5
  <2>8. Cardinality(InFlight') <= spec.maxActiveBranches
    BY <1>0, <2>3, <2>6, <2>7, ListedStayWithin
  <2>9. WithinBranches'
    BY <2>1, <2>8 DEF WithinBranches, InFlight
  <2> QED BY <2>1, <2>6, <2>7, <2>9
<1>6. CASE NoProposal \/ ForkFails \/ Conclude
  <2>1. pass'.step = "Write" /\ UNCHANGED <<spec, camps, orphans>>
    BY <1>0, <1>6 DEF NoProposal, ForkFails, Conclude, Passes
  <2>2. InFlight' = InFlight
    BY <2>1 DEF InFlight, Active
  <2> QED BY <1>a, <2>1, <2>2
<1>7. CASE Write \/ Abort
  <2>1. pass' = NoPass /\ UNCHANGED <<spec, camps, orphans>>
    BY <1>7 DEF Write, Abort
  <2>2. pass'.step = "Idle"
    BY <2>1 DEF NoPass
  <2>3. InFlight' = InFlight
    BY <2>1 DEF InFlight, Active
  <2> QED BY <1>a, <2>1, <2>2, <2>3
\* A campaign that ends or is deleted in the middle of a pass.
<1>8. ASSUME NEW c \in Campaigns, End(c) \/ Delete(c) PROVE BranchInv'
  <2>1. UNCHANGED <<spec, orphans, pass>>
    BY <1>8 DEF End, Delete
  <2>2. camps' = [camps EXCEPT ![c] = "Ended"] \/ camps' = [camps EXCEPT ![c] = "Absent"]
    BY <1>8 DEF End, Delete
  <2>3. Active' \subseteq Active
    BY <1>0, <2>2 DEF Active
  <2>4. InFlight' \subseteq InFlight
    BY <2>1, <2>3 DEF InFlight
  <2>5. WithinBranches'
    BY <2>1, <2>4, FewerStayWithin
  <2> QED BY <2>1, <2>3, <2>4, <2>5
<1>9. CASE Sync \/ Approve \/ Pause \/ UNCHANGED vars
  <2>1. UNCHANGED <<spec, camps, orphans, pass>>
    BY <1>9 DEF Sync, Approve, Pause, vars
  <2>2. Active' = Active /\ InFlight' = InFlight
    BY <2>1 DEF InFlight, Active
  <2>3. WithinBranches'
    BY <2>1, <2>2, FewerStayWithin
  <2> QED BY <2>1, <2>2, <2>3
<1> QED BY <1>1, <1>2, <1>3, <1>4, <1>5, <1>6, <1>7, <1>8, <1>9
        DEF Next, PassStep, Environment

\* "limits.max_active_branches" (research_drive.rs): whatever the proposer asks
\* for, whichever writes are lost and however old the copies are that passes start
\* from, the campaigns in flight that the drive has not lost sight of are within it.
THEOREM WithinBranchesHolds == Spec => []WithinBranches
<1>1. Init => TypeInv /\ BranchInv
  BY TypeInit, BranchInit
<1>2. TypeInv /\ BranchInv /\ [Next]_vars => (TypeInv /\ BranchInv)'
  BY TypeStep, BranchStep
<1>3. BranchInv => WithinBranches
  BY DEF BranchInv
<1> QED BY <1>1, <1>2, <1>3, PTL DEF Spec

-----------------------------------------------------------------------------
(* The proposer's harness Job is read once while the ring of records has room, *)
(* for any size of the ring and however many campaigns end, calls fail and     *)
(* passes are cut off.                                                         *)

\* The ring and the bounds are numbers.
LEMMA HarnessBounds == {HarnessRingCap, MaxEnded, MaxFaults} \subseteq Nat
  BY HarnessBoundsAssumption

\* The ids grow: with room in the ring, a Job that is settled is older than the
\* next id and is not the one that the status points to.
SettledIsOld ==
    hstatus.records < HarnessRingCap =>
        \A i \in Ids : jobs[i].settled => i < ProposalId(hstatus) /\ i # hstatus.pending

PendingIsKnown == hstatus.pending <= ProposalId(hstatus)

\* What a pass has in hand, step by step.
HarnessPassInv ==
    /\ hpass.st.completed <= ended
    /\ hpass.step # "Idle" =>
          /\ hpass.id = hstatus.records + 1 + hpass.st.completed
          /\ hstatus.completed <= hpass.st.completed
    /\ hpass.step \in {"Poll", "Create", "Message", "Apply"} =>
          hpass.st.records = hstatus.records /\ hpass.settles = 0
    /\ hpass.step = "Poll" =>
          /\ hpass.st.pending # 0
          /\ hpass.st.pending = hstatus.pending
          /\ hpass.job = 0
    /\ hpass.step = "Create" => hpass.st.pending = 0 /\ hpass.job = 0
    /\ hpass.step \in {"Message", "Apply"} =>
          /\ hpass.job # 0
          /\ hpass.job = hstatus.pending
          /\ hpass.st.pending = 0
    /\ hpass.step = "Write" =>
          \/ /\ hpass.settles = 0
             /\ hpass.st.records \in {hstatus.records, Pushed(hstatus).records}
             /\ hpass.st.pending \in {0, hstatus.pending}
          \/ /\ hpass.settles = 0
             /\ hpass.st.records = hstatus.records
             /\ hpass.st.pending = hpass.id
          \/ /\ hpass.settles # 0
             /\ hpass.settles = hstatus.pending
             /\ hpass.st.records = Pushed(hstatus).records
             /\ hpass.st.pending = 0

HarnessInv ==
    /\ HarnessTypeOK
    /\ hstatus.completed <= ended
    /\ SettledIsOld
    /\ PendingIsKnown
    /\ HarnessPassInv

-----------------------------------------------------------------------------

\* The ring counts up to its cap.
LEMMA PushedIs ==
    ASSUME NEW st \in HarnessStatuses
    PROVE  /\ Pushed(st) \in HarnessStatuses
           /\ Pushed(st).records =
                 IF st.records < HarnessRingCap THEN st.records + 1 ELSE HarnessRingCap
           /\ Pushed(st).completed = st.completed
           /\ Pushed(st).pending = st.pending
  BY HarnessBounds DEF Pushed, HarnessStatuses

LEMMA LookedIs ==
    ASSUME NEW st \in HarnessStatuses
    PROVE  /\ Looked(st) \in HarnessStatuses
           /\ Looked(st).records = st.records
           /\ Looked(st).completed = st.completed
           /\ Looked(st).pending = 0
  BY DEF Looked, HarnessStatuses

LEMMA HarnessStarts == HarnessInit => HarnessInv
<1> SUFFICES ASSUME HarnessInit PROVE HarnessInv
  OBVIOUS
<1>1. FirstStatus \in HarnessStatuses /\ NoHarnessPass \in HarnessPasses
  BY HarnessBounds DEF FirstStatus, HarnessStatuses, NoHarnessPass, HarnessPasses
<1>2. HarnessTypeOK /\ hstatus.completed <= ended
  BY <1>1, HarnessBounds DEF HarnessInit, HarnessTypeOK, NoJob, JobRecords, FirstStatus
<1>3. SettledIsOld
  BY DEF HarnessInit, SettledIsOld, NoJob
<1>4. PendingIsKnown
  BY HarnessBounds DEF HarnessInit, PendingIsKnown, FirstStatus, ProposalId
<1>5. HarnessPassInv
  BY DEF HarnessInit, HarnessPassInv, NoHarnessPass, FirstStatus
<1> QED BY <1>2, <1>3, <1>4, <1>5 DEF HarnessInv

\* A step that leaves the status and what is settled alone keeps what they say.
LEMMA HarnessStatusKept ==
    ASSUME HarnessInv, hstatus' = hstatus,
           \A i \in Ids : jobs'[i].settled => jobs[i].settled
    PROVE  SettledIsOld' /\ PendingIsKnown'
  BY DEF HarnessInv, SettledIsOld, PendingIsKnown, ProposalId

\* A step that leaves the pass and the status alone keeps the pass's invariant.
LEMMA HarnessPassKept ==
    ASSUME HarnessPassInv, hpass' = hpass, hstatus' = hstatus, ended' \in Nat,
           ended \in Nat,
           hpass.st.completed \in Nat, ended <= ended'
    PROVE  HarnessPassInv'
  BY DEF HarnessPassInv

LEMMA BeginStays ==
    ASSUME HarnessInv, NEW p \in BOOLEAN, Begin(p)
    PROVE  HarnessInv'
<1> DEFINE st == [hstatus EXCEPT !.completed = ended]
<1>1. /\ st \in HarnessStatuses
      /\ st.records = hstatus.records
      /\ st.completed = ended
      /\ st.pending = hstatus.pending
  BY DEF HarnessInv, HarnessTypeOK, HarnessStatuses
<1>2. ProposalId(st) = hstatus.records + 1 + ended /\ ProposalId(st) \in Ids
  BY <1>1, HarnessBounds DEF HarnessInv, HarnessTypeOK, HarnessStatuses, ProposalId, Ids
<1>3. /\ hpass' \in HarnessPasses
      /\ hpass'.step =
            (IF ~p THEN "Write" ELSE IF st.pending = 0 THEN "Create" ELSE "Poll")
      /\ hpass'.st = st /\ hpass'.id = ProposalId(st)
      /\ hpass'.job = 0 /\ hpass'.settles = 0
  <2> HIDE DEF st
  <2> QED BY <1>1, <1>2 DEF Begin, NoHarnessPass, HarnessPasses, st
<1>4. UNCHANGED <<jobs, ended, hstatus, faults>>
  BY DEF Begin
<1> HIDE DEF st
<1>5. HarnessTypeOK' /\ (hstatus.completed <= ended)'
  BY <1>3, <1>4 DEF HarnessInv, HarnessTypeOK
<1>6. SettledIsOld' /\ PendingIsKnown'
  BY <1>4, HarnessStatusKept
<1>7. HarnessPassInv'
  BY <1>1, <1>2, <1>3, <1>4, HarnessBounds DEF HarnessPassInv, HarnessInv,
                                               HarnessTypeOK, HarnessStatuses
<1> QED BY <1>5, <1>6, <1>7 DEF HarnessInv

LEMMA PollStays == ASSUME HarnessInv, Poll PROVE HarnessInv'
<1>1. UNCHANGED <<jobs, ended, hstatus, faults>> /\ hpass.step = "Poll"
  BY DEF Poll
<1>2. /\ hpass \in HarnessPasses /\ hpass.st \in HarnessStatuses
      /\ hpass.st.pending \in Ids
  BY <1>1 DEF HarnessInv, HarnessTypeOK, HarnessPasses, HarnessPassInv, HarnessStatuses
<1>3. \/ /\ hpass' \in HarnessPasses /\ hpass'.step = "Create"
         /\ hpass'.st.pending = 0 /\ hpass'.job = hpass.job
         /\ hpass'.st.records = hpass.st.records
         /\ hpass'.st.completed = hpass.st.completed
         /\ hpass'.id = hpass.id /\ hpass'.settles = hpass.settles
      \/ /\ hpass' \in HarnessPasses /\ hpass'.step = "Write" /\ hpass'.st = hpass.st
         /\ hpass'.id = hpass.id /\ hpass'.settles = hpass.settles
      \/ /\ hpass' \in HarnessPasses /\ hpass'.step = "Message"
         /\ hpass'.st.pending = 0 /\ hpass'.job = hpass.st.pending
         /\ hpass'.st.records = hpass.st.records
         /\ hpass'.st.completed = hpass.st.completed
         /\ hpass'.id = hpass.id /\ hpass'.settles = hpass.settles
  <2>1. CASE hpass' = Gone(hpass)
    BY <1>2, <2>1 DEF Gone, HarnessPasses, HarnessStatuses
  <2>2. CASE hpass' = [hpass EXCEPT !.step = "Write"]
    BY <1>2, <2>2 DEF HarnessPasses
  <2>3. CASE hpass' = [hpass EXCEPT !.step = "Message", !.st = Looked(@),
                                    !.job = hpass.st.pending]
    BY <1>2, <2>3, LookedIs DEF HarnessPasses
  <2> QED BY <2>1, <2>2, <2>3 DEF Poll
<1>4. HarnessTypeOK' /\ (hstatus.completed <= ended)'
  BY <1>1, <1>3 DEF HarnessInv, HarnessTypeOK
<1>5. SettledIsOld' /\ PendingIsKnown'
  BY <1>1, HarnessStatusKept
<1>6. HarnessPassInv'
  BY <1>1, <1>2, <1>3 DEF HarnessPassInv, HarnessInv, HarnessTypeOK, HarnessStatuses
<1> QED BY <1>4, <1>5, <1>6 DEF HarnessInv

\* A step to Write that settles what the pass looked at, or nothing.
LEMMA Rejects ==
    ASSUME HarnessInv, hpass.step \in {"Poll", "Message", "Apply",
           "Create"},
           hpass' = [hpass EXCEPT !.step = "Write", !.st = Pushed(@),
                                  !.settles = hpass.job],
           UNCHANGED <<ended, hstatus>>, jobs' \in [Ids -> JobRecords],
           faults' \in 0 .. MaxFaults,
           \A i \in Ids : jobs'[i].settled => jobs[i].settled
    PROVE  HarnessInv'
<1>1. hpass \in HarnessPasses /\ hpass.st \in HarnessStatuses
  BY DEF HarnessInv, HarnessTypeOK, HarnessPasses
<1>2. /\ hpass' \in HarnessPasses /\ hpass'.step = "Write" /\ hpass'.settles = hpass.job
      /\ hpass'.st = Pushed(hpass.st) /\ hpass'.id = hpass.id
  BY <1>1, PushedIs DEF HarnessPasses
<1>3. HarnessTypeOK' /\ (hstatus.completed <= ended)'
  BY <1>2 DEF HarnessInv, HarnessTypeOK
<1>4. SettledIsOld' /\ PendingIsKnown'
  BY HarnessStatusKept
<1>5. HarnessPassInv'
  <2>1. /\ hpass'.st.records =
               (IF hpass.st.records < HarnessRingCap THEN hpass.st.records + 1
                ELSE HarnessRingCap)
        /\ hpass'.st.completed = hpass.st.completed
        /\ hpass'.st.pending = hpass.st.pending
    BY <1>1, <1>2, PushedIs
  <2>2. Pushed(hstatus).records =
           (IF hstatus.records < HarnessRingCap THEN hstatus.records + 1
            ELSE HarnessRingCap)
    BY PushedIs DEF HarnessInv, HarnessTypeOK
  <2>3. Pushed(hstatus)'.records = Pushed(hstatus).records
    BY DEF Pushed
  <2> QED BY <1>1, <1>2, <2>1, <2>2, <2>3 DEF HarnessPassInv, HarnessInv, HarnessTypeOK
<1> QED BY <1>3, <1>4, <1>5 DEF HarnessInv

\* A step of the pass that changes no more than where it is.
LEMMA Moves ==
    ASSUME HarnessInv, UNCHANGED <<jobs, ended, hstatus>>,
           faults' \in 0 .. MaxFaults,
           \/ hpass.step = "Message" /\ hpass' = [hpass EXCEPT !.step = "Apply"]
           \/ hpass.step = "Apply" /\ hpass' = [hpass EXCEPT !.step = "Write"]
    PROVE  HarnessInv'
<1>1. hpass \in HarnessPasses
  BY DEF HarnessInv, HarnessTypeOK
<1>2. /\ hpass' \in HarnessPasses /\ hpass'.st = hpass.st /\ hpass'.job = hpass.job
      /\ hpass'.settles = hpass.settles /\ hpass'.id = hpass.id
      /\ hpass'.step = (IF hpass.step = "Message" THEN "Apply" ELSE "Write")
  BY <1>1 DEF HarnessPasses
<1>3. HarnessTypeOK' /\ (hstatus.completed <= ended)'
  BY <1>2 DEF HarnessInv, HarnessTypeOK
<1>4. SettledIsOld' /\ PendingIsKnown'
  BY HarnessStatusKept
<1>5. HarnessPassInv'
  BY <1>1, <1>2 DEF HarnessPassInv, HarnessInv, HarnessTypeOK
<1> QED BY <1>3, <1>4, <1>5 DEF HarnessInv

LEMMA StartedIs ==
    ASSUME HarnessInv, NEW id \in Ids
    PROVE  /\ Started(id) \in [Ids -> JobRecords]
           /\ \A i \in Ids : Started(id)[i].settled = jobs[i].settled
  BY DEF Started, HarnessInv, HarnessTypeOK, JobRecords

LEMMA CreateStays == ASSUME HarnessInv, Create PROVE HarnessInv'
<1>1. UNCHANGED <<ended, hstatus, faults>> /\ hpass.step = "Create"
  BY DEF Create
<1>2. hpass \in HarnessPasses /\ hpass.st \in HarnessStatuses /\ hpass.id \in Ids
  <2>1. /\ hpass \in HarnessPasses /\ hpass.st \in HarnessStatuses
        /\ hpass.id \in {0} \cup Ids
    BY DEF HarnessInv, HarnessTypeOK, HarnessPasses
  <2>2. hpass.id # 0
    BY <1>1, <2>1, HarnessBounds DEF HarnessInv, HarnessTypeOK, HarnessPassInv,
                                     HarnessStatuses
  <2> QED BY <2>1, <2>2
<1>3. /\ hpass' \in HarnessPasses /\ hpass'.step = "Write"
      /\ hpass'.st.pending = hpass.id /\ hpass'.id = hpass.id
      /\ hpass'.st.records = hpass.st.records
      /\ hpass'.st.completed = hpass.st.completed
      /\ hpass'.settles = hpass.settles
  <2>1. hpass' = [hpass EXCEPT !.step = "Write", !.st = Remembered(@, hpass.id)]
    BY DEF Create
  <2>2. /\ Remembered(hpass.st, hpass.id) \in HarnessStatuses
        /\ Remembered(hpass.st, hpass.id).pending = hpass.id
        /\ Remembered(hpass.st, hpass.id).records = hpass.st.records
        /\ Remembered(hpass.st, hpass.id).completed = hpass.st.completed
    BY <1>2 DEF Remembered, HarnessStatuses
  <2> QED BY <1>2, <2>1, <2>2 DEF HarnessPasses
<1>4. /\ jobs' \in [Ids -> JobRecords]
      /\ \A i \in Ids : jobs'[i].settled => jobs[i].settled
  BY <1>2, StartedIs DEF Create, HarnessInv, HarnessTypeOK
<1>5. HarnessTypeOK' /\ (hstatus.completed <= ended)'
  BY <1>1, <1>3, <1>4 DEF HarnessInv, HarnessTypeOK
<1>6. SettledIsOld' /\ PendingIsKnown'
  BY <1>1, <1>4, HarnessStatusKept
<1>7. HarnessPassInv'
  BY <1>1, <1>2, <1>3 DEF HarnessPassInv, HarnessInv, HarnessTypeOK
<1> QED BY <1>5, <1>6, <1>7 DEF HarnessInv

LEMMA CallFailsStays ==
    ASSUME HarnessInv, CallFails
    PROVE  HarnessInv'
<1>1. /\ hpass.step \in {"Poll", "Message", "Create"} /\ UNCHANGED <<ended, hstatus>>
      /\ hpass' = [hpass EXCEPT !.step = "Write", !.st = Pushed(@),
                                !.settles = hpass.job]
  BY DEF CallFails
<1>2. faults' \in 0 .. MaxFaults
  BY HarnessBounds DEF CallFails, Fault, HarnessInv, HarnessTypeOK
<1>3. /\ jobs' \in [Ids -> JobRecords]
      /\ \A i \in Ids : jobs'[i].settled => jobs[i].settled
  <2>1. CASE UNCHANGED jobs
    BY <2>1 DEF HarnessInv, HarnessTypeOK
  <2>2. CASE hpass.step = "Create" /\ jobs' = Started(hpass.id)
    <3>1. hpass.id \in Ids
      BY <2>2, HarnessBounds DEF HarnessInv, HarnessTypeOK, HarnessPassInv,
                                 HarnessPasses, HarnessStatuses
    <3> QED BY <2>2, <3>1, StartedIs
  <2> QED BY <2>1, <2>2 DEF CallFails
<1> QED BY <1>1, <1>2, <1>3, Rejects

LEMMA WriteStays == ASSUME HarnessInv, HarnessWrite PROVE HarnessInv'
<1>1. /\ UNCHANGED <<ended, faults>> /\ hpass.step = "Write"
      /\ hstatus' = hpass.st /\ hpass' = NoHarnessPass
      /\ jobs' = IF hpass.settles = 0 THEN jobs
                 ELSE [jobs EXCEPT ![hpass.settles].settled = TRUE]
  BY DEF HarnessWrite, Written
<1>2. /\ hpass \in HarnessPasses /\ hpass.st \in HarnessStatuses
      /\ hpass.settles \in {0} \cup Ids
  BY DEF HarnessInv, HarnessTypeOK, HarnessPasses
<1>3. /\ NoHarnessPass \in HarnessPasses /\ NoHarnessPass.step = "Idle"
      /\ NoHarnessPass.st.completed = 0
  BY HarnessBounds DEF FirstStatus, HarnessStatuses, NoHarnessPass, HarnessPasses
<1>4. /\ jobs' \in [Ids -> JobRecords]
      /\ \A i \in Ids : jobs'[i].settled => jobs[i].settled \/ i = hpass.settles
  BY <1>1, <1>2 DEF HarnessInv, HarnessTypeOK, JobRecords
<1>5. HarnessTypeOK' /\ (hstatus.completed <= ended)'
  BY <1>1, <1>2, <1>3, <1>4 DEF HarnessInv, HarnessTypeOK, HarnessPassInv
<1>6. HarnessPassInv'
  BY <1>1, <1>3 DEF HarnessInv, HarnessTypeOK, HarnessPassInv
<1>7. Pushed(hstatus).records =
         (IF hstatus.records < HarnessRingCap THEN hstatus.records + 1
          ELSE HarnessRingCap)
  BY PushedIs DEF HarnessInv, HarnessTypeOK
<1>8. /\ hstatus \in HarnessStatuses
      /\ ProposalId(hstatus) = hstatus.records + 1 + hstatus.completed
      /\ ProposalId(hstatus)' = hpass.st.records + 1 + hpass.st.completed
      /\ hpass.id = hstatus.records + 1 + hpass.st.completed
      /\ hstatus.completed <= hpass.st.completed
      /\ hstatus.pending <= ProposalId(hstatus)
  BY <1>1 DEF HarnessInv, HarnessTypeOK, HarnessPassInv, ProposalId, PendingIsKnown
<1>9. PendingIsKnown'
  BY <1>1, <1>2, <1>7, <1>8, HarnessBounds DEF HarnessInv, HarnessPassInv,
                                               HarnessStatuses, PendingIsKnown, Ids
<1>10. SettledIsOld'
  <2> SUFFICES ASSUME hpass.st.records < HarnessRingCap,
                      NEW i \in Ids, jobs'[i].settled
               PROVE  i < ProposalId(hstatus)' /\ i # hpass.st.pending
    BY <1>1 DEF SettledIsOld
  <2>1. /\ hstatus.records < HarnessRingCap
        /\ hpass.st.records \in {hstatus.records, hstatus.records + 1}
        /\ hpass.settles # 0 =>
              /\ hpass.settles = hstatus.pending
              /\ hpass.st.records = hstatus.records + 1
              /\ hpass.st.pending = 0
        /\ hpass.settles = 0 =>
              \/ hpass.st.pending \in {0, hstatus.pending}
              \/ /\ hpass.st.pending = hpass.id
                 /\ hpass.st.records = hstatus.records
    BY <1>1, <1>2, <1>7, <1>8, HarnessBounds DEF HarnessInv, HarnessPassInv,
                                                 HarnessStatuses
  <2>2. CASE jobs[i].settled
    <3>1. i < ProposalId(hstatus) /\ i # hstatus.pending
      BY <2>1, <2>2 DEF HarnessInv, SettledIsOld
    <3> QED BY <1>2, <1>8, <2>1, <3>1, HarnessBounds DEF HarnessStatuses, Ids
  <2>3. CASE i = hpass.settles
    BY <1>2, <1>8, <2>1, <2>3, HarnessBounds DEF HarnessStatuses, Ids
  <2> QED BY <1>4, <2>2, <2>3
<1> QED BY <1>5, <1>6, <1>9, <1>10 DEF HarnessInv

LEMMA AbortStays == ASSUME HarnessInv, HarnessAbort PROVE HarnessInv'
<1>1. /\ UNCHANGED <<jobs, ended, hstatus>>
      /\ hpass' = NoHarnessPass
      /\ faults' \in 0 .. MaxFaults
  BY HarnessBounds DEF HarnessAbort, Fault, HarnessInv, HarnessTypeOK
<1>2. /\ NoHarnessPass \in HarnessPasses /\ NoHarnessPass.step = "Idle"
      /\ NoHarnessPass.st.completed = 0
  BY HarnessBounds DEF FirstStatus, HarnessStatuses, NoHarnessPass, HarnessPasses
<1>3. SettledIsOld' /\ PendingIsKnown'
  BY <1>1, HarnessStatusKept
<1> QED BY <1>1, <1>2, <1>3 DEF HarnessInv, HarnessTypeOK, HarnessPassInv

\* What happens to the Jobs and the campaigns settles nothing.
LEMMA WorldStays ==
    ASSUME HarnessInv, UNCHANGED <<hstatus, hpass>>,
           jobs' \in [Ids -> JobRecords],
           ended' \in 0 .. MaxEnded, ended <= ended', faults' \in 0 .. MaxFaults,
           \A i \in Ids : jobs'[i].settled => jobs[i].settled
    PROVE  HarnessInv'
<1>1. SettledIsOld' /\ PendingIsKnown'
  BY HarnessStatusKept
<1>2. HarnessPassInv'
  BY HarnessPassKept, HarnessBounds DEF HarnessInv, HarnessTypeOK, HarnessPasses,
                                        HarnessStatuses
<1>3. HarnessTypeOK' /\ (hstatus.completed <= ended)'
  BY HarnessBounds DEF HarnessInv, HarnessTypeOK, HarnessStatuses
<1> QED BY <1>1, <1>2, <1>3 DEF HarnessInv

LEMMA HarnessStays ==
    HarnessInv /\ [HarnessNext]_harnessVars => HarnessInv'
<1> SUFFICES ASSUME HarnessInv, [HarnessNext]_harnessVars PROVE HarnessInv'
  OBVIOUS
<1>0. CASE UNCHANGED harnessVars
  BY <1>0, WorldStays DEF harnessVars, HarnessInv, HarnessTypeOK
<1>1. CASE HarnessPassStep
  <2>1. CASE Message
    <3>1. UNCHANGED <<jobs, ended, hstatus, faults>> /\ hpass.step = "Message"
      BY <2>1 DEF Message
    <3>2. CASE hpass' = [hpass EXCEPT !.step = "Apply"]
      BY <3>1, <3>2, Moves DEF HarnessInv, HarnessTypeOK
    <3>3. CASE hpass' = [hpass EXCEPT !.step = "Write", !.st = Pushed(@),
                                      !.settles = hpass.job]
      BY <3>1, <3>3, Rejects DEF HarnessInv, HarnessTypeOK
    <3> QED BY <2>1, <3>2, <3>3 DEF Message
  <2>2. CASE Apply
    BY <2>2, Rejects DEF Apply, HarnessInv, HarnessTypeOK
  <2> QED BY <1>1, <2>1, <2>2, BeginStays, PollStays, CreateStays, WriteStays
             DEF HarnessPassStep
<1>2. CASE ApplyFails
  BY <1>2, Moves, HarnessBounds DEF ApplyFails, Fault, HarnessInv, HarnessTypeOK
<1>3. CASE EndCampaign
  BY <1>3, WorldStays, HarnessBounds DEF EndCampaign, HarnessInv, HarnessTypeOK
<1>4. ASSUME NEW i \in Ids, Finish(i) \/ Expire(i) \/ DeleteHarness(i)
      PROVE  HarnessInv'
  <2>1. /\ jobs' \in [Ids -> JobRecords]
        /\ \A j \in Ids : jobs'[j].settled => jobs[j].settled
    <3>1. NoJob \in JobRecords /\ ~NoJob.settled
      BY DEF NoJob, JobRecords
    <3>2. CASE jobs' = [jobs EXCEPT ![i] = NoJob]
      BY <3>1, <3>2 DEF HarnessInv, HarnessTypeOK
    <3>3. ASSUME NEW state \in {"Proposed", "Dead"},
                 jobs' = [jobs EXCEPT ![i].state = state]
          PROVE  <2>1!1 /\ <2>1!2
      BY <3>3 DEF JobRecords, HarnessInv, HarnessTypeOK
    <3> QED BY <1>4, <3>2, <3>3 DEF Finish, Expire, DeleteHarness
  <2>2. UNCHANGED <<hstatus, hpass, ended>> /\ faults' \in 0 .. MaxFaults
    BY <1>4, HarnessBounds DEF Finish, Expire, DeleteHarness, Fault, HarnessInv,
                               HarnessTypeOK
  <2> QED BY <2>1, <2>2, WorldStays, HarnessBounds DEF HarnessInv, HarnessTypeOK
<1> QED BY <1>0, <1>1, <1>2, <1>3, <1>4, AbortStays, CallFailsStays DEF HarnessNext

\* The type invariant.
THEOREM HarnessTypeCorrect == HarnessSpec => []HarnessTypeOK
<1>1. HarnessInv => HarnessTypeOK
  BY DEF HarnessInv
<1>2. HarnessInit => HarnessInv
  BY HarnessStarts
<1>3. HarnessInv /\ [HarnessNext]_harnessVars => HarnessInv'
  BY HarnessStays
<1> QED BY <1>1, <1>2, <1>3, PTL DEF HarnessSpec

\* While the ring has room, what a harness Job came to is read no second time once
\* the drive's status has it.
THEOREM JobsAreReadOnce == HarnessSpec => []ReadOnce
<1>1. HarnessInv => ReadOnce
  BY DEF HarnessInv, HarnessTypeOK, HarnessPasses, HarnessPassInv, SettledIsOld,
         ReadOnce
<1>2. HarnessInit => HarnessInv
  BY HarnessStarts
<1>3. HarnessInv /\ [HarnessNext]_harnessVars => HarnessInv'
  BY HarnessStays
<1> QED BY <1>1, <1>2, <1>3, PTL DEF HarnessSpec

=============================================================================
