--------------------------- MODULE CuratorProofs ---------------------------
(***************************************************************************)
(* No curator's save overwrites what it was not written against, and none   *)
(* loses what was typed before it was sent, for any number of tabs,         *)
(* versions, calls and failures.                                            *)
(***************************************************************************)
EXTENDS Curator, TLAPS

StoreInv ==
    /\ versions \in Seq(Specs)
    /\ Len(versions) <= MaxVersions
    /\ \A i \in 1 .. Len(versions) : versions[i].text \in Stored
    /\ exists \in BOOLEAN
    /\ exists => Len(versions) > 0
    /\ stamped \in BOOLEAN

Known == 1 .. Len(versions)

\* What tab t holds, and what it is answered with, is what the report held in the
\* version that it remembers; the references of its draft are those that were loaded,
\* and so are those that a save carries. A save carries the draft as it still is, until
\* the scientist types on or the draft goes.
TabInv(t) ==
    /\ tabs[t] \in TabStates /\ loads[t] \in Calls /\ saves[t] \in Calls
    /\ tabs[t].base.text \in Stored
    /\ tabs[t].draft.refs = tabs[t].base.refs
    /\ tabs[t].loaded # 0 => tabs[t].loaded \in Known /\ tabs[t].base = versions[tabs[t].loaded]
    /\ loads[t].stage = "Answered" =>
          loads[t].rv \in Known /\ loads[t].dto = versions[loads[t].rv]
    /\ saves[t].stage = "Answered" =>
          saves[t].rv \in Known /\ saves[t].dto = versions[saves[t].rv]
    /\ saves[t].stage \in {"Sent", "Got", "Answered"} /\ ~late[t] /\ Dirty(tabs[t]) =>
          saves[t].dto = Dto(tabs[t].draft)
    /\ saves[t].stage \in {"Sent", "Got"} =>
          /\ saves[t].dto.text \in Stored
          /\ saves[t].stage = "Got" => saves[t].rv # 0
          /\ saves[t].rv # 0 =>
                saves[t].rv \in Known /\ saves[t].dto.refs = versions[saves[t].rv].refs

Typing ==
    /\ tabs \in [Tabs -> TabStates]
    /\ loads \in [Tabs -> Calls]
    /\ saves \in [Tabs -> Calls]
    /\ author \in {"Todo", "Writing", "Over"}
    /\ calls \in 0 .. MaxCalls
    /\ faults \in 0 .. MaxFaults
    /\ late \in [Tabs -> BOOLEAN]

IInv == StoreInv /\ Typing /\ \A t \in Tabs : TabInv(t)

-----------------------------------------------------------------------------

LEMMA StoredIsTyped ==
    /\ Stored \subseteq Typed
    /\ \A x \in Typed : Trimmed[x] \in Stored
    /\ Blank \in Stored /\ WriteUp \in Stored
  BY TextAssumption DEF Stored

LEMMA Blanks ==
    /\ NewDraft \in Specs /\ NewTab \in TabStates /\ NoCall \in Calls /\ Failure \in Calls
    /\ Failure.stage = "Failed" /\ NoCall.stage = "None"
    /\ NewTab.loaded = 0 /\ NewTab.base = NewDraft /\ NewTab.draft = NewDraft
    /\ NewDraft.text = Blank
<1>1. NewDraft \in Specs /\ NewDraft.text = Blank
  BY TextAssumption DEF NewDraft, Specs
<1>2. 0 \in Versions
  BY BoundsAssumption DEF Versions
<1>3. NewTab \in TabStates /\ NewTab.loaded = 0 /\ NewTab.base = NewDraft /\ NewTab.draft = NewDraft
  BY <1>1, <1>2 DEF NewTab, TabStates
<1>4. NoCall \in Calls /\ NoCall.stage = "None"
  BY <1>1, <1>2 DEF NoCall, Calls
<1>5. Failure \in Calls /\ Failure.stage = "Failed"
  BY <1>1, <1>2 DEF Failure, NoCall, Calls
<1> QED BY <1>1, <1>3, <1>4, <1>5

LEMMA AnswerIs ==
    ASSUME NEW spec \in Specs, NEW rv \in Versions
    PROVE  /\ Answer(spec, rv) \in Calls /\ Answer(spec, rv).stage = "Answered"
           /\ Answer(spec, rv).rv = rv /\ Answer(spec, rv).dto = spec
  BY DEF Answer, Calls

LEMMA Starts == Init => IInv
<1> SUFFICES ASSUME Init PROVE IInv
  OBVIOUS
<1>1. StoreInv
  <2>1. versions \in Seq(Specs) /\ Len(versions) = 0 /\ Len(versions) <= MaxVersions
    BY BoundsAssumption DEF Init
  <2>2. exists = FALSE /\ stamped = TRUE
    BY DEF Init
  <2>3. \A i \in 1 .. Len(versions) : versions[i].text \in Stored
    BY <2>1
  <2>4. exists \in BOOLEAN /\ ~exists /\ stamped \in BOOLEAN
    BY <2>2
  <2> QED BY <2>1, <2>3, <2>4, Zenon DEF StoreInv
<1>2. Typing
  BY Blanks, BoundsAssumption DEF Init, Typing
<1>3. ASSUME NEW t \in Tabs PROVE TabInv(t)
  BY Blanks, StoredIsTyped DEF Init, TabInv
<1> QED BY <1>1, <1>2, <1>3 DEF IInv

\* The versions that there were are still there.
Grown ==
    /\ Len(versions') \in Nat /\ Len(versions) \in Nat
    /\ Len(versions) <= Len(versions')
    /\ \A i \in 1 .. Len(versions) : versions'[i] = versions[i]

LEMMA Same ==
    ASSUME StoreInv, UNCHANGED <<versions, stamped>>, exists' = exists \/ exists' = FALSE
    PROVE  StoreInv' /\ Grown
<1>1. Len(versions) \in Nat
  BY DEF StoreInv
<1>2. Grown
  BY <1>1 DEF Grown
<1>3. exists \in BOOLEAN
  BY Zenon DEF StoreInv
<1>4. exists' \in BOOLEAN /\ (exists' => exists)
  <2>1. CASE exists' = exists
    BY <2>1, <1>3
  <2>2. CASE exists' = FALSE
    BY <2>2
  <2> QED BY <2>1, <2>2
<1> QED BY <1>2, <1>4, Zenon DEF StoreInv

LEMMA PutKeeps ==
    ASSUME StoreInv, NEW spec \in Specs, spec.text \in Stored, Put(spec)
    PROVE  /\ StoreInv' /\ Grown
           /\ Len(versions') = Len(versions) + 1
           /\ versions'[Len(versions')] = spec
           /\ exists'
<1>1. /\ versions' \in Seq(Specs)
      /\ Len(versions') = Len(versions) + 1
      /\ \A i \in 1 .. Len(versions) : versions'[i] = versions[i]
      /\ versions'[Len(versions) + 1] = spec
  BY DEF StoreInv, Put
<1>2. \A i \in 1 .. Len(versions') : versions'[i].text \in Stored
  BY <1>1 DEF StoreInv
<1>3. exists' = TRUE /\ stamped' \in BOOLEAN /\ Len(versions) < MaxVersions
  BY DEF Put, Room
<1>4. Len(versions) \in Nat /\ Len(versions) + 1 <= MaxVersions
  BY <1>3, BoundsAssumption DEF StoreInv
<1>5. Grown
  BY <1>1, <1>4 DEF Grown
<1> QED BY <1>1, <1>2, <1>3, <1>4, <1>5 DEF StoreInv

LEMMA NowIsTyped ==
    ASSUME StoreInv, exists
    PROVE  Now \in Specs /\ Now.text \in Stored /\ Len(versions) \in Known
  BY DEF StoreInv, Now, Known

\* A tab that a step leaves alone.
LEMMA TabStays ==
    ASSUME NEW t, TabInv(t), Grown,
           tabs'[t] = tabs[t], loads'[t] = loads[t], saves'[t] = saves[t],
           late'[t] = late[t]
    PROVE  TabInv(t)'
  BY DEF TabInv, Grown, Known

\* A tab of which only its calls move on, to an answer or a failure.
LEMMA CallsMove ==
    ASSUME NEW t, TabInv(t), Grown, tabs'[t] = tabs[t], late'[t] = late[t],
           loads'[t] \in Calls, saves'[t] \in Calls,
           \/ loads'[t] = loads[t]
           \/ loads'[t].stage = "Answered" =>
                 loads'[t].rv \in 1 .. Len(versions') /\ loads'[t].dto = versions'[loads'[t].rv],
           \/ saves'[t] = saves[t]
           \/ saves'[t].stage = "Failed"
           \/ /\ saves'[t].stage = "Answered" /\ saves[t].stage \in {"Sent", "Got"}
              /\ saves'[t].rv \in 1 .. Len(versions') /\ saves'[t].dto = versions'[saves'[t].rv]
              /\ saves'[t].dto = saves[t].dto
    PROVE  TabInv(t)'
  BY DEF TabInv, Grown, Known
-----------------------------------------------------------------------------

-----------------------------------------------------------------------------
(* The steps, by who takes them.                                            *)

Elsewhere ==
    \/ Stamp \/ Delete \/ AuthorLooks \/ AuthorWrites
    \/ \E refs \in Refs : Amend(refs)

Typist(t) == (\E text \in Typed : Type(t, text)) \/ Revert(t) \/ StartNew(t) \/ Open(t) \/ Save(t)

LEMMA Counts == Typing /\ (Fault \/ UNCHANGED faults) /\ (Call \/ UNCHANGED calls) =>
                    calls' \in 0 .. MaxCalls /\ faults' \in 0 .. MaxFaults
  BY BoundsAssumption DEF Typing, Fault, Call

LEMMA ElsewhereKeeps == IInv /\ Elsewhere => IInv'
<1> SUFFICES ASSUME IInv, Elsewhere PROVE IInv'
  OBVIOUS
<1>1. UNCHANGED <<tabs, loads, saves, calls, late>>
  BY DEF Elsewhere, Stamp, Delete, AuthorLooks, AuthorWrites, Amend
<1>2. Fault \/ UNCHANGED faults
  BY DEF Elsewhere, Stamp, Delete, AuthorLooks, AuthorWrites, Amend
<1>3. author' \in {"Todo", "Writing", "Over"}
  BY DEF IInv, Typing, Elsewhere, Stamp, Delete, AuthorLooks, AuthorWrites, Amend
<1>4. Typing'
  BY <1>1, <1>2, <1>3, Counts DEF IInv, Typing
<1>5. StoreInv' /\ Grown
  <2>1. CASE Stamp
    <3>1. Now \in Specs /\ Now.text \in Stored
      BY <2>1, NowIsTyped DEF IInv, Stamp
    <3>2. Len(versions) \in Nat /\ Len(versions) < MaxVersions
      BY <2>1 DEF IInv, StoreInv, Stamp, Room
    <3>3. versions' = Append(versions, Now)
      BY <2>1 DEF Stamp
    <3>4. /\ versions' \in Seq(Specs) /\ Len(versions') = Len(versions) + 1
          /\ \A i \in 1 .. Len(versions) : versions'[i] = versions[i]
          /\ versions'[Len(versions) + 1] = Now
      BY <3>1, <3>3 DEF IInv, StoreInv
    <3>5. \A i \in 1 .. Len(versions') : versions'[i].text \in Stored
      BY <3>1, <3>2, <3>4 DEF IInv, StoreInv
    <3>6. Len(versions') <= MaxVersions /\ Len(versions') > 0 /\ Grown
      BY <3>2, <3>4, BoundsAssumption DEF Grown
    <3>7. exists' = exists /\ stamped' = TRUE
      BY <2>1 DEF Stamp
    <3>8. exists' \in BOOLEAN /\ stamped' \in BOOLEAN
      BY <3>7, Zenon DEF IInv, StoreInv
    <3> QED BY <3>4, <3>5, <3>6, <3>8, Zenon DEF StoreInv
  <2>2. CASE Delete
    BY <2>2, Same DEF IInv, Delete
  <2>3. CASE AuthorLooks
    BY <2>3, Same DEF IInv, AuthorLooks
  <2>4. CASE AuthorWrites
    <3>1. CASE Put([text |-> WriteUp, refs |-> NoRefs])
      <4>1. [text |-> WriteUp, refs |-> NoRefs] \in Specs
        BY TextAssumption DEF Specs
      <4> QED BY <3>1, <4>1, PutKeeps, StoredIsTyped DEF IInv
    <3>2. CASE UNCHANGED <<versions, exists, stamped>>
      BY <3>2, Same DEF IInv
    <3> QED BY <2>4, <3>1, <3>2 DEF AuthorWrites
  <2>5. ASSUME NEW refs \in Refs, Amend(refs) PROVE StoreInv' /\ Grown
    <3>1. Now \in Specs /\ Now.text \in Stored
      BY <2>5, NowIsTyped DEF IInv, Amend
    <3>2. [Now EXCEPT !.refs = refs] \in Specs /\ [Now EXCEPT !.refs = refs].text \in Stored
      BY <3>1 DEF Specs
    <3> QED BY <2>5, <3>2, PutKeeps DEF IInv, Amend
  <2> QED BY <2>1, <2>2, <2>3, <2>4, <2>5 DEF Elsewhere
<1>6. ASSUME NEW t \in Tabs PROVE TabInv(t)'
  BY <1>1, <1>5, TabStays DEF IInv
<1> QED BY <1>4, <1>5, <1>6 DEF IInv

\* A save carries the draft trimmed, with the references it was loaded with.
LEMMA DtoIs ==
    ASSUME NEW draft \in Specs
    PROVE  /\ Dto(draft) \in Specs /\ Dto(draft).text \in Stored
           /\ Dto(draft).refs = draft.refs
  BY StoredIsTyped, TextAssumption DEF Dto, Specs
-----------------------------------------------------------------------------

\* The other tabs of a step of tab t.
Others(t) ==
    \A u \in Tabs \ {t} : /\ tabs'[u] = tabs[u] /\ loads'[u] = loads[u]
                         /\ saves'[u] = saves[u] /\ late'[u] = late[u]

LEMMA OneTab ==
    ASSUME IInv, StoreInv', Grown, Typing', NEW t \in Tabs, Others(t), TabInv(t)'
    PROVE  IInv'
<1>1. ASSUME NEW u \in Tabs PROVE TabInv(u)'
  <2>1. CASE u = t
    BY <2>1
  <2>2. CASE u # t
    BY <2>2, TabStays DEF IInv, Others
  <2> QED BY <2>1, <2>2
<1> QED BY <1>1 DEF IInv

LEMMA TypistKeeps ==
    ASSUME NEW t \in Tabs, IInv, Typist(t)
    PROVE  IInv'
<1>1. StoreInv' /\ Grown
  <2>1. UNCHANGED <<versions, exists, stamped>>
    BY DEF Typist, Type, Revert, StartNew, Open, Save
  <2> QED BY <2>1, Same DEF IInv
<1>2. calls' \in 0 .. MaxCalls /\ faults' \in 0 .. MaxFaults /\ author' = author
  <2>1. (Call \/ UNCHANGED calls) /\ UNCHANGED <<faults, author>>
    BY DEF Typist, Type, Revert, StartNew, Open, Save
  <2> QED BY <2>1, Counts DEF IInv
<1>3. TabInv(t) /\ Typing
  BY DEF IInv
<1>4. tabs[t] \in TabStates
  BY <1>3 DEF Typing
<1>5. ASSUME NEW text \in Typed, Type(t, text)
      PROVE  Typing' /\ Others(t) /\ TabInv(t)'
  <2> DEFINE new == [tabs[t] EXCEPT !.draft.text = text]
  <2>1. new \in TabStates /\ new.base = tabs[t].base /\ new.loaded = tabs[t].loaded
        /\ new.draft.refs = tabs[t].draft.refs
    BY <1>4 DEF TabStates, Specs
  <2> DEFINE typed == saves[t].stage # "None"
  <2>2. /\ tabs' = [tabs EXCEPT ![t] = new] /\ UNCHANGED <<loads, saves>>
        /\ late' = [late EXCEPT ![t] = typed]
    BY <1>5 DEF Type
  <2> typed \in BOOLEAN
    OBVIOUS
  <2>4. typed <=> saves[t].stage # "None"
    OBVIOUS
  <2> HIDE DEF new, typed
  <2>3. Typing' /\ Others(t) /\ tabs'[t] = new /\ (late'[t] <=> typed)
    BY <1>2, <1>3, <2>1, <2>2 DEF Typing, Others
  <2> QED BY <1>1, <1>3, <2>1, <2>2, <2>3, <2>4 DEF TabInv, Grown, Known
<1>6. ASSUME Revert(t) PROVE Typing' /\ Others(t) /\ TabInv(t)'
  <2> DEFINE new == [tabs[t] EXCEPT !.draft = tabs[t].base]
  <2>1. new \in TabStates /\ new.base = tabs[t].base /\ new.loaded = tabs[t].loaded
        /\ new.draft.refs = tabs[t].base.refs /\ ~Dirty(new)
    BY <1>4 DEF TabStates, Specs, Dirty
  <2>2. tabs' = [tabs EXCEPT ![t] = new] /\ UNCHANGED <<loads, saves, late>>
    BY <1>6 DEF Revert
  <2> HIDE DEF new
  <2>3. Typing' /\ Others(t) /\ tabs'[t] = new
    BY <1>2, <1>3, <2>1, <2>2 DEF Typing, Others
  <2> QED BY <1>1, <1>3, <2>1, <2>2, <2>3 DEF TabInv, Grown, Known
<1>7. ASSUME StartNew(t) PROVE Typing' /\ Others(t) /\ TabInv(t)'
  <2>1. tabs' = [tabs EXCEPT ![t] = NewTab] /\ UNCHANGED <<loads, saves, late>>
    BY <1>7 DEF StartNew
  <2>2. Typing' /\ Others(t) /\ tabs'[t] = NewTab
    BY <1>2, <1>3, <2>1, Blanks DEF Typing, Others
  <2>3. ~Dirty(NewTab)
    BY Blanks DEF Dirty
  <2> QED BY <1>1, <1>3, <2>1, <2>2, <2>3, Blanks, StoredIsTyped DEF TabInv, Grown, Known
<1>8. ASSUME Open(t) PROVE Typing' /\ Others(t) /\ TabInv(t)'
  <2> DEFINE new == [tabs[t] EXCEPT !.save = "Busy"]
             call == [NoCall EXCEPT !.stage = "Sent"]
  <2>1. new \in TabStates /\ new.base = tabs[t].base /\ new.loaded = tabs[t].loaded
        /\ new.draft = tabs[t].draft /\ (Dirty(new) <=> Dirty(tabs[t]))
    BY <1>4 DEF TabStates, Dirty
  <2>2. call \in Calls /\ call.stage = "Sent"
    BY Blanks DEF Calls
  <2>3. /\ tabs' = [tabs EXCEPT ![t] = new] /\ loads' = [loads EXCEPT ![t] = call]
        /\ UNCHANGED <<saves, late>>
    BY <1>8 DEF Open
  <2> HIDE DEF new, call
  <2>4. Typing' /\ Others(t) /\ tabs'[t] = new /\ loads'[t] = call
    BY <1>2, <1>3, <2>1, <2>2, <2>3 DEF Typing, Others
  <2> QED BY <1>1, <1>3, <2>1, <2>2, <2>3, <2>4 DEF TabInv, Grown, Known
<1>9. ASSUME Save(t) PROVE Typing' /\ Others(t) /\ TabInv(t)'
  <2> DEFINE new == [tabs[t] EXCEPT !.save = "Busy"]
             call == [stage |-> "Sent", dto |-> Dto(tabs[t].draft), rv |-> tabs[t].loaded]
  <2>1. new \in TabStates /\ new.base = tabs[t].base /\ new.loaded = tabs[t].loaded
        /\ new.draft = tabs[t].draft
    BY <1>4 DEF TabStates
  <2>2. /\ call \in Calls /\ call.stage = "Sent" /\ call.rv = tabs[t].loaded
        /\ call.dto.text \in Stored /\ call.dto.refs = tabs[t].draft.refs
        /\ call.dto = Dto(new.draft)
    BY <1>4, <2>1, DtoIs DEF Calls, TabStates
  <2>3. /\ tabs' = [tabs EXCEPT ![t] = new] /\ saves' = [saves EXCEPT ![t] = call]
        /\ UNCHANGED <<loads, late>>
    BY <1>9 DEF Save
  <2> HIDE DEF new, call
  <2>4. Typing' /\ Others(t) /\ tabs'[t] = new /\ saves'[t] = call
    BY <1>2, <1>3, <2>1, <2>2, <2>3 DEF Typing, Others
  <2> QED BY <1>1, <1>3, <2>1, <2>2, <2>3, <2>4 DEF TabInv, Grown, Known
<1>10. Typing' /\ Others(t) /\ TabInv(t)'
  BY <1>5, <1>6, <1>7, <1>8, <1>9 DEF Typist
<1> QED BY <1>1, <1>10, OneTab
-----------------------------------------------------------------------------

\* What the server answered is loaded.
LEMMA OpenedIs ==
    ASSUME StoreInv, NEW answer \in Calls, NEW save \in {"Idle", "Busy", "Done", "Failed"},
           answer.rv \in Known, answer.dto = versions[answer.rv]
    PROVE  LET new == Opened(answer, save) IN
           /\ new \in TabStates /\ new.loaded = answer.rv
           /\ new.base = versions[answer.rv] /\ new.draft = new.base
           /\ new.base.text \in Stored
<1>1. /\ versions[answer.rv] \in Specs /\ versions[answer.rv].text \in Stored
      /\ answer.rv \in Versions
  BY BoundsAssumption DEF StoreInv, Known, Versions
<1> QED BY <1>1 DEF Opened, TabStates

LEMMA AnswerTaken ==
    ASSUME NEW t \in Tabs, IInv, LoadDone(t) \/ SaveDone(t)
    PROVE  IInv'
<1>1. StoreInv' /\ Grown
  <2>1. UNCHANGED <<versions, exists, stamped>>
    BY DEF LoadDone, SaveDone
  <2> QED BY <2>1, Same DEF IInv
<1>2. TabInv(t) /\ Typing /\ StoreInv /\ tabs[t] \in TabStates
  BY DEF IInv, Typing
<1>3. PICK new \in TabStates :
         /\ tabs' = [tabs EXCEPT ![t] = new]
         /\ \/ /\ new.loaded \in Known /\ new.base = versions[new.loaded]
               /\ new.draft = new.base /\ new.base.text \in Stored
            \/ new.loaded = tabs[t].loaded /\ new.base = tabs[t].base /\ new.draft = tabs[t].draft
  <2>1. ASSUME NEW answer \in Calls, NEW save \in {"Idle", "Done"},
               answer.rv \in Known, answer.dto = versions[answer.rv],
               tabs' = [tabs EXCEPT ![t] = Opened(answer, save)]
        PROVE  \E new \in TabStates :
                  /\ tabs' = [tabs EXCEPT ![t] = new]
                  /\ new.loaded \in Known /\ new.base = versions[new.loaded]
                  /\ new.draft = new.base /\ new.base.text \in Stored
    <3> DEFINE new == Opened(answer, save)
    <3>1. /\ new \in TabStates /\ new.loaded = answer.rv
          /\ new.base = versions[answer.rv] /\ new.draft = new.base
          /\ new.base.text \in Stored
      BY <1>2, <2>1, OpenedIs
    <3>2. tabs' = [tabs EXCEPT ![t] = new]
      BY <2>1
    <3> HIDE DEF new
    <3> QED BY <2>1, <3>1, <3>2
  <2>2. CASE loads[t].stage = "Answered" /\ tabs' = [tabs EXCEPT ![t] = Opened(loads[t], "Idle")]
    <3>1. loads[t] \in Calls /\ loads[t].rv \in Known /\ loads[t].dto = versions[loads[t].rv]
      BY <1>2, <2>2 DEF TabInv
    <3> QED BY <2>1, <2>2, <3>1
  <2>3. CASE saves[t].stage = "Answered" /\ tabs' = [tabs EXCEPT ![t] = Opened(saves[t], "Done")]
    <3>1. saves[t] \in Calls /\ saves[t].rv \in Known /\ saves[t].dto = versions[saves[t].rv]
      BY <1>2, <2>3 DEF TabInv
    <3> QED BY <2>1, <2>3, <3>1
  <2>4. CASE tabs' = [tabs EXCEPT ![t] = FailedTab(@)]
    <3>1. /\ FailedTab(tabs[t]) \in TabStates /\ FailedTab(tabs[t]).loaded = tabs[t].loaded
          /\ FailedTab(tabs[t]).base = tabs[t].base /\ FailedTab(tabs[t]).draft = tabs[t].draft
      BY <1>2 DEF FailedTab, TabStates
    <3> QED BY <2>4, <3>1
  <2> QED BY <2>2, <2>3, <2>4 DEF LoadDone, SaveDone
<1>4. \/ loads' = [loads EXCEPT ![t] = NoCall] /\ UNCHANGED <<saves, author, calls, faults, late>>
      \/ /\ saves' = [saves EXCEPT ![t] = NoCall] /\ UNCHANGED <<loads, author, calls, faults>>
         /\ late' = [late EXCEPT ![t] = FALSE]
  BY DEF LoadDone, SaveDone
<1>5. Typing' /\ Others(t) /\ tabs'[t] = new
  BY <1>2, <1>3, <1>4, Blanks DEF Typing, Others
<1>6. \/ loads'[t] = NoCall /\ saves'[t] = saves[t] /\ late'[t] = late[t]
      \/ saves'[t] = NoCall /\ loads'[t] = loads[t]
  BY <1>2, <1>4 DEF Typing
<1>7. TabInv(t)'
  BY <1>1, <1>2, <1>3, <1>5, <1>6, Blanks DEF TabInv, Grown, Known, Dirty
<1> QED BY <1>1, <1>5, <1>7, OneTab

\* A call that the server takes a step further.
LEMMA CallServed ==
    ASSUME NEW t \in Tabs, IInv, Get(t) \/ Create(t) \/ Look(t) \/ Replace(t) \/ CallFails(t)
    PROVE  IInv'
<1>1. TabInv(t) /\ Typing /\ StoreInv /\ loads[t] \in Calls /\ saves[t] \in Calls
  BY DEF IInv, Typing
<1>2. ASSUME NEW rv \in 1 .. Len(versions'), Len(versions') <= MaxVersions,
             Len(versions') \in Nat, NEW spec \in Specs
      PROVE  /\ Answer(spec, rv) \in Calls /\ Answer(spec, rv).rv = rv
             /\ Answer(spec, rv).dto = spec /\ Answer(spec, rv).stage = "Answered"
  <2>1. rv \in Versions
    BY <1>2, BoundsAssumption DEF Versions
  <2> QED BY <2>1, AnswerIs
<1>3. ASSUME saves[t].stage \in {"Sent", "Got"}, Put(saves[t].dto)
      PROVE  /\ StoreInv' /\ Grown /\ Len(versions') = Len(versions) + 1
             /\ Len(versions') \in 1 .. Len(versions') /\ Len(versions') <= MaxVersions
             /\ saves[t].dto \in Specs /\ versions'[Len(versions')] = saves[t].dto
  <2>1. saves[t].dto \in Specs /\ saves[t].dto.text \in Stored
    BY <1>1, <1>3 DEF TabInv, Calls
  <2>2. /\ StoreInv' /\ Grown /\ Len(versions') = Len(versions) + 1
        /\ versions'[Len(versions')] = saves[t].dto
    BY <1>1, <1>3, <2>1, PutKeeps
  <2>3. Len(versions') \in Nat /\ Len(versions) \in Nat /\ Len(versions') <= MaxVersions
    BY <2>2 DEF Grown, StoreInv
  <2> QED BY <2>1, <2>2, <2>3
<1>4. ASSUME UNCHANGED <<versions, exists, stamped>> PROVE StoreInv' /\ Grown
  BY <1>1, <1>4, Same
<1>5. ASSUME NEW call \in Calls, loads' = [loads EXCEPT ![t] = call], UNCHANGED saves,
             UNCHANGED <<versions, exists, stamped, author, tabs, calls, late>>,
             Fault \/ UNCHANGED faults,
             call.stage = "Answered" =>
                call.rv \in 1 .. Len(versions') /\ call.dto = versions'[call.rv]
      PROVE  IInv'
  <2>1. /\ Typing' /\ Others(t) /\ loads'[t] = call /\ saves'[t] = saves[t]
        /\ late'[t] = late[t]
    BY <1>1, <1>5, Counts DEF Typing, Others
  <2>2. TabInv(t)'
    BY <1>1, <1>4, <1>5, <2>1, CallsMove
  <2> QED BY <1>4, <1>5, <2>1, <2>2, OneTab
<1>6. ASSUME NEW call \in Calls, saves' = [saves EXCEPT ![t] = call], UNCHANGED loads,
             StoreInv', Grown, UNCHANGED <<author, tabs, calls, late>>,
             Fault \/ UNCHANGED faults,
             \/ call.stage = "Failed"
             \/ /\ call.stage = "Answered" /\ saves[t].stage \in {"Sent", "Got"}
                /\ call.rv \in 1 .. Len(versions') /\ call.dto = versions'[call.rv]
                /\ call.dto = saves[t].dto
      PROVE  IInv'
  <2>1. /\ Typing' /\ Others(t) /\ loads'[t] = loads[t] /\ saves'[t] = call
        /\ late'[t] = late[t]
    BY <1>1, <1>6, Counts DEF Typing, Others
  <2>2. TabInv(t)'
    BY <1>1, <1>6, <2>1, CallsMove
  <2> QED BY <1>6, <2>1, <2>2, OneTab
\* The server has stored what a save carries, and answers with it.
<1>b. ASSUME saves[t].stage \in {"Sent", "Got"}, Put(saves[t].dto),
             saves' = [saves EXCEPT ![t] = Answer(saves[t].dto, Len(versions'))],
             UNCHANGED <<loads, author, tabs, calls, late, faults>>
      PROVE  IInv'
  <2> DEFINE call == Answer(saves[t].dto, Len(versions'))
  <2>1. /\ StoreInv' /\ Grown /\ Len(versions') \in 1 .. Len(versions')
        /\ Len(versions') <= MaxVersions /\ saves[t].dto \in Specs
        /\ versions'[Len(versions')] = saves[t].dto
    BY <1>3, <1>b
  <2>2. /\ call \in Calls /\ call.rv = Len(versions') /\ call.dto = saves[t].dto
        /\ call.stage = "Answered"
    BY <1>2, <2>1 DEF Grown
  <2>3. saves' = [saves EXCEPT ![t] = call]
    BY <1>b
  <2> HIDE DEF call
  <2> QED BY <1>6, <1>b, <2>1, <2>2, <2>3
<1>7. CASE Get(t)
  <2>1. CASE exists
    <3> DEFINE call == Answer(Now, Len(versions))
    <3>1. /\ Len(versions) \in 1 .. Len(versions') /\ Len(versions') <= MaxVersions
          /\ Len(versions') \in Nat
      BY <1>1, <1>7, <2>1 DEF StoreInv, Get
    <3>2. loads' = [loads EXCEPT ![t] = call]
      BY <1>7, <2>1 DEF Get
    <3>3. Now \in Specs /\ Now = versions'[Len(versions)]
      BY <1>1, <1>7, <2>1, NowIsTyped DEF Get, Now
    <3>4. /\ call \in Calls /\ call.rv = Len(versions) /\ call.dto = Now
          /\ call.stage = "Answered"
      BY <1>2, <3>1, <3>3
    <3> HIDE DEF call
    <3> QED BY <1>5, <1>7, <3>1, <3>2, <3>3, <3>4 DEF Get
  <2>2. CASE ~exists
    <3>1. loads' = [loads EXCEPT ![t] = Failure]
      BY <1>7, <2>2 DEF Get
    <3> QED BY <1>5, <1>7, <3>1, Blanks DEF Get
  <2> QED BY <2>1, <2>2
<1>8. CASE Create(t)
  <2>1. CASE UNCHANGED <<versions, exists, stamped>> /\ saves' = [saves EXCEPT ![t] = Failure]
    BY <1>4, <1>6, <1>8, <2>1, Blanks DEF Create
  <2>2. CASE /\ Put(saves[t].dto)
             /\ saves' = [saves EXCEPT ![t] = Answer(saves[t].dto, Len(versions'))]
    <3>1. saves[t].stage = "Sent" /\ UNCHANGED <<loads, author, tabs, calls, late, faults>>
      BY <1>8 DEF Create
    <3> QED BY <1>b, <2>2, <3>1
  <2> QED BY <1>8, <2>1, <2>2 DEF Create
<1>9. CASE Look(t)
  <2> DEFINE call == [saves[t] EXCEPT !.stage = "Got"]
  <2>1. CASE exists
    <3>1. /\ call \in Calls /\ call.stage = "Got" /\ call.dto = saves[t].dto
          /\ call.rv = saves[t].rv
      BY <1>1 DEF Calls
    <3>2. saves' = [saves EXCEPT ![t] = call]
      BY <1>9, <2>1 DEF Look
    <3>3. /\ saves[t].stage = "Sent" /\ saves[t].rv # 0
          /\ UNCHANGED <<loads, tabs, author, calls, faults, late>>
      BY <1>9 DEF Look
    <3>4. StoreInv' /\ Grown
      BY <1>4, <1>9 DEF Look
    <3> HIDE DEF call
    <3>5. /\ Typing' /\ Others(t) /\ loads'[t] = loads[t] /\ saves'[t] = call
          /\ tabs'[t] = tabs[t] /\ late'[t] = late[t]
      BY <1>1, <3>1, <3>2, <3>3, Counts DEF Typing, Others
    <3>6. TabInv(t)'
      BY <1>1, <3>1, <3>3, <3>4, <3>5 DEF TabInv, Grown, Known
    <3> QED BY <3>4, <3>5, <3>6, OneTab
  <2>2. CASE ~exists
    <3>1. saves' = [saves EXCEPT ![t] = Failure]
      BY <1>9, <2>2 DEF Look
    <3> QED BY <1>4, <1>6, <1>9, <3>1, Blanks DEF Look
  <2> QED BY <2>1, <2>2
<1>10. CASE Replace(t)
  <2>1. CASE UNCHANGED <<versions, exists, stamped>> /\ saves' = [saves EXCEPT ![t] = Failure]
    BY <1>4, <1>6, <1>10, <2>1, Blanks DEF Replace
  <2>2. CASE /\ Put(saves[t].dto)
             /\ saves' = [saves EXCEPT ![t] = Answer(saves[t].dto, Len(versions'))]
    <3>1. saves[t].stage = "Got" /\ UNCHANGED <<loads, author, tabs, calls, late, faults>>
      BY <1>10 DEF Replace
    <3> QED BY <1>b, <2>2, <3>1
  <2> QED BY <1>10, <2>1, <2>2 DEF Replace
<1>11. CASE CallFails(t)
  <2>1. CASE loads' = [loads EXCEPT ![t] = Failure] /\ UNCHANGED saves
    BY <1>5, <1>11, <2>1, Blanks DEF CallFails
  <2>2. CASE saves' = [saves EXCEPT ![t] = Failure] /\ UNCHANGED loads
    BY <1>4, <1>6, <1>11, <2>2, Blanks DEF CallFails
  <2> QED BY <1>11, <2>1, <2>2 DEF CallFails
<1> QED BY <1>7, <1>8, <1>9, <1>10, <1>11
-----------------------------------------------------------------------------

LEMMA Keeps == IInv /\ [Next]_vars => IInv'
<1> SUFFICES ASSUME IInv, [Next]_vars PROVE IInv'
  OBVIOUS
<1>1. CASE Elsewhere
  BY <1>1, ElsewhereKeeps
<1>2. ASSUME NEW t \in Tabs, Typist(t) PROVE IInv'
  BY <1>2, TypistKeeps
<1>3. ASSUME NEW t \in Tabs, Loading(t) \/ Saving(t) \/ CallFails(t) PROVE IInv'
  BY <1>3, AnswerTaken, CallServed DEF Loading, Saving
<1>4. CASE UNCHANGED vars
  <2>1. UNCHANGED <<versions, exists, stamped>> /\ UNCHANGED <<tabs, loads, saves>>
        /\ UNCHANGED <<author, calls, faults, late>>
    BY <1>4 DEF vars
  <2>2. StoreInv' /\ Grown
    BY <2>1, Same DEF IInv
  <2>3. Typing'
    BY <2>1 DEF IInv, Typing
  <2>4. ASSUME NEW t \in Tabs PROVE TabInv(t)'
    BY <2>1, <2>2, TabStays DEF IInv
  <2> QED BY <2>2, <2>3, <2>4 DEF IInv
<1> QED BY <1>1, <1>2, <1>3, <1>4 DEF Next, Elsewhere, Typist

LEMMA Always == Spec => []IInv
<1> QED BY Starts, Keeps, PTL DEF Spec

\* What is stored, and what a tab takes for it, is what the console would store of it
\* (Draft::to_dto, replace_report).
THEOREM TypeCorrect == Spec => []TypeOK
<1>1. IInv => TypeOK
  <2> SUFFICES ASSUME IInv PROVE TypeOK
    OBVIOUS
  <2>1. \A i \in DOMAIN versions : versions[i].text \in Stored
    BY DEF IInv, StoreInv
  <2>2. exists => versions # <<>>
    BY DEF IInv, StoreInv
  <2>3. \A t \in Tabs : tabs[t].base.text \in Stored
    BY DEF IInv, TabInv
  <2> QED BY <2>1, <2>2, <2>3, Zenon DEF IInv, StoreInv, Typing, TypeOK
<1> QED BY <1>1, Always, PTL

\* An answer leaves what was typed before its save was sent: in the draft when it is
\* a failure, in the report and in the draft when it is not (footer, open).
THEOREM EditsAreKept == Spec => SavesKeepEdits
<1> DEFINE EditKept(t) ==
      saves[t].stage # "None" /\ saves'[t].stage = "None" /\ Dirty(tabs[t]) =>
         \/ saves[t].stage = "Failed" /\ tabs'[t].draft = tabs[t].draft
         \/ saves[t].stage = "Answered" /\ late[t]
         \/ /\ saves[t].stage = "Answered"
            /\ tabs'[t].draft = Dto(tabs[t].draft)
            /\ versions[tabs'[t].loaded] = tabs'[t].draft
<1>1. ASSUME IInv, [Next]_vars, NEW t \in Tabs PROVE EditKept(t)
  <2> SUFFICES ASSUME saves[t].stage # "None", saves'[t].stage = "None", Dirty(tabs[t])
               PROVE  \/ saves[t].stage = "Failed" /\ tabs'[t].draft = tabs[t].draft
                      \/ saves[t].stage = "Answered" /\ late[t]
                      \/ /\ saves[t].stage = "Answered"
                         /\ tabs'[t].draft = Dto(tabs[t].draft)
                         /\ versions[tabs'[t].loaded] = tabs'[t].draft
    OBVIOUS
  <2>1. /\ TabInv(t) /\ saves \in [Tabs -> Calls] /\ tabs \in [Tabs -> TabStates]
        /\ late \in [Tabs -> BOOLEAN]
    BY <1>1 DEF IInv, Typing
  <2>2. SaveDone(t)
    <3>1. saves' # saves
      OBVIOUS
    <3>2. PICK u \in Tabs : Save(u) \/ Saving(u) \/ CallFails(u)
      BY <1>1, <3>1 DEF Next, vars, Stamp, Delete, AuthorLooks, AuthorWrites, Amend, Type, Revert,
         StartNew, Open, Loading, Get, LoadDone
    <3>3. \A call : saves' = [saves EXCEPT ![u] = call] => u = t /\ call.stage = "None"
      BY <2>1
    <3>4. CASE Save(u)
      <4> DEFINE call == [stage |-> "Sent", dto |-> Dto(tabs[u].draft), rv |-> tabs[u].loaded]
      <4>1. saves' = [saves EXCEPT ![u] = call]
        BY <3>4 DEF Save
      <4>2. call.stage = "Sent"
        OBVIOUS
      <4> HIDE DEF call
      <4> QED BY <3>3, <4>1, <4>2
    <3>5. CASE Create(u) \/ Look(u) \/ Replace(u) \/ CallFails(u)
      <4>1. Failure.stage = "Failed" /\ \A spec, rv : Answer(spec, rv).stage = "Answered"
        BY DEF Failure, NoCall, Answer
      <4>2. [saves[u] EXCEPT !.stage = "Got"].stage = "Got"
        BY <2>1 DEF Calls
      <4>3. \/ saves' = saves
            \/ saves' = [saves EXCEPT ![u] = Failure]
            \/ saves' = [saves EXCEPT ![u] = Answer(saves[u].dto, Len(versions'))]
            \/ saves' = [saves EXCEPT ![u] = [saves[u] EXCEPT !.stage = "Got"]]
        BY <3>5 DEF Create, Look, Replace, CallFails
      <4> QED BY <3>1, <3>3, <4>1, <4>2, <4>3
    <3>6. CASE SaveDone(u)
      <4>1. saves' = [saves EXCEPT ![u] = NoCall]
        BY <3>6 DEF SaveDone
      <4> QED BY <3>3, <3>6, <4>1
    <3> QED BY <3>2, <3>4, <3>5, <3>6 DEF Saving
  <2>3. CASE saves[t].stage = "Failed" /\ tabs' = [tabs EXCEPT ![t] = FailedTab(@)]
    BY <2>1, <2>3 DEF FailedTab, TabStates
  <2>4. CASE saves[t].stage = "Answered" /\ tabs' = [tabs EXCEPT ![t] = Opened(saves[t], "Done")]
    <3>1. tabs'[t].draft = saves[t].dto /\ tabs'[t].loaded = saves[t].rv
      BY <2>1, <2>4 DEF Opened
    <3>2. saves[t].dto = versions[saves[t].rv]
      BY <2>1, <2>4 DEF TabInv
    <3>3. CASE late[t]
      BY <2>4, <3>3
    <3>4. CASE ~late[t]
      <4>1. saves[t].dto = Dto(tabs[t].draft)
        BY <2>1, <2>4, <3>4 DEF TabInv
      <4> QED BY <2>4, <3>1, <3>2, <4>1
    <3> QED BY <3>3, <3>4
  <2> QED BY <2>2, <2>3, <2>4 DEF SaveDone
<1> DEFINE Step == \A t \in Tabs : EditKept(t)
<1>2. IInv /\ [Next]_vars => [Step]_vars
  BY <1>1
<1>3. Spec => [][Step]_vars
  BY <1>2, Always, PTL DEF Spec
<1> QED BY <1>3 DEF SavesKeepEdits

\* A save writes only over the spec that it was loaded from, and carries the references
\* through (replace_report, author_report).
THEOREM SavesDoNotOverwrite == Spec => NoSilentOverwrite
<1> DEFINE Step ==
      exists /\ versions' # versions /\ versions'[Len(versions')].text # Now.text =>
          \E t \in Tabs :
             /\ saves[t].stage = "Got" /\ saves'[t].stage = "Answered"
             /\ versions[saves[t].rv] = Now
             /\ versions'[Len(versions')] = [saves[t].dto EXCEPT !.refs = Now.refs]
<1>1. IInv /\ [Next]_vars => [Step]_vars
  <2> SUFFICES ASSUME IInv, Next, exists, versions' # versions,
                      versions'[Len(versions')].text # Now.text
               PROVE  \E t \in Tabs :
                         /\ saves[t].stage = "Got" /\ saves'[t].stage = "Answered"
                         /\ versions[saves[t].rv] = Now
                         /\ versions'[Len(versions')] = [saves[t].dto EXCEPT !.refs = Now.refs]
    OBVIOUS
  <2>1. StoreInv /\ Now \in Specs
    BY NowIsTyped DEF IInv
  <2>2. ASSUME Stamp PROVE FALSE
    <3>1. versions' = Append(versions, Now)
      BY <2>2 DEF Stamp
    <3>2. versions \in Seq(Specs)
      BY <2>1 DEF StoreInv
    <3>3. versions'[Len(versions')] = Now
      BY <2>1, <3>1, <3>2
    <3> QED BY <3>3
  <2>3. ASSUME NEW refs \in Refs, Amend(refs) PROVE FALSE
    <3>1. versions' = Append(versions, [Now EXCEPT !.refs = refs])
      BY <2>3 DEF Amend, Put
    <3> QED BY <2>1, <3>1 DEF StoreInv, Specs
  <2>4. PICK t \in Tabs : Replace(t)
    BY <2>2, <2>3 DEF Next, Delete, AuthorLooks, AuthorWrites, AuthorMayWrite, Type, Revert,
       StartNew, Open, Save, Loading, Saving, Get, LoadDone, SaveDone, Create, Look, CallFails
  <2>5. /\ Matches(saves[t].rv) /\ Put(saves[t].dto)
        /\ saves' = [saves EXCEPT ![t] = Answer(saves[t].dto, Len(versions'))]
    BY <2>4 DEF Replace
  <2>6. saves[t].stage = "Got" /\ TabInv(t) /\ saves \in [Tabs -> Calls] /\ saves[t].dto \in Specs
    BY <2>4 DEF Replace, IInv, Typing, Calls
  <2>7. versions[saves[t].rv] = Now /\ saves[t].dto.refs = Now.refs
    BY <2>5, <2>6 DEF Matches, Now, TabInv
  <2>8. versions'[Len(versions')] = saves[t].dto
    BY <2>1, <2>5, <2>6, PutKeeps DEF TabInv
  <2>9. saves[t].dto = [saves[t].dto EXCEPT !.refs = Now.refs]
    BY <2>6, <2>7 DEF Specs
  <2>10. saves'[t].stage = "Answered"
    BY <2>5, <2>6 DEF Answer
  <2> QED BY <2>6, <2>7, <2>8, <2>9, <2>10
<1>2. Spec => [][Step]_vars
  BY <1>1, Always, PTL DEF Spec
<1> QED BY <1>2 DEF NoSilentOverwrite
=============================================================================
