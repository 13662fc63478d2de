------------------------------ MODULE Curator ------------------------------
(***************************************************************************)
(* One ResearchReport and those who write it: curators in browser tabs      *)
(* (athena-console-web/src/curator.rs) through the console server           *)
(* (bin/console-server/main.rs), the drive that writes its campaign up      *)
(* (author_report, athena/src/drive_reconciler.rs), the report controller,  *)
(* whose status moves the resourceVersion, and people with kubectl. A tab   *)
(* does not wait for its calls: the scientist types on, answers come late.  *)
(***************************************************************************)
EXTENDS Naturals, Sequences

CONSTANTS
    Tabs,        \* the curators' tabs
    Typed,       \* what a scientist may have typed: title, sections, toggles
    Trimmed,     \* what to_dto makes of it, as it is stored
    Valid,       \* what has no problem that blocks a save
    Blank,       \* the text of a new draft
    WriteUp,     \* the text that the drive writes
    Refs,        \* references and `about`, which a curator does not edit
    NoRefs,
    MaxVersions, \* bound: the versions of the report
    MaxCalls,    \* bound: the loads and saves of all tabs
    MaxFaults    \* bound: calls that fail or whose answer is lost, deletions

ASSUME TextAssumption ==
    /\ Trimmed \in [Typed -> Typed]
    /\ \A t \in Typed : Trimmed[Trimmed[t]] = Trimmed[t]
    /\ Valid \subseteq Typed
    /\ Blank \in Typed /\ Trimmed[Blank] = Blank
    /\ WriteUp \in Typed /\ Trimmed[WriteUp] = WriteUp
    /\ NoRefs \in Refs
ASSUME BoundsAssumption == MaxVersions \in Nat /\ MaxCalls \in Nat /\ MaxFaults \in Nat

VARIABLES
    versions, \* what each resourceVersion held
    exists,   \* is there a report? Its version is the last one
    stamped,  \* has the controller written the status of the last spec?
    author,   \* the write-up of the drive
    tabs,     \* the state of each tab
    loads,    \* the GET of each tab that is not answered
    saves,    \* the PUT or POST of each tab that is not answered
    calls,    \* how many loads and saves there were
    faults,
    late      \* history: was something typed in a tab since its save was sent?

vars == <<versions, exists, stamped, author, tabs, loads, saves, calls, faults, late>>

\* A spec, and a draft of one.
Specs == [text : Typed, refs : Refs]
Versions == 0 .. MaxVersions

\* CuratorState: `loaded` is the resourceVersion of the loaded report, 0 for none.
TabStates == [loaded : Versions, base : Specs, draft : Specs,
              save : {"Idle", "Busy", "Done", "Failed"}]

\* A call is sent, a replace has got the object, it is answered, or it failed. `dto`
\* and `rv` are the spec and the version that it was sent with, 0 for a creation,
\* and then those that it is answered with.
Calls == [stage : {"None", "Sent", "Got", "Answered", "Failed"}, dto : Specs, rv : Versions]

NewDraft == [text |-> Blank, refs |-> NoRefs]

NewTab == [loaded |-> 0, base |-> NewDraft, draft |-> NewDraft, save |-> "Idle"]

NoCall == [stage |-> "None", dto |-> NewDraft, rv |-> 0]

\* detail_of
Answer(spec, rv) == [stage |-> "Answered", dto |-> spec, rv |-> rv]

Failure == [NoCall EXCEPT !.stage = "Failed"]

Stored == {Trimmed[t] : t \in Typed}

\* What is stored, and what a tab has loaded, is trimmed.
TypeOK ==
    /\ versions \in Seq(Specs)
    /\ Len(versions) <= MaxVersions
    /\ \A i \in DOMAIN versions : versions[i].text \in Stored
    /\ exists \in BOOLEAN
    /\ exists => versions # <<>>
    /\ stamped \in BOOLEAN
    /\ author \in {"Todo", "Writing", "Over"}
    /\ tabs \in [Tabs -> TabStates]
    /\ \A t \in Tabs : tabs[t].base.text \in Stored
    /\ loads \in [Tabs -> Calls]
    /\ saves \in [Tabs -> Calls]
    /\ calls \in 0 .. MaxCalls
    /\ faults \in 0 .. MaxFaults
    /\ late \in [Tabs -> BOOLEAN]

Init ==
    /\ versions = <<>>
    /\ exists = FALSE
    /\ stamped = TRUE
    /\ author = "Todo"
    /\ tabs = [t \in Tabs |-> NewTab]
    /\ loads = [t \in Tabs |-> NoCall]
    /\ saves = [t \in Tabs |-> NoCall]
    /\ calls = 0
    /\ faults = 0
    /\ late = [t \in Tabs |-> FALSE]

-----------------------------------------------------------------------------
(* The report. A definition marked Slip is a faulty variant of the one after. *)

Now == versions[Len(versions)]

Fault == faults < MaxFaults /\ faults' = faults + 1

\* The bound of the versions; a save that meets it fails, as any call may.
Room == Len(versions) < MaxVersions

\* A new resourceVersion with this spec.
Put(spec) ==
    /\ Room
    /\ versions' = Append(versions, spec)
    /\ exists' = TRUE
    /\ stamped' = (exists /\ stamped /\ spec = Now)

\* The report controller reconciles the spec and writes its status.
Stamp ==
    /\ exists
    /\ ~stamped
    /\ Room
    /\ versions' = Append(versions, Now)
    /\ stamped' = TRUE
    /\ UNCHANGED <<exists, author, tabs, loads, saves, calls, faults, late>>

\* Someone changes the references, with kubectl or from a repository.
Amend(refs) ==
    /\ exists
    /\ refs # Now.refs
    /\ Put([Now EXCEPT !.refs = refs])
    /\ UNCHANGED <<author, tabs, loads, saves, calls, faults, late>>

Delete ==
    /\ exists
    /\ Fault
    /\ exists' = FALSE
    /\ UNCHANGED <<versions, stamped, author, tabs, loads, saves, calls, late>>

\* author_report: a report that exists is left alone, for one that does not the
\* write-up is asked of a language model.
AuthorLooks ==
    /\ author = "Todo"
    /\ author' = IF exists THEN "Over" ELSE "Writing"
    /\ UNCHANGED <<versions, exists, stamped, tabs, loads, saves, calls, faults, late>>

\* The create of a name that is taken by then is refused.
AuthorMayWrite == ~exists

\* The write-up comes and is created, or fails.
AuthorWrites ==
    /\ author = "Writing"
    /\ author' = "Over"
    /\ \/ /\ AuthorMayWrite
          /\ Put([text |-> WriteUp, refs |-> NoRefs])
       \/ UNCHANGED <<versions, exists, stamped>>
    /\ UNCHANGED <<tabs, loads, saves, calls, faults, late>>

-----------------------------------------------------------------------------
(* The tab.                                                                  *)

Call == calls < MaxCalls /\ calls' = calls + 1

Dirty(tab) == tab.draft # tab.base

\* The inputs are never disabled.
Type(t, text) ==
    /\ tabs[t].draft.text # text
    /\ tabs' = [tabs EXCEPT ![t].draft.text = text]
    /\ late' = [late EXCEPT ![t] = saves[t].stage # "None"]
    /\ UNCHANGED <<versions, exists, stamped, author, loads, saves, calls, faults>>

Revert(t) ==
    /\ Dirty(tabs[t])
    /\ tabs[t].save # "Busy"
    /\ tabs' = [tabs EXCEPT ![t].draft = tabs[t].base]
    /\ UNCHANGED <<versions, exists, stamped, author, loads, saves, calls, faults, late>>

\* "+ new", also "follow selection" and the choice of a campaign.
StartNew(t) ==
    /\ Dirty(tabs[t]) => tabs[t].loaded = 0
    /\ tabs[t] # NewTab
    /\ tabs' = [tabs EXCEPT ![t] = NewTab]
    /\ UNCHANGED <<versions, exists, stamped, author, loads, saves, calls, faults, late>>

\* Open of the Reports panel, which asks nothing about a dirty draft. (A bound: one
\* load of a tab is in flight at a time, and one save.)
Open(t) ==
    /\ loads[t].stage = "None"
    /\ Call
    /\ loads' = [loads EXCEPT ![t] = [NoCall EXCEPT !.stage = "Sent"]]
    /\ tabs' = [tabs EXCEPT ![t].save = "Busy"]
    /\ UNCHANGED <<versions, exists, stamped, author, saves, faults, late>>

Dto(draft) == [draft EXCEPT !.text = Trimmed[@]]

\* save_gate: the draft is changed and valid, and nothing is under way.
Save(t) ==
    LET tab == tabs[t] IN
    /\ Dirty(tab)
    /\ tab.draft.text \in Valid
    /\ tab.save # "Busy"
    /\ saves[t].stage = "None"
    /\ Call
    /\ saves' = [saves EXCEPT ![t] = [stage |-> "Sent", dto |-> Dto(tab.draft), rv |-> tab.loaded]]
    /\ tabs' = [tabs EXCEPT ![t].save = "Busy"]
    /\ UNCHANGED <<versions, exists, stamped, author, loads, faults, late>>

\* CuratorState::open: what the server answered is loaded, whatever the tab holds.
Opened(answer, save) ==
    [loaded |-> answer.rv, base |-> answer.dto, draft |-> answer.dto, save |-> save]

\* Slip: the tab goes back to what it had loaded.
FailedTabReverted(tab) == [tab EXCEPT !.save = "Failed", !.draft = tab.base]

FailedTab(tab) == [tab EXCEPT !.save = "Failed"]

LoadDone(t) ==
    /\ \/ /\ loads[t].stage = "Answered"
          /\ tabs' = [tabs EXCEPT ![t] = Opened(loads[t], "Idle")]
       \/ /\ loads[t].stage = "Failed"
          /\ tabs' = [tabs EXCEPT ![t] = FailedTab(@)]
    /\ loads' = [loads EXCEPT ![t] = NoCall]
    /\ UNCHANGED <<versions, exists, stamped, author, saves, calls, faults, late>>

SaveDone(t) ==
    /\ \/ /\ saves[t].stage = "Answered"
          /\ tabs' = [tabs EXCEPT ![t] = Opened(saves[t], "Done")]
       \/ /\ saves[t].stage = "Failed"
          /\ tabs' = [tabs EXCEPT ![t] = FailedTab(@)]
    /\ saves' = [saves EXCEPT ![t] = NoCall]
    /\ late' = [late EXCEPT ![t] = FALSE]
    /\ UNCHANGED <<versions, exists, stamped, author, loads, calls, faults>>

-----------------------------------------------------------------------------
(* The server.                                                               *)

\* get_report
Get(t) ==
    /\ loads[t].stage = "Sent"
    /\ loads' = [loads EXCEPT ![t] = IF exists THEN Answer(Now, Len(versions)) ELSE Failure]
    /\ UNCHANGED <<versions, exists, stamped, author, tabs, saves, calls, faults, late>>

\* create_report: a name that is taken is a conflict.
Create(t) ==
    /\ saves[t].stage = "Sent"
    /\ saves[t].rv = 0
    /\ \/ /\ exists \/ ~Room
          /\ saves' = [saves EXCEPT ![t] = Failure]
          /\ UNCHANGED <<versions, exists, stamped>>
       \/ /\ ~exists
          /\ Put(saves[t].dto)
          /\ saves' = [saves EXCEPT ![t] = Answer(@.dto, Len(versions'))]
    /\ UNCHANGED <<author, tabs, loads, calls, faults, late>>

\* replace_report gets the object first,
Look(t) ==
    /\ saves[t].stage = "Sent"
    /\ saves[t].rv # 0
    /\ saves' = [saves EXCEPT ![t] = IF exists THEN [@ EXCEPT !.stage = "Got"] ELSE Failure]
    /\ UNCHANGED <<versions, exists, stamped, author, tabs, loads, calls, faults, late>>

\* Slip: the object is replaced with the version it was just got in.
MatchesGot(rv) == exists

\* The API server takes a replace of the version that the draft was loaded from.
Matches(rv) == exists /\ rv = Len(versions)

\* and replaces its spec.
Replace(t) ==
    /\ saves[t].stage = "Got"
    /\ \/ /\ Matches(saves[t].rv)
          /\ Put(saves[t].dto)
          /\ saves' = [saves EXCEPT ![t] = Answer(@.dto, Len(versions'))]
       \/ /\ ~Matches(saves[t].rv) \/ ~Room
          /\ saves' = [saves EXCEPT ![t] = Failure]
          /\ UNCHANGED <<versions, exists, stamped>>
    /\ UNCHANGED <<author, tabs, loads, calls, faults, late>>

\* A call fails, before or after it had its effect.
CallFails(t) ==
    /\ Fault
    /\ \/ /\ loads[t].stage \in {"Sent", "Answered"}
          /\ loads' = [loads EXCEPT ![t] = Failure]
          /\ UNCHANGED saves
       \/ /\ saves[t].stage \in {"Sent", "Answered"}
          /\ saves' = [saves EXCEPT ![t] = Failure]
          /\ UNCHANGED loads
    /\ UNCHANGED <<versions, exists, stamped, author, tabs, calls, late>>

-----------------------------------------------------------------------------

Loading(t) == Get(t) \/ LoadDone(t)

Saving(t) == Create(t) \/ Look(t) \/ Replace(t) \/ SaveDone(t)

Next ==
    \/ Stamp
    \/ Delete
    \/ AuthorLooks
    \/ AuthorWrites
    \/ \E refs \in Refs : Amend(refs)
    \/ \E t \in Tabs :
          \/ \E text \in Typed : Type(t, text)
          \/ Revert(t) \/ StartNew(t) \/ Open(t) \/ Save(t)
          \/ Loading(t) \/ Saving(t) \/ CallFails(t)

Spec == Init /\ [][Next]_vars

-----------------------------------------------------------------------------
(* Properties.                                                               *)

\* "Edit without losing anything": when a save of a changed draft fails, whoever else
\* has written by then, the draft stays as it is; when it succeeds, the tab goes on
\* with its draft as the report now holds it, under the version that holds it,
\* unless something was typed since the save was sent.
SavesKeepEdits ==
    [][\A t \in Tabs :
          saves[t].stage # "None" /\ saves'[t].stage = "None" /\ Dirty(tabs[t]) =>
             \/ saves[t].stage = "Failed" /\ tabs'[t].draft = tabs[t].draft
             \/ saves[t].stage = "Answered" /\ late[t]
             \/ /\ saves[t].stage = "Answered"
                /\ tabs'[t].draft = Dto(tabs[t].draft)
                /\ versions[tabs'[t].loaded] = tabs'[t].draft]_vars

\* "A concurrent change is a conflict, never a silent overwrite": the spec of a report
\* that is there changes by someone's hand in the references alone, or by a save whose
\* sender had loaded just that spec, and a save carries the references through.
NoSilentOverwrite ==
    [][exists /\ versions' # versions /\ versions'[Len(versions')].text # Now.text =>
          \E t \in Tabs :
             /\ saves[t].stage = "Got" /\ saves'[t].stage = "Answered"
             /\ versions[saves[t].rv] = Now
             /\ versions'[Len(versions')] = [saves[t].dto EXCEPT !.refs = Now.refs]]_vars
=============================================================================
