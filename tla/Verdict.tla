------------------------------ MODULE Verdict ------------------------------
(***************************************************************************)
(* What a BenchmarkRun promises about the Experiment it rules on: a Keep   *)
(* rests on one report of every test, which together pass every gate.      *)
(***************************************************************************)
CONSTANTS
    Tests,       \* the tests, a task with a seed
    Rules,       \* what the gates may be
    Reports,     \* what a test may report
    Passes(_, _, _) \* the gates, of the rules, the tests and a report of each

VARIABLES
    reported,    \* everything each test has reported so far
    rules,       \* the gates and the like, fixed at the start
    required,    \* the tests of the run
    decision     \* the Experiment's decision

verdict == <<reported, rules, required, decision>>

Init ==
    /\ reported = [t \in Tests |-> {}]
    /\ rules \in Rules
    /\ required \in SUBSET Tests
    /\ decision = "None"

Report(t) ==
    /\ \E r \in Reports : reported' = [reported EXCEPT ![t] = @ \cup {r}]
    /\ UNCHANGED <<rules, required, decision>>

Keep ==
    /\ required # {}
    /\ \E one \in [required -> Reports] :
        /\ \A t \in required : one[t] \in reported[t]
        /\ Passes(rules, required, one)
    /\ decision' = "Keep"
    /\ UNCHANGED <<reported, rules, required>>

\* A person decides.
Review ==
    /\ decision' \in {"NeedsReview", "Discard"}
    /\ UNCHANGED <<reported, rules, required>>

Next == (\E t \in Tests : Report(t)) \/ Keep \/ Review

Spec == Init /\ [][Next]_verdict
=============================================================================
