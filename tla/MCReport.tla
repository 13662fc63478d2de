----------------------------- MODULE MCReport -----------------------------
(* Small instances of Report for TLC. *)
EXTENDS Report

\* A chain of three; the second is made by hand; the last is the best, and its
\* artifacts lead nowhere.
MCPlan == <<
    [name |-> "e1", parent |-> None, lineage |-> "Baseline", parameter |-> 1,
     score |-> 2, mean |-> 4, artifacts |-> "Good", byHand |-> FALSE],
    [name |-> "e2", parent |-> "e1", lineage |-> "Perturb", parameter |-> 2,
     score |-> 3, mean |-> 1, artifacts |-> "Good", byHand |-> TRUE],
    [name |-> "e3", parent |-> "e2", lineage |-> "Perturb", parameter |-> 2,
     score |-> 5, mean |-> 1, artifacts |-> "Malformed", byHand |-> FALSE]>>

\* A key that nothing defines; the first experiment left out; a title with a
\* control character, of a report about one branch.
Plain == [included |-> {}, excluded |-> {}, about |-> None, control |-> FALSE,
          cites |-> {"k", "l"}, references |-> {"k"}, seeded |-> FALSE]
Pruned == [Plain EXCEPT !.excluded = {"e1"}, !.cites = {"k"}]
Broken == [Plain EXCEPT !.control = TRUE, !.about = "e2"]

MCSpecs == {Plain, Pruned, Broken}
=============================================================================
