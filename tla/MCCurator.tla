----------------------------- MODULE MCCurator -----------------------------
(* The instance of Curator that TLC checks: "a " is trimmed to "a", and a    *)
(* heading that is there twice cannot be saved.                             *)
EXTENDS Curator, TLC

Texts == {"", "a", "a ", "twice"}
Trims == [t \in Texts |-> IF t = "a " THEN "a" ELSE t]
Savable == {"", "a", "a "}
Symmetry == Permutations(Tabs)
====
