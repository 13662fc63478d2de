---------------------------- MODULE MCSelection ----------------------------
(* The instances of Selection that TLC checks. *)
EXTENDS Selection

Campaign(pbt, canary, seeded, tunable, population, budget) ==
    [pbt |-> pbt, canary |-> canary, seeded |-> seeded,
     foreign |-> IF seeded THEN "Cheap" ELSE "Unset", tunable |-> tunable,
     population |-> population, budget |-> budget]

\* A population, also behind a canary and from a cheap Experiment of another
\* campaign, a population of one, whose every run is a control, and a hill climb.
\* The length is not to be tuned where nothing but the schema keeps a seed's out,
\* and once it is, where nothing does.
AllKinds ==
    {Campaign(TRUE, FALSE, FALSE, TRUE, 2, 3), Campaign(TRUE, TRUE, TRUE, TRUE, 2, 2),
     Campaign(TRUE, FALSE, TRUE, FALSE, 2, 3), Campaign(TRUE, FALSE, TRUE, TRUE, 1, 3),
     Campaign(TRUE, FALSE, FALSE, TRUE, 1, 5), Campaign(FALSE, FALSE, FALSE, TRUE, 1, 4)}

\* Two scores, one of a run without a checkpoint to resume from, or no score.
Endings ==
    {[score |-> 0, ckpt |-> FALSE], [score |-> 1, ckpt |-> TRUE],
     [score |-> Missing, ckpt |-> TRUE]}

=============================================================================
