---------------------------- MODULE MCCurriculum ----------------------------
(* The instances of Curriculum that TLC checks. *)
EXTENDS Curriculum

Stage(templates, gated, quantifier, seedFrom) ==
    [templates |-> templates, gated |-> gated, threshold |-> 2, least |-> 2,
     quantifier |-> quantifier, seedFrom |-> seedFrom]

Robots3 == [stanceSpot |-> "spot", stanceAny |-> "undeclared", walkSpot |-> "spot",
            walkSnake |-> "snake"]

\* Two stages of one line each, and two lines that must both pass.
Lines == {
    <<Stage(<<"stanceSpot">>, TRUE, "Any", 0), Stage(<<"walkSnake">>, FALSE, "Any", 1)>>,
    <<Stage(<<"stanceSpot", "stanceAny">>, TRUE, "All", 0),
      Stage(<<"walkSpot">>, FALSE, "Any", 1)>> }
====
