----------------------------- MODULE MCWorkload -----------------------------
(* Two Experiments of a queued GPU profile, of one that is not queued and does *)
(* not create its claim, and of cloud profiles with and without a TTL and a    *)
(* command.                                                                   *)
EXTENDS Workload

Typo == [parses |-> FALSE, ms |-> 5]
Never == [parses |-> TRUE, ms |-> 0]
Instant == [parses |-> TRUE, ms |-> 1]

Gpu == [create |-> TRUE, queued |-> TRUE, gpu |-> TRUE, sky |-> FALSE, command |-> TRUE,
        ttl |-> 0, deadline |-> Never, env |-> {"Url"}]

MCProfiles ==
    {Gpu,
     [Gpu EXCEPT !.create = FALSE, !.queued = FALSE, !.env = {"Own"}],
     [Gpu EXCEPT !.sky = TRUE],
     [Gpu EXCEPT !.sky = TRUE, !.command = FALSE],
     [Gpu EXCEPT !.sky = TRUE, !.ttl = 1, !.env = Names]}

MCInputs == {[deadline |-> Typo, env |-> {"Url"}],
             [deadline |-> Instant, env |-> Names]}
=============================================================================
