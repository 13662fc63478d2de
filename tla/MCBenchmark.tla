---------------------------- MODULE MCBenchmark ----------------------------
(* Small instances of Benchmark for TLC. *)
EXTENDS Benchmark

MCTasks == {"walk", "run", "marathon"}
MCLongTasks == {"marathon"}
MCSeeds == {0, 1}
MCValue == [low |-> 1, high |-> 3]

\* Two tasks, one of which may do without the metric; a mean of 2 is enough.
Plain == [tasks |-> {"walk", "run"}, seeds |-> [t \in MCTasks |-> {}],
          required |-> {"walk"}, gates |-> {[op |-> ">=", value |-> 4]},
          scale |-> [multiply |-> 2, offset |-> 0],
          names |-> {}, labelled |-> {"walk", "run"}, matrix |-> {},
          retries |-> 0, promote |-> TRUE, experiment |-> TRUE,
          queue |-> FALSE, claim |-> TRUE, ttl |-> FALSE, refs |-> TRUE]

\* One test, through Kueue, with a second attempt and a gate on both sides.
Retried == [Plain EXCEPT !.names = {"walk"}, !.seeds["walk"] = {1},
                         !.retries = 1, !.queue = TRUE,
                         !.gates = {[op |-> "<", value |-> 6], [op |-> ">", value |-> 1]}]

\* Finished Jobs are deleted; one task is left by its label, and the run gives its seed.
Expiring == [Plain EXCEPT !.labelled = {"run"}, !.matrix = {1}, !.ttl = TRUE,
                          !.gates = {[op |-> "<=", value |-> 4]}]

\* No gates, and an Experiment that is not to be touched.
Ungated == [Plain EXCEPT !.names = {"run"}, !.gates = {}, !.promote = FALSE]

\* No such suite; a selector that no task meets.
Lost == [Plain EXCEPT !.refs = FALSE]
Empty == [Plain EXCEPT !.labelled = {}]

\* A task whose Job would have too long a name.
TooLong == [Plain EXCEPT !.tasks = MCLongTasks, !.labelled = MCLongTasks]

MCSetups == {Plain, Retried, Expiring, Ungated, Lost, Empty, TooLong}
=============================================================================
