---------------------------- MODULE MCExperiment ----------------------------
\* Two pods for TLC: the first reports both metrics, the second one of
\* them, so that a metric can outlive the report it came with. A pod that is lost
\* with its node, or ended at the deadline, reports nothing.
EXTENDS Experiment

CONSTANTS p1, p2

MCMessages == [p \in Pods |-> IF p = p1 THEN {Keys} ELSE {{"length"}}]
=============================================================================
