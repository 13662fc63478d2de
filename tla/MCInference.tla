---------------------------- MODULE MCInference ----------------------------
(* A queued mesh, a vLLM cluster, and a campaign that asks for both. *)
EXTENDS Inference

MCSpecs == {[mesh |-> TRUE, cluster |-> FALSE, queued |-> TRUE],
            [mesh |-> TRUE, cluster |-> TRUE, queued |-> TRUE]}
=============================================================================
