---------------------------- MODULE MCCampaign ----------------------------
(* The instances of Campaign that TLC checks. *)
EXTENDS Campaign

\* Every kind of gate and every inference backend.
AllKinds ==
    {[canary |-> TRUE, gated |-> FALSE, backend |-> "None"],
     [canary |-> TRUE, gated |-> TRUE, backend |-> "Mesh"],
     [canary |-> FALSE, gated |-> FALSE, backend |-> "Cluster"]}
=============================================================================
