---------------------------- MODULE MCAgentFleet ----------------------------
(* Instances of AgentFleet for model checking. *)
EXTENDS AgentFleet

CONSTANTS h1, h2

TwoHosts == {h1, h2}

=============================================================================
