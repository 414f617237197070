------------------------------ MODULE MCRelease ------------------------------
(* Instances of Release for model checking. *)
EXTENDS Release

(* Two domains without a host group, as Create writes them: one shard.      *)
OneShard == [d \in Domains |-> 0]

(* Every domain in a host group of its own: as many shards as domains.      *)
ShardEach == [d \in Domains |-> d]

NoAgentGroup == [a \in Agents |-> 0]

(* Every agent in the host group of the domain of the same number.          *)
AgentEach == [a \in Agents |-> a]

=============================================================================
