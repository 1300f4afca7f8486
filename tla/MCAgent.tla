------------------------------ MODULE MCAgent ------------------------------
(* Instances of the agent loop for TLC. *)
EXTENDS AgentLoop

CONSTANTS u, v

TwoUrls == {u, v}
Everything == AllTools
=============================================================================
