---------------------------- MODULE MCAgentTask ----------------------------
(* AgentTask for TLC.  No record names the client that wrote it, and the     *)
(* inputs that the gate allows differ in nothing else.                       *)
EXTENDS AgentTask, TLC
Alike == Permutations(Client) \cup Permutations(Adequate)
=============================================================================
