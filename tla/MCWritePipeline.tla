-------------------------- MODULE MCWritePipeline --------------------------
(* WritePipeline on small instances. *)
EXTENDS WritePipeline, TLC

CONSTANTS c1, c2, k1, send, kick, f1, f2

\* kick removes a member and lifts the ban: two mutations.
MCPlan == send :> 1 @@ kick :> 2

Symmetric == Permutations(Client) \cup Permutations(Prints)
============================================================================
