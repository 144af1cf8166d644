---------------------------- MODULE MCMcpServer ----------------------------
(* Model checking of McpServer. *)
EXTENDS McpServer, TLC

Symmetric == Permutations(Workers) \cup Permutations(Clients) \cup Permutations(Ids)
=============================================================================
