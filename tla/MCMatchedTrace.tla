--------------------------- MODULE MCMatchedTrace ---------------------------
(* The jobs of a trace under the baseline policy and one other.             *)
EXTENDS MatchedTrace

MCPolicies == <<"gpu_count", "combined">>
=============================================================================
