-------------------------- MODULE MCMcpSubscriptions --------------------------
(* Two URIs and a limit of one, so that a subscription may be refused, and *)
(* enough watches that one is replaced and the next dies.                  *)
EXTENDS McpSubscriptions

CONSTANTS u1, u2

Uris == {u1, u2}
===============================================================================
