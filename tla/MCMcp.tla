------------------------------- MODULE MCMcp --------------------------------
(* A small instance of McpServers for TLC: one turn, two configurations.   *)
EXTENDS McpServers
CONSTANT t1
=============================================================================
