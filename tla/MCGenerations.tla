--------------------------- MODULE MCGenerations ---------------------------
(* Instances of PluginGenerations for TLC: turns t1 and t2. *)
EXTENDS PluginGenerations, TLC

CONSTANTS t1, t2

TurnSymmetry == Permutations({t1, t2})
=============================================================================
