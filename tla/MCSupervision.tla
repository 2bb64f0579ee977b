--------------------------- MODULE MCSupervision ---------------------------
(* Instances of PluginSupervision for TLC. *)
EXTENDS PluginSupervision, TLC

WatcherSymmetry == Permutations(Watchers)
=============================================================================
