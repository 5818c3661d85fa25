--------------------------- MODULE MCPluginBroker ---------------------------
(* Instances of PluginBroker for TLC.                                       *)
EXTENDS PluginBroker, TLC

CONSTANTS p1, p2, c1, c2

Symmetry == Permutations(Plugins) \cup Permutations(Calls)
=============================================================================
