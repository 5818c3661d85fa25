-------------------------- MODULE MCPluginLifecycle --------------------------
(* TLC instances of PluginLifecycle.  Supervisors, and calls, are alike. *)
EXTENDS PluginLifecycle, TLC

Symmetry == Permutations(Sups) \cup Permutations(Calls)

=============================================================================
