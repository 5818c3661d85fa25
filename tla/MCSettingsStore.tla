-------------------------- MODULE MCSettingsStore --------------------------
(* Instances of SettingsStore for TLC.                                      *)
EXTENDS SettingsStore, TLC

CONSTANTS t1, t2, k1, k2, setup, seen

Symmetry == Permutations(Callers) \cup Permutations(Portable)
=============================================================================
