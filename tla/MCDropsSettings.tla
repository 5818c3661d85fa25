--------------------------- MODULE MCDropsSettings ---------------------------
(* Instances of DropsSettings for TLC.                                      *)
EXTENDS DropsSettings, TLC

CONSTANTS s1, s2, k1, k2, q1, q2, h1, h2

Symmetry ==
    Permutations(Savers) \cup Permutations(DropsKeys) \cup Permutations(Plugins)
        \cup Permutations(Pushes)
=============================================================================
