---------------------------- MODULE MCTokenStore ------------------------------
(* Instances of TokenStore for TLC.                                        *)
EXTENDS TokenStore, TLC

CONSTANTS m1, m2, j1, j2, d1

Symmetry == Permutations({m1, m2})
===============================================================================
