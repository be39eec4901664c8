-------------------------- MODULE MCTokenStoreViews ---------------------------
(* Instances of TokenStoreViews for TLC.                                   *)
EXTENDS TokenStoreViews

CONSTANTS m1, m2, j1, d1
===============================================================================
