--------------------------- MODULE MCAnalyzerCache ----------------------------
(* An instance of AnalyzerCache for TLC.                                   *)
EXTENDS AnalyzerCache

CONSTANTS r1, r2
===============================================================================
