----------------------------- MODULE MCRateLimits ------------------------------
(* An instance of both rate limits for TLC: one client of the two services *)
(* of the platform.  The limits share no state, so a behaviour has the     *)
(* client ask one of the services, and the interleavings of both, which    *)
(* add nothing, are left out.                                              *)
EXTENDS AnalysisRateLimit, TLC

CONSTANTS
    Paths, Window,
    LastTick,       \* bound on the clock of data-management
    r1, r2, r3, r4

ASSUME WindowsAssumption == Window \in Nat \ {0} /\ LastTick \in Nat

VARIABLES service, counter, passed

Management == INSTANCE ManagementRateLimit WITH MaxTime <- LastTick, admitted <- passed

analysisVars == <<count, start, request, admitted>>
managementVars == <<counter, passed>>
allVars == <<now, service, analysisVars, managementVars>>

InitBoth == Init /\ Management!Init /\ service \in {"analysis", "management"}

NextBoth ==
    \/ service = "analysis" /\ Next /\ UNCHANGED <<service, managementVars>>
    \/ service = "management" /\ Management!Next /\ UNCHANGED <<service, analysisVars>>

SpecBoth == InitBoth /\ [][NextBoth]_allVars

(* The types, with the bounds of both counters.                            *)
CountersTypeOK == IF service = "management" THEN Management!TypeOK ELSE TypeOK

(* As many seconds as a window has see twice the limit pass, at most.      *)
ManagementBurstLimit == service = "management" => Management!BurstLimit

RequestSymmetry == Permutations(Requests)
================================================================================
