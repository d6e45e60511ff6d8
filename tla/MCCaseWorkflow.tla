--------------------------- MODULE MCCaseWorkflow ---------------------------
(* Small instances of CaseWorkflow for TLC.                                *)
EXTENDS CaseWorkflowInvariant, TLC

CONSTANTS c1, c2, r1, r2

OneCase == {c1}
TwoCases == {c1, c2}
TwoRequests == {r1, r2}
NoCase == {}
SecondCase == {c2}

SawUpTo3 == 1..3
SawUpTo6 == 1..6

Switchable == BOOLEAN
On == {TRUE}

RequestSymmetry == Permutations(Requests)
=============================================================================
