------------------------------ MODULE MCConsole ------------------------------
(* A small instance of CaseConsole for TLC.                                *)
EXTENDS CaseConsole, TLC

CONSTANTS t1

OneTab == {t1}
OperatorOrApprover == {"OPERATOR", "APPROVER"}
JustOne == {1}
=============================================================================
