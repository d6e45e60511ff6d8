--------------------------- MODULE CaseOperations ---------------------------
(***************************************************************************)
(* The operations the API offers on a case: the state each asks for, the   *)
(* least role that may call it, and the actor in whose name the transition *)
(* is made (apps/api/src/http, packages/application, packages/workflow).   *)
(* CaseWorkflow serves them one statement at a time; CaseConsole offers    *)
(* them as buttons.                                                        *)
(***************************************************************************)
EXTENDS CaseTransitions

(* The operations of the API on a case: the state it asks for, the least   *)
(* role that may call it, and whose authority the transition is made with  *)
(* ("caller": the caller's own role, as far as the code tells it apart).   *)
Operation ==
  [ escalate         |-> [to |-> "ESCALATED",           least |-> "OPERATOR", as |-> "caller"],
    request_evidence |-> [to |-> "REQUESTING_EVIDENCE", least |-> "OPERATOR", as |-> "caller"],
    reinvestigate    |-> [to |-> "INVESTIGATING",       least |-> "OPERATOR", as |-> "caller"],
    investigate      |-> [to |-> "INVESTIGATING",       least |-> "OPERATOR", as |-> "OPERATOR"],
    approve          |-> [to |-> "APPROVED",            least |-> "APPROVER", as |-> "APPROVER"],
    reject           |-> [to |-> "REJECTED",            least |-> "APPROVER", as |-> "APPROVER"],
    stage            |-> [to |-> "STAGED",              least |-> "APPROVER", as |-> "SYSTEM"] ]

hasAtLeast(role, minimum) == HumanRank[role] >= HumanRank[minimum]

HumanActor(role) == IF role = "OPERATOR" THEN "OPERATOR" ELSE "APPROVER"

(* A bug: the caller's role is taken as it stands.                         *)
ActorFor_Unmapped(op, role) == Operation[op].as

ActorFor(op, role) ==
  IF Operation[op].as = "caller" THEN HumanActor(role) ELSE Operation[op].as
=============================================================================
