-------------------------- MODULE CaseTransitions --------------------------
(***************************************************************************)
(* The lifecycle of a reconciliation case as a constant table: which state *)
(* may follow which, who may make the move, and which moves need a         *)
(* recorded outcome (packages/domain/src/case/).  The repository that      *)
(* writes cases and the domain aggregate both consult this table.          *)
(***************************************************************************)
EXTENDS Naturals

CaseState ==
  { "RECEIVED", "NORMALIZED", "MATCHING", "RECONCILED", "EXCEPTION",
    "INVESTIGATING", "ACTION_PROPOSED", "APPROVAL_PENDING", "APPROVED",
    "REJECTED", "REQUESTING_EVIDENCE", "ESCALATED", "STAGED", "APPLIED",
    "OUTCOME_LOGGED", "CLOSED", "REOPENED" }

Human == {"OPERATOR", "APPROVER", "ADMIN"}

TransitionActor == {"SYSTEM"} \cup Human

(* Human roles form a chain; SYSTEM is deliberately not in it.             *)
HumanRank == [OPERATOR |-> 1, APPROVER |-> 2, ADMIN |-> 3]

----------------------------------------------------------------------------
(* One rule of the table.  A closing rule needs an outcome record.         *)
rule(from, to, actors) ==
  [from |-> from, to |-> to, actors |-> actors, requiresOutcome |-> FALSE]

closing(from, to, actors) ==
  [from |-> from, to |-> to, actors |-> actors, requiresOutcome |-> TRUE]

SystemOnly == {"SYSTEM"}
SysOp == {"SYSTEM", "OPERATOR"}
OpApprover == {"OPERATOR", "APPROVER"}

Transitions ==
  { rule("RECEIVED", "NORMALIZED", SystemOnly),
    rule("NORMALIZED", "MATCHING", SystemOnly),
    rule("MATCHING", "RECONCILED", SystemOnly),
    rule("MATCHING", "EXCEPTION", SystemOnly),
    rule("RECONCILED", "CLOSED", SystemOnly),
    rule("EXCEPTION", "INVESTIGATING", SysOp),
    rule("EXCEPTION", "ESCALATED", SysOp),
    rule("INVESTIGATING", "ACTION_PROPOSED", SystemOnly),
    rule("INVESTIGATING", "REQUESTING_EVIDENCE", SystemOnly),
    rule("INVESTIGATING", "ESCALATED", SysOp),
    rule("ACTION_PROPOSED", "APPROVAL_PENDING", SystemOnly),
    rule("ACTION_PROPOSED", "APPROVED", {"APPROVER"}),
    rule("ACTION_PROPOSED", "REQUESTING_EVIDENCE", SysOp),
    rule("ACTION_PROPOSED", "ESCALATED", SysOp),
    rule("ACTION_PROPOSED", "INVESTIGATING", SystemOnly),
    rule("APPROVAL_PENDING", "APPROVED", {"APPROVER"}),
    rule("APPROVAL_PENDING", "REJECTED", {"APPROVER"}),
    rule("APPROVAL_PENDING", "REQUESTING_EVIDENCE", OpApprover),
    rule("APPROVAL_PENDING", "ESCALATED", OpApprover),
    rule("APPROVAL_PENDING", "INVESTIGATING", SystemOnly),
    rule("APPROVED", "STAGED", SystemOnly),
    closing("APPROVED", "CLOSED", SystemOnly),
    rule("REJECTED", "INVESTIGATING", {"OPERATOR"}),
    rule("REJECTED", "ESCALATED", OpApprover),
    rule("REQUESTING_EVIDENCE", "INVESTIGATING", SysOp),
    rule("REQUESTING_EVIDENCE", "ESCALATED", SysOp),
    rule("ESCALATED", "REOPENED", Human),
    closing("ESCALATED", "CLOSED", Human),
    rule("STAGED", "APPLIED", SystemOnly),
    rule("STAGED", "ESCALATED", SystemOnly),
    rule("APPLIED", "OUTCOME_LOGGED", SysOp),
    closing("OUTCOME_LOGGED", "CLOSED", SystemOnly),
    rule("CLOSED", "REOPENED", {"ADMIN"}),
    rule("REOPENED", "INVESTIGATING", SysOp) }

----------------------------------------------------------------------------
RulesFor(from, to) == {t \in Transitions : t.from = from /\ t.to = to}

canTransition(from, to) == RulesFor(from, to) # {}

(* An actor is permitted when the rule names it, or names a human role     *)
(* that ranks no higher.  SYSTEM inherits nothing.                         *)
isActorPermitted(from, to, actor) ==
  \E t \in RulesFor(from, to) :
    \/ actor \in t.actors
    \/ /\ actor \in Human
       /\ \E permitted \in t.actors \cap Human :
            HumanRank[permitted] <= HumanRank[actor]

requiresOutcomeRecord(from, to) ==
  \E t \in RulesFor(from, to) : t.requiresOutcome

(* What every write to a case checks against the state it read, whoever    *)
(* asks: the move is in the table, the actor may make it, and an outcome   *)
(* is recorded when the rule needs one.                                    *)
Legal(from, to, actor, outcomeRecorded) ==
  /\ canTransition(from, to)
  /\ isActorPermitted(from, to, actor)
  /\ requiresOutcomeRecord(from, to) => outcomeRecorded
=============================================================================
