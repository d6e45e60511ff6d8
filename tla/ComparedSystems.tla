---------------------------- MODULE ComparedSystems ----------------------------
(***************************************************************************)
(* The systems the benchmark compares: A, the baseline matcher with a      *)
(* lookup from reasons to causes, B, a fixed workflow of hand-written      *)
(* rules, and C, the agent.  No system resolves but through the verifier.  *)
(* And the score of an outcome against the hidden truth.                   *)
(***************************************************************************)
EXTENDS CauseVerifier

NoCause == "none"

Outcome(cause, disposition) == [cause |-> cause, effective |-> disposition]

Escalated == Outcome(NoCause, "ESCALATE")

----------------------------------------------------------------------------
(* Why a check fails.  Of the settlements that are not credited the first  *)
(* in the order of the rows gives the reason.                              *)
Uncredited(unit, find) ==
  {s \in unit.rows["settlements"] : s.utr # NoUtr /\ ~Credited(s, find)}

CreditReason(s, find) ==
  CASE s.utr \notin DOMAIN find     -> "MISSING_BANK_CREDIT"
    [] find[s.utr].amount # s.net   -> "BANK_CREDIT_AMOUNT_MISMATCH"
    [] OTHER                        -> "BANK_CREDIT_TIMING_OUTSIDE_WINDOW"

FeeReason(unit) ==
  CASE FeeTime(unit) = Never -> "LIFECYCLE_INCONSISTENT"
    [] FeeTime(unit) # Never /\ (InForce(FeeTime(unit)) = {} \/ unit.rows["fees"] = {}) ->
         "MISSING_FEE_RECORD"
    [] OTHER -> "UNEXPECTED_FEE_AMOUNT"

AmountReason(unit) ==
  CASE ~HasBreakdown(unit) -> "CURRENCY_INCONSISTENT"
    [] HasBreakdown(unit) /\ ~SettlementPresent(unit) -> "NO_SETTLEMENT_FOUND"
    [] OTHER -> IF Cardinality({l.settlement : l \in unit.rows["lines"]}) > 1
                THEN "SPLIT_SETTLEMENT_UNRESOLVED"
                ELSE "NET_AMOUNT_MISMATCH"

ReasonOf(check, unit) ==
  CASE check = "lifecycle_consistency" -> "LIFECYCLE_INCONSISTENT"
    [] check = "fee_matches_schedule"  -> FeeReason(unit)
    [] check = "settlement_present"    -> "NO_SETTLEMENT_FOUND"
    [] check = "amount_conservation"   -> AmountReason(unit)
    [] check = "settlement_timing"     -> IF unit.rows["settlements"] = {}
                                          THEN "NO_SETTLEMENT_FOUND"
                                          ELSE "SETTLEMENT_TIMING_OUTSIDE_WINDOW"
    [] check = "refund_netting_window" -> "REFUND_OUTSIDE_NETTING_WINDOW"
    [] check = "adjustment_timing"     -> "LIFECYCLE_INCONSISTENT"

(* The verdict's reasons, for one order of the rows or another.            *)
ReasonsOf(unit, find) ==
  LET checks == {c[1] : c \in Failures(unit, find)}
      others == {ReasonOf(check, unit) : check \in checks \ {"bank_credit"}}
  IN  IF "bank_credit" \in checks
      THEN {others \cup {CreditReason(s, find)} : s \in Uncredited(unit, find)}
      ELSE {others}

Verdicts(unit) == UNION {ReasonsOf(unit, find) : find \in Finds(unit)}

----------------------------------------------------------------------------
(* A proposal on records that are all retrieved.                           *)
Proposal(cause, disposition, evidence) ==
  [ cause |-> cause, disposition |-> disposition,
    evidence |-> evidence, retrieved |-> evidence ]

(* To resolve on all the records of the unit.  A system without a loop     *)
(* records no retrieval, and what it cites is not checked for it.          *)
Resolution(cause, unit) == Proposal(cause, "RESOLVE", RecordIds(unit))

Verified(cause, unit) == Outcome(cause, Effective(Resolution(cause, unit), unit))

REASON_TO_CAUSE ==
  [ MISSING_FEE_RECORD                |-> "MDR_FEE",
    UNEXPECTED_FEE_AMOUNT             |-> "MDR_FEE",
    SETTLEMENT_TIMING_OUTSIDE_WINDOW  |-> "TIMING_LAG",
    BANK_CREDIT_TIMING_OUTSIDE_WINDOW |-> "UTR_SPLIT",
    SPLIT_SETTLEMENT_UNRESOLVED       |-> "UTR_SPLIT",
    REFUND_OUTSIDE_NETTING_WINDOW     |-> "REFUND_NETTING" ]

(* A bug: a net that does not match is put down to rounding.               *)
RunSystemA_Rounding(unit, reasons) ==
  CASE reasons = {} -> Outcome(NoCause, "RESOLVE")
    [] reasons = {"NET_AMOUNT_MISMATCH"} -> Verified("ROUNDING_DRIFT", unit)
    [] \E r \in DOMAIN REASON_TO_CAUSE : reasons = {r} ->
         Verified(REASON_TO_CAUSE[CHOOSE r \in reasons : TRUE], unit)
    [] OTHER -> Escalated

(* A resolves what reconciles, and where there is one reason and it maps   *)
(* to a cause, what the verifier lets it.                                  *)
RunSystemA(unit, reasons) ==
  CASE reasons = {} -> Outcome(NoCause, "RESOLVE")
    [] \E r \in DOMAIN REASON_TO_CAUSE : reasons = {r} ->
         Verified(REASON_TO_CAUSE[CHOOSE r \in reasons : TRUE], unit)
    [] OTHER -> Escalated

(* The variance that the tool calculates; nothing when it cannot.          *)
ToolVariance(unit) == IF VarianceComputable(unit) THEN Variance(unit) ELSE 0

(* An adjustment of no settlement never comes with a unit: the adjustments *)
(* are selected through the settlements.                                   *)
UnallocatedMatch(unit) ==
  \E al \in unit.rows["adjustments"] :
    al[1].settlement = NoRow /\ Magnitude(al[1].amount) = Magnitude(ToolVariance(unit))

(* Half a cycle counts here, too.                                          *)
LateRefund(unit) == \E r \in unit.rows["refunds"] : Late(r)

Stop(unit, reasons) ==
  "LIFECYCLE_INCONSISTENT" \in reasons \/ UnallocatedMatch(unit) \/ LateRefund(unit)

(* The rules of B, the most specific first; each returns its cause.        *)
Decide(unit, reasons) ==
  LET variance == ToolVariance(unit) IN
  IF Stop(unit, reasons) THEN NoCause
  ELSE IF "REFUND_OUTSIDE_NETTING_WINDOW" \in reasons THEN "REFUND_NETTING"
  ELSE IF variance # 0 /\ Magnitude(variance) <= ROUNDING_TOLERANCE_ABSOLUTE_CAP_MINOR
       THEN "ROUNDING_DRIFT"
  ELSE IF reasons \cap {"MISSING_FEE_RECORD", "UNEXPECTED_FEE_AMOUNT"} # {} THEN "MDR_FEE"
  ELSE IF \/ Cardinality(unit.rows["settlements"]) > 1
          \/ reasons \cap { "SPLIT_SETTLEMENT_UNRESOLVED", "BANK_CREDIT_TIMING_OUTSIDE_WINDOW",
                            "MISSING_BANK_CREDIT" } # {}
       THEN "UTR_SPLIT"
  ELSE IF "SETTLEMENT_TIMING_OUTSIDE_WINDOW" \in reasons THEN "TIMING_LAG"
  ELSE NoCause

RunSystemB(unit, reasons) ==
  LET cause == Decide(unit, reasons) IN
  IF cause = NoCause THEN Escalated ELSE Verified(cause, unit)

(* Whatever the loop ends with: no cause, or a proposal on records that    *)
(* its tools returned, all of them or only some, for the verifier.         *)
RunSystemC(unit) ==
  {Escalated} \cup
  { Outcome(cause, Effective(Proposal(cause, disposition, evidence), unit)) :
      cause \in CauseCode, disposition \in DISPOSITIONS,
      evidence \in {{}, RecordIds(unit)} }

----------------------------------------------------------------------------
CauseIsCorrect(cause, trueCauses) ==
  cause \in trueCauses \/ (cause = "COMPOUND" /\ Cardinality(trueCauses) > 1)

ScoreOutcome(outcome, trueCauses, trueDisposition) ==
  CASE outcome.effective = "REQUEST_EVIDENCE" -> "REQUESTED_EVIDENCE"
    [] outcome.effective = "RESOLVE" ->
         IF trueDisposition # "RESOLVE" THEN "UNSUPPORTED_RESOLVE"
         ELSE IF CauseIsCorrect(outcome.cause, trueCauses) THEN "CORRECT_RESOLVE"
         ELSE "WRONG_CAUSE_RESOLVE"
    [] OTHER -> IF trueDisposition = "RESOLVE" THEN "UNNECESSARY_ABSTENTION"
                ELSE "CORRECT_ABSTENTION"
================================================================================
