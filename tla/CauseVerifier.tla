---------------------------- MODULE CauseVerifier ----------------------------
(***************************************************************************)
(* The deterministic verifier: verify judges a proposal (a cause, a        *)
(* disposition, the records it cites and those its tools returned) against *)
(* a unit, and decides the effective disposition.                          *)
(***************************************************************************)
EXTENDS UnitMatcher

CauseCode ==
  {"MDR_FEE", "UTR_SPLIT", "REFUND_NETTING", "TIMING_LAG", "ROUNDING_DRIFT",
   "AMBIGUOUS", "COMPOUND"}

DISPOSITIONS == {"RESOLVE", "REQUEST_EVIDENCE", "ESCALATE"}

CauseDispositionPolicy(cause) ==
  CASE cause = "ROUNDING_DRIFT" -> {"RESOLVE", "ESCALATE"}
    [] cause = "AMBIGUOUS"      -> {"ESCALATE"}
    [] OTHER                    -> DISPOSITIONS

(* Null when the expected net cannot be computed.                          *)
VarianceComputable(unit) == HasBreakdown(unit)

Variance(unit) == ExpectedNet(unit) - SettledTotal(unit)

(* What the schedule withholds and no record shows.                        *)
Unrecorded(unit) ==
  LET p == unit.payment IN
  ScheduledFee(p.amount, p.method, FeeTime(unit))
    + ScheduledTax(p.amount, p.method, FeeTime(unit))
    - Total(unit.rows["fees"]) - Total(unit.rows["taxes"])

FeeExplains(unit) ==
  /\ FeeTime(unit) # Never
  /\ InForce(FeeTime(unit)) # {}
  /\ WithinRoundingTolerance(Magnitude(Variance(unit)) - Magnitude(Unrecorded(unit)), 2)

SplitExplains(unit) ==
  /\ Cardinality(unit.rows["settlements"]) >= 2
  /\ \A s \in unit.rows["settlements"] :
       s.utr # NoUtr => \E b \in unit.rows["credits"] : b.utr = s.utr
  /\ WithinRoundingTolerance(Variance(unit), Cardinality(unit.rows["lines"]))

LagExplains(unit) ==
  /\ WithinRoundingTolerance(Variance(unit), Cardinality(unit.rows["lines"]))
  /\ unit.payment.capturedAt # Never
  /\ unit.rows["settlements"] # {}

(* A bug: drift is not bounded.                                            *)
DriftExplains_Any(unit) == TRUE

DriftExplains(unit) == Magnitude(Variance(unit)) <= ROUNDING_TOLERANCE_ABSOLUTE_CAP_MINOR

RefundExplains(unit) == unit.rows["refunds"] # {} /\ RefundsInWindow(unit)

(* COMPOUND is never supported.                                            *)
CauseSupported(cause, unit) ==
  /\ VarianceComputable(unit)
  /\ \/ cause = "MDR_FEE" /\ FeeExplains(unit)
     \/ cause = "UTR_SPLIT" /\ SplitExplains(unit)
     \/ cause = "TIMING_LAG" /\ LagExplains(unit)
     \/ cause = "ROUNDING_DRIFT" /\ DriftExplains(unit)
     \/ cause = "REFUND_NETTING" /\ RefundExplains(unit)
     \/ cause = "AMBIGUOUS"

(* A bug: it is enough that a tool returned the record.                    *)
EvidenceInScope_Retrieved(proposal, unit) ==
  proposal.evidence # {} /\ proposal.evidence \subseteq proposal.retrieved

EvidenceInScope(proposal, unit) ==
  /\ proposal.evidence # {}
  /\ proposal.evidence \subseteq RecordIds(unit)
  /\ proposal.evidence \subseteq proposal.retrieved

(* A bug: one possible adjustment is enough.                               *)
NoImpossibleAdjustment_OneFits(unit) ==
  unit.rows["adjustments"] # {} => ImpossibleAdjustments(unit) # unit.rows["adjustments"]

NoImpossibleAdjustment(unit) ==
  unit.rows["settlements"] # {} => ImpossibleAdjustments(unit) = {}

Substantiated(proposal, unit) ==
  /\ "RESOLVE" \in CauseDispositionPolicy(proposal.cause)
  /\ EvidenceInScope(proposal, unit)
  /\ NoImpossibleAdjustment(unit)
  /\ CauseSupported(proposal.cause, unit)

(* The effective disposition: a resolution that is not substantiated is an *)
(* escalation, and whatever claims no resolution stands.                   *)
Effective(proposal, unit) ==
  IF proposal.disposition # "RESOLVE" \/ Substantiated(proposal, unit)
  THEN proposal.disposition
  ELSE "ESCALATE"
=============================================================================
