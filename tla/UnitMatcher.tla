----------------------------- MODULE UnitMatcher -----------------------------
(***************************************************************************)
(* The deterministic baseline: reconcileUnit runs ten checks over a unit,  *)
(* and the unit is RECONCILED when none of them fails.  The currency check *)
(* cannot fail with one currency, and the duplicate check cannot fail over *)
(* the empty list of duplicates that loadUnit returns: eight are left.     *)
(***************************************************************************)
EXTENDS PaymentUnit

LifecycleConsistent(unit) ==
  LET p == unit.payment IN
  /\ p.status = "CAPTURED" => p.capturedAt # Never
  /\ p.capturedAt # Never /\ p.authorizedAt # Never => p.capturedAt >= p.authorizedAt
  /\ Total(unit.rows["refunds"]) <= p.amount \/ unit.rows["refunds"] = {}

FeeMatchesSchedule(unit) ==
  LET p    == unit.payment
      fees == unit.rows["fees"]
      fee  == ScheduledFee(p.amount, p.method, FeeTime(unit))
  IN  /\ FeeTime(unit) # Never
      /\ InForce(FeeTime(unit)) # {}
      /\ fees = {} => fee = 0
      /\ WithinRoundingTolerance(Total(fees) - fee, Cardinality(fees))

SettlementPresent(unit) == unit.rows["lines"] # {}

(* Expected less settled, and all that is expected when nothing settled.   *)
Discrepancy(unit) ==
  IF HasBreakdown(unit) THEN ExpectedNet(unit) - SettledTotal(unit) ELSE 0

AmountConserved(unit) ==
  /\ HasBreakdown(unit)
  /\ SettlementPresent(unit)
  /\ WithinRoundingTolerance(Discrepancy(unit), Cardinality(unit.rows["lines"]))

SettlementTimely(unit) ==
  LET capturedAt == unit.payment.capturedAt IN
  capturedAt # Never =>
    /\ unit.rows["settlements"] # {}
    /\ \A s \in unit.rows["settlements"] :
         DaysBetween(s.settlementAt, ExpectedSettlementDate(capturedAt))
           <= SETTLEMENT_DATE_MATCH_TOLERANCE_DAYS

(* A cycle is two days.                                                    *)
Late(refund) ==
  /\ refund.settledAt # Never
  /\ DaysBetween(refund.settledAt, refund.createdAt) > 2 * REFUND_NETTING_MAX_CYCLES

RefundsInWindow(unit) == \A r \in unit.rows["refunds"] : ~Late(r)

(* An adjustment of no settlement it could have affected.                  *)
ImpossibleAdjustments(unit) ==
  {al \in unit.rows["adjustments"] : \A s \in unit.rows["settlements"] :
     ~AdjustmentCanExplainSettlement(al[1].effectiveAt, s.settlementAt)}

AdjustmentsPossible(unit) ==
  unit.rows["settlements"] # {} => ImpossibleAdjustments(unit) = {}

(* The credit that find returns for a UTR is the first of the rows that    *)
(* carry it, and the query orders its rows by nothing: any of them.        *)
Finds(unit) ==
  {find \in [{b.utr : b \in unit.rows["credits"]} -> unit.rows["credits"]] :
     \A utr \in DOMAIN find : find[utr].utr = utr}

Credited(s, find) ==
  /\ s.utr \in DOMAIN find
  /\ find[s.utr].amount = s.net
  /\ BankCreditWithinExpectedLag(s.settlementAt, find[s.utr].creditedAt)

BankCredited(unit, find) ==
  \A s \in unit.rows["settlements"] : s.utr # NoUtr => Credited(s, find)

(* The names of the checks that fail.                                      *)
Failures(unit, find) ==
  { c \in { <<"lifecycle_consistency", LifecycleConsistent(unit)>>,
            <<"fee_matches_schedule",  FeeMatchesSchedule(unit)>>,
            <<"settlement_present",    SettlementPresent(unit)>>,
            <<"amount_conservation",   AmountConserved(unit)>>,
            <<"settlement_timing",     SettlementTimely(unit)>>,
            <<"refund_netting_window", RefundsInWindow(unit)>>,
            <<"adjustment_timing",     AdjustmentsPossible(unit)>>,
            <<"bank_credit",           BankCredited(unit, find)>> } : ~c[2] }

Reconciles(unit, find) == Failures(unit, find) = {}
=============================================================================
