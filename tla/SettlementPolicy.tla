--------------------------- MODULE SettlementPolicy ---------------------------
(***************************************************************************)
(* The policy of the reconciliation: integer rounding, the fee schedules,  *)
(* the tolerances, and the settlement calendar.  Amounts are integers in   *)
(* minor units, times are minutes since 2026-01-01T00:00Z.                 *)
(***************************************************************************)
EXTENDS Integers, FiniteSets

Magnitude(x) == IF x < 0 THEN -x ELSE x

(* mulDivHalfUp over the positive denominators the code has: half away     *)
(* from zero.                                                              *)
MulDivHalfUp(amount, numerator, denominator) ==
  LET product  == amount * numerator
      quotient == Magnitude(product) \div denominator
      promoted == 2 * (Magnitude(product) % denominator) >= denominator
      rounded  == IF promoted THEN quotient + 1 ELSE quotient
  IN  IF product < 0 THEN -rounded ELSE rounded

ApplyBasisPoints(amount, bps) == MulDivHalfUp(amount, bps, 10000)

----------------------------------------------------------------------------
ROUNDING_TOLERANCE_PER_RECORD_MINOR == 2

ROUNDING_TOLERANCE_ABSOLUTE_CAP_MINOR == 100

Larger(a, b) == IF a > b THEN a ELSE b

Smaller(a, b) == IF a < b THEN a ELSE b

RoundingToleranceFor(count) ==
  Smaller(ROUNDING_TOLERANCE_PER_RECORD_MINOR * Larger(1, count),
          ROUNDING_TOLERANCE_ABSOLUTE_CAP_MINOR)

WithinRoundingTolerance(variance, count) ==
  Magnitude(variance) <= RoundingToleranceFor(count)

----------------------------------------------------------------------------
HOUR == 60

DAY == 24 * HOUR

IST_OFFSET_MINUTES == 330

SETTLEMENT_CYCLE_BUSINESS_DAYS == 2

SETTLEMENT_CUTOFF_HOUR_IST == 18

SETTLEMENT_DATE_MATCH_TOLERANCE_DAYS == 1

REFUND_NETTING_MAX_CYCLES == 2

BANK_CREDIT_EXPECTED_LAG_HOURS == 24

(* Day 0 is a Thursday; Sunday is day 0 of the week.                       *)
IsBusinessDay(day) == (day + 4) % 7 \notin {0, 6}

(* The n-th business day after a day, and before it, for n up to 5.        *)
BusinessDayAfter(day, n) ==
  CHOOSE d \in (day + 1)..(day + 7) :
    IsBusinessDay(d) /\ Cardinality({e \in (day + 1)..d : IsBusinessDay(e)}) = n

BusinessDayBefore(day, n) ==
  CHOOSE d \in (day - 7)..(day - 1) :
    IsBusinessDay(d) /\ Cardinality({e \in d..(day - 1) : IsBusinessDay(e)}) = n

(* The IST day of the capture, or the next one from the cutoff on, is the  *)
(* one the cycle counts from; the date is midnight of the last, as UTC.    *)
ExpectedSettlementDate(capturedAt) ==
  LET ist  == capturedAt + IST_OFFSET_MINUTES
      from == IF ist % DAY >= SETTLEMENT_CUTOFF_HOUR_IST * HOUR
              THEN ist \div DAY + 1
              ELSE ist \div DAY
  IN  DAY * BusinessDayAfter(from, SETTLEMENT_CYCLE_BUSINESS_DAYS)

(* Whole days between two times, rounded towards the earlier: a day early  *)
(* is one day, a minute early is one day too.                              *)
DaysBetween(a, b) == Magnitude((a - b) \div DAY)

BankCreditWithinExpectedLag(settlementAt, creditedAt) ==
  creditedAt - settlementAt \in 0..(BANK_CREDIT_EXPECTED_LAG_HOURS * HOUR)

(* The same time of day, n business days (by the UTC calendar) before.     *)
BusinessDaysBefore(at, n) ==
  LET day == at \div DAY IN at - DAY * (day - BusinessDayBefore(day, n))

AdjustmentCanExplainSettlement(adjustmentAt, settlementAt) ==
  /\ adjustmentAt <= settlementAt
  /\ adjustmentAt >= BusinessDaysBefore(settlementAt, SETTLEMENT_CYCLE_BUSINESS_DAYS)

----------------------------------------------------------------------------
PaymentMethod == {"CARD", "NETBANKING", "UPI", "WALLET"}

TAX_ON_FEE_BPS == 1800

(* The two schedules, the second from 2026-04-01 on; they differ in CARD.  *)
FEE_SCHEDULES ==
  { [effectiveFrom |-> 0,
     feeRateBps    |-> [CARD |-> 250, NETBANKING |-> 190, UPI |-> 0, WALLET |-> 200]],
    [effectiveFrom |-> 90 * DAY,
     feeRateBps    |-> [CARD |-> 230, NETBANKING |-> 190, UPI |-> 0, WALLET |-> 200]] }

InForce(at) == {s \in FEE_SCHEDULES : s.effectiveFrom <= at}

ScheduleAt(at) ==
  CHOOSE s \in InForce(at) : \A t \in InForce(at) : t.effectiveFrom <= s.effectiveFrom

(* Both are defined when a schedule is in force.                           *)
ScheduledFee(gross, method, at) ==
  ApplyBasisPoints(gross, ScheduleAt(at).feeRateBps[method])

ScheduledTax(gross, method, at) ==
  ApplyBasisPoints(ScheduledFee(gross, method, at), TAX_ON_FEE_BPS)
=============================================================================
