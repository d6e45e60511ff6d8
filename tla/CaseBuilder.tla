------------------------------ MODULE CaseBuilder ------------------------------
(***************************************************************************)
(* How the benchmark builds a case (renderCase): one clean lifecycle, each *)
(* cause applied to it as a transform, the records it implies, routine     *)
(* adjustments that are accounted for, and the fee reported in parts.      *)
(*                                                                         *)
(* A draw is what the random generator decides: gross, method, capturedAt, *)
(* variant, jitterDays, varianceScaleBps, routine (the signed rate of each *)
(* routine adjustment) and feeInParts.  A plan has causes and the flag     *)
(* adversarial.  Orders and ledger entries, which no query of a unit reads *)
(* and the noise consists of, are left out.                                *)
(***************************************************************************)
EXTENDS UnitMatcher, Sequences

AMOUNT_CHOICES ==
  {45000, 90000, 250000, 600000, 1000000, 2500000, 7500000, 15000000}

(* What can be drawn.  The period is after the first fee schedule begins;  *)
(* that a capture is on a weekday is left out.                             *)
Drawn ==
  [ gross : AMOUNT_CHOICES, method : PaymentMethod, capturedAt : Nat, variant : 0..7,
    jitterDays : 0..1, varianceScaleBps : 20..900,
    routine : {rates \in Seq(-900..900) : Len(rates) <= 3}, feeInParts : BOOLEAN ]

SINGLE_CAUSES == {"MDR_FEE", "UTR_SPLIT", "REFUND_NETTING", "TIMING_LAG", "ROUNDING_DRIFT"}

Undecidable(plan) == "AMBIGUOUS" \in plan.causes

VarianceOf(draw) == (draw.gross * draw.varianceScaleBps) \div 10000 + 1

(* A bug: a drift that the allowance per record can hide.                  *)
Drift_Small(draw) == 1 + (draw.variant % 5)

Drift(draw) == 3 + (draw.variant % 5)

WithinNettingWindow(draw) == draw.variant % 2 = 0

(* The settlement as the cycle, and no cause, times it.                    *)
SettledInTime(draw) == ExpectedSettlementDate(draw.capturedAt) + draw.jitterDays * DAY

(* The transforms touch different parts of the lifecycle, except that the  *)
(* causes are applied in the order of their names: a refund is dated from  *)
(* the settlement before a lag moves it.                                   *)
SettledAtOf(plan, draw) ==
  IF "TIMING_LAG" \in plan.causes
  THEN SettledInTime(draw) + (2 + (draw.variant % 4)) * DAY
  ELSE SettledInTime(draw)

Unexplained(plan, draw) ==
  (IF "ROUNDING_DRIFT" \in plan.causes THEN Drift(draw) ELSE 0)
    + (IF Undecidable(plan) THEN VarianceOf(draw) ELSE 0)

(* RESOLVE if each of the causes can be proved.                            *)
TrueDisposition(plan, draw) ==
  IF Undecidable(plan) \/ ("REFUND_NETTING" \in plan.causes /\ ~WithinNettingWindow(draw))
  THEN "ESCALATE"
  ELSE "RESOLVE"

----------------------------------------------------------------------------
FeeOf(draw) == ScheduledFee(draw.gross, draw.method, draw.capturedAt)

TaxOf(draw) == ScheduledTax(draw.gross, draw.method, draw.capturedAt)

PaymentRecord(draw) ==
  [ kind |-> "PAYMENT", id |-> "pay", import |-> "import", amount |-> draw.gross,
    method |-> draw.method, status |-> "CAPTURED",
    authorizedAt |-> draw.capturedAt - HOUR, capturedAt |-> draw.capturedAt ]

FeeLine(id, amount) == [kind |-> "FEE_LINE", id |-> id, payment |-> "pay", amount |-> amount]

TaxLine(id, amount) == [kind |-> "TAX_LINE", id |-> id, fee |-> "fee", amount |-> amount]

(* Both halves of the tax name the first half of the fee.                  *)
FeeRecords(draw) ==
  LET fee == FeeOf(draw)
      tax == TaxOf(draw)
  IN  IF draw.feeInParts /\ fee >= 2
      THEN { FeeLine("fee", fee \div 2), FeeLine("fee_b", fee - fee \div 2),
             TaxLine("tax", tax \div 2), TaxLine("tax_b", tax - tax \div 2) }
      ELSE {FeeLine("fee", fee), TaxLine("tax", tax)}

(* What a settlement consists of: its row, its line and its bank credit.   *)
Leg(ids, net, settledAt, creditedAt) ==
  { [ kind |-> "SETTLEMENT", id |-> ids.settlement, net |-> net,
      settlementAt |-> settledAt, utr |-> ids.utr ],
    [ kind |-> "SETTLEMENT_LINE", id |-> ids.line, settlement |-> ids.settlement,
      payment |-> "pay", amount |-> net ],
    [ kind |-> "BANK_CREDIT", id |-> ids.credit, utr |-> ids.utr, amount |-> net,
      creditedAt |-> creditedAt ] }

FirstLegIds == [settlement |-> "set", line |-> "sl", utr |-> "UTR", credit |-> "bc"]

SecondLegIds == [settlement |-> "setb", line |-> "slb", utr |-> "UTRB", credit |-> "bcb"]

RefundRecords(plan, draw) ==
  IF "REFUND_NETTING" \notin plan.causes THEN {}
  ELSE LET createdAt == SettledInTime(draw) - DAY IN
       {[ kind |-> "REFUND", id |-> "rfnd", payment |-> "pay", amount |-> VarianceOf(draw),
          createdAt |-> createdAt,
          settledAt |-> createdAt + (IF WithinNettingWindow(draw) THEN 2 ELSE 9) * DAY ]}

Adjustment(id, settlement, amount, at) ==
  [ kind |-> "ADJUSTMENT", id |-> id, settlement |-> settlement, amount |-> amount,
    effectiveAt |-> at ]

(* An adjustment of the same size that no settlement names, or one that    *)
(* takes effect a month after the settlement it names.                     *)
EmitAdjustments(plan, draw) ==
  CASE ~Undecidable(plan) -> {}
    [] Undecidable(plan) /\ plan.adversarial ->
         {Adjustment("adji", "set", -VarianceOf(draw), SettledAtOf(plan, draw) + 30 * DAY)}
    [] OTHER ->
         {Adjustment("adju", NoRow, -VarianceOf(draw), SettledAtOf(plan, draw) - DAY)}

----------------------------------------------------------------------------
(* A routine adjustment of a rate is that share of the net of the first    *)
(* settlement, as the adjustments before it left it.                       *)
RoutineDelta(net, rate) ==
  IF rate >= 0 THEN (Magnitude(net) * rate) \div 10000
  ELSE -((Magnitude(net) * (-rate)) \div 10000)

(* The net of the first settlement after i of the routine adjustments.     *)
NetAfter(net, rates) ==
  LET after[i \in 0..Len(rates)] ==
        IF i = 0 THEN net
        ELSE after[i - 1] + RoutineDelta(after[i - 1], rates[i])
  IN  after

RoutineId(i) == <<"adjr0", "adjr1", "adjr2">>[i]

RoutineAdjustments(net, rates, settledAt) ==
  LET after    == NetAfter(net, rates)
      delta(i) == after[i] - after[i - 1]
  IN  {Adjustment(RoutineId(i), "set", delta(i), settledAt - 12 * HOUR) :
         i \in {i \in DOMAIN rates : delta(i) # 0}}

(* A bug: the routine adjustments do not change what is paid.              *)
FirstNet_Unadjusted(net, rates) == net

FirstNet(net, rates) == NetAfter(net, rates)[Len(rates)]

(* The records of a case, as they are sent to the import.                  *)
VisibleRecords(plan, draw) ==
  LET settledAt == SettledAtOf(plan, draw)
      net       == draw.gross - FeeOf(draw) - TaxOf(draw) - Unexplained(plan, draw)
      split     == "UTR_SPLIT" \in plan.causes
      first     == IF split THEN net \div 2 ELSE net
      onTime    == settledAt + 6 * HOUR
  IN  {PaymentRecord(draw)}
        \cup (IF "MDR_FEE" \in plan.causes THEN {} ELSE FeeRecords(draw))
        \cup Leg(FirstLegIds, FirstNet(first, draw.routine), settledAt, onTime)
        \cup (IF split
              THEN Leg(SecondLegIds, net - first, settledAt,
                       settledAt + (26 + (draw.variant % 20)) * HOUR)
              ELSE {})
        \cup RefundRecords(plan, draw)
        \cup EmitAdjustments(plan, draw)
        \cup RoutineAdjustments(first, draw.routine, settledAt)

----------------------------------------------------------------------------
(* The configuration a case is filed under.  Cycles are of two days and    *)
(* rounded to the nearest, half a cycle up.                                *)
AmountBandOf(gross) ==
  CASE gross < 100000   -> "<1k"
    [] gross \in 100000..999999    -> "1k-10k"
    [] gross \in 1000000..9999999  -> "10k-100k"
    [] OTHER -> ">100k"

CyclesLate(plan, draw) ==
  LET days == (SettledAtOf(plan, draw) - ExpectedSettlementDate(draw.capturedAt)) \div DAY
  IN  (days + 1) \div 2

TimingBandOf(cycles) ==
  CASE cycles <= 0 -> "within_window"
    [] cycles = 1 -> "one_cycle_late"
    [] OTHER -> "more_than_one_cycle_late"

BucketOf(plan, draw) ==
  [ amountBand    |-> AmountBandOf(draw.gross),
    timingBand    |-> TimingBandOf(CyclesLate(plan, draw)),
    lineCountBand |-> IF "UTR_SPLIT" \in plan.causes THEN "2-4" ELSE "1",
    paymentMethod |-> draw.method ]
================================================================================
