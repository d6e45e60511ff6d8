------------------------------ MODULE MCRecords ------------------------------
(* Records for the instances: a CARD payment of 1000.00 has a fee of 25.00     *)
(* and a tax of 4.50; it is captured on Monday 2026-01-05 and settled on the   *)
(* Wednesday, with a net of 970.50.                                            *)
EXTENDS PaymentUnit

CapturedAt == 4 * DAY + 10 * HOUR
SettledAt == 6 * DAY + 6 * HOUR

Payment1000(id, import) ==
  [kind |-> "PAYMENT", id |-> id, import |-> import, amount |-> 100000,
   method |-> "CARD", status |-> "CAPTURED", authorizedAt |-> CapturedAt - 5,
   capturedAt |-> CapturedAt]
Fee(id, p, amount) == [kind |-> "FEE_LINE", id |-> id, payment |-> p, amount |-> amount]
Tax(id, fee, amount) == [kind |-> "TAX_LINE", id |-> id, fee |-> fee, amount |-> amount]
Refund(id, p, amount) ==
  [kind |-> "REFUND", id |-> id, payment |-> p, amount |-> amount,
   createdAt |-> CapturedAt, settledAt |-> CapturedAt + DAY]
Adjustment(id, settlement, amount, at) ==
  [kind |-> "ADJUSTMENT", id |-> id, settlement |-> settlement, amount |-> amount,
   effectiveAt |-> at]
Settlement(id, net, utr) ==
  [kind |-> "SETTLEMENT", id |-> id, net |-> net, settlementAt |-> SettledAt, utr |-> utr]
Line(id, settlement, p, amount) ==
  [kind |-> "SETTLEMENT_LINE", id |-> id, settlement |-> settlement, payment |-> p,
   amount |-> amount]
Credit(id, utr, amount) ==
  [kind |-> "BANK_CREDIT", id |-> id, utr |-> utr, amount |-> amount,
   creditedAt |-> SettledAt + HOUR]
===============================================================================
