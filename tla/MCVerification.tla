---------------------------- MODULE MCVerification ----------------------------
(* Small instances of VerifiedInvestigation for TLC.                           *)
EXTENDS VerifiedInvestigation, MCRecords

ThePayment == "p"

Fees == {Fee("f", "p", 2500), Tax("t", "f", 450)}
FirstLeg ==
  {Settlement("s1", 50000, "u1"), Line("l1", "s1", "p", 50000), Credit("b1", "u1", 50000)}
SecondLeg == {Settlement("s2", 47000, "u2"), Line("l2", "s2", "p", 47000)}
SecondCredit == {Credit("b2", "u2", 47000)}
Refunded == {Refund("r", "p", 50)}
AdjustedLate == {Adjustment("a", "s1", -50, SettledAt + DAY)}

(* As much as a drift may be.                                                  *)
AdjustedInTime == {Adjustment("a1", "s1", 100, SettledAt - DAY)}

(* At the dispatch the case has its first leg and a refund.                    *)
PartlySettled == {Payment1000("p", "i")} \cup FirstLeg \cup Refunded
Imports == {Fees, SecondLeg, SecondCredit, AdjustedLate, AdjustedInTime}

OnlyThePayment == {Payment1000("p", "i")}
RefundImports == {Fees, FirstLeg, Refunded}
===============================================================================
