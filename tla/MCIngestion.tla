----------------------------- MODULE MCIngestion -----------------------------
(* Small instances of Ingestion for TLC.                                     *)
EXTENDS Ingestion, TLC

CONSTANTS order, pay, fee, refund, pay2, r1, r2, r3, k1, k2, k3

TwoRequests == {r1, r2}
ThreeRequests == {r1, r2, r3}
TwoKeys == {k1, k2}
ThreeKeys == {k1, k2, k3}

SomeRecords == {order, pay, pay2, fee, refund}

KindOf ==
  order :> "ORDER" @@ pay :> "PAYMENT" @@ pay2 :> "PAYMENT"
    @@ fee :> "FEE_LINE" @@ refund :> "REFUND"

ParentsOf ==
  order :> {} @@ pay :> {order} @@ pay2 :> {} @@ fee :> {pay} @@ refund :> {pay}

NoneMalformed == {}
FeeMalformed == {fee}

(* A lifecycle sent backwards, two payments in either order, and children  *)
(* that come without their parents.                                        *)
RacingBatches ==
  { <<refund, fee, pay, order>>, <<pay, pay2>>, <<pay2, pay, pay2>>, <<refund, fee>> }

(* The same with one order of payments.                                    *)
OrderedBatches ==
  { <<refund, fee, pay, order>>, <<pay, pay2>>, <<order, pay, pay2, fee>> }

RequestSymmetry == Permutations(Requests) \cup Permutations(Keys)
==============================================================================
