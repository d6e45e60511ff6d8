----------------------------- MODULE PaymentUnit -----------------------------
(***************************************************************************)
(* The unit of reconciliation: a payment and the records that bear on its  *)
(* settlement, as the queries of loadUnit select them from the store, and  *)
(* the amounts that are computed from it.                                  *)
(*                                                                         *)
(* A record is a row with a kind, an id, the ids of the rows its foreign   *)
(* keys name (NoRow for NULL), and the amounts and times of its kind.  The *)
(* store is a set of rows.  There is one merchant and one currency (INR is *)
(* the only one normalization lets in).                                    *)
(***************************************************************************)
EXTENDS SettlementPolicy, FiniteSetsExt

NoRow == "no row"

NoUtr == "no UTR"

(* A timestamp that is NULL: times count from 0.                           *)
Never == -1

OfKind(store, kind) == {x \in store : x.kind = kind}

PaymentIn(store, p) == CHOOSE x \in OfKind(store, "PAYMENT") : x.id = p

(* The store after the transaction of an import: a source record id that   *)
(* is there already is skipped; a reference that finds no row is NULL; and *)
(* a refund without its payment, or a line without its settlement, is not  *)
(* inserted.                                                               *)
IdsIn(rows, kind) == {x.id : x \in OfKind(rows, kind)}

OrNull(id, ids) == IF id \in ids THEN id ELSE NoRow

AfterImport(store, batch) ==
  LET fresh(kind)    == {x \in OfKind(batch, kind) : x.id \notin IdsIn(store, kind)}
      ids(kind)      == IdsIn(store, kind) \cup IdsIn(batch, kind)
  IN  store \cup fresh("PAYMENT") \cup fresh("SETTLEMENT") \cup fresh("BANK_CREDIT")
        \cup {[f EXCEPT !.payment = OrNull(@, ids("PAYMENT"))] : f \in fresh("FEE_LINE")}
        \cup {[t EXCEPT !.fee = OrNull(@, ids("FEE_LINE"))] : t \in fresh("TAX_LINE")}
        \cup {[a EXCEPT !.settlement = OrNull(@, ids("SETTLEMENT"))] : a \in fresh("ADJUSTMENT")}
        \cup {r \in fresh("REFUND") : r.payment \in ids("PAYMENT")}
        \cup {[l EXCEPT !.payment = OrNull(@, ids("PAYMENT"))] :
                 l \in {l \in fresh("SETTLEMENT_LINE") : l.settlement \in ids("SETTLEMENT")}}

----------------------------------------------------------------------------
FeesOf(store, p) == {f \in OfKind(store, "FEE_LINE") : f.payment = p}

TaxesOf(store, p) ==
  {t \in OfKind(store, "TAX_LINE") : \E f \in FeesOf(store, p) : f.id = t.fee}

RefundsOf(store, p) == {r \in OfKind(store, "REFUND") : r.payment = p}

LinesOf(store, p) == {l \in OfKind(store, "SETTLEMENT_LINE") : l.payment = p}

SettlementsOf(store, p) ==
  {s \in OfKind(store, "SETTLEMENT") : \E l \in LinesOf(store, p) : l.settlement = s.id}

(* An adjustment is selected by a join with the payment's settlement lines *)
(* that is not DISTINCT: it comes once for every line of its settlement,   *)
(* hence the pairs.                                                        *)
AdjustmentsOf(store, p) ==
  {al \in OfKind(store, "ADJUSTMENT") \X LinesOf(store, p) :
     al[1].settlement = al[2].settlement}

CreditsOf(store, p) ==
  {b \in OfKind(store, "BANK_CREDIT") : \E s \in SettlementsOf(store, p) : s.utr = b.utr}

(* The seven queries that follow the payment's.                            *)
Queries ==
  {"fees", "taxes", "refunds", "adjustments", "lines", "settlements", "credits"}

Select(q, store, p) ==
  CASE q = "fees"        -> FeesOf(store, p)
    [] q = "taxes"       -> TaxesOf(store, p)
    [] q = "refunds"     -> RefundsOf(store, p)
    [] q = "adjustments" -> AdjustmentsOf(store, p)
    [] q = "lines"       -> LinesOf(store, p)
    [] q = "settlements" -> SettlementsOf(store, p)
    [] q = "credits"     -> CreditsOf(store, p)

(* The unit when nothing is written while it is read.                      *)
UnitOf(store, p) ==
  [ payment |-> PaymentIn(store, p), rows |-> [q \in Queries |-> Select(q, store, p)] ]

(* A bug: the refunds are forgotten.                                       *)
RecordIds_NoRefunds(unit) ==
  {unit.payment.id} \cup {al[1].id : al \in unit.rows["adjustments"]}
    \cup {x.id : x \in UNION {unit.rows[q] : q \in Queries \ {"adjustments", "refunds"}}}

RecordIds(unit) ==
  {unit.payment.id} \cup {al[1].id : al \in unit.rows["adjustments"]}
    \cup {x.id : x \in UNION {unit.rows[q] : q \in Queries \ {"adjustments"}}}

----------------------------------------------------------------------------
AmountOf(x) == x.amount

Total(rows) == MapThenSumSet(AmountOf, rows)

TotalAdjustment(unit) ==
  MapThenSumSet(LAMBDA al : al[1].amount, unit.rows["adjustments"])

(* buildBreakdown refuses a negative component; an adjustment is signed.   *)
HasBreakdown(unit) ==
  /\ unit.payment.amount >= 0
  /\ \A q \in {"fees", "taxes", "refunds"} : Total(unit.rows[q]) >= 0

ExpectedNet(unit) ==
  unit.payment.amount - Total(unit.rows["fees"]) - Total(unit.rows["taxes"])
    - Total(unit.rows["refunds"]) + TotalAdjustment(unit)

SettledTotal(unit) == Total(unit.rows["lines"])

(* The time a fee schedule is selected at.                                 *)
FeeTime(unit) ==
  IF unit.payment.capturedAt # Never THEN unit.payment.capturedAt
  ELSE unit.payment.authorizedAt
=============================================================================
