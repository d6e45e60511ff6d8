---------------------------- MODULE ScenarioEngine ----------------------------
(***************************************************************************)
(* The scenario engine: what generateScenarioBatch makes of a definition   *)
(* and a seed, and the instances that import it into the one store of the  *)
(* merchant and reconcile what they imported (the steps in between are     *)
(* those of ReconciliationRuns).                                           *)
(*                                                                         *)
(* A seed stands for the suffix it gives the ids: every seed with the same *)
(* last six digits in base 36 is one.  An id is known by its name, that of *)
(* the records it is for, and its seed.                                    *)
(***************************************************************************)
EXTENDS ComparedSystems

CONSTANTS
  Keys,           \* the idempotency keys of the requests
  Seeds,
  RecordId(_, _)  \* the id of a name and a seed

ID_NAMES ==
  { "pay", "set", "set_b", "UTR", "UTR_b", "sl", "sl_b", "bc", "bc_b", "fee", "tax", "ref",
    "adj_a", "adj_b", "adj_late" }

(* Two ids are one only if their names are and their seeds are.            *)
ASSUME RecordIdAssumption ==
  \A name \in ID_NAMES, seed \in Seeds :
    /\ RecordId(name, seed) \notin {NoRow, NoUtr}
    /\ \A other \in ID_NAMES, s \in Seeds :
         RecordId(name, seed) = RecordId(other, s) => name = other /\ seed = s

VARIABLES
  store,      \* the committed rows of the merchant
  instances,  \* [Keys -> the row of the instance]
  cases       \* the residual cases: the key that caused it, or everyone, and the payment

scenarioVars == <<store, instances, cases>>

SCENARIO_IDS ==
  { "clean-settlement", "fee-tax-discrepancy", "split-settlement", "refund-netting",
    "ambiguous-adjustment", "misleading-adjustment" }

GrossMinor == 1000000

PaymentMethodOf(def) == IF def = "refund-netting" THEN "NETBANKING" ELSE "CARD"

ExpectedCause(def) ==
  CASE def = "clean-settlement"    -> NoCause
    [] def = "fee-tax-discrepancy" -> "MDR_FEE"
    [] def = "split-settlement"    -> "UTR_SPLIT"
    [] def = "refund-netting"      -> "REFUND_NETTING"
    [] OTHER                       -> "AMBIGUOUS"

ExpectsException(def) == def # "clean-settlement"

----------------------------------------------------------------------------
(* Every scenario is captured at 2026-02-02 10:00Z.                        *)
CAPTURED_AT == 32 * DAY + 10 * HOUR

SETTLED_AT == ExpectedSettlementDate(CAPTURED_AT)

CREDITED_AT == SETTLED_AT + 6 * HOUR

LATE_CREDIT_AT == SETTLED_AT + 3 * DAY

IMPLAUSIBLE_ADJUSTMENT_AT == SETTLED_AT + 30 * DAY

RefundMinor == 100000

Shortfall == 50000

(* A bug: the ids do not depend on the seed.                               *)
Refs_Fixed(seed) == [name \in ID_NAMES |-> RecordId(name, CHOOSE s \in Seeds : TRUE)]

Refs(seed) == [name \in ID_NAMES |-> RecordId(name, seed)]

ScenarioFee(def) == ScheduledFee(GrossMinor, PaymentMethodOf(def), CAPTURED_AT)

ScenarioTax(def) == ScheduledTax(GrossMinor, PaymentMethodOf(def), CAPTURED_AT)

ScenarioPayment(key, def, r) ==
  [ kind |-> "PAYMENT", id |-> r.pay, import |-> key, amount |-> GrossMinor,
    method |-> PaymentMethodOf(def), status |-> "CAPTURED",
    authorizedAt |-> CAPTURED_AT - HOUR, capturedAt |-> CAPTURED_AT ]

FeeAndTax(def, r) ==
  { [kind |-> "FEE_LINE", id |-> r.fee, payment |-> r.pay, amount |-> ScenarioFee(def)],
    [kind |-> "TAX_LINE", id |-> r.tax, fee |-> r.fee, amount |-> ScenarioTax(def)] }

(* A settlement with its line and its credit.                              *)
SettlementLeg(r, settlement, line, utr, credit, net, creditedAt) ==
  { [ kind |-> "SETTLEMENT", id |-> settlement, net |-> net, settlementAt |-> SETTLED_AT,
      utr |-> utr ],
    [ kind |-> "SETTLEMENT_LINE", id |-> line, settlement |-> settlement, payment |-> r.pay,
      amount |-> net ],
    [ kind |-> "BANK_CREDIT", id |-> credit, utr |-> utr, amount |-> net,
      creditedAt |-> creditedAt ] }

FirstLeg(r, net) == SettlementLeg(r, r.set, r.sl, r.UTR, r.bc, net, CREDITED_AT)

SecondLeg(r, net) == SettlementLeg(r, r.set_b, r.sl_b, r.UTR_b, r.bc_b, net, LATE_CREDIT_AT)

RefundRecord(r) ==
  [ kind |-> "REFUND", id |-> r.ref, payment |-> r.pay, amount |-> RefundMinor,
    createdAt |-> 33 * DAY + 12 * HOUR, settledAt |-> 50 * DAY ]

AdjustmentRecord(id, r, at) ==
  [ kind |-> "ADJUSTMENT", id |-> id, settlement |-> r.set, amount |-> -Shortfall,
    effectiveAt |-> at ]

CleanNet(def) == GrossMinor - ScenarioFee(def) - ScenarioTax(def)

GenerateScenarioBatch(key, def, seed) ==
  LET r   == Refs(seed)
      net == CleanNet(def)
      fee == FeeAndTax(def, r)
  IN  {ScenarioPayment(key, def, r)} \cup
      CASE def = "clean-settlement"    -> fee \cup FirstLeg(r, net)
        [] def = "fee-tax-discrepancy" -> FirstLeg(r, net)
        [] def = "split-settlement" ->
             fee \cup FirstLeg(r, net \div 2) \cup SecondLeg(r, net - net \div 2)
        [] def = "refund-netting" -> fee \cup FirstLeg(r, net) \cup {RefundRecord(r)}
        [] def = "ambiguous-adjustment" ->
             fee \cup FirstLeg(r, net - Shortfall)
                 \cup { AdjustmentRecord(r.adj_a, r, SETTLED_AT),
                        AdjustmentRecord(r.adj_b, r, SETTLED_AT) }
        [] def = "misleading-adjustment" ->
             fee \cup FirstLeg(r, net - Shortfall)
                 \cup {AdjustmentRecord(r.adj_late, r, IMPLAUSIBLE_ADJUSTMENT_AT)}

----------------------------------------------------------------------------
NoInstance == [status |-> "ABSENT"]

ScenarioInit ==
  /\ store = {}
  /\ instances = [k \in Keys |-> NoInstance]
  /\ cases = {}

(* Any later request with the key is answered with the instance.  The      *)
(* evaluated counter is that of the run.                                   *)
CreateOrGet(k) ==
  /\ instances[k] = NoInstance
  /\ \E def \in SCENARIO_IDS, seed \in Seeds :
       instances' = [instances EXCEPT ![k] =
         [ status |-> "RUNNING", def |-> def, seed |-> seed, imported |-> FALSE,
           evaluated |-> 0, casesCreated |-> 0 ]]
  /\ UNCHANGED <<store, cases>>

IsRunning(k) == instances[k].status = "RUNNING"

(* What is there already is skipped.                                       *)
SubmitImport(k) ==
  /\ IsRunning(k) /\ ~instances[k].imported
  /\ store' = AfterImport(store, GenerateScenarioBatch(k, instances[k].def, instances[k].seed))
  /\ instances' = [instances EXCEPT ![k].imported = TRUE]
  /\ UNCHANGED cases

Imported(k) == {p \in OfKind(store, "PAYMENT") : p.import = k}

Residual(p) ==
  LET unit == UnitOf(store, p.id) IN \E find \in Finds(unit) : ~Reconciles(unit, find)

CasesFor(run, payments) ==
  {[run |-> run, payment |-> p.id] : p \in {p \in payments : Residual(p)}}

(* The run over what the instance imported itself.                         *)
ReconcileOwn(k) ==
  /\ IsRunning(k) /\ instances[k].imported
  /\ cases' = cases \cup CasesFor(k, Imported(k))
  /\ instances' = [instances EXCEPT ![k] =
       [@ EXCEPT !.status = "SUCCEEDED", !.evaluated = Cardinality(Imported(k)),
                 !.casesCreated = Cardinality(CasesFor(k, Imported(k)))]]
  /\ UNCHANGED store

(* A statement throws, perhaps one that comes after complete: what it      *)
(* wrote stays, and the instance is FAILED, though it may have SUCCEEDED.  *)
MarkFailed(k) ==
  /\ instances[k].status \in {"RUNNING", "SUCCEEDED"}
  /\ instances' = [instances EXCEPT ![k].status = "FAILED"]
  /\ UNCHANGED <<store, cases>>

Everyone == "everyone"

(* A run over all payments of the merchant.                                *)
ReconcileAll ==
  /\ cases' = cases \cup CasesFor(Everyone, OfKind(store, "PAYMENT"))
  /\ UNCHANGED <<store, instances>>

ScenarioNext ==
  \/ \E k \in Keys : CreateOrGet(k) \/ SubmitImport(k) \/ ReconcileOwn(k) \/ MarkFailed(k)
  \/ ReconcileAll

ScenarioSpec == ScenarioInit /\ [][ScenarioNext]_scenarioVars

----------------------------------------------------------------------------
ScenarioTypes ==
  /\ \A p \in OfKind(store, "PAYMENT") : p.import \in Keys
  /\ \A k \in Keys : instances[k].status \in {"ABSENT", "RUNNING", "SUCCEEDED", "FAILED"}
  /\ cases \subseteq [run : Keys \cup {Everyone}, payment : IdsIn(store, "PAYMENT")]

Sharing(k) ==
  {j \in Keys : instances[j] # NoInstance /\ instances[j].seed = instances[k].seed}

(* An instance that has its seed to itself evaluates its payment, whatever *)
(* other instances do, and makes a case of it if that is what the scenario *)
(* is for.  Of instances that share a seed one at most evaluates anything. *)
ScenariosShow ==
  \A k \in Keys : instances[k].status = "SUCCEEDED" =>
    IF Sharing(k) = {k}
    THEN /\ instances[k].evaluated = 1
         /\ instances[k].casesCreated = IF ExpectsException(instances[k].def) THEN 1 ELSE 0
    ELSE \A j \in Sharing(k) \ {k} :
           instances[j].status = "SUCCEEDED" => 0 \in {instances[j].evaluated, instances[k].evaluated}

(* Variables of their types, and scenarios that show.                      *)
ScenarioInv == ScenarioTypes /\ ScenariosShow

PaymentOf(k) == Refs(instances[k].seed).pay

(* The causes a resolution of the case can name.                           *)
Accepted(k) ==
  {cause \in CauseCode : Verified(cause, UnitOf(store, PaymentOf(k))).effective = "RESOLVE"}

(* As long as its seed is its own, the case of a scenario about a fee or a *)
(* split can be resolved by its cause, the case of any other by none,      *)
(* whoever reconciles it.                                                  *)
CausesAreAsExpected ==
  \A k \in Keys :
    /\ instances[k] # NoInstance
    /\ Sharing(k) = {k}
    /\ \E c \in cases : c.payment = PaymentOf(k)
    => IF ExpectedCause(instances[k].def) \in {"MDR_FEE", "UTR_SPLIT"}
       THEN ExpectedCause(instances[k].def) \in Accepted(k)
       ELSE Accepted(k) = {}
==============================================================================
