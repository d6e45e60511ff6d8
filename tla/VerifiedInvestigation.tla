------------------------ MODULE VerifiedInvestigation ------------------------
(***************************************************************************)
(* One investigation and its verdict, while imports go on.  dispatchAgent  *)
(* loads the payment's unit by concurrent queries; every tool the agent    *)
(* calls loads it again and returns ids of the records it shows; the       *)
(* proposal cites all ids that were returned; and it is verified against   *)
(* the unit of the dispatch.  The loop's budgets are AgentLoop's, what     *)
(* follows from the verdict is CaseWorkflow's.                             *)
(***************************************************************************)
EXTENDS CauseVerifier

CONSTANTS
  Payment,  \* the id of the case's payment
  Stored,   \* the rows of the store when the investigation is dispatched
  Batches   \* the batches, as sets of rows, that imports may commit meanwhile

(* A case has a foreign key to its payment.                                *)
ASSUME InvestigationAssumption ==
  \E x \in Stored : x.kind = "PAYMENT" /\ x.id = Payment

VARIABLES
  store,     \* the committed rows
  pc,        \* what the investigation is doing
  left,      \* the queries under way: of the dispatch, or of a tool
  unit,      \* the unit the proposal is verified against
  evidence,  \* the ids that tools have returned
  verdict    \* the proposal and what became of it

vars == <<store, pc, left, unit, evidence, verdict>>

(* The tools that read a unit, and what they show of it besides the        *)
(* payment.  get_ledger_entries, get_fee_schedule and                      *)
(* calculate_expected_net_amount return the payment's id or none, and the  *)
(* opening call has returned that already.                                 *)
ToolName ==
  { "get_settlement_breakup", "get_fee_tax_lines", "validate_tax_line_mapping",
    "get_bank_credit", "get_refunds", "search_related_adjustments" }

Shows(tool) ==
  CASE tool = "get_settlement_breakup"     -> {"settlements"}
    [] tool = "get_fee_tax_lines"          -> {"fees", "taxes"}
    [] tool = "validate_tax_line_mapping"  -> {"fees", "taxes"}
    [] tool = "get_bank_credit"            -> {"credits"}
    [] tool = "get_refunds"                -> {"refunds"}
    [] tool = "search_related_adjustments" -> {"adjustments"}

RowOf(q, x) == IF q = "adjustments" THEN x[1] ELSE x

Returned(q) ==
  {RowOf(q, x).id : x \in Select(q, store, Payment)}
    \cup (IF q = "settlements" THEN {Payment} ELSE {})

NoVerdict == [cause |-> "none", disposition |-> "none", effective |-> "none"]

Init ==
  /\ store = Stored
  /\ pc = "load"
  /\ left = Queries
  /\ unit = [payment |-> PaymentIn(Stored, Payment), rows |-> [q \in Queries |-> {}]]
  /\ evidence = {}
  /\ verdict = NoVerdict

(* An import commits its rows at once; one that adds none changes nothing. *)
Import(batch) ==
  /\ store' = AfterImport(store, batch)
  /\ store' # store
  /\ UNCHANGED <<pc, left, unit, evidence, verdict>>

(* One of the dispatch's queries is answered.  After the last one the      *)
(* agent is run, and opens with get_settlement_breakup.                    *)
LoadQuery(q) ==
  /\ pc = "load"
  /\ q \in left
  /\ unit' = [unit EXCEPT !.rows[q] = Select(q, store, Payment)]
  /\ IF left = {q}
     THEN pc' = "tool" /\ left' = Shows("get_settlement_breakup")
     ELSE pc' = "load" /\ left' = left \ {q}
  /\ UNCHANGED <<store, evidence, verdict>>

CallTool(tool) ==
  /\ pc = "agent"
  /\ pc' = "tool"
  /\ left' = Shows(tool)
  /\ UNCHANGED <<store, unit, evidence, verdict>>

(* One of a tool's queries is answered: the tool returns the ids.          *)
ToolQuery(q) ==
  /\ pc = "tool"
  /\ q \in left
  /\ evidence' = evidence \cup Returned(q)
  /\ left' = left \ {q}
  /\ pc' = IF left = {q} THEN "agent" ELSE "tool"
  /\ UNCHANGED <<store, unit, verdict>>

(* runAiInvestigation: the ids the tools returned are both what the        *)
(* proposal cites and what it is said to have retrieved.                   *)
ProposalOf(cause, disposition) ==
  [ cause |-> cause, disposition |-> disposition,
    evidence |-> evidence, retrieved |-> evidence ]

Propose(cause, disposition) ==
  /\ pc = "agent"
  /\ pc' = "verified"
  /\ verdict' = [ cause |-> cause, disposition |-> disposition,
                  effective |-> Effective(ProposalOf(cause, disposition), unit) ]
  /\ UNCHANGED <<store, left, unit, evidence>>

Next ==
  \/ \E batch \in Batches : Import(batch)
  \/ \E q \in Queries : LoadQuery(q) \/ ToolQuery(q)
  \/ \E tool \in ToolName : CallTool(tool)
  \/ \E cause \in CauseCode, disposition \in DISPOSITIONS : Propose(cause, disposition)

Spec == Init /\ [][Next]_vars

----------------------------------------------------------------------------
(* Every variable has its type; rows are never taken from the store.       *)
TypeOK ==
  /\ Stored \subseteq store
  /\ pc \in {"load", "tool", "agent", "verified"}
  /\ left \subseteq Queries
  /\ DOMAIN unit = {"payment", "rows"} /\ DOMAIN unit.rows = Queries
  /\ verdict \in {NoVerdict} \cup
       [cause : CauseCode, disposition : DISPOSITIONS, effective : DISPOSITIONS]

Resolved == verdict.effective = "RESOLVE"

(* A resolution never contradicts the baseline: what UTR_SPLIT or          *)
(* TIMING_LAG closes, the matcher's amount check would pass for some       *)
(* number of lines, what ROUNDING_DRIFT closes is within the cap by the    *)
(* matcher's own discrepancy, and no adjustment is impossible.             *)
ResolvedAsTheBaseline ==
  Resolved =>
    /\ AdjustmentsPossible(unit)
    /\ verdict.cause \in {"UTR_SPLIT", "TIMING_LAG"} =>
         WithinRoundingTolerance(Discrepancy(unit), Cardinality(unit.rows["lines"]))
    /\ verdict.cause = "ROUNDING_DRIFT" =>
         Magnitude(Discrepancy(unit)) <= ROUNDING_TOLERANCE_ABSOLUTE_CAP_MINOR

(* Whatever imports do while the agent is at work, a resolution rests on   *)
(* records of the unit that was verified: nothing a tool showed is newer.  *)
ResolvedOnTheUnit == Resolved => evidence # {} /\ evidence \subseteq RecordIds(unit)

(* A claim that the unit supports is refused only if an import committed   *)
(* after the dispatch.                                                     *)
StandsUnlessRaced ==
  /\ pc = "verified"
  /\ verdict.disposition = "RESOLVE"
  /\ "RESOLVE" \in CauseDispositionPolicy(verdict.cause)
  /\ NoImpossibleAdjustment(unit)
  /\ CauseSupported(verdict.cause, unit)
  /\ ~Resolved
  => store # Stored

(* A case that refund netting closes has no variance, or one that its      *)
(* refunds explain.                                                        *)
RefundsExplain ==
  Resolved /\ verdict.cause = "REFUND_NETTING" =>
    \E explained \in {0, Total(unit.rows["refunds"])} :
      WithinRoundingTolerance(Magnitude(Variance(unit)) - explained,
                              Cardinality(unit.rows["lines"]))
=============================================================================
