-------------------------- MODULE VerificationProofs --------------------------
(* What holds of VerifiedInvestigation for every payment, store and imports: *)
(* a resolution never contradicts the baseline, it rests on the unit that    *)
(* was verified, and only a racing import makes the verifier refuse a claim  *)
(* that the unit supports.                                                   *)
EXTENDS VerifiedInvestigation, TLAPS

(* Where an investigation stands: no tool is called before the dispatch has  *)
(* loaded the unit, and the opening call returns the payment's id.           *)
Steps ==
  /\ pc \in {"load", "tool", "agent", "verified"}
  /\ left \subseteq Queries
  /\ pc = "tool" => left # {}
  /\ pc = "load" => evidence = {}
  /\ pc \in {"agent", "verified"} => Payment \in evidence
  /\ pc = "tool" /\ "settlements" \notin left => Payment \in evidence
  /\ pc # "verified" => verdict = NoVerdict

(* A verdict is the verifier's, of all the evidence and of the unit.         *)
Judged ==
  pc = "verified" =>
    \E cause \in CauseCode, disposition \in DISPOSITIONS :
      verdict = [ cause |-> cause, disposition |-> disposition,
                  effective |-> Effective(ProposalOf(cause, disposition), unit) ]

(* The unit is the case's payment's.                                         *)
Loaded ==
  /\ DOMAIN unit = {"payment", "rows"}
  /\ DOMAIN unit.rows = Queries
  /\ unit.payment.id = Payment

(* As long as no import has committed, what was read of the unit is what the *)
(* store holds, and all that tools returned is of the unit.                  *)
Undisturbed ==
  store = Stored =>
    /\ \A q \in Queries : pc # "load" \/ q \notin left =>
         unit.rows[q] = Select(q, Stored, Payment)
    /\ pc # "load" => evidence \subseteq RecordIds(unit)

IInv ==
  /\ Stored \subseteq store
  /\ Steps
  /\ Loaded
  /\ Undisturbed
  /\ Judged

----------------------------------------------------------------------------
(* A rate in basis points is applied to the nearest minor unit, and a half   *)
(* goes away from zero: mulDivHalfUp promotes by the doubled remainder.      *)
THEOREM RateIsNearest ==
  ASSUME NEW amount \in Int, NEW bps \in Int
  PROVE  LET product == amount * bps
             applied == ApplyBasisPoints(amount, bps)
         IN  /\ applied \in Int
             /\ 2 * Magnitude(10000 * applied - product) <= 10000
             /\ 2 * Magnitude(10000 * applied - product) = 10000
                  => Magnitude(10000 * applied) > Magnitude(product)
<1> DEFINE product == amount * bps
           magnitude == Magnitude(product)
           quotient == magnitude \div 10000
           remainder == magnitude % 10000
           rounded == IF 2 * remainder >= 10000 THEN quotient + 1 ELSE quotient
<1>1. product \in Int /\ magnitude \in Nat
  BY DEF Magnitude
<1>2. /\ quotient \in Nat /\ remainder \in 0..9999
      /\ magnitude = 10000 * quotient + remainder
  <2> HIDE DEF magnitude
  <2> QED BY <1>1
<1>3. ApplyBasisPoints(amount, bps) = IF product < 0 THEN -rounded ELSE rounded
  BY DEF ApplyBasisPoints, MulDivHalfUp
<1>4. magnitude = IF product < 0 THEN -product ELSE product
  BY DEF Magnitude
<1> DEFINE applied == ApplyBasisPoints(amount, bps)
           Nearest == /\ applied \in Int
                      /\ 2 * Magnitude(10000 * applied - product) <= 10000
                      /\ 2 * Magnitude(10000 * applied - product) = 10000
                           => Magnitude(10000 * applied) > Magnitude(product)
<1> HIDE DEF product, magnitude, quotient, remainder, applied
<1>5. /\ rounded \in Nat
      /\ 10000 * rounded - magnitude <= 5000
      /\ 10000 * rounded - magnitude >= -4999
  <2>1. CASE 2 * remainder >= 10000
    <3>1. rounded = quotient + 1
      BY <2>1
    <3> QED BY <1>2, <2>1, <3>1
  <2>2. CASE ~(2 * remainder >= 10000)
    <3>1. rounded = quotient
      BY <2>2
    <3> QED BY <1>2, <2>2, <3>1
  <2> HIDE DEF rounded
  <2> QED BY <2>1, <2>2
<1> HIDE DEF rounded
<1>6. /\ 2 * Magnitude(10000 * rounded - magnitude) <= 10000
      /\ 2 * Magnitude(10000 * rounded - magnitude) = 10000 => 10000 * rounded > magnitude
  <2> DEFINE d == 10000 * rounded - magnitude
  <2>1. d \in Int /\ d <= 5000 /\ d >= -4999
    BY <1>1, <1>5
  <2>2. 2 * Magnitude(d) <= 10000 /\ (2 * Magnitude(d) = 10000 => d > 0)
    <3> HIDE DEF d
    <3> QED BY <2>1 DEF Magnitude
  <2>3. d > 0 => 10000 * rounded > magnitude
    BY <1>1, <1>5
  <2> QED BY <2>2, <2>3
<1>7. ASSUME product < 0 PROVE Nearest
  <2>1. applied = -rounded /\ magnitude = -product
    BY <1>3, <1>4, <1>7 DEF applied
  <2>2. applied \in Int /\ applied <= 0
    BY <1>5, <2>1
  <2>3. Magnitude(10000 * applied - product) = Magnitude(10000 * rounded - magnitude)
    BY <1>1, <1>5, <2>1 DEF Magnitude
  <2>4. Magnitude(10000 * applied) = 10000 * rounded /\ Magnitude(product) = magnitude
    BY <1>1, <1>5, <1>7, <2>1 DEF Magnitude
  <2> QED BY <1>6, <2>2, <2>3, <2>4
<1>8. ASSUME product >= 0 PROVE Nearest
  <2>1. applied = rounded /\ magnitude = product
    BY <1>1, <1>3, <1>4, <1>8 DEF applied
  <2>2. Magnitude(10000 * applied) = 10000 * rounded /\ Magnitude(product) = magnitude
    BY <1>1, <1>5, <1>8, <2>1 DEF Magnitude
  <2> QED BY <1>6, <1>5, <2>1, <2>2
<1>9. Nearest
  BY <1>1, <1>7, <1>8
<1> QED BY <1>9 DEF product, applied

----------------------------------------------------------------------------
(* A tool never returns an id outside a unit that was read from the same     *)
(* store.                                                                    *)
LEMMA ShownIsOfTheUnit ==
  ASSUME NEW u, NEW q \in Queries, NEW x \in u.rows[q]
  PROVE  RowOf(q, x).id \in RecordIds(u)
<1>1. CASE q = "adjustments"
  BY <1>1 DEF RowOf, RecordIds
<1>2. CASE q # "adjustments"
  BY <1>2 DEF RowOf, RecordIds
<1> QED BY <1>1, <1>2

(* The payment that a case names is found in the store.                      *)
LEMMA PaymentIsFound == PaymentIn(Stored, Payment).id = Payment
<1>1. PICK x \in OfKind(Stored, "PAYMENT") : x.id = Payment
  BY InvestigationAssumption DEF OfKind
<1> QED BY <1>1 DEF PaymentIn

(* What the verifier answers is a disposition.                               *)
LEMMA EffectiveType ==
  ASSUME NEW p, NEW u, p.disposition \in DISPOSITIONS
  PROVE  Effective(p, u) \in DISPOSITIONS
BY DEF Effective, DISPOSITIONS

(* An import takes nothing from the store.                                   *)
LEMMA ImportsOnlyAdd ==
  ASSUME NEW s, NEW b
  PROVE  s \subseteq AfterImport(s, b)
BY DEF AfterImport

LEMMA InitInv == Init => IInv
<1> SUFFICES ASSUME Init PROVE IInv
  OBVIOUS
<1>1. Steps
  BY DEF Init, Steps, Queries
<1>2. Loaded
  BY PaymentIsFound DEF Init, Loaded
<1>3. Undisturbed
  BY DEF Init, Undisturbed
<1>4. Judged
  BY DEF Init, Judged
<1> QED BY <1>1, <1>2, <1>3, <1>4 DEF Init, IInv

LEMMA StepInv == IInv /\ [Next]_vars => IInv'
<1> SUFFICES ASSUME IInv, [Next]_vars PROVE IInv'
  OBVIOUS
<1> USE DEF IInv
<1>1. CASE UNCHANGED vars
  BY <1>1 DEF vars, Steps, Loaded, Undisturbed, Judged, ProposalOf
<1>2. ASSUME NEW batch \in Batches, Import(batch) PROVE IInv'
  <2>1. store \subseteq store'
    BY <1>2, ImportsOnlyAdd DEF Import
  <2>2. store' # Stored
    BY <1>2, <2>1 DEF Import
  <2>3. Steps' /\ Loaded' /\ Judged'
    BY <1>2 DEF Import, Steps, Loaded, Judged, ProposalOf
  <2> QED BY <2>1, <2>2, <2>3 DEF Undisturbed
<1>3. ASSUME NEW q \in Queries, LoadQuery(q) PROVE IInv'
  <2>1. unit' = [unit EXCEPT !.rows[q] = Select(q, store, Payment)]
    BY <1>3 DEF LoadQuery
  <2>2. Loaded'
    BY <2>1 DEF Loaded
  <2>3. /\ unit'.rows[q] = Select(q, store, Payment)
        /\ \A r \in Queries \ {q} : unit'.rows[r] = unit.rows[r]
    BY <2>1 DEF Loaded
  <2>4. Steps'
    <3>1. CASE left = {q}
      BY <1>3, <3>1 DEF LoadQuery, Steps, Shows, Queries
    <3>2. CASE left # {q}
      BY <1>3, <3>2 DEF LoadQuery, Steps
    <3> QED BY <3>1, <3>2
  <2>5. Undisturbed'
    <3> SUFFICES ASSUME store' = Stored
                 PROVE  /\ \A r \in Queries : pc' # "load" \/ r \notin left' =>
                             unit'.rows[r] = Select(r, Stored, Payment)
                        /\ evidence' = {}
      BY DEF Undisturbed
    <3>1. store = Stored /\ evidence' = {} /\ pc = "load"
      BY <1>3 DEF LoadQuery, Steps
    <3>2. \A r \in Queries : r # q /\ (pc' # "load" \/ r \notin left') => r \notin left
      BY <1>3 DEF LoadQuery
    <3> QED BY <2>3, <3>1, <3>2 DEF Undisturbed
  <2>6. Judged'
    BY <1>3 DEF LoadQuery, Judged
  <2> QED BY <1>3, <2>2, <2>4, <2>5, <2>6 DEF LoadQuery
<1>4. ASSUME NEW q \in Queries, ToolQuery(q) PROVE IInv'
  <2>1. Steps'
    BY <1>4 DEF ToolQuery, Steps, Returned
  <2>2. Loaded' /\ Judged'
    BY <1>4 DEF ToolQuery, Loaded, Judged
  <2>3. Undisturbed'
    <3> SUFFICES ASSUME store' = Stored
                 PROVE  /\ \A r \in Queries : unit.rows[r] = Select(r, Stored, Payment)
                        /\ evidence' \subseteq RecordIds(unit)
      BY <1>4 DEF Undisturbed, ToolQuery
    <3>1. \A r \in Queries : unit.rows[r] = Select(r, Stored, Payment)
      BY <1>4 DEF Undisturbed, ToolQuery
    <3>2. evidence \subseteq RecordIds(unit)
      BY <1>4 DEF Undisturbed, ToolQuery
    <3>3. Payment \in RecordIds(unit)
      BY DEF Loaded, RecordIds
    <3>4. \A x \in Select(q, store, Payment) : RowOf(q, x).id \in RecordIds(unit)
      BY <1>4, <3>1, ShownIsOfTheUnit DEF ToolQuery
    <3> QED BY <1>4, <3>1, <3>2, <3>3, <3>4 DEF ToolQuery, Returned
  <2> QED BY <1>4, <2>1, <2>2, <2>3 DEF ToolQuery
<1>5. ASSUME NEW tool \in ToolName, CallTool(tool) PROVE IInv'
  <2>1. Shows(tool) # {} /\ Shows(tool) \subseteq Queries
    BY DEF ToolName, Shows, Queries
  <2>2. Steps'
    BY <1>5, <2>1 DEF CallTool, Steps
  <2>3. Loaded' /\ Judged'
    BY <1>5 DEF CallTool, Loaded, Judged
  <2>4. Undisturbed'
    BY <1>5 DEF CallTool, Undisturbed
  <2> QED BY <1>5, <2>2, <2>3, <2>4 DEF CallTool
<1>6. ASSUME NEW cause \in CauseCode, NEW disposition \in DISPOSITIONS,
             Propose(cause, disposition)
      PROVE  IInv'
  <2>1. Steps'
    BY <1>6 DEF Propose, Steps
  <2>2. Loaded' /\ Undisturbed'
    BY <1>6 DEF Propose, Loaded, Undisturbed
  <2>3. Judged'
    BY <1>6 DEF Propose, Judged, ProposalOf
  <2> QED BY <1>6, <2>1, <2>2, <2>3 DEF Propose
<1> QED BY <1>1, <1>2, <1>3, <1>4, <1>5, <1>6 DEF Next

(* The inductive invariant.                                                  *)
THEOREM Invariance == Spec => []IInv
BY InitInv, StepInv, PTL DEF Spec

----------------------------------------------------------------------------
(* Every variable keeps its type.                                            *)
THEOREM TypeCorrect == Spec => []TypeOK
<1>1. IInv => TypeOK
  <2> SUFFICES ASSUME IInv PROVE TypeOK
    OBVIOUS
  <2>1. verdict \in {NoVerdict} \cup
          [cause : CauseCode, disposition : DISPOSITIONS, effective : DISPOSITIONS]
    <3>1. CASE pc # "verified"
      BY <3>1 DEF IInv, Steps
    <3>2. CASE pc = "verified"
      <4>1. PICK cause \in CauseCode, disposition \in DISPOSITIONS :
              verdict = [ cause |-> cause, disposition |-> disposition,
                          effective |-> Effective(ProposalOf(cause, disposition), unit) ]
        BY <3>2 DEF IInv, Judged
      <4>2. Effective(ProposalOf(cause, disposition), unit) \in DISPOSITIONS
        BY EffectiveType DEF ProposalOf
      <4> QED BY <4>1, <4>2
    <3> QED BY <3>1, <3>2
  <2> QED BY <2>1 DEF IInv, TypeOK, Steps, Loaded
<1> QED BY <1>1, Invariance, PTL

(* A resolution is a claim the verifier has substantiated.                   *)
LEMMA ResolvedIsSubstantiated ==
  ASSUME IInv, Resolved
  PROVE  /\ pc = "verified"
         /\ verdict.cause \in CauseCode
         /\ Substantiated(ProposalOf(verdict.cause, "RESOLVE"), unit)
<1>1. pc = "verified"
  BY DEF IInv, Steps, Resolved, NoVerdict
<1>2. PICK cause \in CauseCode, disposition \in DISPOSITIONS :
        verdict = [ cause |-> cause, disposition |-> disposition,
                    effective |-> Effective(ProposalOf(cause, disposition), unit) ]
  BY <1>1 DEF IInv, Judged
<1>3. disposition = "RESOLVE" /\ Substantiated(ProposalOf(cause, disposition), unit)
  BY <1>2 DEF Resolved, Effective, ProposalOf
<1> QED BY <1>1, <1>2, <1>3

(* A resolution never contradicts the deterministic baseline.                *)
THEOREM ResolutionsAgree == Spec => []ResolvedAsTheBaseline
<1>1. IInv => ResolvedAsTheBaseline
  <2> SUFFICES ASSUME IInv, Resolved
               PROVE  ResolvedAsTheBaseline
    BY DEF ResolvedAsTheBaseline
  <2>1. Substantiated(ProposalOf(verdict.cause, "RESOLVE"), unit)
    BY ResolvedIsSubstantiated
  <2>2. AdjustmentsPossible(unit)
    BY <2>1 DEF Substantiated, NoImpossibleAdjustment, AdjustmentsPossible
  <2>3. CauseSupported(verdict.cause, unit)
    BY <2>1 DEF Substantiated, ProposalOf
  <2>4. Discrepancy(unit) = Variance(unit)
    BY <2>3 DEF CauseSupported, VarianceComputable, Discrepancy, Variance
  <2>5. CASE verdict.cause = "UTR_SPLIT"
    BY <2>2, <2>3, <2>4, <2>5 DEF CauseSupported, SplitExplains, ResolvedAsTheBaseline
  <2>6. CASE verdict.cause = "TIMING_LAG"
    BY <2>2, <2>3, <2>4, <2>6 DEF CauseSupported, LagExplains, ResolvedAsTheBaseline
  <2>7. CASE verdict.cause = "ROUNDING_DRIFT"
    BY <2>2, <2>3, <2>4, <2>7 DEF CauseSupported, DriftExplains, ResolvedAsTheBaseline
  <2> QED BY <2>2, <2>5, <2>6, <2>7 DEF ResolvedAsTheBaseline
<1> QED BY <1>1, Invariance, PTL

(* A resolution rests on records of the unit that was verified.              *)
THEOREM ResolutionsRestOnTheUnit == Spec => []ResolvedOnTheUnit
<1>1. IInv => ResolvedOnTheUnit
  BY ResolvedIsSubstantiated
  DEF ResolvedOnTheUnit, Substantiated, EvidenceInScope, ProposalOf
<1> QED BY <1>1, Invariance, PTL

(* A claim the unit supports is refused only when an import has committed    *)
(* after the dispatch.                                                       *)
THEOREM ClaimsStand == Spec => []StandsUnlessRaced
<1>1. IInv => StandsUnlessRaced
  <2> SUFFICES ASSUME IInv,
                      pc = "verified",
                      verdict.disposition = "RESOLVE",
                      "RESOLVE" \in CauseDispositionPolicy(verdict.cause),
                      NoImpossibleAdjustment(unit),
                      CauseSupported(verdict.cause, unit),
                      store = Stored
               PROVE  Resolved
    BY DEF StandsUnlessRaced
  <2>1. PICK cause \in CauseCode, disposition \in DISPOSITIONS :
          verdict = [ cause |-> cause, disposition |-> disposition,
                      effective |-> Effective(ProposalOf(cause, disposition), unit) ]
    BY DEF IInv, Judged
  <2>2. Payment \in evidence /\ evidence \subseteq RecordIds(unit)
    BY DEF IInv, Steps, Undisturbed
  <2>3. EvidenceInScope(ProposalOf(cause, disposition), unit)
    BY <2>2 DEF EvidenceInScope, ProposalOf
  <2>4. Substantiated(ProposalOf(cause, disposition), unit)
    BY <2>1, <2>3 DEF Substantiated, ProposalOf
  <2> QED BY <2>1, <2>4 DEF Effective, ProposalOf, Resolved
<1> QED BY <1>1, Invariance, PTL
===============================================================================
