--------------------------- MODULE AgentLoopProofs ---------------------------
(***************************************************************************)
(* The loop implements BoundedInvestigation in both of its variants, for   *)
(* every allowlist and every budget.                                       *)
(***************************************************************************)
EXTENDS AgentLoop, TLAPS

(* What the loop knows between two steps: how far the opening calls have   *)
(* come, that everything later comes after both of them, and, in v2, that  *)
(* a question to the model can still be answered by a tool.                *)
LoopInv ==
  /\ TypeOK
  /\ pc = "open" =>
       /\ \A t \in Tools : t # FirstOpener => calls[t] = 0
       /\ toolCalls = calls[FirstOpener]
       /\ toolCalls <= 1
  /\ pc # "open" =>
       /\ \A t \in Openers : calls[t] > 0
       /\ toolCalls > 0
  /\ variant = "v2" /\ pc = "decide" => toolCalls < maxToolCalls

LEMMA InitHolds == Init => LoopInv
<1> SUFFICES ASSUME Init  PROVE LoopInv
  OBVIOUS
<1>1. TypeOK
  <2>1. calls \in [Tools -> Nat] /\ steps \in 0..maxSteps
    BY LoopAssumption DEF Init
  <2>2. pc = "done" <=> result # Undecided
    BY DEF Init
  <2> QED
    BY <2>1, <2>2 DEF Init, TypeOK, Place
<1>2. calls[FirstOpener] = 0 /\ \A t \in Tools : calls[t] = 0
  BY LoopAssumption DEF Init
<1> QED
  BY <1>1, <1>2 DEF Init, LoopInv

(* The parts of a step that both variants share.                           *)
LEMMA OpenKeeps ==
  ASSUME LoopInv, NEW records \in BOOLEAN, Open(records)
  PROVE  LoopInv'
<1>1. /\ NextOpener \in Tools
      /\ calls[NextOpener] = 0
      /\ NextOpener = SecondOpener <=> calls[FirstOpener] > 0
  BY LoopAssumption DEF Open, LoopInv, TypeOK, Place, NextOpener
<1>2. TypeOK'
  BY <1>1 DEF Open, invoke, LoopInv, TypeOK, Place
<1>3. CASE NextOpener = FirstOpener
  BY <1>1, <1>2, <1>3, LoopAssumption DEF Open, invoke, LoopInv, TypeOK, Place
<1>4. CASE NextOpener = SecondOpener
  BY <1>1, <1>2, <1>4, LoopAssumption DEF Open, invoke, LoopInv, TypeOK, Place, Openers
<1> QED
  BY <1>3, <1>4 DEF NextOpener

(* Going on to another part of the loop leaves everything else alone.      *)
LEMMA GoToKeeps ==
  ASSUME LoopInv, pc \in {"top", "decide"}, NEW next \in {"top", "propose"}, GoTo(next)
  PROVE  LoopInv'
  BY DEF GoTo, LoopInv, TypeOK, Place

LEMMA EscalateKeeps ==
  ASSUME LoopInv, pc # "open", NEW reason \in StopReason, escalate(reason)
  PROVE  LoopInv'
<1>1. result' \in [stopReason : StopReason, disposition : Disposition]
  BY DEF escalate, Disposition
<1>2. result' # Undecided
  BY DEF escalate, Undecided, StopReason, ModelFailure
<1> QED
  BY <1>1, <1>2 DEF escalate, LoopInv, TypeOK, Place

LEMMA ProposeKeeps ==
  ASSUME LoopInv, NEW known \in BOOLEAN, NEW disposition \in Disposition,
         Propose(known, disposition)
  PROVE  LoopInv'
<1>1. CASE \E reason \in StopReason : escalate(reason)
  BY <1>1, EscalateKeeps DEF Propose
<1>2. CASE propose(disposition)
  <2>1. result' \in [stopReason : StopReason, disposition : Disposition]
    BY <1>2 DEF propose, StopReason
  <2>2. result' # Undecided
    BY <1>2 DEF propose, Undecided
  <2> QED
    BY <1>2, <2>1, <2>2 DEF Propose, propose, LoopInv, TypeOK, Place
<1> QED
  BY <1>1, <1>2 DEF Propose, StopReason, ModelFailure

LEMMA LoopKeeps ==
  ASSUME LoopInv, NEW exhausted \in BOOLEAN, OutOfSteps => exhausted, Loop(exhausted),
         variant = "v2" => (OverBudget => exhausted)
  PROVE  LoopInv'
<1>1. CASE exhausted /\ GoTo("propose")
  BY <1>1, GoToKeeps DEF Loop
<1>2. CASE escalate("WALLCLOCK_EXCEEDED")
  BY <1>2, EscalateKeeps DEF Loop, StopReason
<1>3. CASE ~exhausted /\ Iterate
  <2>1. steps + 1 \in 0..maxSteps
    BY <1>3, LoopAssumption DEF OutOfSteps, LoopInv, TypeOK, Place
  <2> QED
    BY <1>3, <2>1, LoopAssumption DEF Loop, Iterate, OverBudget, LoopInv, TypeOK, Place
<1> QED
  BY <1>1, <1>2, <1>3 DEF Loop

(* A tool call of the loop itself.                                         *)
LEMMA InvokeKeeps ==
  ASSUME LoopInv, pc = "decide", pc' = "top", NEW t \in Tools, NEW records \in BOOLEAN,
         invoke(t, records)
  PROVE  LoopInv'
  BY LoopAssumption DEF invoke, LoopInv, TypeOK, Place, Openers

LEMMA RunLateKeeps ==
  ASSUME LoopInv, RunLate
  PROVE  LoopInv'
<1>1. late' \in [pc : Place, steps : 0..maxSteps, toolCalls : Nat]
  BY DEF RunLate, LoopInv, TypeOK
<1> QED
  BY <1>1 DEF RunLate, LoopInv, TypeOK

LEMMA StutterKeeps ==
  ASSUME LoopInv, UNCHANGED vars
  PROVE  LoopInv'
  BY DEF vars, LoopInv, TypeOK, Place

LEMMA NextKeeps ==
  ASSUME LoopInv, [Next]_vars
  PROVE  LoopInv'
<1>1. CASE Step
  <2>1. ASSUME NEW records \in BOOLEAN, Open(records)  PROVE LoopInv'
    BY <2>1, OpenKeeps
  <2>2. ASSUME NEW failure \in ModelFailure, ModelFails(failure)  PROVE LoopInv'
    BY <2>2, EscalateKeeps DEF ModelFails, StopReason
  <2>3. CASE Conclude
    BY <2>3, GoToKeeps DEF Conclude
  <2> QED
    BY <1>1, <2>1, <2>2, <2>3 DEF Step
<1>2. CASE StepV1
  <2>1. CASE Loop(OutOfSteps)
    <3>1. OutOfSteps \in BOOLEAN
      BY LoopAssumption DEF OutOfSteps
    <3> QED
      BY <1>2, <2>1, <3>1, LoopKeeps DEF StepV1
  <2>2. CASE StopAsking \/ RejectTool(~OverBudget)
    BY <2>2, GoToKeeps DEF StopAsking, RejectTool
  <2>3. ASSUME NEW t \in Tools, NEW records \in BOOLEAN, CallTool(t, records)
        PROVE  LoopInv'
    BY <2>3, InvokeKeeps, EscalateKeeps DEF CallTool, StopReason
  <2>4. ASSUME NEW known \in BOOLEAN, NEW d \in Disposition, Propose(known, d)
        PROVE  LoopInv'
    BY <2>4, ProposeKeeps
  <2> QED
    BY <1>2, <2>1, <2>2, <2>3, <2>4 DEF StepV1
<1>3. CASE StepV2
  <2>1. CASE Loop(OutOfSteps \/ OverBudget)
    BY <2>1, LoopKeeps
  <2>2. CASE RejectTool(TRUE)
    BY <2>2, GoToKeeps DEF RejectTool
  <2>3. ASSUME NEW t \in Tools, NEW records \in BOOLEAN, CallToolV2(t, records)
        PROVE  LoopInv'
    BY <2>3, InvokeKeeps, GoToKeeps DEF CallToolV2
  <2>4. ASSUME NEW known \in BOOLEAN, NEW c \in Conclusion,
               Propose(known, dispositionOf(c))
        PROVE  LoopInv'
    <3>1. dispositionOf(c) \in Disposition
      BY DEF dispositionOf, Disposition
    <3> QED
      BY <2>4, <3>1, ProposeKeeps
  <2> QED
    BY <1>3, <2>1, <2>2, <2>3, <2>4 DEF StepV2
<1> QED
  BY <1>1, <1>2, <1>3, RunLateKeeps, StutterKeeps DEF Next, Advance

----------------------------------------------------------------------------
(* LoopInv holds of every state of every instance.                         *)
THEOREM Invariance == Spec => []LoopInv
<1> QED
  BY InitHolds, NextKeeps, PTL DEF Spec

(* Type correctness.                                                       *)
THEOREM TypeCorrect == Spec => []TypeOK
<1>1. LoopInv => TypeOK
  BY DEF LoopInv
<1> QED
  BY <1>1, Invariance, PTL

(* Where either variant stands, seen from outside, at a step that comes to *)
(* no outcome, and at one that does.                                       *)
LEMMA OutcomeStays ==
  ASSUME UNCHANGED result
  PROVE  UNCHANGED Outcome
  BY DEF Outcome

LEMMA IsOpen ==
  ASSUME LoopInv, pc # "done"
  PROVE  Outcome = "open"
  BY DEF LoopInv, TypeOK, Outcome

LEMMA Escalated ==
  ASSUME NEW reason \in StopReason, reason # "PROPOSAL_MADE", escalate(reason)
  PROVE  Outcome' = "escalated"
  BY DEF escalate, Outcome, Undecided, StopReason, ModelFailure

LEMMA Proposed ==
  ASSUME NEW disposition, propose(disposition)
  PROVE  Outcome' = "proposed"
  BY DEF propose, Outcome, Undecided

(* An investigation is bounded: whatever the model answers, it uses no     *)
(* tool more often than its variant allows, nor more tools than its budget *)
(* (or the two openers), proposes nothing before both openers have run,    *)
(* and comes to one outcome (runInvestigation, runInvestigationV2).        *)
THEOREM Boundedness == Spec => IsBounded
<1> USE LoopAssumption
<1>1. Init => Bounded!Init
  BY DEF Init, Bounded!Init, Outcome, PerTool
<1>2. ASSUME LoopInv, Next  PROVE [Bounded!Next]_Bounded!vars
  <2> USE <1>2
  <2>1. ASSUME NEW reason \in StopReason, reason # "PROPOSAL_MADE", escalate(reason),
               pc # "done"
        PROVE  Bounded!Next
    BY <2>1, IsOpen, Escalated DEF escalate, PerTool, Bounded!Next, Bounded!Escalate
  <2>2. ASSUME UNCHANGED <<variant, calls, toolCalls, result>>
        PROVE  UNCHANGED Bounded!vars
    BY <2>2, OutcomeStays DEF Bounded!vars, PerTool
  <2>3. ASSUME NEW t \in Tools, NEW records \in BOOLEAN, invoke(t, records), pc # "done",
               calls[t] < PerTool, toolCalls < Most(maxToolCalls, 2)
        PROVE  Bounded!Next
    <3>1. Bounded!Use(t)
      BY <2>3, IsOpen, OutcomeStays DEF invoke, PerTool, Bounded!Use
    <3> QED
      BY <3>1 DEF Bounded!Next
  <2>4. ASSUME NEW known \in BOOLEAN, NEW d, Propose(known, d)  PROVE Bounded!Next
    <3>1. CASE propose(d)
      BY <2>4, <3>1, IsOpen, Proposed
      DEF Propose, propose, PerTool, Bounded!Next, Bounded!Propose, LoopInv
    <3>2. CASE escalate("NO_PROGRESS") \/ escalate("MODEL_SCHEMA_VIOLATION")
      BY <2>1, <2>4, <3>2 DEF Propose, StopReason, ModelFailure
    <3> QED
      BY <2>4, <3>1, <3>2 DEF Propose
  <2>5. ASSUME NEW exhausted \in BOOLEAN, Loop(exhausted)
        PROVE  [Bounded!Next]_Bounded!vars
    BY <2>1, <2>2, <2>5 DEF Loop, GoTo, Iterate, StopReason
  <2>6. CASE Step
    <3>1. ASSUME NEW records \in BOOLEAN, Open(records)  PROVE Bounded!Next
      <4>1. NextOpener \in Tools /\ calls[NextOpener] = 0 /\ toolCalls \in {0, 1}
        BY <3>1 DEF Open, LoopInv, TypeOK, NextOpener
      <4>2. calls[NextOpener] < PerTool /\ toolCalls < Most(maxToolCalls, 2)
        BY <4>1 DEF PerTool, Most
      <4> QED
        BY <2>3, <3>1, <4>1, <4>2 DEF Open
    <3>2. ASSUME NEW failure \in ModelFailure, ModelFails(failure)  PROVE Bounded!Next
      BY <2>1, <3>2 DEF ModelFails, StopReason, ModelFailure
    <3>3. CASE Conclude
      BY <2>2, <3>3 DEF Conclude, GoTo
    <3> QED
      BY <2>6, <3>1, <3>2, <3>3 DEF Step
  <2>7. CASE StepV1
    <3>1. CASE Loop(OutOfSteps)
      <4>1. OutOfSteps \in BOOLEAN
        BY DEF OutOfSteps
      <4> QED
        BY <2>5, <3>1, <4>1
    <3>2. CASE StopAsking \/ RejectTool(~OverBudget)
      BY <2>2, <3>2 DEF StopAsking, RejectTool, GoTo
    <3>3. ASSUME NEW t \in Tools, NEW records \in BOOLEAN, CallTool(t, records)
          PROVE  Bounded!Next
      <4>1. CASE Repeated(t)
        BY <2>1, <3>3, <4>1 DEF CallTool, StopReason
      <4>2. CASE ~Repeated(t)
        <5>1. calls[t] < PerTool /\ toolCalls < Most(maxToolCalls, 2)
          BY <2>7, <3>3, <4>2
          DEF StepV1, CallTool, Repeated, OverBudget, Most, PerTool, LoopInv, TypeOK
        <5> QED
          BY <2>3, <3>3, <4>2, <5>1 DEF CallTool
      <4> QED
        BY <4>1, <4>2
    <3> QED
      BY <2>4, <2>7, <3>1, <3>2, <3>3 DEF StepV1
  <2>8. CASE StepV2
    <3>1. CASE Loop(OutOfSteps \/ OverBudget)
      BY <2>5, <3>1
    <3>2. CASE RejectTool(TRUE)
      BY <2>2, <3>2 DEF RejectTool, GoTo
    <3>3. ASSUME NEW t \in Tools, NEW records \in BOOLEAN, CallToolV2(t, records)
          PROVE  [Bounded!Next]_Bounded!vars
      <4>1. CASE Observed(t)
        BY <2>2, <3>3, <4>1 DEF CallToolV2, GoTo
      <4>2. CASE ~Observed(t)
        <5>1. calls[t] < PerTool /\ toolCalls < Most(maxToolCalls, 2)
          BY <2>8, <3>3, <4>2 DEF StepV2, CallToolV2, Observed, Most, PerTool, LoopInv, TypeOK
        <5> QED
          BY <2>3, <3>3, <4>2, <5>1 DEF CallToolV2
      <4> QED
        BY <4>1, <4>2
    <3> QED
      BY <2>4, <2>8, <3>1, <3>2, <3>3 DEF StepV2
  <2>9. CASE RunLate
    BY <2>2, <2>9 DEF RunLate
  <2> QED
    BY <2>6, <2>7, <2>8, <2>9 DEF Next, Advance
<1>3. ASSUME UNCHANGED vars  PROVE UNCHANGED Bounded!vars
  BY <1>3, OutcomeStays DEF vars, Bounded!vars, PerTool
<1> QED
  BY <1>1, <1>2, <1>3, Invariance, PTL DEF Spec, IsBounded, Bounded!Spec

----------------------------------------------------------------------------
(* The clock.  What the loop knows once it has run out: where it stands,   *)
(* seen from where it stood then.                                          *)
LateInv ==
  late # InTime =>
    /\ steps = late.steps
    /\ toolCalls <= CallsOnceLate
    /\ pc = "open" => late.pc = "open"
    /\ pc = "decide" => late.pc = "decide" /\ toolCalls = late.toolCalls
    /\ pc = "propose" \/ Outcome = "proposed" => ConcludesOnceLate

(* A step that leaves the counters alone and the clock as it was.          *)
LEMMA LateMoves ==
  ASSUME UNCHANGED <<variant, toolCalls, steps, late>>
  PROVE  UNCHANGED <<CallsOnceLate, ConcludesOnceLate>>
  BY DEF CallsOnceLate, ConcludesOnceLate, OutOfSteps, OverBudget

LEMMA GoToIsLate ==
  ASSUME LateInv, LoopInv, NEW next \in {"top", "propose"}, GoTo(next), pc # "done",
         late # InTime /\ next = "propose" => ConcludesOnceLate
  PROVE  LateInv'
<1>1. Outcome' = "open"
  BY IsOpen, OutcomeStays DEF GoTo
<1> QED
  BY <1>1, LateMoves DEF GoTo, LateInv

LEMMA EscalateIsLate ==
  ASSUME LateInv, NEW reason \in StopReason, reason # "PROPOSAL_MADE", escalate(reason)
  PROVE  LateInv'
  BY Escalated, LateMoves DEF escalate, LateInv

LEMMA ProposeIsLate ==
  ASSUME LateInv, NEW known \in BOOLEAN, NEW disposition, Propose(known, disposition)
  PROVE  LateInv'
<1>1. CASE propose(disposition)
  BY <1>1, LateMoves DEF Propose, propose, LateInv
<1>2. CASE escalate("NO_PROGRESS") \/ escalate("MODEL_SCHEMA_VIOLATION")
  BY <1>2, EscalateIsLate DEF StopReason, ModelFailure
<1> QED
  BY <1>1, <1>2 DEF Propose

(* A tool call: an opener, or what an outstanding question asked for.      *)
LEMMA OpenIsLate ==
  ASSUME LateInv, LoopInv, NEW records \in BOOLEAN, Open(records)
  PROVE  LateInv'
<1>1. Outcome' = "open"
  BY IsOpen, OutcomeStays DEF Open, invoke
<1>2. toolCalls' <= 2
  BY DEF Open, invoke, LoopInv, TypeOK
<1> QED
  BY <1>1, <1>2 DEF Open, invoke, LateInv, CallsOnceLate

LEMMA InvokeIsLate ==
  ASSUME LateInv, LoopInv, pc = "decide", pc' = "top", NEW t \in Tools,
         NEW records \in BOOLEAN, invoke(t, records)
  PROVE  LateInv'
<1>1. Outcome' = "open"
  BY IsOpen, OutcomeStays DEF invoke
<1> QED
  BY <1>1 DEF invoke, LateInv, CallsOnceLate, LoopInv, TypeOK

(* The top of the loop, the one place that takes a step, looks at the      *)
(* clock unless a limit was reached.                                       *)
LEMMA LoopIsLate ==
  ASSUME LateInv, LoopInv, NEW exhausted \in BOOLEAN, Loop(exhausted),
         exhausted => OutOfSteps \/ (variant = "v2" /\ OverBudget)
  PROVE  LateInv'
<1>1. CASE exhausted /\ GoTo("propose")
  BY <1>1, GoToIsLate DEF Loop, ConcludesOnceLate
<1>2. CASE escalate("WALLCLOCK_EXCEEDED")
  BY <1>2, EscalateIsLate DEF StopReason
<1>3. CASE ~OutOfTime /\ Iterate
  BY <1>3 DEF OutOfTime, Iterate, LateInv
<1> QED
  BY <1>1, <1>2, <1>3 DEF Loop

LEMMA RunsLate ==
  ASSUME LateInv, LoopInv, RunLate
  PROVE  LateInv'
<1>1. Outcome' = "open"
  BY IsOpen, OutcomeStays DEF RunLate
<1>2. toolCalls' <= CallsOnceLate'
  BY DEF RunLate, CallsOnceLate, LoopInv, TypeOK
<1>3. pc' = "propose" => ConcludesOnceLate'
  BY DEF RunLate, ConcludesOnceLate
<1> QED
  BY <1>1, <1>2, <1>3 DEF RunLate, LateInv

LEMMA LateStutter ==
  ASSUME LateInv, UNCHANGED vars
  PROVE  LateInv'
  BY OutcomeStays, LateMoves DEF vars, LateInv

LEMMA NextIsLate ==
  ASSUME LateInv, LoopInv, [Next]_vars
  PROVE  LateInv'
<1>1. CASE Step
  <2>1. ASSUME NEW records \in BOOLEAN, Open(records)  PROVE LateInv'
    BY <2>1, OpenIsLate
  <2>2. ASSUME NEW failure \in ModelFailure, ModelFails(failure)  PROVE LateInv'
    BY <2>2, EscalateIsLate DEF ModelFails, StopReason, ModelFailure
  <2>3. CASE Conclude
    BY <2>3, GoToIsLate DEF Conclude, LateInv, ConcludesOnceLate
  <2> QED
    BY <1>1, <2>1, <2>2, <2>3 DEF Step
<1>2. CASE StepV1
  <2>1. CASE Loop(OutOfSteps)
    <3>1. OutOfSteps \in BOOLEAN
      BY LoopAssumption DEF OutOfSteps
    <3> QED
      BY <2>1, <3>1, LoopIsLate
  <2>2. CASE StopAsking
    BY <2>2, GoToIsLate DEF StopAsking, LateInv, ConcludesOnceLate
  <2>3. CASE RejectTool(~OverBudget)
    BY <2>3, GoToIsLate DEF RejectTool
  <2>4. ASSUME NEW t \in Tools, NEW records \in BOOLEAN, CallTool(t, records)
        PROVE  LateInv'
    BY <2>4, InvokeIsLate, EscalateIsLate DEF CallTool, StopReason
  <2>5. ASSUME NEW known \in BOOLEAN, NEW d \in Disposition, Propose(known, d)
        PROVE  LateInv'
    BY <2>5, ProposeIsLate
  <2> QED
    BY <1>2, <2>1, <2>2, <2>3, <2>4, <2>5 DEF StepV1
<1>3. CASE StepV2
  <2>1. CASE Loop(OutOfSteps \/ OverBudget)
    BY <1>3, <2>1, LoopIsLate DEF StepV2
  <2>2. CASE RejectTool(TRUE)
    BY <2>2, GoToIsLate DEF RejectTool
  <2>3. ASSUME NEW t \in Tools, NEW records \in BOOLEAN, CallToolV2(t, records)
        PROVE  LateInv'
    BY <2>3, InvokeIsLate, GoToIsLate DEF CallToolV2
  <2>4. ASSUME NEW known \in BOOLEAN, NEW c \in Conclusion,
               Propose(known, dispositionOf(c))
        PROVE  LateInv'
    BY <2>4, ProposeIsLate
  <2> QED
    BY <1>3, <2>1, <2>2, <2>3, <2>4 DEF StepV2
<1> QED
  BY <1>1, <1>2, <1>3, RunsLate, LateStutter DEF Next, Advance

(* Once the wall clock has run out, wherever it overtakes the loop, either *)
(* variant takes no further step, calls no more than the openers and what  *)
(* an outstanding question asks for, and escalates unless a conclusion was *)
(* under way or a limit was reached first (the checks at the top of the    *)
(* two loops, and what comes before and after them unchecked).             *)
THEOREM LateStops == Spec => []LateEndsSoon
<1>1. Init => LateInv
  BY DEF Init, LateInv
<1>2. LateInv => LateEndsSoon
  BY DEF LateInv, LateEndsSoon
<1> QED
  BY <1>1, <1>2, NextIsLate, Invariance, PTL DEF Spec
=============================================================================
