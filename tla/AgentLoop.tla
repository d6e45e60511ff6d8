------------------------------ MODULE AgentLoop ------------------------------
(***************************************************************************)
(* The bounded investigation of packages/agent, in the two variants that   *)
(* AGENT_LOOP_VARIANT chooses between: two mandatory opening tool calls, a *)
(* loop in which the model picks the next tool or concludes, and one last  *)
(* question for the proposal.  The model may answer anything its schema    *)
(* allows, or fail; a tool may return records or none; the wall clock may  *)
(* run out at any moment, but the code looks at it only at the top of the  *)
(* loop.                                                                   *)
(***************************************************************************)
EXTENDS Naturals

CONSTANTS
  Tools,                   \* TOOL_NAMES, the allowlist
  FirstOpener,             \* get_settlement_breakup
  SecondOpener,            \* calculate_expected_net_amount
  maxToolCalls,            \* the budget: positive integers
  maxSteps,
  identicalToolCallLimit

ASSUME LoopAssumption ==
  /\ FirstOpener \in Tools
  /\ SecondOpener \in Tools
  /\ FirstOpener # SecondOpener
  /\ maxToolCalls \in Nat \ {0}
  /\ maxSteps \in Nat \ {0}
  /\ identicalToolCallLimit \in Nat \ {0}

VARIABLES
  variant,   \* the loop that AGENT_LOOP_VARIANT chose
  pc,        \* what the loop does next
  calls,     \* seenCalls (or observed): how often each tool was invoked
  toolCalls,
  steps,
  evidence,  \* the tools whose calls returned records
  late,      \* where the loop was when maxWallclockSeconds had passed
  result     \* the InvestigationResult

vars == <<variant, pc, calls, toolCalls, steps, evidence, late, result>>

Openers == {FirstOpener, SecondOpener}

Disposition == {"RESOLVE", "REQUEST_EVIDENCE", "ESCALATE"}

ModelFailure ==
  {"MODEL_UNAVAILABLE", "MODEL_TIMEOUT", "MODEL_ERROR", "MODEL_SCHEMA_VIOLATION"}

StopReason == ModelFailure \cup
  {"PROPOSAL_MADE", "NO_PROGRESS", "REPEATED_TOOL_CALL", "WALLCLOCK_EXCEEDED"}

Undecided == [stopReason |-> "none"]

Variant == {"v1", "v2"}

InTime == [pc |-> "in time"]

Place == {"open", "top", "decide", "propose", "done"}

TypeOK ==
  /\ variant \in Variant
  /\ pc \in Place
  /\ calls \in [Tools -> Nat]
  /\ toolCalls \in Nat
  /\ steps \in 0..maxSteps
  /\ evidence \subseteq Tools
  /\ late \in [pc : Place, steps : 0..maxSteps, toolCalls : Nat] \cup {InTime}
  /\ result \in [stopReason : StopReason, disposition : Disposition] \cup {Undecided}
  /\ pc = "done" <=> result # Undecided

Init ==
  /\ variant \in Variant
  /\ pc = "open"
  /\ calls = [t \in Tools |-> 0]
  /\ toolCalls = 0
  /\ steps = 0
  /\ evidence = {}
  /\ late = InTime
  /\ result = Undecided

----------------------------------------------------------------------------
escalate(stopReason) ==
  /\ pc' = "done"
  /\ result' = [stopReason |-> stopReason, disposition |-> "ESCALATE"]
  /\ UNCHANGED <<variant, calls, toolCalls, steps, evidence, late>>

propose(disposition) ==
  /\ pc' = "done"
  /\ result' = [stopReason |-> "PROPOSAL_MADE", disposition |-> disposition]
  /\ UNCHANGED <<variant, calls, toolCalls, steps, evidence, late>>

GoTo(next) ==
  /\ pc' = next
  /\ UNCHANGED <<variant, calls, toolCalls, steps, evidence, late, result>>

(* registry.invoke: a call counts whether or not the tool found anything,  *)
(* and a tool that throws returns an error without records.                *)
invoke(t, records) ==
  /\ toolCalls' = toolCalls + 1
  /\ calls' = [calls EXCEPT ![t] = @ + 1]
  /\ evidence' = IF records THEN evidence \cup {t} ELSE evidence
  /\ UNCHANGED <<variant, steps, late, result>>

(* The opening calls, which no model is asked about.                       *)
NextOpener == IF calls[FirstOpener] = 0 THEN FirstOpener ELSE SecondOpener

Open(records) ==
  /\ pc = "open"
  /\ invoke(NextOpener, records)
  /\ pc' = IF NextOpener = SecondOpener THEN "top" ELSE "open"

(* The top of the loop: out of steps (v2: or of tool calls), out of time,  *)
(* or one more question to the model.                                      *)
OutOfSteps == steps >= maxSteps

OverBudget == toolCalls >= maxToolCalls

(* A bug: the clock is not looked at.                                      *)
OutOfTime_Never == FALSE

OutOfTime == late # InTime

(* A bug: the step is not counted.                                         *)
Iterate_Uncounted == GoTo("decide")

Iterate ==
  /\ pc' = "decide"
  /\ steps' = steps + 1
  /\ UNCHANGED <<variant, calls, toolCalls, evidence, late, result>>

Loop(exhausted) ==
  /\ pc = "top"
  /\ \/ exhausted /\ GoTo("propose")
     \/ ~exhausted /\ OutOfTime /\ escalate("WALLCLOCK_EXCEEDED")
     \/ ~exhausted /\ ~OutOfTime /\ Iterate

(* gateway.chat fails, in the loop or at the end.                          *)
ModelFails(failure) ==
  /\ pc \in {"decide", "propose"}
  /\ escalate(failure)

Conclude ==
  /\ pc = "decide"
  /\ GoTo("propose")

(* v1: the tool budget is looked at once the model has answered.           *)
StopAsking ==
  /\ pc = "decide"
  /\ OverBudget
  /\ GoTo("propose")

(* A tool that is not on the allowlist costs a step and nothing else.      *)
RejectTool(withinBudget) ==
  /\ pc = "decide"
  /\ withinBudget
  /\ GoTo("top")

(* v1: a tool may be asked for again until it was seen more than the limit *)
(* allows; the model's persistence then ends the investigation.            *)
(* A bug: repeats are not looked for.                                      *)
Repeated_Never(t) == FALSE

Repeated(t) == calls[t] > identicalToolCallLimit

CallTool(t, records) ==
  /\ pc = "decide"
  /\ ~OverBudget
  /\ IF Repeated(t)
     THEN escalate("REPEATED_TOOL_CALL")
     ELSE invoke(t, records) /\ pc' = "top"

(* v2: what was asked for before is answered from what was observed.       *)
Observed(t) == calls[t] > 0

CallToolV2(t, records) ==
  /\ pc = "decide"
  /\ IF Observed(t)
     THEN GoTo("top")
     ELSE invoke(t, records) /\ pc' = "top"

(* The proposal.  A cause, or in v1 a disposition, outside the closed sets *)
(* is a schema violation; v2 reads its own three words, and any other as   *)
(* ESCALATE.                                                               *)
Propose(known, disposition) ==
  /\ pc = "propose"
  /\ IF toolCalls = 0 THEN escalate("NO_PROGRESS")
     ELSE IF known THEN propose(disposition)
     ELSE escalate("MODEL_SCHEMA_VIOLATION")

Conclusion == {"RESOLVE_SUPPORTED", "REQUEST_EVIDENCE", "ESCALATE", "other"}

dispositionOf(conclusion) ==
  CASE conclusion = "RESOLVE_SUPPORTED" -> "RESOLVE"
    [] conclusion = "REQUEST_EVIDENCE"  -> "REQUEST_EVIDENCE"
    [] OTHER                            -> "ESCALATE"

(* The clock, which overtakes the loop wherever it is.                     *)
RunLate ==
  /\ pc # "done"
  /\ late = InTime
  /\ late' = [pc |-> pc, steps |-> steps, toolCalls |-> toolCalls]
  /\ UNCHANGED <<variant, pc, calls, toolCalls, steps, evidence, result>>

----------------------------------------------------------------------------
(* What both variants do, and what they do each in their own way.          *)
Step ==
  \/ \E records \in BOOLEAN : Open(records)
  \/ \E failure \in ModelFailure : ModelFails(failure)
  \/ Conclude

StepV1 ==
  /\ variant = "v1"
  /\ \/ Loop(OutOfSteps)
     \/ StopAsking
     \/ RejectTool(~OverBudget)
     \/ \E t \in Tools, records \in BOOLEAN : CallTool(t, records)
     \/ \E known \in BOOLEAN, disposition \in Disposition : Propose(known, disposition)

StepV2 ==
  /\ variant = "v2"
  /\ \/ Loop(OutOfSteps \/ OverBudget)
     \/ RejectTool(TRUE)
     \/ \E t \in Tools, records \in BOOLEAN : CallToolV2(t, records)
     \/ \E known \in BOOLEAN, conclusion \in Conclusion :
          Propose(known, dispositionOf(conclusion))

Advance == Step \/ StepV1 \/ StepV2

Next == Advance \/ RunLate

Spec == Init /\ [][Next]_vars

(* gateway.chat gives up after its timeout and tools are local reads, so   *)
(* whatever the loop waits for comes.                                      *)
FairSpec == Spec /\ WF_vars(Advance)

----------------------------------------------------------------------------
(* What it promises.                                                       *)

(* The budget of tool calls, or the two opening calls where that is more.  *)
Most(m, n) == IF m >= n THEN m ELSE n

Outcome ==
  IF result = Undecided THEN "open"
  ELSE IF result.stopReason = "PROPOSAL_MADE" THEN "proposed" ELSE "escalated"

(* The investigation is a bounded one: v1 uses a tool at most once more    *)
(* than the limit says, v2 never twice; neither exceeds the tool budget,   *)
(* or proposes before both openers have run (runInvestigation and          *)
(* runInvestigationV2).                                                    *)
PerTool == IF variant = "v1" THEN identicalToolCallLimit + 1 ELSE 1

Bounded == INSTANCE BoundedInvestigation
  WITH perTool <- PerTool, used <- calls, total <- toolCalls, outcome <- Outcome,
       Mandatory <- Openers, InAll <- Most(maxToolCalls, 2)

IsBounded == Bounded!Spec

(* The tool calls that may have been made in the end, when the clock ran   *)
(* out: the openers do not look at it, an outstanding question may still   *)
(* be answered with a tool, and nothing else may.                          *)
CallsOnceLate ==
  CASE late.pc = "open"   -> 2
    [] late.pc = "decide" -> late.toolCalls + 1
    [] OTHER              -> late.toolCalls

(* What may still be proposed then: a conclusion under way or drawn at the *)
(* outstanding question, or what a loop out of steps (v2: or of tool calls)*)
(* is asked for, which finds that out before it looks at the clock.        *)
ConcludesOnceLate ==
  \/ late.pc = "propose"
  \/ late.pc = "decide" /\ toolCalls = late.toolCalls
  \/ OutOfSteps
  \/ variant = "v2" /\ OverBudget

(* Once the clock has run out, an investigation takes no further step,     *)
(* calls at most what was under way, and, unless a conclusion was under    *)
(* way or a limit was reached, escalates.                                  *)
LateEndsSoon ==
  late # InTime =>
    /\ steps = late.steps
    /\ toolCalls <= CallsOnceLate
    /\ Outcome = "proposed" => ConcludesOnceLate

(* Every investigation comes to a result, though the model may go on       *)
(* asking for tools that do not exist, or for the same one.                *)
LoopEnds == <>(pc = "done")
=============================================================================
