------------------------ MODULE BoundedInvestigation ------------------------
(***************************************************************************)
(* What an investigation promises, whatever the model answers and whatever *)
(* the clock does: it uses a tool a bounded number of times, tools in all  *)
(* a bounded number of times, it proposes nothing before it has looked at  *)
(* the case, and it comes to one outcome.                                  *)
(***************************************************************************)
EXTENDS Naturals

CONSTANTS Tools,     \* the tools on the allowlist
          Mandatory, \* those it must have used before it proposes
          InAll      \* how often it may use tools in all

VARIABLES perTool,   \* how often this one may use a tool, settled beforehand
          used,      \* [Tools -> how often the tool was used]
          total,     \* how often tools were used in all
          outcome    \* "open", "escalated" or "proposed"

vars == <<perTool, used, total, outcome>>

Init ==
  /\ perTool \in Nat
  /\ used = [t \in Tools |-> 0]
  /\ total = 0
  /\ outcome = "open"

Use(t) ==
  /\ outcome = "open"
  /\ used[t] < perTool
  /\ total < InAll
  /\ used' = [used EXCEPT ![t] = @ + 1]
  /\ total' = total + 1
  /\ UNCHANGED <<perTool, outcome>>

Escalate ==
  /\ outcome = "open"
  /\ outcome' = "escalated"
  /\ UNCHANGED <<perTool, used, total>>

Propose ==
  /\ outcome = "open"
  /\ \A t \in Mandatory : used[t] > 0
  /\ outcome' = "proposed"
  /\ UNCHANGED <<perTool, used, total>>

Next == (\E t \in Tools : Use(t)) \/ Escalate \/ Propose

Spec == Init /\ [][Next]_vars
=============================================================================
