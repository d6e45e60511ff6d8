--------------------------- MODULE CaseLifecycle ---------------------------
(***************************************************************************)
(* What the workflow promises of a case, whatever requests race over it:   *)
(* it is a state and a version, and it only ever moves by one legal        *)
(* transition of the table at a time, each of which adds one to the        *)
(* version.  There are no requests here, no reads that go stale and no     *)
(* half-done work; CaseWorkflow is shown to implement this.                *)
(***************************************************************************)
EXTENDS CaseTransitions

CONSTANT Cases  \* the residual cases, each created by a reconciliation run

VARIABLE cases  \* [Cases -> [state, version]]

Residual == [state |-> "EXCEPTION", version |-> 1]

Init == cases = [c \in Cases |-> Residual]

Move(c, to, actor) ==
  /\ cases' = [cases EXCEPT ![c] = [state |-> to, version |-> @.version + 1]]
  /\ Legal(cases[c].state, to, actor, FALSE)

Next == \E c \in Cases, to \in CaseState, actor \in TransitionActor :
          Move(c, to, actor)

Spec == Init /\ [][Next]_cases
=============================================================================
