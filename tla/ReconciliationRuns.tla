-------------------------- MODULE ReconciliationRuns --------------------------
(***************************************************************************)
(* Reconciliation runs (runReconciliation) over a store that imports write *)
(* to, and the scenarios (instantiateScenario) that import a batch and run *)
(* a reconciliation over it.  A run lists its payments, loads the unit of  *)
(* one after the other by concurrent queries outside any transaction, and  *)
(* makes a case of every unit that does not reconcile.                     *)
(***************************************************************************)
EXTENDS UnitMatcher

CONSTANTS
  Requests,     \* requests that start a run or a scenario
  Imports,      \* imports, each of one batch
  Scenarios,    \* the imports that only scenarios make
  Batch,        \* [Imports -> set of rows]; a PAYMENT row names its import
  MaxPayments,  \* the bound on the payments of a run
  MayFail       \* whether a statement may throw, or a process die

AllImports == "all"  \* the import id is null

ASSUME RunsAssumption ==
  /\ Scenarios \subseteq Imports
  /\ AllImports \notin Imports
  /\ MaxPayments \in Nat
  /\ MayFail \in BOOLEAN
  /\ "none" \notin Requests

(* The foreign keys that an import may leave NULL.                         *)
ForeignKeys(kind) ==
  CASE kind = "FEE_LINE"        -> {"payment"}
    [] kind = "TAX_LINE"        -> {"fee"}
    [] kind = "ADJUSTMENT"      -> {"settlement"}
    [] kind = "SETTLEMENT_LINE" -> {"payment"}
    [] OTHER                    -> {}

(* Of the rows of a batch that share a kind and an id, the INSERTs keep    *)
(* the first: a batch lists the rows that are left.                        *)
ASSUME BatchAssumption ==
  \A i \in Imports :
    /\ IsFiniteSet(Batch[i])
    /\ \A x \in Batch[i] :
         {"kind", "id"} \cup ForeignKeys(x.kind) \subseteq DOMAIN x /\ x.id # NoRow
    /\ \A x \in OfKind(Batch[i], "PAYMENT") : x.import = i
    /\ \A x, y \in OfKind(Batch[i], "PAYMENT") : x.id = y.id => x = y

VARIABLES
  store,      \* the committed rows
  runs,       \* [Requests -> the run it created]
  cases,      \* the residual cases
  audited,    \* the cases with an audit event of their creation
  scenarios,  \* [Scenarios -> the row of the instance]
  req,        \* where each request is, and its locals
  seen        \* [Requests -> the stores since its unit began to load]; history

vars == <<store, runs, cases, audited, scenarios, req, seen>>

NoCounts == [evaluated |-> 0, reconciled |-> 0, residual |-> 0]

NoRun == [status |-> "ABSENT", counts |-> NoCounts]

NoInstance == [status |-> "ABSENT", run |-> "none", cases |-> 0, audited |-> FALSE]

Idle == [pc |-> "idle"]

Done == [pc |-> "done"]

At(r, pc) == req[r].pc = pc

Goto(r, pc) == req' = [req EXCEPT ![r].pc = pc]

Init ==
  /\ store = {}
  /\ runs = [r \in Requests |-> NoRun]
  /\ cases = {}
  /\ audited = {}
  /\ scenarios = [i \in Scenarios |-> NoInstance]
  /\ req = [r \in Requests |-> Idle]
  /\ seen = [r \in Requests |-> {}]

(* A commit is seen by the queries that are answered from then on.         *)
Commit(i) ==
  /\ store' = AfterImport(store, Batch[i])
  /\ seen' = [r \in Requests |->
       IF At(r, "query") THEN seen[r] \cup {store'} ELSE seen[r]]

Import(i) ==
  /\ i \notin Scenarios
  /\ Commit(i)
  /\ store' # store
  /\ UNCHANGED <<runs, cases, audited, scenarios, req>>

----------------------------------------------------------------------------
(* The locals of a run: what it is over, the payments still to do (while   *)
(* one is under way, it is unit's), the queries under way, and its counts. *)
Locals(pc, i, scenario) ==
  [ pc |-> pc, import |-> i, scenario |-> scenario, todo |-> {}, left |-> {},
    unit |-> {}, counts |-> NoCounts, linked |-> 0 ]

(* The route, for one import or for all of them.                           *)
StartRun(r, i) ==
  /\ At(r, "idle")
  /\ runs' = [runs EXCEPT ![r].status = "RUNNING"]
  /\ req' = [req EXCEPT ![r] = Locals("list", i, FALSE)]
  /\ UNCHANGED <<store, cases, audited, scenarios, seen>>

(* A bug: the run does not wait for the import.                            *)
Instantiate_AtOnce(r, i) ==
  /\ At(r, "idle")
  /\ scenarios[i] = NoInstance
  /\ scenarios' = [scenarios EXCEPT ![i] = [@ EXCEPT !.status = "RUNNING", !.run = r]]
  /\ req' = [req EXCEPT ![r] = Locals("start", i, TRUE)]
  /\ UNCHANGED <<store, runs, cases, audited, seen>>

(* createOrGet: any later request with the key is answered with the        *)
(* instance as it stands and does nothing (a step that changes nothing).   *)
Instantiate(r, i) ==
  /\ At(r, "idle")
  /\ scenarios[i] = NoInstance
  /\ scenarios' = [scenarios EXCEPT ![i] = [@ EXCEPT !.status = "RUNNING", !.run = r]]
  /\ req' = [req EXCEPT ![r] = Locals("import", i, TRUE)]
  /\ UNCHANGED <<store, runs, cases, audited, seen>>

ImportOwn(r) ==
  /\ At(r, "import")
  /\ Commit(req[r].import)
  /\ Goto(r, "start")
  /\ UNCHANGED <<runs, cases, audited, scenarios>>

StartOwn(r) ==
  /\ At(r, "start")
  /\ runs' = [runs EXCEPT ![r].status = "RUNNING"]
  /\ Goto(r, "list")
  /\ UNCHANGED <<store, cases, audited, scenarios, seen>>

----------------------------------------------------------------------------
(* The captured payments of an import, or of all.                          *)
Captured(i) ==
  {x \in OfKind(store, "PAYMENT") : x.status = "CAPTURED" /\ i \in {AllImports, x.import}}

(* One import is taken from its earliest capture on, all from the latest;  *)
(* a payment without a time comes last.                                    *)
Precedes(i, x, y) ==
  \/ x.capturedAt # Never /\ y.capturedAt = Never
  \/ /\ x.capturedAt # Never
     /\ IF i = AllImports THEN x.capturedAt > y.capturedAt ELSE x.capturedAt < y.capturedAt

(* The first MaxPayments of them.                                          *)
Selected(i) ==
  {s \in SUBSET Captured(i) :
     /\ Cardinality(s) = Smaller(MaxPayments, Cardinality(Captured(i)))
     /\ \A x \in s, y \in Captured(i) \ s : ~Precedes(i, y, x)}

List(r) ==
  /\ At(r, "list")
  /\ \E s \in Selected(req[r].import) : req' = [req EXCEPT ![r].todo = s, ![r].pc = "next"]
  /\ UNCHANGED <<store, runs, cases, audited, scenarios, seen>>

(* The unit of the next payment is loaded: its own row, then the rest.     *)
LoadUnit(r, p) ==
  /\ At(r, "next")
  /\ p \in req[r].todo
  /\ \A o \in req[r].todo : ~Precedes(req[r].import, o, p)
  /\ req' = [req EXCEPT ![r].pc = "query", ![r].todo = @ \ {p}, ![r].left = Queries,
               ![r].unit = [payment |-> p, rows |-> [q \in Queries |-> {}]]]
  /\ seen' = [seen EXCEPT ![r] = {store}]
  /\ UNCHANGED <<store, runs, cases, audited, scenarios>>

Query(r, q) ==
  /\ At(r, "query")
  /\ q \in req[r].left
  /\ req' = [req EXCEPT ![r].left = @ \ {q},
               ![r].unit.rows[q] = Select(q, store, req[r].unit.payment.id)]
  /\ UNCHANGED <<store, runs, cases, audited, scenarios, seen>>

(* A bug: the adjustments are not awaited.                                 *)
Loaded_NotAll(r) == At(r, "query") /\ req[r].left \subseteq {"adjustments"}

Loaded(r) == At(r, "query") /\ req[r].left = {}

Reconciled(r) == \E find \in Finds(req[r].unit) : Reconciles(req[r].unit, find)

Residual(r) == \E find \in Finds(req[r].unit) : ~Reconciles(req[r].unit, find)

(* One more payment was evaluated, and found to be the one or the other.   *)
Evaluated(counts, found) == [counts EXCEPT !.evaluated = @ + 1, ![found] = @ + 1]

(* A clean payment is counted.                                             *)
Clean(r) ==
  /\ Loaded(r) /\ Reconciled(r)
  /\ req' = [req EXCEPT ![r].pc = "next", ![r].counts = Evaluated(@, "reconciled")]
  /\ UNCHANGED <<store, runs, cases, audited, scenarios, seen>>

(* Any other is counted and becomes a case, which the index on its run and *)
(* payment keeps single.                                                   *)
CaseOf(r) == [run |-> r, payment |-> req[r].unit.payment.id, scenario |-> FALSE]

CreateCase(r) ==
  /\ Loaded(r) /\ Residual(r)
  /\ req' = [req EXCEPT ![r].pc = "audit", ![r].counts = Evaluated(@, "residual")]
  /\ cases' = cases \cup {CaseOf(r)}
  /\ UNCHANGED <<store, runs, audited, scenarios, seen>>

(* A bug: the event is not written.                                        *)
AuditCase_None(r) ==
  /\ At(r, "audit")
  /\ Goto(r, "next")
  /\ UNCHANGED <<store, runs, cases, audited, scenarios, seen>>

AuditCase(r) ==
  /\ At(r, "audit")
  /\ audited' = audited \cup {<<r, req[r].unit.payment.id>>}
  /\ Goto(r, "next")
  /\ UNCHANGED <<store, runs, cases, scenarios, seen>>

CompleteRun(r) ==
  /\ At(r, "next")
  /\ req[r].todo = {}
  /\ runs' = [runs EXCEPT ![r] = [status |-> "SUCCEEDED", counts |-> req[r].counts]]
  /\ IF req[r].scenario THEN Goto(r, "link") ELSE req' = [req EXCEPT ![r] = Done]
  /\ UNCHANGED <<store, cases, audited, scenarios, seen>>

----------------------------------------------------------------------------
CasesOf(r) == {c \in cases : c.run = r}

LinkCases(r) ==
  /\ At(r, "link")
  /\ cases' = (cases \ CasesOf(r)) \cup {[c EXCEPT !.scenario = TRUE] : c \in CasesOf(r)}
  /\ req' = [req EXCEPT ![r].linked = Cardinality(CasesOf(r)), ![r].pc = "finish"]
  /\ UNCHANGED <<store, runs, audited, scenarios, seen>>

CompleteScenario(r) ==
  /\ At(r, "finish")
  /\ scenarios' = [scenarios EXCEPT ![req[r].import] =
       [@ EXCEPT !.status = "SUCCEEDED", !.cases = req[r].linked]]
  /\ Goto(r, "event")
  /\ UNCHANGED <<store, runs, cases, audited, seen>>

AuditScenario(r) ==
  /\ At(r, "event")
  /\ scenarios' = [scenarios EXCEPT ![req[r].import].audited = TRUE]
  /\ Goto(r, "answer")
  /\ UNCHANGED <<store, runs, cases, audited, seen>>

(* The instance is read once more for the answer.                          *)
AnswerScenario(r) ==
  /\ At(r, "answer")
  /\ req' = [req EXCEPT ![r] = Done]
  /\ UNCHANGED <<store, runs, cases, audited, scenarios, seen>>

(* A statement throws.  The route answers with an error and leaves what it *)
(* wrote; a scenario marks its instance FAILED, whatever it was by then.   *)
Throw(r) ==
  /\ MayFail
  /\ req[r].pc \notin {"idle", "done"}
  /\ IF req[r].scenario
     THEN scenarios' = [scenarios EXCEPT ![req[r].import].status = "FAILED"]
     ELSE UNCHANGED scenarios
  /\ req' = [req EXCEPT ![r] = Done]
  /\ UNCHANGED <<store, runs, cases, audited, seen>>

(* The process dies, or markFailed throws as well.                         *)
Crash(r) ==
  /\ MayFail
  /\ req[r].pc \notin {"idle", "done"}
  /\ req' = [req EXCEPT ![r] = Done]
  /\ UNCHANGED <<store, runs, cases, audited, scenarios, seen>>

Continue(r) ==
  \/ ImportOwn(r) \/ StartOwn(r) \/ List(r)
  \/ \E p \in OfKind(store, "PAYMENT") : LoadUnit(r, p)
  \/ \E q \in Queries : Query(r, q)
  \/ Clean(r) \/ CreateCase(r) \/ AuditCase(r) \/ CompleteRun(r)
  \/ LinkCases(r) \/ CompleteScenario(r) \/ AuditScenario(r) \/ AnswerScenario(r)

Next ==
  \/ \E i \in Imports : Import(i)
  \/ \E r \in Requests :
       \/ \E i \in Imports \cup {AllImports} : StartRun(r, i)
       \/ \E i \in Scenarios : Instantiate(r, i)
       \/ Continue(r) \/ Throw(r) \/ Crash(r)

Spec == Init /\ [][Next]_vars

----------------------------------------------------------------------------
Counts == [evaluated : Nat, reconciled : Nat, residual : Nat]

CaseRow == [run : Requests, payment : IdsIn(store, "PAYMENT"), scenario : BOOLEAN]

InstanceRow ==
  [ status : {"ABSENT", "RUNNING", "SUCCEEDED", "FAILED"},
    run : Requests \cup {"none"}, cases : Nat, audited : BOOLEAN ]

IsLocals(q) ==
  /\ DOMAIN q = {"pc", "import", "scenario", "todo", "left", "unit", "counts", "linked"}
  /\ q.pc \in {"import", "start", "list", "next", "query", "audit", "link",
               "finish", "event", "answer"}
  /\ q.import \in Imports \cup {AllImports}
  /\ q.scenario \in BOOLEAN
  /\ q.counts \in Counts
  /\ q.linked \in Nat

(* Every variable has its type.                                            *)
TypeOK ==
  /\ runs \in [Requests -> [status : {"ABSENT", "RUNNING", "SUCCEEDED"}, counts : Counts]]
  /\ cases \subseteq CaseRow
  /\ \A e \in audited : \E c \in cases : e = <<c.run, c.payment>>
  /\ scenarios \in [Scenarios -> InstanceRow]
  /\ DOMAIN req = Requests
  /\ \A r \in Requests : req[r] \in {Idle, Done} \/ IsLocals(req[r])
  /\ DOMAIN seen = Requests

(* The payments of the store come from batches, each once.                 *)
PaymentsAreOnce ==
  LET payments == OfKind(store, "PAYMENT") IN
  /\ IsFiniteSet(payments)
  /\ \A x \in payments : x.import \in Imports /\ x \in Batch[x.import]
  /\ \A x, y \in payments : x.id = y.id => x = y

(* A run has one case of a payment at most.                                *)
CasesAreOnce ==
  /\ IsFiniteSet(cases)
  /\ \A c, d \in cases : c.run = d.run /\ c.payment = d.payment => c = d

(* A run that succeeded is accounted for: it evaluated no more than its    *)
(* bound, every payment it evaluated was reconciled or is a case of it,    *)
(* and every one of these cases has its audit event.                       *)
IsAccounted(r) ==
  runs[r].status = "SUCCEEDED" =>
    LET counts == runs[r].counts IN
    /\ counts.evaluated <= MaxPayments
    /\ counts.evaluated = counts.reconciled + counts.residual
    /\ counts.residual = Cardinality(CasesOf(r))
    /\ \A c \in CasesOf(r) : <<r, c.payment>> \in audited

(* What a run is still to evaluate, and how many it will have.             *)
Pending(r) ==
  req[r].todo \cup (IF At(r, "query") THEN {req[r].unit.payment} ELSE {})

CasesAmong(r, payments) == \A c \in CasesOf(r) : \E x \in payments : x.id = c.payment

(* How many payments an import's run evaluates.                            *)
Quota(i) == Smaller(MaxPayments, Cardinality(Captured(i)))

(* Before a run has listed its payments it has no case.                    *)
HasNotBegun(r) ==
  /\ req[r].pc \in {"idle", "import", "start", "list"} => CasesOf(r) = {}
  /\ req[r].pc \in {"idle", "import", "start"} => runs[r] = NoRun
  /\ req[r].pc \in {"import", "start", "list"} => req[r].counts = NoCounts
  /\ At(r, "list") => runs[r].status = "RUNNING"

(* While it goes over them, its counts are of what it is done with, and    *)
(* its cases are audited but for the one it is about to.                   *)
IsUnderWay(r) ==
  req[r].pc \in {"next", "query", "audit"} =>
    LET counts   == req[r].counts
        captured == Captured(req[r].import)
        total    == counts.evaluated + Cardinality(Pending(r))
    IN
    /\ runs[r].status = "RUNNING"
    /\ counts.evaluated = counts.reconciled + counts.residual
    /\ counts.residual = Cardinality(CasesOf(r))
    /\ total <= MaxPayments
    /\ req[r].scenario => total = Quota(req[r].import)
    /\ IsFiniteSet(Pending(r)) /\ Pending(r) \subseteq captured
    /\ CasesAmong(r, captured)
    /\ \A c \in CasesOf(r) : \A x \in Pending(r) : c.payment # x.id
    /\ \A c \in CasesOf(r) :
         \/ <<r, c.payment>> \in audited
         \/ At(r, "audit") /\ c.payment = req[r].unit.payment.id
    /\ At(r, "query") =>
         DOMAIN req[r].unit = {"payment", "rows"} /\ req[r].unit.payment \notin req[r].todo
    /\ At(r, "audit") => \E c \in CasesOf(r) : c.payment = req[r].unit.payment.id

(* Once its run has succeeded, a scenario links the cases.                 *)
IsLinking(r) ==
  req[r].pc \in {"link", "finish", "event", "answer"} =>
    /\ req[r].scenario
    /\ runs[r].status = "SUCCEEDED"
    /\ runs[r].counts.evaluated = Quota(req[r].import)
    /\ CasesAmong(r, Captured(req[r].import))
    /\ ~At(r, "link") =>
         req[r].linked = Cardinality(CasesOf(r)) /\ \A c \in CasesOf(r) : c.scenario

(* A scenario under way has an instance of its own.                        *)
OwnsInstance(r) ==
  /\ req[r].pc \in {"import", "start"} => req[r].scenario
  /\ req[r].pc \notin {"idle", "done"} /\ req[r].scenario =>
       LET i == req[r].import IN
       /\ i \in Scenarios
       /\ scenarios[i].run = r
       /\ scenarios[i].status = IF req[r].pc \in {"event", "answer"} THEN "SUCCEEDED"
                                ELSE "RUNNING"

(* A scenario that succeeded has evaluated the payments that its import    *)
(* stored, and its cases are those of its run, all linked to it.           *)
IsCounted(i) ==
  scenarios[i].status = "SUCCEEDED" =>
    LET r == scenarios[i].run IN
    /\ r \in Requests /\ req[r].pc \in {"event", "answer", "done"}
    /\ runs[r].status = "SUCCEEDED"
    /\ runs[r].counts.evaluated = Quota(i)
    /\ scenarios[i].cases = Cardinality(CasesOf(r))
    /\ CasesAmong(r, Captured(i)) /\ \A c \in CasesOf(r) : c.scenario

(* Rows of their types, runs that are accounted for, and what the requests *)
(* under way rely on.                                                      *)
RunsInv ==
  /\ TypeOK /\ PaymentsAreOnce /\ CasesAreOnce
  /\ \A i \in Scenarios : IsCounted(i)
  /\ \A r \in Requests :
       IsAccounted(r) /\ HasNotBegun(r) /\ IsUnderWay(r) /\ IsLinking(r) /\ OwnsInstance(r)

(* No other import has the payments of a scenario: two scenarios generated *)
(* from one seed do have the same.                                         *)
ScenariosAreApart ==
  \A i \in Scenarios : \A j \in Imports \ {i} :
    IdsIn(Batch[i], "PAYMENT") \cap IdsIn(Batch[j], "PAYMENT") = {}

(* A scenario that succeeded has evaluated the captured payments of its    *)
(* own batch and no other, and its cases are those of its run, all linked  *)
(* to it.                                                                  *)
ScenarioIsComplete ==
  \A i \in Scenarios : scenarios[i].status = "SUCCEEDED" =>
    LET r   == scenarios[i].run
        own == {x \in OfKind(Batch[i], "PAYMENT") : x.status = "CAPTURED"}
    IN  /\ runs[r].status = "SUCCEEDED"
        /\ runs[r].counts.evaluated = Smaller(MaxPayments, Cardinality(own))
        /\ scenarios[i].cases = Cardinality(CasesOf(r))
        /\ \A c \in CasesOf(r) : c.scenario /\ \E x \in own : x.id = c.payment

(* Row y is selected into a unit because row x is in it.                   *)
BearsOn(y, x) ==
  \/ /\ x.kind = "PAYMENT"
     /\ y.kind \in {"FEE_LINE", "REFUND", "SETTLEMENT_LINE"} /\ y.payment = x.id
  \/ x.kind = "FEE_LINE" /\ y.kind = "TAX_LINE" /\ y.fee = x.id
  \/ x.kind = "SETTLEMENT_LINE" /\ y.kind = "SETTLEMENT" /\ y.id = x.settlement
  \/ x.kind = "SETTLEMENT_LINE" /\ y.kind = "ADJUSTMENT" /\ y.settlement = x.settlement
  \/ x.kind = "SETTLEMENT" /\ y.kind = "SETTLEMENT_LINE" /\ y.settlement = x.id
  \/ x.kind = "SETTLEMENT" /\ y.kind = "BANK_CREDIT" /\ y.utr = x.utr

(* No import adds to the units of another: what a payment is reconciled    *)
(* with comes in its own batch.                                            *)
BatchesAreApart ==
  \A i \in Imports : \A j \in Imports \ {i} :
    \A x \in Batch[i], y \in Batch[j] : ~BearsOn(y, x)

(* No import that commits while a unit is loaded changes what one of its   *)
(* queries selects.                                                        *)
UnitsAreWhole ==
  \A r \in Requests : At(r, "query") =>
    \A s, t \in seen[r], q \in Queries :
      Select(q, s, req[r].unit.payment.id) = Select(q, t, req[r].unit.payment.id)

(* A payment is closed as reconciled only if it did reconcile in the store *)
(* at some time while its unit was loaded.                                 *)
ClosedAsStored ==
  [][\A r \in Requests : At(r, "query") /\ req'[r].pc = "next" =>
       \E s \in seen[r] : LET unit == UnitOf(s, req[r].unit.payment.id) IN
         \E find \in Finds(unit) : Reconciles(unit, find)]_vars
=============================================================================
