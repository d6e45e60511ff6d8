# A formal model of settlement-ops

settlement-ops ingests the financial records of a merchant (orders, payments,
settlements, fees, bank credits, ...), reconciles every captured payment with a
deterministic matcher, opens a *case* for each payment that does not reconcile,
and takes the case through an investigation by a language model, a
deterministic verifier and the decisions of people.  It is a TypeScript API
over PostgreSQL with a worker beside it.

Two facts about the code shape every module here:

* **Nearly every SQL statement commits on its own.**  Only `insertMany`
  (a batch of records) and `createResidual` (a case and its lineage) open a
  transaction.  A use case is a sequence of statements, so requests interleave
  between any two of them, and a process that dies leaves what it has written.
* **What protects the data is in the statements themselves**: a guarded
  `UPDATE ... WHERE state = $ AND case_version = $`, unique indexes with
  `ON CONFLICT DO NOTHING`, `FOR UPDATE SKIP LOCKED`.  The models keep these
  statements one to one.

Paths below are relative to the repository (`src/` in the tables of
`PROJECT.json`).

## 1. The system

| component | state it keeps | operations | hard behaviour | what makes it correct |
|---|---|---|---|---|
| Transition table (`domain/src/case`) | none: a table of 34 rules | `canTransition`, `isActorPermitted`, `requiresOutcomeRecord` | role inheritance (SYSTEM inherits nothing) | every write to a case obeys it |
| Case workflow (`application/.../case-workflow.ts`, `workflow/src`, `workflow-repositories.ts`, API routes) | `reconciliation_cases`, `investigations`, `evidence_requests`, `audit_events` | escalate, request-evidence, reinvestigate, investigate, approve, reject, stage | concurrent requests, stale versions, an agent that runs for minutes, crashes between statements | legal moves one version at a time; a faithful audit trail; no proposal without a verified investigation; escalation is final |
| Agent loop (`agent/src`) | one investigation's counters | `runInvestigation`, `runInvestigationV2` | an untrusted model that may answer anything, budgets, clock | bounded, looks at the case before it proposes, ends |
| Verifier, tools (`verification`, `tools`) | none | `verify`, nine tool handlers | the unit is judged as read at dispatch, the tools read it again | what resolves agrees with the baseline and rests on the unit |
| Unit loading (`unit-loader.ts`) | none | `loadUnit`: a SELECT, then seven at once | imports commit between them | a unit is the store at some moment |
| Job queue (`apps/worker`) | `jobs` | enqueue, claim, heartbeat, complete, fail, sweep | workers that die, stall, and report after they were given up | every job settles, tries are bounded, live work is kept |
| Ingestion (`submit-import.ts`, `record-writer.ts`) | `imports`, the record tables | `submitImport` | idempotency keys, overlapping batches in open transactions, deadlocks, crashes | atomic imports, no double count, honest counts |
| Reconciliation runs (`run-reconciliation.ts`, `case-repository.ts`) | `reconciliation_runs`, cases | `runReconciliation` | crashes part-way, imports and other runs meanwhile, units torn by an import | counts that are its cases, each audited; nothing closed that did not reconcile |
| Matcher, policy, money (`domain/src`) | none: pure | `reconcileUnit`, checks, rounding, fee schedule | boundaries, signs, two implementations of one variance | the matcher and the verifier agree |
| Scenario engine (`packages/scenario`) | `scenario_instances` | `generateScenarioBatch`, `instantiateScenario` | composes an import and a run under one key, with one catch over all; ids that depend on the seed alone | a key is one lifecycle, a status that is true, a scenario that shows what it is for |
| Case page (`next-app`) | what each tab displays and waits for | render, click, revalidate, refresh, reload | separate reads of one case, a version taken from the audit trail, lost answers, other clients | offers that are honoured, approvals of what was shown, an escalation that gets through |
| Evaluation (`packages/evaluation`, `scripts/eval`) | `generator_runs`, `hidden_case_truth`, scores | generate, import, reconcile, record, run systems A, B and C, score | a generator that dies, cases that miss their stratum, noise near tolerances, traps that match exactly | whole scores, traps that hold, labels that mean what they say |
| Auth, audit writer, config, other scripts | - | - | - | see section 7 |

How they interact: an import stores records; a run loads the unit of each
captured payment, asks the matcher, and creates residual cases in state
`EXCEPTION`, version 1 (the initial states of the workflow module);
`POST /investigations` moves the case, inserts an investigation, and runs the
agent loop inside the request; the verifier turns its proposal into
`ACTION_PROPOSED` or `ESCALATED`; people approve, stage, escalate, ask for
evidence or send the case back, most of it from the case page of the console.
The evaluation drives the same import, run and verifier with generated cases
whose truth it keeps to itself.  The worker's queue stands beside this: no job
type is registered with it at this commit.

The hazards, one per line of code where it bites, with the properties that
would catch it, are listed in `PROJECT.json`.

## 2. The modules

| module | what it is | models |
|---|---|---|
| `CaseTransitions` | the transition table and its predicates, constants only | `case-state.ts`, `case-transitions.ts`, the role ranks |
| `CaseLifecycle` | **abstract**: cases that make one legal, versioned move at a time | what `transition` promises |
| `CaseOperations` | constants only: the operations of the API on a case, their roles and actors | the routes and use cases; shared by the next and the console |
| `CaseWorkflow` | **detailed**: API requests over cases, investigations, evidence and audit | the use cases and routes, statement by statement |
| `CaseWorkflowInvariant` | the inductive invariant | - |
| `CaseWorkflowProofs` | its theorems | - |
| `JobQueue` / `JobQueueProofs` | the queue, with late workers and a two-statement sweep | `job-runner.ts` |
| `BoundedInvestigation` | **abstract**: tools used a bounded number of times, one outcome | what an investigation promises |
| `AgentLoop` / `AgentLoopProofs` | **detailed**: both loop variants | `investigation-loop.ts`, `investigation-loop-v2.ts` |
| `AtomicImport` | **abstract**: records of an import appear at once, or not at all | what the import API promises |
| `Ingestion` / `IngestionProofs` | **detailed**: transactions, row waits, deadlocks, crashes | `submit-import.ts`, `import-repository.ts`, `record-writer.ts` |
| `SettlementPolicy` | constants only: rounding, tolerances, schedules, calendar | `domain/src/policy` |
| `PaymentUnit` | constants only: what an import does to a store of rows, the queries of a unit, its amounts | `unit-loader.ts`, `record-writer.ts`, `expected-net.ts`, `amount-breakdown.ts` |
| `UnitMatcher` | constants only: the checks of the baseline | `matcher.ts`, `checks.ts` |
| `CauseVerifier` | constants only: the rule of each cause and the verdict | `verifier.ts`, the cause and disposition policy |
| `VerifiedInvestigation` / `VerificationProofs` | an investigation's reads and its verdict, while imports commit | `agent-dispatch.ts`, `handlers.ts`, `ai-investigation.ts`, `verifier.ts` |
| `ReconciliationRuns` / `ReconciliationProofs` | runs and scenarios, while imports commit | `run-reconciliation.ts`, `instantiate.ts` and their repositories |
| `MCRecords` | records for the last two | - |
| `CaseConsole` / `CaseConsoleProofs` | the case page beside other clients of the API | `next-app`: `page.tsx`, `case-actions.tsx`, `actions.ts`, `api.ts`; the audit route |
| `ScenarioEngine` / `BenchmarkProofs` | the generator, and instances over one store | `definitions.ts`, `generator.ts`, `instantiate.ts` |
| `CaseBuilder` | constants only: the records of a benchmark case and its truth | `lifecycle.ts`, `defects.ts`, `noise.ts`, `render.ts`, `case-builder.ts`, `buckets.ts` |
| `ComparedSystems` | constants only: what each system makes of a case, and its score | `system-a.ts`, `system-b.ts`, `system-c.ts`, `outcome-classes.ts`, the reason codes of the matcher |
| `NoveltyRegistry` | constants only: strata and what development must contain | `registry.ts`, `generate.ts` |
| `Benchmark` / `BenchmarkProofs` | generator runs, their truths, the scoring of a completed one | `generate.ts`, `eval-store.ts`, `generate-dataset.ts`, `run-benchmark.ts` |
| `MC*` | instances for TLC: small sets and symmetry | - |

### CaseWorkflow

`cases`, `investigations`, `evidence` and `audit` are the four tables; rows of
`investigations` are a sequence, so a row's index is its id.  `req[r]` is an API
request: `pc` says which statement is next, the other fields are the locals the
handler carries from one `await` to the next.

| action | code |
|---|---|
| `Begin` | a route is called; the role check of the use case; the version is whatever the client last saw (`case_version ?? 1`) |
| `ReadCase` | first statement of `transition`: the SELECT and the three checks on what it returned |
| `WriteCase` | its second statement: the guarded UPDATE; no row means `VERSION_CONFLICT` |
| `AppendAudit` | `audit.append` for the move, then on to what the use case does next |
| `InsertInvestigation` | `investigations.start` with the unique index on RUNNING rows |
| `DisableAgent` / `NothingToLoad` / `RunAgent` | kill switch off / no payment unit / the agent loop and the verifier, as one choice of where the case should go |
| `FinishInvestigation` | `investigations.finish` by id; the request then transitions as SYSTEM against the version the investigation started from |
| `OpenEvidence` | `evidence.open`, absorbed by any OPEN request of the case |
| `Crash` | the process dies or a statement throws, between any two statements |

A validation error (a missing reason) and a role below the least one change
nothing and are no step.  `AiSettings` is the set of kill-switch settings among
the API processes; `Unloadable` the cases `dispatchAgent` finds no unit for (the
route behaves alike when the case has no payment or no dispatcher is wired).

### JobQueue

`jobs` has the columns the operations read (`status`, `attempts`, `failure`,
the rank of `created_at`, and two bits for `available_at <= now()` and a
heartbeat older than the threshold).  `holds[w]` is what `claimJob` returned to a
worker: the job and *its* attempts.  `completeJob`, `failJob` and `heartbeat`
update by job id, whatever the row is by then, exactly as the SQL does.
`reclaimAbandoned` is two actions, `RequeueLost` and `AbandonLost`, because it
is two statements; `SweepDies` is a crash between them.  The worker's loop is
external, since `apps/worker/src/index.ts` has none yet: a worker does with a
job what the operations allow, in any order and as late as it likes.

### AgentLoop

One investigation: the openers, the loop, the last question.  `variant` is
chosen at the start (`AGENT_LOOP_VARIANT`).  The model may conclude, ask for any
tool on or off the allowlist, fail in each of the ways the gateway reports, and
propose anything; a tool may return records or none; the wall clock may run out
at any moment, and the code looks at it at the top of the loop only.  `RunLate`
records in `late` where the loop was at that moment, which is what the
properties about lateness compare with.

### Ingestion

A record is an element with a kind, the records its foreign keys name, and
whether normalization refuses it.  `InsertRecord` is one `INSERT ... ON CONFLICT
DO NOTHING` of the open transaction: it sees committed rows and its own
(`Visible`), waits when another open transaction has inserted the same key
(`HeldByOther`), and selects nothing when a mandatory parent is missing
(`LacksParent`).  `Commit` publishes the rows; `AbortDeadlock` is PostgreSQL
breaking a cycle of waits.  Parents are matched as the code does it, by source
record id.  Two simplifications: an INSERT takes its snapshot when it is let
through, which matters for optional links only, and `LIMIT 1` over parents of
the same id in two source systems is left out (a record id is unique here).

### PaymentUnit, UnitMatcher, CauseVerifier

A store is a set of rows; a row is a record with its kind, id, references,
amounts and times (minutes, amounts in minor units, one currency).  Each query
of `loadUnit` is an operator on the store.  The query for adjustments joins with
the settlement lines and is not DISTINCT, so it is modelled as a set of pairs and
an adjustment counts once for every line.  `bankCredits.find` returns the first row of
a result without an order: `Finds` is every choice of it.  Of the ten checks of
the baseline two cannot fail here and are left out, the one on currencies (there
is INR only) and the one on duplicates (`loadUnit` returns none).

### VerifiedInvestigation

`LoadQuery` are the queries of `dispatchAgent`; `CallTool` and `ToolQuery` a
tool that loads the unit again and returns ids; `Propose` the call of `verify`.
The ids that tools returned are both the evidence of the proposal and what it is
said to have retrieved (`ai-investigation.ts:142-148`).  `Import` is an import that commits at
any moment, as a whole (`AtomicImport` is what justifies that).  The state is
the unit of the dispatch, the ids, and the committed rows.  A tool loads every
query but is given the answers it shows only; the payment's id comes with the
opening call.

### ReconciliationRuns

A request is a run, over one import or over all, or a scenario: its import, its
run, the links, the completion and its audit event.  `List` reads the payments,
`LoadUnit` and `Query` one unit after the other, `Clean` or `CreateCase` judge
it.  `Throw` is a statement that throws (a scenario then marks its instance
FAILED, whatever its status is by then) and `Crash` a process that dies.
Retries of a scenario's key change nothing and are no step.  `seen` is a history
variable: the stores since the unit began to load.

### CaseConsole

`tab[t]` is a browser tab: the page it displays, the reads outstanding for the
next one, and whether an answer or a refresh is awaited.  A page is the state it
was rendered with and the *number* of audit events it listed; since the trail
only grows, the number says which.  `ShownVersion` is the version the page takes
from that list, `Offered` the buttons `allowedFor` enables.

| action | code |
|---|---|
| `ReadCase`, `ReadAudit`, `FailRead` | the concurrent reads of `page.tsx`, answered in any order or not at all; the last of them replaces the page |
| `Click` | a server action, with the version of the page; the buttons are disabled until the page that comes back is in (`useTransition`) |
| `Answer` (in `Refuse`, `AppendAudit`, ...) | `toActionResult`, `refreshExceptionViews` whatever the answer is, `router.refresh` after ok and conflict |
| `Reload` | the page is opened again; an answer that was awaited is lost to it |
| `Serve`, `Refuse` | the transition, at once or not at all: what `CaseWorkflow` is proved to implement; the audit event follows as a step of its own |
| `RunAgent`, `NothingToLoad` | the agent inside `POST /investigations` |
| `Elsewhere` | any other client moves the case |
| `Crash`, `LoseAnswer` | the API process dies; or the answer alone is lost and the API works on |

Actions on evidence and rejections are in the API but have no button; they reach
the case by `Elsewhere`.

### ScenarioEngine

`GenerateScenarioBatch` builds the records of the six definitions with the
amounts and times of the code.  A seed stands for the suffix it gives the ids,
the last six digits in base 36, so that two requests share a seed exactly when
their records collide.  An id is `RecordId(name, seed)`, its name that of what it
is for: the code puts a prefix before the suffix (`generator.ts:66`), and the
instance for TLC joins the two (`Suffixed`).  An import is one step here, a run another; what lies
between their statements is in `ReconciliationRuns`.

### CaseBuilder, ComparedSystems, NoveltyRegistry, Benchmark

A case is a plan (its causes, adversarial or not) and a draw of what the code
takes from its pseudo-random source: gross amount, method, capture time, variant,
jitter, scale of the variance, routine adjustments, fee parts.
`VisibleRecords` is everything the lifecycle, the defects and the noise leave of
it, `TrueDisposition` its hidden truth.  The systems judge the unit that
`PaymentUnit` loads from these records with the rules of `UnitMatcher` and
`CauseVerifier`; system C may propose anything on any evidence.  `Verdicts` is a
set because `bankCredits.find` may return either of two credits.

The draws of a dataset follow from the root seed, so there is one dataset and
every generator run writes it again under merchants of its own.  `Die` stops a
generator between any two statements, and generators may run side by side.  A
benchmark reads the latest completed run once; the model ends the generators
with its beginning, because nothing they do later is read.

`Options` is what a benchmark may be started with: `--split`, `--systems` and
`--limit`.  `loadHiddenTruth` has no ORDER BY, so that a limit may keep any cases
of the splits, as many as it says (`Selections`).  The systems are a list in which
one may be named twice; `turn`, the position in the list, tells the rows of such
a report apart.  `PlansForStratum` includes the compounds of four causes that the
generator falls back to when forty draws gave only triples that development had.

## 3. The runs

| run | instance | shows |
|---|---|---|
| `CaseRaces` | 1 case, 2 requests, versions 1..6, crashes | `AuditIsAPath`, `RunningIsCurrent`, `StartNeverCollides`, `ProposalIsVerified`, `DecidedOnWhatWasSeen`, `EscalatedIsFinal`, that the workflow implements `CaseLifecycle`; `IInv`, the invariant of the proofs |
| `CaseServed` | 2 cases, one unloadable; 2 requests, no crash, fair | `AuditHasNoGaps`, `EvidenceIsAsked`, `InvestigationsConclude` |
| `QueueWorkers` | 2 jobs, 3 workers, ceiling 2, fair | `ClaimsAreDistinct`, `TriesAreBounded`, `EveryJobSettles`; `QueueInv` |
| `LoopVariants` | 4 tools, 4 tool calls, 6 steps, limit 1, fair | both variants implement `BoundedInvestigation`; `LateEndsSoon`, `LoopEnds` |
| `IngestRaces` | 3 imports of 4 overlapping batches, 5 records, crashes | `IngestionInv`, the invariant of the proofs (with `CountsAreHonest`), `WholeLifecycle`, `RowsAreFinal`, and that imports implement `AtomicImport` |
| `IngestLiveness` | 2 requests, 3 keys, no crash, fair | `ImportsComplete` |
| `Verification` | a payment with a leg and a refund; 5 imports that bring the fees, a second leg, its credit, a late adjustment and one in time | `ResolvedAsTheBaseline`, `ResolvedOnTheUnit`, `StandsUnlessRaced` |
| `Reconciliation` | 2 requests, 2 imports, 3 payments, one import a scenario's; failures | `RunsInv`, the invariant of the proofs (with `IsAccounted`), `ScenarioIsComplete`, `ClosedAsStored` |
| `Console` | 1 tab, 2 requests at a time, an operator or an approver, versions to 4, a listing of 5 events, 1 fault, fair | `ConsoleInv` (the invariant of the proofs, with `OffersAreHonoured`), `ApprovalsAreInformed`, `EscalationGetsThrough` |
| `Benchmark` | 2 generator runs, a test case of any stratum over 12 draws and a validation case, 3 developments, 4 choices of splits, systems and limit | `BenchmarkInv`, the invariant of the proofs (with `ScoresAreWhole`), `TrapsHold`, `BaselineIsSafe`, `DefectsShow`, `ProvableAlone`, `NoveltyIsCombination` |
| `Scenarios` | 3 keys, 6 definitions, 2 seeds | `ScenarioInv` (types and `ScenariosShow`), `CausesAreAsExpected` |
| `TornUnit` | small; the violation is expected | `ClosedAsStored` fails as soon as an import adds to a payment of another (section 6) |

Five more configurations are counterexamples to keep, each of a sentence the
code does not live up to (section 6).  TLC is expected to refute them:
`tlc -config QueueStolen.cfg MCJobQueue` (`LiveWorkIsKept`), `IngestDrops.cfg`
and `LooseLinks.cfg` with `MCIngestion` (`DuplicatesAreStored`, `LifecycleIsLinked`),
`RefundNetting.cfg` with `MCVerification` (`RefundsExplain`) and
`StaleProposal.cfg` with `MCConsole` (`ApprovesWhatIsShown`).

### Bounds, and why they are enough

* *Requests.*  Each property relates a case to the request that writes and the
  one it overtakes, and both may be of any kind.  With two requests two
  investigations can overlap, which is what `StartNeverCollides` needs.  A request
  that is answered may be followed by another, and versions go up to 6: enough for
  evidence, a second investigation and a second proposal, approved and staged.
  The proofs cover any number of requests.
* *`ClientVersions`* bounds how far a case can go: a request for a version
  outside it is refused anyway.  It is 1..3 in `CaseServed`, where two cases
  share the requests: investigate, propose, decide.
* *Ceiling 2, three workers.*  A job comes back from beyond the ceiling when an
  early claimant fails it late, after another claim was made at the ceiling and
  lost: two claims outstanding, and a third to be made.  `TriesAreBounded` is
  tight in this instance: attempts reach 3.
* *The loop* has fewer tools than steps, so that a tool can be repeated past the
  limit, and fewer tool calls than steps, so that the budget ends it first.  The
  clock may run out at any point: in an opener, at an outstanding question, at a
  limit, or while a conclusion is under way.
* *Batches of `Ingestion`*: a lifecycle sent backwards, the same two payments in
  either order (deadlock), a record repeated within a batch, and children
  without parents, whose parents come with a later import (`RowsAreFinal`).
* *Batches of `Verification`*: each of the five imports may commit before,
  between or after the queries; every cause that can resolve does in some
  behaviour (fee, split, lag, drift at its cap, refund), some of them without any import,
  and some supported claim is refused because of a race.
* *Batches of `Reconciliation`*: a clean payment and one that is not settled, and
  a residual one; `MaxPayments` is 2, so that a run over all imports leaves one
  out.  The imports carry payments of their own, each with its whole lifecycle
  (`ScenariosHere` and `LifecyclesHere` have TLC check the hypotheses of
  `ScenariosAreComplete` and of `ApartBatchesCloseAsStored`);
  when an import adds to a payment of another, `ClosedAsStored` fails, and
  `TornUnit` shows it.
* *`Console`*: one request is the tab's and the other another client's, or the
  tab's own whose answer was lost.  Version 4 is the decision on a proposal;
  past it only escalations are asked for, so that the run ends while liveness
  stays meaningful.  Five listed events are fewer than a case can have, so the
  listing is cut in some behaviours.  `StaleProposal` has room for a second
  proposal.  The proofs cover any number of tabs and requests and any limit.
* *Draws of `Benchmark`*: two gross amounts, one whose variance falls within the
  ceiling of rounding and one far above; capture at noon and after the cutoff
  before a weekend; cards, wallets and UPI (no fee); both settlements of a
  refund, within its window and beyond; routine adjustments and fee lines in
  parts.  Development is adequate in one instance and refused in two.  The
  adequate one has a pair and a triple, so that the fallback to four causes
  occurs.
* *Options of `Benchmark`*: every system on every split; one split with one system;
  a list that names a system twice, `B, A, B`; and a limit of 1, below the number
  of cases.
* *`Scenarios`*: three instances and two seeds make a shared seed, a seed of its
  own, and both at once.

### Fairness

* `CaseWorkflow`: weak fairness of each request's handler.  Node continues a
  handler when its statement returns, and the agent loop is bounded
  (`LoopEnds`).  Nobody is obliged to send a request, and `FairSpec` is checked
  with crashes switched off: with them, `InvestigationsConclude` is false by design of
  the code (no sweep takes an investigation back).
* `JobQueue`: workers keep polling and end what they take, or die (`WF` on
  claiming and on `Finish`); time passes (`WF` on `Elapse` and `GoStale`); the
  sweep keeps running (`WF` on its first statement) and gets to its second
  statement infinitely often if it is often about to (`SF`: the process may die
  between the two any number of times).
* `AgentLoop`: weak fairness of its steps, since the gateway gives up after its timeout
  and tools are local reads.
* `Ingestion`: weak fairness of each request's handler, which includes PostgreSQL
  letting a waiting INSERT go on and breaking deadlocks.

* `CaseConsole`: weak fairness of a tab's reads (answered or failed) and of the
  API's work on a request, as above.  `EscalationGetsThrough` is about a person
  who keeps at it, so strong fairness is what that means: of the click on an
  escalation that is offered again and again, although the page is sometimes
  loading, and of opening the page again when it does not offer one.  Nothing
  is assumed of other clients or of failures, which `MaxFaults` and
  `MaxVersion` bound.

`Verification`, `Reconciliation`, `Benchmark` and `Scenarios` check safety only
and assume no fairness.

`CHECK_DEADLOCK FALSE` is set where the modelled activity may really be over: an
investigation with its result or its verdict, imports whose keys are all used
up, requests that are all answered, a benchmark without a completed run.

## 4. What is proved

TLAPS checks these for **every** value of the constants, under the named
assumptions of the modules, which TLC evaluates on the instances of the runs.
Most say no more than the types of the constants, that the set of jobs is
finite, that the budgets and the ceiling are positive, that the two openers are
different tools, and that the payment of the case is in the store.  Four of
them are about data:

* `KeysAssumption` (`Ingestion`): what stands for *no import* is not a key.
* `BatchAssumption` (`ReconciliationRuns`): a batch is finite, its rows have an
  id and the fields that the INSERTs may leave NULL, its payments name the import
  that brings them, and no two of them have the same id (the INSERTs keep the first).
* `BenchmarkAssumption`: targets and draws are sequences of the same length, a
  draw is one the generator can make (`Drawn`: the amounts it chooses from, a
  variance of 20 to 900 basis points, up to three routine adjustments, and so
  on), a case of development has one or more of the single causes, and a
  benchmark is started with at least one of the systems A, B and C and a
  natural number as limit.
* `RecordIdAssumption` (`ScenarioEngine`): two ids are the same only if their names
  and their seeds are, and none is what stands for a missing row or UTR.

Six theorems have a hypothesis of their own, and each is a condition the code
does not always meet, stated because without it the property is false:

* `MayCrash = FALSE` (`AuditTrailHasNoGaps`, `EvidenceGetsAsked`): a crash between two
  statements of a use case loses the second.
* `ScenariosAreApart` (`ScenariosAreComplete`): no other import has a payment of a
  scenario.  Two scenarios of one seed do share ids (`generator.ts:67`);
  what becomes of those is in `ScenarioEngine` (`ScenariosAreShown`).
* `[]UnitsAreWhole` (`WholeUnitsCloseAsStored`): no import changes what a unit
  selects while it is loaded.  `TornUnit` is the run in which one does.
* `BatchesAreApart` (`ApartBatchesLeaveUnitsWhole`, `ApartBatchesCloseAsStored`):
  no import adds to the units of another, a condition on the data alone which
  implies the one before.  `LifecyclesHere` has TLC check that it holds of the
  batches of `Reconciliation` and fails of those of `TornUnit`.

**CaseWorkflowProofs** - any number of cases and requests, with crashes.
`IInv` (in `CaseWorkflowInvariant`) strengthens the properties until they are
inductive.  The argument:

1. The guarded UPDATE makes `(case, version)` a lock.  A request past its write
   (`Written`) *owns* the version it produced: no two requests, and no request
   and no audit event, have the same one.  Hence the audit trail is a path
   (`AuditTrailIsAPath`) in whatever order the events are appended.
2. From INVESTIGATING the code only reaches ACTION_PROPOSED (by the request that
   owns the investigation) and ESCALATED, and from ESCALATED nothing.  So as
   long as a row is RUNNING its case stands where the row found it or was
   escalated (`RunningStaysCurrent`), a new investigation cannot start, and the
   unique index has nothing to refuse (`StartsNeverCollide`).
3. A request that concludes has finished *its own* row, SUCCEEDED if it heads
   for ACTION_PROPOSED, and can only write on the version that row started from.
   The chain proposal - approval - staging then has no room for another version
   (`ProposalsAreVerified`).
4. `Refinement`: `WriteCase` is the only action that changes `cases`, and by the
   invariant what it writes is legal for the state it replaces; every other
   action is a stutter of `CaseLifecycle`.

5. Without crashes the trail has no gaps: each version above the first has its
   event, or the request that owns it is about to append it
   (`AuditTrailHasNoGaps`).  Ownership is what makes the step from the one to
   the other work: no request can be taken for another.  Likewise a case that
   waits for evidence has an open request, or the requester is past its write
   and on its way to `evidence.open` (`EvidenceGetsAsked`).

`EscalationIsFinal` and `DecisionsAreInformed` follow from the same invariant.

**JobQueueProofs** - any finite set of jobs, any workers, any ceiling.  That a job is
claimed at most `2 * MAX_ATTEMPTS - 1` times needs a counting argument, in
`QueueInv`: from the ceiling on, attempts plus the claims below the ceiling that are still
outstanding plus one if the job is queued never exceeds the bound, because only
the late failure of such a claim puts the job back and the claim is used up by
it.  Distinctness of claims (`ClaimsStayDistinct`) is what makes the count a
count.

**AgentLoopProofs** - any tools and budgets.  `LoopInv` bounds the calls of each
tool by what its variant allows and the total by the budget or 2, and says that
past the opening both openers were used; `Boundedness` is the refinement of
`BoundedInvestigation`, in which `PROPOSAL_MADE` needs both openers.
`LateStops` is about the clock, which may run out at any moment.  Its invariant,
`LateInv`, says where the loop can be, seen from where it was at that moment:
still in the openers only if it was there, still at a question only if that one
was outstanding and nothing has been called since.  So at most what was under
way is called (the two openers, or the one answer), no step is taken, since the
top of the loop takes it and looks first, and a conclusion comes only from a
question that was outstanding, from one under way, or from a limit, which is
found before the clock is looked at.

**VerificationProofs** - any store, any batches, any amounts.  `IInv` says
where the investigation stands (`Steps`: no tool before the unit is loaded, the
payment's id among the evidence after the opening call), that a verdict is the
verifier's judgement of all the evidence on the unit (`Judged`), and that as
long as no import has committed the unit is what the store holds and all that
tools returned is of the unit (`Undisturbed`, by `ShownIsOfTheUnit`).  A
resolution is `Substantiated` against the unit, which is never written after the
dispatch: `ResolutionsAgree` unfolds the verifier's
rule and the matcher's checks over the same unit, `ResolutionsRestOnTheUnit`
follows from its provenance check, and `ClaimsStand` from `Undisturbed`: without an import, nothing the proposal cites can be out of scope.
`RateIsNearest` is about the arithmetic alone: the rounded amount is within half
of the denominator of the exact one, and away from zero when it is exactly half.

**CaseConsoleProofs** - any tabs, any number of requests at a time, any limit of
the audit listing, any faults.  `ConsoleInv` is inductive.  What a page sends is
the highest version among the events it listed (`CarriesItsPage`), which stays
the same set because the trail only grows (`Grows`) and the page listed no more
than there is (`PagesAreOld`).  That the set *has* a highest version is needed to
say anything of `Max`, and holds because every prefix of the trail has one
(`ListingsHaveTops`): one more event is either the new top or leaves the old.
`TrailIsCurrent` says that no event is ahead of the case and that an event of
the version of a standing proposal is that proposal; a pending event must be
covered too, since moves and their events are separate steps.  Then
`ButtonFacts`, read off the tables, gives that an offer of a page that shows the
case as it stands is accepted (`CarriedIsHonoured`), and an approval that is
accepted carries the version of a standing proposal, which the page can only
have from the event of that proposal (`ApprovalsInformed`).

**IngestionProofs** - any records, references, keys and batches, any number of
requests, with deadlocks and crashes.  `IngestionInv` is inductive (`Invariance`).
Honest counts alone are not: a request counts what *it* inserted, which says
something of the table only if nobody else stores rows under its key and nothing
it inserted was stored by another.  So:

1. `OwnsImport`: a request in flight is the only one of its key; nothing carries
   the key before its commit, and exactly what it inserted does after.
2. `InsertsAlone`: what an open transaction has inserted is in no table and in no
   other open transaction.  An INSERT keeps it because it waits for a row of
   another (`HeldByOther`), a commit because of the same for everyone else.
   Hence a commit overwrites nothing, and `HonestCounts` follows.
3. `IsInOrder` and the order of the kinds (`ParentsRankLower`: every reference of the
   schema goes to a kind earlier in `INSERT_ORDER`) give `LifecycleIsWhole`: when a
   record's turn comes, its parents in the batch have had theirs, and the two
   kinds that may be skipped have no children.  What this import inserts is
   linked, and a link leads to a row (`LinksLead`).  A record that an earlier
   import stored without its parent is taken as it is: no import changes a
   stored row (`RowsStay`), so its link is missing for good, and `LooseLinks` shows
   one.
4. `ImportsAreAtomic`: a commit is the one step that stores, completion the one
   that counts; all others are stutters of `AtomicImport`.

**ReconciliationProofs** - any batches, any number of runs and scenarios, any bound
on payments, with failures.  `RunsInv` is inductive (`RunsAreAccounted`).  What
ties a run's counts to its cases is `IsUnderWay`: the counts are of payments
that are no longer pending, no case of the run is for a pending payment, so each
case the run creates is a new one (the unique index never absorbs it) and the
number of its cases is its count.  The bound holds because evaluated and
pending together never exceed it, a sum that `LoadUnit` leaves alone and each
verdict shifts by one from one term to the other.  For scenarios the sum is an
equation (`Quota`), which survives other imports because a committed payment is
never changed and every payment names the import that brings it
(`BatchAssumption`).
`ScenariosAreComplete` adds that the scenario's payments are all in the store from its
own import on (`OwnIsStored`), which is where another import with the same ids
would break it.  `WholeUnitsCloseAsStored` is about the reads: the answers
a unit has so far are those of every store since it began to load, when no
import changes one, so that the unit judged is the unit of such a store.
`ApartBatchesLeaveUnitsWhole` derives that from the data (`StoreIsApart`): every
stored row is a version of a record of some batch, its links perhaps NULL, and
a stored payment came with the whole of its batch.  So its own import, repeated,
adds nothing (`AgainAddsNothing`), and another adds nothing that the unit selects
(`OthersAddNothing`).

**BenchmarkProofs** - any targets, any draws, any options, any number of generator
runs, which may run side by side and die at any statement.  `BenchmarkInv` is
inductive (`ReportsAreWhole`).  A generator takes each case through import,
reconciliation and truth before it takes the next (`IsInOrder`), so a run that is
completed has them all (`DoneHasAll`) and no case it scores is skipped for want
of records.  What the benchmark selects is all the cases of its splits or, below
a limit, as many of them as the limit says (`SelectionIs`); its rows together with
the turns still due partition the selected cases times the listed systems
(`IsTreating`).  `NoveltyIsNew` rests on `DatasetIsPlanned`: each case was planned over
a development that is adequate, and filed under the stratum `classifyNovelty`
gives it.

Then come the cases themselves, for any draw of the generator: what the records
of a case make of each system.

1. The records are of known kinds and ids, so importing them into an empty
   store keeps them all, and the rows `loadUnit` selects are the records.
2. The variance of the unit is the unexplained part of what its causes did to it:
   what was withheld and what drift left, less what was refunded and what a
   settlement brought on another day.  The sums behind it are folds over finite
   sets; a fact about every sum is proved by taking a set of the smallest
   cardinality it fails for (`SmallestSet`, from the well-foundedness of the
   naturals) and removing one element.  A variance of the generator is
   at least 91 for every draw, a drift between 3 and 7.
3. From the variance and the timing follow the checks of the matcher and hence its
   reasons, and which causes the verifier accepts; from these what A, B and C
   can make of the case.
4. `ScoringInv`, inductive beside `BenchmarkInv`, ties verdicts and rows to these
   outcomes.  `TrapsAreHeld`, `BaselineStaysSafe`, `DefectsAreSeen` and
   `ProvableOnesAreProved` follow.

And the scenarios, for any keys and seeds.  `ScenarioWhole` is inductive:

* each stored row is of the batch of an instance that imported it
  (`RowsAreOwned`), and ids of different seeds differ; so an instance alone with
  its seed has its whole batch stored (`OwnIsWhole`), and `loadUnit` selects its rows
  and no others (`OwnUnitIs`);
* with that unit each definition has a known variance: the baseline reconciles
  the clean one only (`ScenarioReconciles`), the verifier accepts the expected
  cause of the missing fee and of the split (`ScenarioIsProvable`) and no cause for the
  other three (`ScenarioIsRefused`), which is `CausesAreExpected`;
* stored payments of one id are one and name their import (`PaymentsDiffer`), so
  at most one of the instances that share a seed evaluates it.  With the other
  parts this is `ScenariosAreShown`.

What is only model-checked is liveness: `InvestigationsConclude`, `EveryJobSettles`,
`LoopEnds`, `ImportsComplete`, `EscalationGetsThrough`.  It needs fairness and ENABLED,
which the proof system does not handle.  Every other property a passing run checks
is stated by a theorem.

## 5. What the models leave out

Amounts and texts, except in the modules about units and their verdicts;
currencies; merchant scoping (all rows of a model belong to one merchant);
priorities and case numbers; audit events that record no transition; retries of
the model gateway (its `maxRetries` is configured but unused); the HTTP layer
except its role checks and its default of version 1; token and byte limits.
In the console: the reads of a page other than the case and its trail, the
messages, and sessions (switching the identity opens the page anew).  In the
evaluation: the pseudo-random source, the leakage probes, the statistics over
the scores, the pinned manifest.
PostgreSQL is assumed to do what it documents for single statements, unique
indexes and READ COMMITTED transactions.  Source record ids are unique across
source systems.  In `ReconciliationRuns` a scenario has a batch of its own;
`ScenarioEngine` has seeds that are used twice.

## 6. Where the code and its documents part

Six configurations end in the violation they are expected to find;
`PROJECT.json` quotes the sentences.

* `QueueStolen`: a worker taken for dead fails the job that a live worker now
  holds (`worker-recovery.test.ts:145`).
* `IngestDrops`: a refund or settlement line without its parent is dropped and
  counted as a duplicate (`record-writer.ts:4-6`, `submit-import.ts:11`).
* `LooseLinks`: a fee, payment or tax line that is stored before its parent keeps
  a NULL link when both come in a later batch, and `loadUnit` never finds such a
  fee line (`record-writer.ts:142`, `290-292`, `unit-loader.ts:73`).
* `RefundNetting`: any variance is resolved as REFUND_NETTING when there is a
  timely refund, whatever its amount (`CAUSE_TAXONOMY.md:32`).
* `TornUnit`: a payment that is short before and after an import is closed by a
  run whose queries straddle it (`matcher.ts:132`).
* `StaleProposal`: the proposal above the approve button is the *first* of the
  trail while the version sent is the newest; of a case that was proposed twice
  the approver reads one and approves the other (`case-actions.tsx:224`).

Also met while modelling, without a configuration of their own:

* A crash between a transition and its audit event leaves a version no event
  records (`STATE_MACHINE.md:14`); `AuditHasNoGaps` holds without crashes only.
* *reinvestigate* moves a case to INVESTIGATING and starts nothing; the case can
  then only be escalated (`STATE_MACHINE.md:27`).
* A loop out of steps or tool calls goes on to propose (`investigation-loop.ts:9`).
* `requestEvidence` is said to write the request and the transition together
  (`case-workflow.ts:109`); they are separate statements, with the audit event in between.
* A proposal can never be rejected: REJECTED follows only APPROVAL_PENDING, and
  no code produces APPROVAL_PENDING.
* An approved case is staged only if someone asks for it (`STATE_MACHINE.md:226`
  has staging follow), and an evidence request never leaves OPEN
  (`STATE_MACHINE.md:260` has it expire).
* The attempt ceiling is no ceiling: a late `failJob` brings a job back beyond
  it.  `TriesAreBounded` is the bound that holds.
* v1 of the loop allows one identical call more than its limit says; NO_PROGRESS
  and BUDGET_EXHAUSTED are never produced.
* An import whose request dies or is aborted in a deadlock stays RUNNING, and
  each retry with its key is answered with that row; `markFailed` is never
  called.  Neither is it for a run that throws.
* When the payment unit cannot be loaded, the API answers ESCALATED and leaves
  the case INVESTIGATING with a RUNNING row.
* Evidence that arrives while the agent works is refused as *not in scope*, which
  `verifier.ts:41-42` reserves for foreign records.
* `validate_tax_line_mapping` truncates where everything else rounds half up;
  `search_related_adjustments` reports every adjustment as not allocated;
  `get_settlement_breakup` shows the lines without their ids, so that no
  proposal can cite a line; TIMING_LAG is supported without looking at a time.
* A reconciliation that is run again makes every residual case again
  (`case-repository.ts:5-6`).
* A scenario whose seed was used before imports nothing and succeeds without a
  case (`SCENARIO_ENGINE.md:42`); one whose last audit event throws is marked
  FAILED over its completion (`instantiate.ts:151`).
* Staging is offered to an OPERATOR (`case-actions.tsx:75`) and kept for an
  APPROVER (`approval.ts:135`): the one exception in `OffersAreHonoured`.
* The audit listing is cut at its oldest events, and the page takes the version
  from it: past the limit every action conflicts and reloading does not help
  (`FRONTEND_BACKEND_CONTRACT.md:143`).  `EscalationGetsThrough` has to except
  such a case (`Hidden`).
* The page is revalidated after every answer, not only after success
  (`actions.ts:15`).  After a conflict the component refreshes the page anyway
  (`case-actions.tsx:122`); after an error it is the revalidation alone that
  brings a newer version.
* The benchmark loads the truth before the systems run (`run-benchmark.ts:5`).
* System B's rule for unallocated adjustments never sees one, and its rule for
  refunds outside the window is never reached (`system-b.ts:59`, `71`).
* Compounds count as resolvable when each cause alone is provable
  (`defects.ts:8`), while the verifier takes one cause for the whole variance;
  an ambiguous variance within the rounding ceiling is resolved as drift
  (`experiment-manifest.ts:55`); a missing UPI fee reconciles, although
  `expectedResidual` is true of every case (`case-builder.ts:155`).
* The demos take the first case of a list ordered by priority for the one they
  created (`run-demos.ts:132`).

## 7. Not modelled, and the plan

What the plan has left, in this order:

1. An abstract specification of a run (a list of payments, each evaluated once
   against a store) and the refinement by `ReconciliationRuns` for imports that
   do not add to the payments of others.
2. The composition of `CaseWorkflow` with `VerifiedInvestigation`, where the
   verdict is a choice in the one and the workflow is left out in the other, and
   of `CaseConsole` with `CaseWorkflow` in place of its atomic transitions.
3. The calendar against a reference definition, the checks at their boundaries,
   and `duplicate-detection.ts` if anything comes to call it.
4. The audit writer's redaction; the statistics over the scores.

Left out for good: the case aggregate (no route constructs it), prompts, BigInt
and its codec (no overflow), sessions, configuration, connection handling, the
pages that only show lists, and the scripts that gate a build, migrate or probe.
