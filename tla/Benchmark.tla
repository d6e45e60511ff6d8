------------------------------ MODULE Benchmark ------------------------------
(***************************************************************************)
(* The benchmark: a dataset is generated with a hidden truth for each of   *)
(* its cases, its records go through the ordinary import and               *)
(* reconciliation, and the systems are run over the cases and scored       *)
(* against the truth.                                                      *)
(*                                                                         *)
(* What the random generator draws follows from the root seed, which every *)
(* run of the generator shares: there is one dataset.  A run has merchants *)
(* of its own, so its records meet no others; those of two cases share no  *)
(* id.                                                                     *)
(***************************************************************************)
EXTENDS NoveltyRegistry, ComparedSystems

Systems == {"A", "B", "C"}

CONSTANTS
  Runs,          \* ids of generator runs
  Developments,  \* what development may consist of: sets of [causes, bucket]
  Targets,       \* the [split, stratum] each later case may be planned for, a sequence
  Draws,         \* the draws each of them may get, a sequence
  MinCompound,   \* MIN_COMPOUND_CASES_IN_SEEN
  Options        \* the --split, --systems and --limit a benchmark may be started with

ASSUME BenchmarkAssumption ==
  /\ Targets \in Seq(SUBSET [split : STRING, stratum : STRING])
  /\ Len(Draws) = Len(Targets)
  /\ \A i \in DOMAIN Targets : Draws[i] \subseteq Drawn
  /\ \A observed \in Developments : \A o \in observed :
       o.causes \in (SUBSET SINGLE_CAUSES) \ {{}}
  /\ MinCompound \in Nat
  /\ Options \subseteq
       [splits : SUBSET STRING, systems : Seq(Systems) \ {<<>>}, limit : Nat]

VARIABLES
  development,  \* the cases of the development split
  dataset,      \* the later cases, a sequence: split, plan, draw and stratum
  gen,          \* [Runs -> where the generator is: its pc and its next case]
  imported,     \* the <<run, case>> whose records are in the store
  verdict,      \* [Runs \X Indices -> how its reconciliation ended]
  truth,        \* hidden_case_truth: <<run, case>>
  completed,    \* the generator runs with a completed_at, in that order
  bench,        \* where the benchmark runner is
  rows          \* what it has scored

vars == <<development, dataset, gen, imported, verdict, truth, completed, bench, rows>>

stored == <<gen, imported, verdict, truth, completed>>

Indices == DOMAIN Targets

NoVerdict == "NONE"

NoBenchmark ==
  [ pc |-> "idle", run |-> "none", args |-> [splits |-> {}, systems |-> <<>>, limit |-> 0],
    selected |-> {}, todo |-> {}, case |-> 0, turn |-> 0 ]

(* generateDataset throws when the registry of development is inadequate.  *)
Init ==
  /\ development \in {d \in Developments : RegistryAdequate(d)}
  /\ dataset = <<>>
  /\ gen = [g \in Runs |-> [pc |-> "idle", next |-> 1]]
  /\ imported = {}
  /\ verdict = [c \in Runs \X Indices |-> NoVerdict]
  /\ truth = {}
  /\ completed = <<>>
  /\ bench = NoBenchmark
  /\ rows = {}

----------------------------------------------------------------------------
(* A case is drawn again while it does not land in its stratum, but not    *)
(* for ever: it may be any its plan allows, under the label it gets.       *)
LaterCases(i) ==
  UNION { { [ split |-> t.split, plan |-> plan, draw |-> draw,
              stratum |-> ClassifyNovelty(plan, BucketOf(plan, draw), development) ] :
              plan \in PlansForStratum(t.stratum, development), draw \in Draws[i] } :
          t \in Targets[i] }

GenerateCase ==
  /\ Len(dataset) < Len(Targets)
  /\ \E case \in LaterCases(Len(dataset) + 1) : dataset' = Append(dataset, case)
  /\ UNCHANGED <<development, stored, bench, rows>>

(* The warnings of allocationReport that a dataset can cause.              *)
CompoundInSeen ==
  {i \in Indices : /\ dataset[i].split = "primary_test"
                   /\ dataset[i].stratum = "SEEN"
                   /\ Cardinality(dataset[i].plan.causes) > 1}

AllocationWarned ==
  \/ Cardinality(CompoundInSeen) < MinCompound
  \/ \E i \in Indices : dataset[i].split = "challenge" /\ dataset[i].stratum = "SEEN"

(* A dataset that is warned of is refused; generators may run side by      *)
(* side.  A benchmark that has begun reads one completed run, which no     *)
(* step of a generator changes: the model ends them with its beginning.    *)
Running(g) ==
  /\ gen[g].pc \in {"import", "reconcile", "truth"}
  /\ bench.pc = "idle"

BeginGeneration(g) ==
  /\ gen[g].pc = "idle"
  /\ bench.pc = "idle"
  /\ Len(dataset) = Len(Targets)
  /\ ~AllocationWarned
  /\ gen' = [gen EXCEPT ![g].pc = "import"]
  /\ UNCHANGED <<development, dataset, imported, verdict, truth, completed, bench, rows>>

ImportCase(g) ==
  /\ Running(g) /\ gen[g].pc = "import"
  /\ gen[g].next \in Indices
  /\ imported' = imported \cup {<<g, gen[g].next>>}
  /\ gen' = [gen EXCEPT ![g].pc = "reconcile"]
  /\ UNCHANGED <<development, dataset, verdict, truth, completed, bench, rows>>

(* The unit of a case in the store of its merchant.                        *)
UnitOfCase(i) ==
  UnitOf(AfterImport({}, VisibleRecords(dataset[i].plan, dataset[i].draw)), "pay")

ReconcileCase(g) ==
  /\ Running(g) /\ gen[g].pc = "reconcile"
  /\ \E reasons \in Verdicts(UnitOfCase(gen[g].next)) :
       verdict' = [verdict EXCEPT ![<<g, gen[g].next>>] =
                     IF reasons = {} THEN "RECONCILED" ELSE "EXCEPTION"]
  /\ gen' = [gen EXCEPT ![g].pc = "truth"]
  /\ UNCHANGED <<development, dataset, imported, truth, completed, bench, rows>>

RecordHiddenTruth(g) ==
  /\ Running(g) /\ gen[g].pc = "truth"
  /\ truth' = truth \cup {<<g, gen[g].next>>}
  /\ gen' = [gen EXCEPT ![g] = [pc |-> "import", next |-> @.next + 1]]
  /\ UNCHANGED <<development, dataset, imported, verdict, completed, bench, rows>>

CompleteGeneration(g) ==
  /\ Running(g) /\ gen[g].pc = "import"
  /\ gen[g].next \notin Indices
  /\ completed' = Append(completed, g)
  /\ gen' = [gen EXCEPT ![g].pc = "done"]
  /\ UNCHANGED <<development, dataset, imported, verdict, truth, bench, rows>>

(* A statement throws or the process is killed.  Nothing resumes the run.  *)
Die(g) ==
  /\ Running(g)
  /\ gen' = [gen EXCEPT ![g].pc = "dead"]
  /\ UNCHANGED <<development, dataset, imported, verdict, truth, completed, bench, rows>>

----------------------------------------------------------------------------
(* A bug: whichever run was begun.                                         *)
LatestGeneratorRun_Begun == {g \in Runs : gen[g].pc # "idle"}

LatestGeneratorRun == IF completed = <<>> THEN {} ELSE {completed[Len(completed)]}

SCORED == {"primary_test", "challenge"}

(* The cases that are taken: all of them, or the first of a list that      *)
(* loadHiddenTruth returns in no order.                                    *)
Selections(cases, limit) ==
  IF limit = 0 \/ limit >= Cardinality(cases) THEN {cases} ELSE kSubset(limit, cases)

(* The exploratory loop is refused on a scored split, and without a        *)
(* completed run there is nothing to do.                                   *)
BeginBenchmark(args, exploratory) ==
  /\ bench.pc = "idle"
  /\ ~(exploratory /\ args.splits \cap SCORED # {})
  /\ \E g \in LatestGeneratorRun :
       \E selected \in Selections({i \in Indices : /\ <<g, i>> \in truth
                                                   /\ dataset[i].split \in args.splits},
                                  args.limit) :
         bench' = [ pc |-> "next", run |-> g, args |-> args, selected |-> selected,
                    todo |-> selected, case |-> 0, turn |-> 0 ]
  /\ UNCHANGED <<development, dataset, stored, rows>>

(* A case whose payment is not in the store is passed over.                *)
NextCase ==
  /\ bench.pc = "next"
  /\ \E i \in bench.todo :
       bench' = [bench EXCEPT !.todo = @ \ {i}, !.case = i,
                   !.turn = 1,
                   !.pc = IF <<bench.run, i>> \in imported THEN "treat" ELSE "next"]
  /\ UNCHANGED <<development, dataset, stored, rows>>

OutcomesOf(system, unit, reasons) ==
  CASE system = "A" -> {RunSystemA(unit, reasons)}
    [] system = "B" -> {RunSystemB(unit, reasons)}
    [] system = "C" -> RunSystemC(unit)

TruthOf(i) == TrueDisposition(dataset[i].plan, dataset[i].draw)

Row(system, turn, i, outcome) ==
  [ system  |-> system, turn |-> turn, case |-> i, effective |-> outcome.effective,
    outcome |-> ScoreOutcome(outcome, dataset[i].plan.causes, TruthOf(i)) ]

(* The next of the systems treats the case, and is scored.  An argument    *)
(* may name a system twice; its turn tells its rows apart.                 *)
Treat ==
  /\ bench.pc = "treat"
  /\ LET unit   == UnitOfCase(bench.case)
         system == bench.args.systems[bench.turn]
     IN  \E reasons \in Verdicts(unit) :
           \E outcome \in OutcomesOf(system, unit, reasons) :
             rows' = rows \cup {Row(system, bench.turn, bench.case, outcome)}
  /\ bench' = [bench EXCEPT !.turn = @ + 1,
                  !.pc = IF bench.turn = Len(bench.args.systems) THEN "next" ELSE @]
  /\ UNCHANGED <<development, dataset, stored>>

Report ==
  /\ bench.pc = "next"
  /\ bench.todo = {}
  /\ bench' = [bench EXCEPT !.pc = "done"]
  /\ UNCHANGED <<development, dataset, stored, rows>>

Next ==
  \/ GenerateCase
  \/ \E g \in Runs :
       \/ BeginGeneration(g) \/ ImportCase(g) \/ ReconcileCase(g)
       \/ RecordHiddenTruth(g) \/ CompleteGeneration(g) \/ Die(g)
  \/ \E args \in Options, exploratory \in BOOLEAN : BeginBenchmark(args, exploratory)
  \/ NextCase \/ Treat \/ Report

Spec == Init /\ [][Next]_vars

----------------------------------------------------------------------------
(* Every variable has its type; a case of the dataset is one of its plan.  *)
TypeOK ==
  /\ development \in Developments
  /\ dataset \in Seq({dataset[i] : i \in DOMAIN dataset}) /\ Len(dataset) <= Len(Targets)
  /\ gen \in [Runs -> [ pc : {"idle", "import", "reconcile", "truth", "done", "dead"},
                       next : Nat \ {0} ]]
  /\ imported \cup truth \subseteq Runs \X Indices
  /\ verdict \in [Runs \X Indices -> {NoVerdict, "RECONCILED", "EXCEPTION"}]
  /\ completed \in Seq(Runs)
  /\ DOMAIN bench = {"pc", "run", "args", "selected", "todo", "case", "turn"}
  /\ bench.pc \in {"idle", "next", "treat", "done"} /\ bench.todo \subseteq Indices
  /\ \A r \in rows : r.case \in Indices /\ r.effective \in DISPOSITIONS

(* The dataset has the cases that were planned, over a development that    *)
(* is adequate.                                                            *)
DatasetIsPlanned ==
  /\ RegistryAdequate(development)
  /\ \A i \in DOMAIN dataset : LET case == dataset[i] IN
       \E t \in Targets[i] :
         /\ case.split = t.split
         /\ case.plan \in PlansForStratum(t.stratum, development)
         /\ case.draw \in Draws[i]
         /\ case.stratum =
              ClassifyNovelty(case.plan, BucketOf(case.plan, case.draw), development)

(* A generator goes over the whole dataset, one case after the other, and  *)
(* has taken each through all of its steps before it takes the next.       *)
Generated(g, i) ==
  /\ <<g, i>> \in imported
  /\ <<g, i>> \in truth
  /\ verdict[<<g, i>>] # NoVerdict

IsInOrder(g) ==
  LET pc == gen[g].pc
      i  == gen[g].next
  IN  /\ pc # "idle" => Len(dataset) = Len(Targets)
      /\ \A j \in Indices : j < i => Generated(g, j)
      /\ pc \in {"reconcile", "truth"} => i \in Indices /\ <<g, i>> \in imported
      /\ pc = "truth" => verdict[<<g, i>>] # NoVerdict
      /\ pc = "done" => i \notin Indices

OnlyDoneAreCompleted == \A n \in DOMAIN completed : gen[completed[n]].pc = "done"

(* The cases of the splits, the turns that are still to come for a case,   *)
(* what the others made of it, and what has been scored.                   *)
CasesIn(splits) == {i \in Indices : dataset[i].split \in splits}

Due(i) ==
  {n \in DOMAIN bench.args.systems :
     i \in bench.todo \/ (bench.pc = "treat" /\ i = bench.case /\ n >= bench.turn)}

RowsOf(i, n) == {r \in rows : r.case = i /\ r.turn = n}

Scored == {r.case : r \in rows}

(* A benchmark goes over the cases it selected from its splits in a        *)
(* completed run, and has a row of each of its systems for each it is done *)
(* with.                                                                   *)
IsTreating ==
  LET systems == bench.args.systems IN
  /\ bench.run \in Runs /\ gen[bench.run].pc = "done"
  /\ bench.args \in Options
  /\ bench.selected \in Selections(CasesIn(bench.args.splits), bench.args.limit)
  /\ bench.todo \subseteq bench.selected
  /\ bench.pc = "treat" =>
       bench.case \in bench.selected \ bench.todo /\ bench.turn \in DOMAIN systems
  /\ bench.pc = "done" => bench.todo = {}
  /\ \A r \in rows : r.case \in bench.selected
  /\ \A i \in bench.selected, n \in DOMAIN systems :
       IF n \in Due(i) THEN RowsOf(i, n) = {}
       ELSE \E r \in rows : RowsOf(i, n) = {r} /\ r.system = systems[n]

Tried == {i \in DOMAIN dataset : \E g \in Runs : verdict[<<g, i>>] # NoVerdict}

CausesOf(i) == dataset[i].plan.causes

(* A finished benchmark has scored cases of the splits it was asked for,   *)
(* all of them or as many as its limit, and has one row of each of the     *)
(* systems it was asked for, in their turn, for each: what died half-way   *)
(* is never scored, and of a whole run nothing is passed over.             *)
ScoresAreWhole ==
  bench.pc = "done" =>
    LET cases == CasesIn(bench.args.splits)
        limit == bench.args.limit
    IN  /\ Scored \subseteq cases
        /\ IF limit = 0 \/ limit >= Cardinality(cases)
           THEN Scored = cases
           ELSE Cardinality(Scored) = limit
        /\ \A i \in Scored, n \in DOMAIN bench.args.systems :
             \E r \in rows : RowsOf(i, n) = {r} /\ r.system = bench.args.systems[n]
        /\ \A i \in Scored : verdict[<<bench.run, i>>] # NoVerdict

(* Variables of their types, what the generators and the benchmark rely    *)
(* on, and whole scores.                                                   *)
BenchmarkInv ==
  /\ TypeOK /\ DatasetIsPlanned /\ OnlyDoneAreCompleted
  /\ \A g \in Runs : IsInOrder(g)
  /\ bench.pc = "idle" => bench = NoBenchmark /\ rows = {}
  /\ bench.pc # "idle" => IsTreating
  /\ ScoresAreWhole

(* A case of one defect that cannot be proved - a variance of two           *)
(* explanations, a refund after its window, an adjustment that matches       *)
(* exactly and comes a month too late - is resolved by no system, whatever   *)
(* its loop proposes.  But a variance that rounding can pass for is taken    *)
(* for it, where no adjustment is impossible.                                *)
TrapsHold ==
  \A r \in rows :
    r.outcome = "UNSUPPORTED_RESOLVE" /\ Cardinality(CausesOf(r.case)) = 1 =>
      /\ ~dataset[r.case].plan.adversarial
      /\ VarianceOf(dataset[r.case].draw) <= ROUNDING_TOLERANCE_ABSOLUTE_CAP_MINOR

(* The baseline never resolves what cannot be resolved.                    *)
BaselineIsSafe ==
  \A r \in rows : r.system = "A" => r.outcome # "UNSUPPORTED_RESOLVE"

(* Every case is left to investigate, whatever routine adjustments and fee *)
(* parts come with it, but for a missing fee where none is due.            *)
DefectsShow ==
  \A g \in Runs, i \in DOMAIN dataset : verdict[<<g, i>>] # NoVerdict =>
    (verdict[<<g, i>>] = "RECONCILED"
       <=> CausesOf(i) = {"MDR_FEE"} /\ dataset[i].draw.method = "UPI")

(* A case of one cause that counts as resolvable can be resolved: the      *)
(* verifier accepts its true cause.                                        *)
ProvableAlone ==
  \A i \in Tried : Cardinality(CausesOf(i)) = 1 /\ TruthOf(i) = "RESOLVE" =>
    \A cause \in CausesOf(i) : Verified(cause, UnitOfCase(i)).effective = "RESOLVE"

(* What counts as a new combination is one of causes that development had  *)
(* each alone, and never together.                                         *)
NoveltyIsCombination ==
  \A i \in DOMAIN dataset :
    dataset[i].stratum \in {"NOVEL_COMBINATION", "COMPOUND_UNSEEN"} =>
      /\ \A cause \in CausesOf(i) : {cause} \in Tuples(development)
      /\ CausesOf(i) \notin Tuples(development)
==============================================================================
