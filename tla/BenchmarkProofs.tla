---------------------------- MODULE BenchmarkProofs ----------------------------
(***************************************************************************)
(* The benchmark for every plan, every draw of its generator and every way *)
(* its generators die, and the scenarios for every set of keys and seeds.  *)
(*                                                                         *)
(* The benchmark keeps BenchmarkInv: a report is over whole scores, and    *)
(* what is filed as a new combination is one.  And its cases are what      *)
(* their hidden truth says: from the records of a case follow the rows of  *)
(* its unit, from them its variance and the other checks, from these the   *)
(* reasons of the matcher and the findings of the verifier, and from them  *)
(* what the systems can make of it.                                        *)
(*                                                                         *)
(* The scenarios go the same way in one store for all: an instance that    *)
(* has its seed to itself finds the rows of its scenario and no others     *)
(* there.  ScenarioWhole is what the instances keep.                       *)
(***************************************************************************)
EXTENDS Benchmark, ScenarioEngine, FiniteSetTheorems, WellFoundedInduction, TLAPS

----------------------------------------------------------------------------
(* What a system answers.                                                  *)

LEMMA EffectiveIsDisposition ==
  ASSUME NEW proposal, NEW unit, proposal.disposition \in DISPOSITIONS
  PROVE  Effective(proposal, unit) \in DISPOSITIONS
BY DEF Effective, DISPOSITIONS

LEMMA VerifiedIsDisposition ==
  ASSUME NEW cause, NEW unit
  PROVE  Verified(cause, unit).effective \in DISPOSITIONS
<1>1. Resolution(cause, unit).disposition \in DISPOSITIONS
  BY DEF Resolution, Proposal, DISPOSITIONS
<1>2. Effective(Resolution(cause, unit), unit) \in DISPOSITIONS
  BY <1>1, EffectiveIsDisposition
<1> QED
  BY <1>2 DEF Verified, Outcome

(* Every system answers with one of the dispositions.                      *)
LEMMA OutcomesAreDispositions ==
  ASSUME NEW system \in Systems, NEW unit, NEW reasons,
         NEW outcome \in OutcomesOf(system, unit, reasons)
  PROVE  outcome.effective \in DISPOSITIONS
<1>1. /\ Escalated.effective \in DISPOSITIONS
      /\ Outcome(NoCause, "RESOLVE").effective \in DISPOSITIONS
  BY DEF Escalated, Outcome, DISPOSITIONS
<1>2. CASE system = "A"
  <2>1. outcome = RunSystemA(unit, reasons)
    BY <1>2 DEF OutcomesOf
  <2>2. \/ outcome = Outcome(NoCause, "RESOLVE")
        \/ \E cause : outcome = Verified(cause, unit)
        \/ outcome = Escalated
    BY <2>1 DEF RunSystemA
  <2> QED
    BY <1>1, <2>2, VerifiedIsDisposition
<1>3. CASE system = "B"
  <2>1. outcome = RunSystemB(unit, reasons)
    BY <1>3 DEF OutcomesOf
  <2> QED
    BY <1>1, <2>1, VerifiedIsDisposition DEF RunSystemB
<1>4. CASE system = "C"
  <2>1. outcome \in RunSystemC(unit)
    BY <1>4 DEF OutcomesOf
  <2>2. CASE outcome = Escalated
    BY <1>1, <2>2
  <2>3. CASE outcome # Escalated
    <3>1. PICK cause \in CauseCode, disposition \in DISPOSITIONS,
               evidence \in {{}, RecordIds(unit)} :
            outcome = Outcome(cause, Effective(Proposal(cause, disposition, evidence), unit))
      BY <2>1, <2>3 DEF RunSystemC
    <3>2. Effective(Proposal(cause, disposition, evidence), unit) \in DISPOSITIONS
      BY EffectiveIsDisposition DEF Proposal
    <3> QED
      BY <3>1, <3>2 DEF Outcome
  <2> QED
    BY <2>2, <2>3
<1> QED
  BY <1>2, <1>3, <1>4 DEF Systems

----------------------------------------------------------------------------
(* The cases that are planned.                                             *)

LEMMA TargetsAreSeq ==
  /\ Len(Targets) \in Nat /\ Indices = 1..Len(Targets)
BY BenchmarkAssumption DEF Indices

LEMMA DatasetGrows ==
  ASSUME BenchmarkInv, GenerateCase
  PROVE  /\ Len(dataset) \in Nat /\ Len(dataset') = Len(dataset) + 1
         /\ Len(dataset') <= Len(Targets)
         /\ dataset' \in Seq({dataset'[i] : i \in DOMAIN dataset'})
         /\ DOMAIN dataset' = 1..Len(dataset')
         /\ \A i \in DOMAIN dataset : i \in DOMAIN dataset' /\ dataset'[i] = dataset[i]
         /\ \A i \in DOMAIN dataset' \ DOMAIN dataset : dataset'[i] \in LaterCases(i)
<1>1. PICK S, case : /\ dataset \in Seq(S) /\ Len(dataset) < Len(Targets)
                     /\ case \in LaterCases(Len(dataset) + 1)
                     /\ dataset' = Append(dataset, case)
  BY DEF BenchmarkInv, TypeOK, GenerateCase
<1>2. Len(dataset) \in Nat /\ dataset' \in Seq(S \cup {case})
  BY <1>1
<1>3. /\ Len(dataset') = Len(dataset) + 1
      /\ DOMAIN dataset = 1..Len(dataset) /\ DOMAIN dataset' = 1..Len(dataset')
      /\ \A i \in DOMAIN dataset : dataset'[i] = dataset[i]
      /\ dataset'[Len(dataset) + 1] = case
  BY <1>1, <1>2
<1>4. dataset' \in Seq({dataset'[i] : i \in DOMAIN dataset'})
  BY <1>2, <1>3
<1> QED
  BY <1>1, <1>2, <1>3, <1>4, TargetsAreSeq

LEMMA GenerateCaseKeeps ==
  ASSUME BenchmarkInv, GenerateCase
  PROVE  BenchmarkInv'
<1>1. UNCHANGED <<development, gen, imported, verdict, truth, completed, bench, rows>>
  BY DEF GenerateCase, stored
<1>2. /\ Len(dataset) \in Nat /\ Len(dataset') = Len(dataset) + 1
      /\ Len(dataset') <= Len(Targets)
      /\ dataset' \in Seq({dataset'[i] : i \in DOMAIN dataset'})
      /\ \A i \in DOMAIN dataset : i \in DOMAIN dataset' /\ dataset'[i] = dataset[i]
      /\ \A i \in DOMAIN dataset' \ DOMAIN dataset : dataset'[i] \in LaterCases(i)
  BY DatasetGrows
<1>3. Len(dataset) # Len(Targets)
  BY <1>2, TargetsAreSeq
<1>4. TypeOK'
  BY <1>1, <1>2 DEF BenchmarkInv, TypeOK
<1>5. DatasetIsPlanned'
  <2>1. \A i \in DOMAIN dataset' \ DOMAIN dataset : LET case == dataset'[i] IN
          \E t \in Targets[i] :
            /\ case.split = t.split
            /\ case.plan \in PlansForStratum(t.stratum, development)
            /\ case.draw \in Draws[i]
            /\ case.stratum =
                 ClassifyNovelty(case.plan, BucketOf(case.plan, case.draw), development)
    <3> SUFFICES ASSUME NEW i \in DOMAIN dataset' \ DOMAIN dataset,
                        NEW case, case = dataset'[i]
                 PROVE  \E t \in Targets[i] :
                          /\ case.split = t.split
                          /\ case.plan \in PlansForStratum(t.stratum, development)
                          /\ case.draw \in Draws[i]
                          /\ case.stratum = ClassifyNovelty(case.plan,
                               BucketOf(case.plan, case.draw), development)
      OBVIOUS
    <3>1. PICK t \in Targets[i] :
            case \in { [ split |-> t.split, plan |-> plan, draw |-> draw,
                         stratum |-> ClassifyNovelty(plan, BucketOf(plan, draw), development) ] :
                         plan \in PlansForStratum(t.stratum, development), draw \in Draws[i] }
      BY <1>2 DEF LaterCases
    <3>2. PICK plan \in PlansForStratum(t.stratum, development), draw \in Draws[i] :
            case = [ split |-> t.split, plan |-> plan, draw |-> draw,
                     stratum |-> ClassifyNovelty(plan, BucketOf(plan, draw), development) ]
      BY <3>1
    <3> QED
      BY <3>2
  <2> QED
    BY <1>1, <1>2, <2>1 DEF BenchmarkInv, DatasetIsPlanned
<1>6. \A g \in Runs : gen[g].pc = "idle"
  BY <1>3 DEF BenchmarkInv, IsInOrder
<1>7. bench.pc = "idle"
  BY <1>6 DEF BenchmarkInv, IsTreating
<1>8. \A g \in Runs : IsInOrder(g)'
  BY <1>1, <1>6 DEF BenchmarkInv, IsInOrder, Generated
<1> QED
  BY <1>1, <1>4, <1>5, <1>7, <1>8
  DEF BenchmarkInv, OnlyDoneAreCompleted, ScoresAreWhole

----------------------------------------------------------------------------
(* The generators.                                                         *)

(* What a generator relies on outlives the steps of others.                *)
LEMMA OthersKeep ==
  ASSUME NEW h \in Runs, IsInOrder(h), UNCHANGED dataset, gen'[h] = gen[h],
         imported \subseteq imported', truth \subseteq truth',
         \A i : verdict'[<<h, i>>] = verdict[<<h, i>>]
  PROVE  IsInOrder(h)'
BY DEF IsInOrder, Generated

(* A step of generator g, with no benchmark, keeps the invariant if it     *)
(* keeps the types and what concerns g.                                    *)
LEMMA GeneratorStepKeeps ==
  ASSUME BenchmarkInv, NEW g \in Runs, bench.pc = "idle",
         UNCHANGED <<development, dataset, bench, rows>>,
         \A h \in Runs \ {g} :
           gen'[h] = gen[h] /\ \A i : verdict'[<<h, i>>] = verdict[<<h, i>>],
         gen' \in [Runs -> [ pc : {"idle", "import", "reconcile", "truth", "done", "dead"},
                             next : Nat \ {0} ]],
         imported \subseteq imported', truth \subseteq truth',
         imported' \subseteq Runs \X Indices, truth' \subseteq Runs \X Indices,
         verdict' \in [Runs \X Indices -> {NoVerdict, "RECONCILED", "EXCEPTION"}],
         completed' \in Seq(Runs), OnlyDoneAreCompleted',
         IsInOrder(g)'
  PROVE  BenchmarkInv'
<1>1. TypeOK'
  BY DEF BenchmarkInv, TypeOK
<1>2. DatasetIsPlanned'
  BY DEF BenchmarkInv, DatasetIsPlanned
<1>3. \A h \in Runs : IsInOrder(h)'
  BY OthersKeep DEF BenchmarkInv
<1> QED
  BY <1>1, <1>2, <1>3 DEF BenchmarkInv, ScoresAreWhole

(* A generator that is not done is not among the completed.                *)
LEMMA CompletedStay ==
  ASSUME BenchmarkInv, NEW g \in Runs, gen[g].pc # "done",
         \A h \in Runs \ {g} : gen'[h] = gen[h], UNCHANGED completed
  PROVE  completed' \in Seq(Runs) /\ OnlyDoneAreCompleted'
<1>1. completed \in Seq(Runs) /\ \A n \in DOMAIN completed : gen[completed[n]].pc = "done"
  BY DEF BenchmarkInv, TypeOK, OnlyDoneAreCompleted
<1>2. \A n \in DOMAIN completed : completed[n] \in Runs \ {g}
  BY <1>1
<1> QED
  BY <1>1, <1>2 DEF OnlyDoneAreCompleted

(* What a step of a generator leaves alone.                                *)
LEMMA TablesStay ==
  ASSUME BenchmarkInv
  PROVE  /\ imported \subseteq Runs \X Indices /\ truth \subseteq Runs \X Indices
         /\ verdict \in [Runs \X Indices -> {NoVerdict, "RECONCILED", "EXCEPTION"}]
         /\ gen \in [Runs -> [ pc : {"idle", "import", "reconcile", "truth", "done", "dead"},
                               next : Nat \ {0} ]]
         /\ \A g \in Runs : IsInOrder(g)
BY DEF BenchmarkInv, TypeOK

LEMMA BeginGenerationKeeps ==
  ASSUME BenchmarkInv, NEW g \in Runs, BeginGeneration(g)
  PROVE  BenchmarkInv'
<1>1. /\ gen[g].pc = "idle" /\ bench.pc = "idle" /\ Len(dataset) = Len(Targets)
      /\ gen' = [gen EXCEPT ![g].pc = "import"]
      /\ UNCHANGED <<development, dataset, imported, verdict, truth, completed, bench, rows>>
  BY DEF BeginGeneration
<1>2. /\ gen' \in [Runs -> [ pc : {"idle", "import", "reconcile", "truth", "done", "dead"},
                             next : Nat \ {0} ]]
      /\ gen'[g].pc = "import" /\ gen'[g].next = gen[g].next
      /\ \A h \in Runs \ {g} : gen'[h] = gen[h]
  BY <1>1, TablesStay
<1>3. IsInOrder(g)'
  BY <1>1, <1>2, TablesStay DEF IsInOrder, Generated
<1> QED
  BY <1>1, <1>2, <1>3, TablesStay, CompletedStay, GeneratorStepKeeps

LEMMA ImportCaseKeeps ==
  ASSUME BenchmarkInv, NEW g \in Runs, ImportCase(g)
  PROVE  BenchmarkInv'
<1>1. /\ gen[g].pc = "import" /\ bench.pc = "idle" /\ gen[g].next \in Indices
      /\ imported' = imported \cup {<<g, gen[g].next>>}
      /\ gen' = [gen EXCEPT ![g].pc = "reconcile"]
      /\ UNCHANGED <<development, dataset, verdict, truth, completed, bench, rows>>
  BY DEF ImportCase, Running
<1>2. /\ gen' \in [Runs -> [ pc : {"idle", "import", "reconcile", "truth", "done", "dead"},
                             next : Nat \ {0} ]]
      /\ gen'[g].pc = "reconcile" /\ gen'[g].next = gen[g].next
      /\ \A h \in Runs \ {g} : gen'[h] = gen[h]
  BY <1>1, TablesStay
<1>3. IsInOrder(g)'
  BY <1>1, <1>2, TablesStay DEF IsInOrder, Generated
<1>4. imported' \subseteq Runs \X Indices
  BY <1>1, TablesStay
<1> QED
  BY <1>1, <1>2, <1>3, <1>4, TablesStay, CompletedStay, GeneratorStepKeeps

LEMMA ReconcileCaseKeeps ==
  ASSUME BenchmarkInv, NEW g \in Runs, ReconcileCase(g)
  PROVE  BenchmarkInv'
<1>1. /\ gen[g].pc = "reconcile" /\ bench.pc = "idle"
      /\ gen' = [gen EXCEPT ![g].pc = "truth"]
      /\ UNCHANGED <<development, dataset, imported, truth, completed, bench, rows>>
  BY DEF ReconcileCase, Running
<1>2. PICK v \in {"RECONCILED", "EXCEPTION"} :
        verdict' = [verdict EXCEPT ![<<g, gen[g].next>>] = v]
  BY DEF ReconcileCase
<1>3. IsInOrder(g) /\ gen[g].next \in Indices
  BY <1>1, TablesStay DEF IsInOrder
<1>4. /\ gen' \in [Runs -> [ pc : {"idle", "import", "reconcile", "truth", "done", "dead"},
                             next : Nat \ {0} ]]
      /\ gen'[g].pc = "truth" /\ gen'[g].next = gen[g].next
      /\ \A h \in Runs \ {g} : gen'[h] = gen[h]
  BY <1>1, TablesStay
<1>5. /\ verdict' \in [Runs \X Indices -> {NoVerdict, "RECONCILED", "EXCEPTION"}]
      /\ verdict'[<<g, gen[g].next>>] # NoVerdict
      /\ \A j \in Indices : verdict[<<g, j>>] # NoVerdict => verdict'[<<g, j>>] # NoVerdict
      /\ \A h \in Runs \ {g} : \A i : verdict'[<<h, i>>] = verdict[<<h, i>>]
  BY <1>2, <1>3, TablesStay DEF NoVerdict
<1>6. IsInOrder(g)'
  BY <1>1, <1>3, <1>4, <1>5 DEF IsInOrder, Generated
<1> QED
  BY <1>1, <1>4, <1>5, <1>6, TablesStay, CompletedStay, GeneratorStepKeeps

LEMMA RecordHiddenTruthKeeps ==
  ASSUME BenchmarkInv, NEW g \in Runs, RecordHiddenTruth(g)
  PROVE  BenchmarkInv'
<1>1. /\ gen[g].pc = "truth" /\ bench.pc = "idle"
      /\ truth' = truth \cup {<<g, gen[g].next>>}
      /\ gen' = [gen EXCEPT ![g] = [pc |-> "import", next |-> @.next + 1]]
      /\ UNCHANGED <<development, dataset, imported, verdict, completed, bench, rows>>
  BY DEF RecordHiddenTruth, Running
<1>2. IsInOrder(g) /\ gen[g].next \in Indices
  BY <1>1, TablesStay DEF IsInOrder
<1>3. /\ gen' \in [Runs -> [ pc : {"idle", "import", "reconcile", "truth", "done", "dead"},
                             next : Nat \ {0} ]]
      /\ gen'[g].pc = "import" /\ gen'[g].next = gen[g].next + 1
      /\ \A h \in Runs \ {g} : gen'[h] = gen[h]
  BY <1>1, TablesStay
<1>4. truth' \subseteq Runs \X Indices
  BY <1>1, <1>2, TablesStay
<1>5. IsInOrder(g)'
  <2>1. \A j \in Indices : j < gen[g].next + 1 => j < gen[g].next \/ j = gen[g].next
    BY TablesStay, TargetsAreSeq
  <2>2. PICK i : i = gen[g].next
    OBVIOUS
  <2>3. \A j \in Indices : j < i => Generated(g, j)'
    BY <1>1, <1>2, <2>2 DEF IsInOrder, Generated
  <2>4. Generated(g, i)'
    BY <1>1, <1>2, <2>2 DEF IsInOrder, Generated
  <2>5. \A j \in Indices : j < gen'[g].next => Generated(g, j)'
    BY <1>3, <2>1, <2>2, <2>3, <2>4
  <2> QED
    BY <1>1, <1>2, <1>3, <2>5 DEF IsInOrder
<1> QED
  BY <1>1, <1>3, <1>4, <1>5, TablesStay, CompletedStay, GeneratorStepKeeps

LEMMA CompleteGenerationKeeps ==
  ASSUME BenchmarkInv, NEW g \in Runs, CompleteGeneration(g)
  PROVE  BenchmarkInv'
<1>1. /\ gen[g].pc = "import" /\ bench.pc = "idle" /\ gen[g].next \notin Indices
      /\ completed' = Append(completed, g)
      /\ gen' = [gen EXCEPT ![g].pc = "done"]
      /\ UNCHANGED <<development, dataset, imported, verdict, truth, bench, rows>>
  BY DEF CompleteGeneration, Running
<1>2. /\ gen' \in [Runs -> [ pc : {"idle", "import", "reconcile", "truth", "done", "dead"},
                             next : Nat \ {0} ]]
      /\ gen'[g].pc = "done" /\ gen'[g].next = gen[g].next
      /\ \A h \in Runs \ {g} : gen'[h] = gen[h]
  BY <1>1, TablesStay
<1>3. completed' \in Seq(Runs) /\ OnlyDoneAreCompleted'
  <2>1. completed \in Seq(Runs) /\ \A n \in DOMAIN completed : gen[completed[n]].pc = "done"
    BY DEF BenchmarkInv, TypeOK, OnlyDoneAreCompleted
  <2>2. /\ completed' \in Seq(Runs)
        /\ \A n \in DOMAIN completed' :
             completed'[n] = g \/ (n \in DOMAIN completed /\ completed'[n] = completed[n])
    BY <1>1, <2>1
  <2>3. \A n \in DOMAIN completed : gen'[completed[n]].pc = "done"
    BY <1>2, <2>1
  <2> QED
    BY <1>2, <2>2, <2>3 DEF OnlyDoneAreCompleted
<1>4. IsInOrder(g)'
  BY <1>1, <1>2, TablesStay DEF IsInOrder, Generated
<1> QED
  BY <1>1, <1>2, <1>3, <1>4, TablesStay, GeneratorStepKeeps

LEMMA DieKeeps ==
  ASSUME BenchmarkInv, NEW g \in Runs, Die(g)
  PROVE  BenchmarkInv'
<1>1. /\ gen[g].pc \in {"import", "reconcile", "truth"} /\ bench.pc = "idle"
      /\ gen' = [gen EXCEPT ![g].pc = "dead"]
      /\ UNCHANGED <<development, dataset, imported, verdict, truth, completed, bench, rows>>
  BY DEF Die, Running
<1>2. /\ gen' \in [Runs -> [ pc : {"idle", "import", "reconcile", "truth", "done", "dead"},
                             next : Nat \ {0} ]]
      /\ gen'[g].pc = "dead" /\ gen'[g].next = gen[g].next
      /\ \A h \in Runs \ {g} : gen'[h] = gen[h]
  BY <1>1, TablesStay
<1>3. IsInOrder(g)'
  BY <1>1, <1>2, TablesStay DEF IsInOrder, Generated
<1> QED
  BY <1>1, <1>2, <1>3, TablesStay, CompletedStay, GeneratorStepKeeps

----------------------------------------------------------------------------
(* The benchmark.                                                          *)

(* A generator that is done has taken every case through all its steps.    *)
LEMMA DoneHasAll ==
  ASSUME BenchmarkInv, NEW g \in Runs, gen[g].pc = "done"
  PROVE  /\ Len(dataset) = Len(Targets) /\ \A i \in Indices : Generated(g, i)
<1>1. gen[g].next \in Nat \ {0} /\ gen[g].next \notin Indices /\ IsInOrder(g)
  BY TablesStay DEF IsInOrder
<1>2. \A i \in Indices : i < gen[g].next
  BY <1>1, TargetsAreSeq
<1> QED
  BY <1>1, <1>2 DEF IsInOrder

(* What a benchmark may be started with.                                   *)
LEMMA OptionTypes ==
  ASSUME NEW args \in Options
  PROVE  /\ args.systems \in Seq(Systems) /\ 1 \in DOMAIN args.systems
         /\ DOMAIN args.systems = 1..Len(args.systems) /\ Len(args.systems) \in Nat
<1>1. args.systems \in Seq(Systems) \ {<<>>}
  BY BenchmarkAssumption
<1>2. PICK systems \in Seq(Systems) : systems = args.systems /\ systems # <<>>
  BY <1>1
<1>3. DOMAIN systems = 1..Len(systems) /\ Len(systems) \in Nat /\ Len(systems) # 0
  BY <1>2
<1> QED
  BY <1>2, <1>3

(* A selection is of the cases, and of as many as it may be.               *)
LEMMA SelectionIs ==
  ASSUME NEW chosen, NEW limit, NEW selected \in Selections(chosen, limit)
  PROVE  /\ selected \subseteq chosen
         /\ IF limit = 0 \/ limit >= Cardinality(chosen)
            THEN selected = chosen
            ELSE Cardinality(selected) = limit
BY DEF Selections, kSubset

(* A step of the benchmark keeps the invariant if it keeps the types and   *)
(* goes on over what it selected.                                          *)
LEMMA BenchStepKeeps ==
  ASSUME BenchmarkInv, UNCHANGED <<development, dataset, stored>>,
         DOMAIN bench' = {"pc", "run", "args", "selected", "todo", "case", "turn"},
         bench'.pc \in {"next", "treat", "done"}, bench'.todo \subseteq Indices,
         \A r \in rows' : r.case \in Indices /\ r.effective \in DISPOSITIONS,
         IsTreating'
  PROVE  BenchmarkInv'
<1>1. UNCHANGED <<gen, imported, verdict, truth, completed>>
  BY DEF stored
<1>2. TypeOK' /\ DatasetIsPlanned' /\ OnlyDoneAreCompleted'
  BY <1>1 DEF BenchmarkInv, TypeOK, DatasetIsPlanned, OnlyDoneAreCompleted
<1>3. \A g \in Runs : IsInOrder(g)'
  BY <1>1, OthersKeep DEF BenchmarkInv
<1>4. ASSUME bench'.pc = "done"
      PROVE  ScoresAreWhole'
  <2>1. PICK scored, chosen, limit, systems, g :
          /\ scored = bench'.selected /\ chosen = CasesIn(bench.args.splits)'
          /\ limit = bench'.args.limit /\ systems = bench'.args.systems /\ g = bench'.run
    OBVIOUS
  <2>2. /\ g \in Runs /\ gen[g].pc = "done" /\ bench'.todo = {}
        /\ bench'.args \in Options
        /\ scored \in Selections(chosen, limit)
        /\ \A r \in rows' : r.case \in scored
        /\ \A i \in scored, n \in DOMAIN systems :
             IF n \in Due(i)' THEN RowsOf(i, n)' = {}
             ELSE \E r \in rows' : RowsOf(i, n)' = {r} /\ r.system = systems[n]
    BY <1>1, <1>4, <2>1 DEF IsTreating
  <2>3. \A i : Due(i)' = {}
    BY <1>4, <2>2 DEF Due
  <2>4. \A i \in scored, n \in DOMAIN systems :
          \E r \in rows' : RowsOf(i, n)' = {r} /\ r.system = systems[n]
    BY <2>2, <2>3
  <2>5. /\ scored \subseteq chosen
        /\ IF limit = 0 \/ limit >= Cardinality(chosen)
           THEN scored = chosen
           ELSE Cardinality(scored) = limit
    BY <2>2, SelectionIs
  <2>6. Scored' = scored
    <3>1. 1 \in DOMAIN systems
      BY <2>1, <2>2, OptionTypes
    <3>2. ASSUME NEW i \in scored
          PROVE  i \in Scored'
      <4>1. PICK r \in rows' : RowsOf(i, 1)' = {r}
        BY <2>4, <3>1
      <4> QED
        BY <4>1 DEF RowsOf, Scored
    <3> QED
      BY <2>2, <3>2 DEF Scored
  <2>7. \A i \in scored : verdict'[<<g, i>>] # NoVerdict
    BY <1>1, <2>1, <2>2, <2>5, DoneHasAll DEF Generated, CasesIn
  <2> QED
    BY <2>1, <2>4, <2>5, <2>6, <2>7 DEF ScoresAreWhole
<1>5. ScoresAreWhole'
  BY <1>4 DEF ScoresAreWhole
<1> QED
  BY <1>2, <1>3, <1>5 DEF BenchmarkInv

LEMMA BeginBenchmarkKeeps ==
  ASSUME BenchmarkInv, NEW args \in Options, NEW exploratory,
         BeginBenchmark(args, exploratory)
  PROVE  BenchmarkInv'
<1>1. PICK g \in LatestGeneratorRun :
        \E selected \in Selections({i \in Indices : /\ <<g, i>> \in truth
                                                    /\ dataset[i].split \in args.splits},
                                   args.limit) :
          /\ bench' = [ pc |-> "next", run |-> g, args |-> args, selected |-> selected,
                        todo |-> selected, case |-> 0, turn |-> 0 ]
          /\ bench.pc = "idle"
          /\ UNCHANGED <<development, dataset, stored, rows>>
  BY DEF BeginBenchmark
<1>2. UNCHANGED <<gen, truth>> /\ rows = {}
  BY <1>1 DEF stored, BenchmarkInv
<1>3. g \in Runs /\ gen[g].pc = "done"
  <2>1. completed \in Seq(Runs) /\ completed # <<>> /\ g = completed[Len(completed)]
    BY <1>1 DEF LatestGeneratorRun, BenchmarkInv, TypeOK
  <2>2. Len(completed) \in DOMAIN completed
    BY <2>1
  <2> QED
    BY <2>1, <2>2 DEF BenchmarkInv, OnlyDoneAreCompleted
<1>4. {i \in Indices : <<g, i>> \in truth /\ dataset[i].split \in args.splits}
        = CasesIn(args.splits)
  BY <1>3, DoneHasAll DEF Generated, CasesIn
<1>5. PICK selected \in Selections(CasesIn(args.splits), args.limit) :
        bench' = [ pc |-> "next", run |-> g, args |-> args, selected |-> selected,
                   todo |-> selected, case |-> 0, turn |-> 0 ]
  BY <1>1, <1>4
<1>6. /\ bench'.pc = "next" /\ bench'.run = g /\ bench'.args = args
      /\ bench'.selected = selected /\ bench'.todo = selected
      /\ DOMAIN bench' = {"pc", "run", "args", "selected", "todo", "case", "turn"}
  BY <1>5
<1>7. \A splits : CasesIn(splits)' = CasesIn(splits)
  BY <1>1 DEF CasesIn
<1>8. /\ \A i \in selected, n \in DOMAIN args.systems : n \in Due(i)'
      /\ \A i, n : RowsOf(i, n)' = {}
  BY <1>1, <1>2, <1>6 DEF Due, RowsOf
<1>9. IsTreating'
  BY <1>1, <1>2, <1>3, <1>6, <1>7, <1>8 DEF IsTreating
<1>10. selected \subseteq Indices
  BY SelectionIs DEF CasesIn
<1> QED
  BY <1>1, <1>2, <1>6, <1>9, <1>10, BenchStepKeeps

(* What the benchmark relies on when it goes on.                           *)
LEMMA TreatingFacts ==
  ASSUME BenchmarkInv, bench.pc # "idle"
  PROVE  /\ IsTreating
         /\ bench.run \in Runs /\ gen[bench.run].pc = "done" /\ bench.args \in Options
         /\ bench.selected \in Selections(CasesIn(bench.args.splits), bench.args.limit)
         /\ bench.selected \subseteq Indices /\ bench.todo \subseteq bench.selected
         /\ \A r \in rows : r.case \in bench.selected
         /\ \A i \in bench.selected, n \in DOMAIN bench.args.systems :
              IF n \in Due(i) THEN RowsOf(i, n) = {}
              ELSE \E r \in rows : RowsOf(i, n) = {r} /\ r.system = bench.args.systems[n]
<1>1. IsTreating
  BY DEF BenchmarkInv
<1>2. bench.selected \subseteq Indices
  BY <1>1, SelectionIs DEF IsTreating, CasesIn
<1> QED
  BY <1>1, <1>2 DEF IsTreating

LEMMA NextCaseKeeps ==
  ASSUME BenchmarkInv, NextCase
  PROVE  BenchmarkInv'
<1>1. PICK old, i :
        /\ i \in bench.todo
        /\ old = bench
        /\ bench' = [old EXCEPT !.todo = @ \ {i}, !.case = i, !.turn = 1,
                       !.pc = IF <<bench.run, i>> \in imported THEN "treat" ELSE "next"]
        /\ bench.pc = "next"
        /\ UNCHANGED <<development, dataset, stored, rows>>
  BY DEF NextCase
<1>2. /\ bench.run \in Runs /\ gen[bench.run].pc = "done" /\ bench.args \in Options
      /\ bench.selected \in Selections(CasesIn(bench.args.splits), bench.args.limit)
      /\ bench.selected \subseteq Indices /\ bench.todo \subseteq bench.selected
      /\ \A r \in rows : r.case \in bench.selected
      /\ \A j \in bench.selected, n \in DOMAIN bench.args.systems :
           IF n \in Due(j) THEN RowsOf(j, n) = {}
           ELSE \E r \in rows : RowsOf(j, n) = {r} /\ r.system = bench.args.systems[n]
  BY <1>1, TreatingFacts
<1>3. <<bench.run, i>> \in imported
  BY <1>1, <1>2, DoneHasAll DEF Generated
<1>4. /\ bench'.pc = "treat" /\ bench'.run = bench.run /\ bench'.args = bench.args
      /\ bench'.selected = bench.selected /\ bench'.case = i
      /\ bench'.todo = bench.todo \ {i} /\ bench'.turn = 1
      /\ DOMAIN bench' = {"pc", "run", "args", "selected", "todo", "case", "turn"}
  <2>1. DOMAIN old = {"pc", "run", "args", "selected", "todo", "case", "turn"}
    BY <1>1 DEF BenchmarkInv, TypeOK
  <2> QED
    BY <1>1, <1>3, <2>1
<1>5. UNCHANGED <<gen, rows>> /\ \A splits : CasesIn(splits)' = CasesIn(splits)
  BY <1>1 DEF CasesIn, stored
<1>6. /\ DOMAIN bench.args.systems = 1..Len(bench.args.systems)
      /\ Len(bench.args.systems) \in Nat /\ 1 \in DOMAIN bench.args.systems
  BY <1>2, OptionTypes
<1>7. \A j : Due(j)' = Due(j)
  BY <1>1, <1>4, <1>6 DEF Due
<1>8. \A j, n : RowsOf(j, n)' = RowsOf(j, n)
  BY <1>5 DEF RowsOf
<1>9. IsTreating'
  BY <1>1, <1>2, <1>4, <1>5, <1>6, <1>7, <1>8 DEF IsTreating
<1>10. \A r \in rows' : r.case \in Indices /\ r.effective \in DISPOSITIONS
  BY <1>5 DEF BenchmarkInv, TypeOK
<1> QED
  BY <1>1, <1>2, <1>4, <1>9, <1>10, BenchStepKeeps

LEMMA TreatKeeps ==
  ASSUME BenchmarkInv, Treat
  PROVE  BenchmarkInv'
<1>1. PICK i, turn, systems :
        i = bench.case /\ turn = bench.turn /\ systems = bench.args.systems
  OBVIOUS
<1>2. bench.pc = "treat" /\ UNCHANGED <<development, dataset, stored>>
  BY DEF Treat
<1>3. /\ bench.run \in Runs /\ gen[bench.run].pc = "done" /\ bench.args \in Options
      /\ bench.selected \in Selections(CasesIn(bench.args.splits), bench.args.limit)
      /\ bench.selected \subseteq Indices /\ bench.todo \subseteq bench.selected
      /\ \A r \in rows : r.case \in bench.selected
      /\ \A j \in bench.selected, n \in DOMAIN systems :
           IF n \in Due(j) THEN RowsOf(j, n) = {}
           ELSE \E r \in rows : RowsOf(j, n) = {r} /\ r.system = systems[n]
  BY <1>1, <1>2, TreatingFacts
<1>4. i \in bench.selected \ bench.todo /\ turn \in DOMAIN systems
  BY <1>1, <1>2, TreatingFacts DEF IsTreating
<1>5. /\ systems \in Seq(Systems) /\ systems[turn] \in Systems
      /\ DOMAIN systems = 1..Len(systems) /\ Len(systems) \in Nat
  BY <1>1, <1>3, <1>4, OptionTypes
<1>6. PICK row :
        /\ rows' = rows \cup {row} /\ row.system = systems[turn] /\ row.turn = turn
        /\ row.case = i /\ row.effective \in DISPOSITIONS
  <2>1. PICK system \in Systems : system = systems[turn]
    BY <1>5
  <2>2. PICK reasons : \E outcome \in OutcomesOf(system, UnitOfCase(i), reasons) :
          rows' = rows \cup {Row(system, turn, i, outcome)}
    BY <1>1, <2>1 DEF Treat
  <2>3. PICK outcome \in OutcomesOf(system, UnitOfCase(i), reasons) :
          rows' = rows \cup {Row(system, turn, i, outcome)}
    BY <2>2
  <2>4. outcome.effective \in DISPOSITIONS
    BY OutcomesAreDispositions
  <2>5. /\ Row(system, turn, i, outcome).system = system
        /\ Row(system, turn, i, outcome).turn = turn
        /\ Row(system, turn, i, outcome).case = i
        /\ Row(system, turn, i, outcome).effective = outcome.effective
    BY DEF Row
  <2> QED
    BY <2>1, <2>3, <2>4, <2>5
<1>7. /\ bench'.pc = (IF turn = Len(systems) THEN "next" ELSE "treat")
      /\ bench'.run = bench.run /\ bench'.args = bench.args
      /\ bench'.selected = bench.selected
      /\ bench'.case = i /\ bench'.todo = bench.todo /\ bench'.turn = turn + 1
      /\ DOMAIN bench' = {"pc", "run", "args", "selected", "todo", "case", "turn"}
  <2>1. PICK old :
          /\ old = bench /\ old.pc = "treat"
          /\ bench' = [old EXCEPT !.turn = @ + 1,
                         !.pc = IF turn = Len(systems) THEN "next" ELSE @]
    BY <1>1, <1>2 DEF Treat
  <2>2. DOMAIN old = {"pc", "run", "args", "selected", "todo", "case", "turn"}
    BY <2>1 DEF BenchmarkInv, TypeOK
  <2> QED
    BY <1>1, <2>1, <2>2
<1>8. UNCHANGED gen /\ \A splits : CasesIn(splits)' = CasesIn(splits)
  BY <1>2 DEF CasesIn, stored
<1>9. /\ turn \in Due(i) /\ turn \notin Due(i)'
      /\ \A n \in DOMAIN systems \ {turn} : n \in Due(i)' <=> n \in Due(i)
      /\ \A j : j # i => Due(j)' = Due(j)
  <2>1. Due(i) = {n \in DOMAIN systems : n >= turn}
    BY <1>1, <1>2, <1>4 DEF Due
  <2>2. Due(i)' = {n \in DOMAIN systems : turn # Len(systems) /\ n >= turn + 1}
    BY <1>1, <1>4, <1>7 DEF Due
  <2>3. \A j : j # i => Due(j)' = Due(j)
    BY <1>1, <1>7 DEF Due
  <2> QED
    BY <1>4, <1>5, <2>1, <2>2, <2>3
<1>10. /\ RowsOf(i, turn)' = RowsOf(i, turn) \cup {row}
       /\ \A j, n : j # i \/ n # turn => RowsOf(j, n)' = RowsOf(j, n)
  BY <1>6 DEF RowsOf
<1>11. ASSUME NEW j \in bench.selected, NEW n \in DOMAIN systems
       PROVE  IF n \in Due(j)' THEN RowsOf(j, n)' = {}
              ELSE \E r \in rows' : RowsOf(j, n)' = {r} /\ r.system = systems[n]
  <2>1. CASE j = i /\ n = turn
    <3>1. RowsOf(i, turn) = {}
      BY <1>3, <1>4, <1>9
    <3>2. RowsOf(i, turn)' = {row} /\ row \in rows' /\ row.system = systems[turn]
      BY <1>6, <1>10, <3>1
    <3> QED
      BY <1>9, <2>1, <3>2
  <2>2. CASE j # i \/ n # turn
    <3>1. RowsOf(j, n)' = RowsOf(j, n) /\ (n \in Due(j)' <=> n \in Due(j))
      BY <1>9, <1>10, <2>2
    <3> QED
      BY <1>3, <1>6, <3>1
  <2> QED
    BY <2>1, <2>2
<1>12. bench'.pc = "treat" => turn + 1 \in DOMAIN systems
  BY <1>4, <1>5, <1>7
<1>13. IsTreating'
  BY <1>1, <1>3, <1>4, <1>6, <1>7, <1>8, <1>11, <1>12 DEF IsTreating
<1>14. \A r \in rows' : r.case \in Indices /\ r.effective \in DISPOSITIONS
  BY <1>3, <1>4, <1>6 DEF BenchmarkInv, TypeOK
<1> QED
  BY <1>2, <1>3, <1>7, <1>13, <1>14, BenchStepKeeps

LEMMA ReportKeeps ==
  ASSUME BenchmarkInv, Report
  PROVE  BenchmarkInv'
<1>1. PICK old :
        /\ old = bench /\ old.pc = "next" /\ old.todo = {}
        /\ bench' = [old EXCEPT !.pc = "done"]
        /\ UNCHANGED <<development, dataset, stored, rows>>
  BY DEF Report
<1>2. IsTreating
  BY <1>1, TreatingFacts
<1>3. /\ bench'.pc = "done" /\ bench'.run = bench.run /\ bench'.args = bench.args
      /\ bench'.selected = bench.selected /\ bench'.todo = {}
      /\ DOMAIN bench' = {"pc", "run", "args", "selected", "todo", "case", "turn"}
  <2>1. DOMAIN old = {"pc", "run", "args", "selected", "todo", "case", "turn"}
    BY <1>1 DEF BenchmarkInv, TypeOK
  <2> QED
    BY <1>1, <2>1
<1>4. UNCHANGED <<gen, rows>> /\ \A splits : CasesIn(splits)' = CasesIn(splits)
  BY <1>1 DEF CasesIn, stored
<1>5. /\ \A j : Due(j)' = Due(j)
      /\ \A j, n : RowsOf(j, n)' = RowsOf(j, n)
  BY <1>1, <1>3, <1>4 DEF Due, RowsOf
<1>6. IsTreating'
  BY <1>2, <1>3, <1>4, <1>5 DEF IsTreating
<1>7. \A r \in rows' : r.case \in Indices /\ r.effective \in DISPOSITIONS
  BY <1>4 DEF BenchmarkInv, TypeOK
<1> QED
  BY <1>1, <1>3, <1>6, <1>7, BenchStepKeeps

----------------------------------------------------------------------------
(* A report is over whole scores.                                          *)

LEMMA InitHolds == Init => BenchmarkInv
<1> SUFFICES ASSUME Init PROVE BenchmarkInv
  OBVIOUS
<1>1. /\ NoBenchmark.pc = "idle" /\ NoBenchmark.todo = {}
      /\ DOMAIN NoBenchmark = {"pc", "run", "args", "selected", "todo", "case", "turn"}
  BY DEF NoBenchmark
<1>2. dataset = <<>> /\ Len(dataset) = 0 /\ DOMAIN dataset = {}
  BY DEF Init
<1>3. TypeOK
  BY <1>1, <1>2, TargetsAreSeq DEF Init, TypeOK
<1>4. \A g \in Runs : IsInOrder(g)
  <2>1. \A g \in Runs : gen[g].pc = "idle" /\ gen[g].next = 1
    BY DEF Init
  <2>2. \A j \in Indices : ~(j < 1)
    BY TargetsAreSeq
  <2> QED
    BY <2>1, <2>2 DEF IsInOrder
<1>5. DatasetIsPlanned /\ OnlyDoneAreCompleted
  BY <1>2 DEF Init, DatasetIsPlanned, OnlyDoneAreCompleted
<1>6. bench = NoBenchmark /\ rows = {}
  BY DEF Init
<1> QED
  BY <1>1, <1>3, <1>4, <1>5, <1>6 DEF BenchmarkInv, ScoresAreWhole

LEMMA StutterKeeps == BenchmarkInv /\ UNCHANGED vars => BenchmarkInv'
<1> SUFFICES ASSUME BenchmarkInv, UNCHANGED vars PROVE BenchmarkInv'
  OBVIOUS
<1>1. UNCHANGED <<development, dataset, gen, imported, verdict, truth, completed, bench, rows>>
  BY DEF vars, stored
<1>2. TypeOK' /\ DatasetIsPlanned' /\ OnlyDoneAreCompleted'
  BY <1>1 DEF BenchmarkInv, TypeOK, DatasetIsPlanned, OnlyDoneAreCompleted
<1>3. \A g \in Runs : IsInOrder(g)'
  BY <1>1, OthersKeep DEF BenchmarkInv
<1>4. /\ \A splits : CasesIn(splits)' = CasesIn(splits)
      /\ \A i : Due(i)' = Due(i)
      /\ \A i, n : RowsOf(i, n)' = RowsOf(i, n)
      /\ Scored' = Scored
  BY <1>1 DEF CasesIn, Due, RowsOf, Scored
<1>5. IsTreating => IsTreating'
  BY <1>1, <1>4 DEF IsTreating
<1>6. ScoresAreWhole'
  BY <1>1, <1>4 DEF BenchmarkInv, ScoresAreWhole
<1> QED
  BY <1>1, <1>2, <1>3, <1>5, <1>6 DEF BenchmarkInv

LEMMA NextKeeps == BenchmarkInv /\ [Next]_vars => BenchmarkInv'
<1> SUFFICES ASSUME BenchmarkInv, Next PROVE BenchmarkInv'
  BY StutterKeeps
<1>1. ASSUME NEW g \in Runs,
             \/ BeginGeneration(g) \/ ImportCase(g) \/ ReconcileCase(g)
             \/ RecordHiddenTruth(g) \/ CompleteGeneration(g) \/ Die(g)
      PROVE  BenchmarkInv'
  BY <1>1, BeginGenerationKeeps, ImportCaseKeeps, ReconcileCaseKeeps, RecordHiddenTruthKeeps,
     CompleteGenerationKeeps, DieKeeps
<1>2. ASSUME NEW args \in Options, NEW exploratory \in BOOLEAN,
             BeginBenchmark(args, exploratory)
      PROVE  BenchmarkInv'
  BY <1>2, BeginBenchmarkKeeps
<1> QED
  BY <1>1, <1>2, GenerateCaseKeeps, NextCaseKeeps, TreatKeeps, ReportKeeps DEF Next

(* A report of the benchmark is over every case of the splits it was asked *)
(* for in a completed generator run, or over as many as its limit, with    *)
(* one row of each of the systems it was asked for, in their order, for    *)
(* each; whatever was generated, whichever generators ran side by side and *)
(* died (latestGeneratorRun, runBenchmark).  What this relies on is        *)
(* inductive.                                                              *)
THEOREM ReportsAreWhole == Spec => []BenchmarkInv
BY InitHolds, NextKeeps, PTL DEF Spec

(* A case that classifyNovelty files as a new combination, or as one of    *)
(* three causes or more, is of causes that development had each alone and  *)
(* never together: the registry that planned it was adequate.              *)
THEOREM NoveltyIsNew == Spec => []NoveltyIsCombination
<1>1. BenchmarkInv => NoveltyIsCombination
  <2> SUFFICES ASSUME BenchmarkInv, NEW i \in DOMAIN dataset, NEW case, case = dataset[i],
                      case.stratum \in {"NOVEL_COMBINATION", "COMPOUND_UNSEEN"}
               PROVE  /\ \A cause \in case.plan.causes : {cause} \in Tuples(development)
                      /\ case.plan.causes \notin Tuples(development)
    BY DEF NoveltyIsCombination, CausesOf
  <2>1. PICK t \in Targets[i] :
          /\ case.plan \in PlansForStratum(t.stratum, development)
          /\ case.stratum =
               ClassifyNovelty(case.plan, BucketOf(case.plan, case.draw), development)
    BY DEF BenchmarkInv, DatasetIsPlanned
  <2>2. /\ ~case.plan.adversarial /\ ~Undecidable(case.plan)
        /\ case.plan.causes \notin Tuples(development)
    <3>1. PICK bucket : bucket = BucketOf(case.plan, case.draw)
      OBVIOUS
    <3> QED
      BY <2>1, <3>1 DEF ClassifyNovelty
  <2>3. case.plan.causes \subseteq SINGLE_CAUSES
    <3>1. Singles(development) = SINGLE_CAUSES
      BY DEF BenchmarkInv, DatasetIsPlanned, RegistryAdequate
    <3>2. CASE t.stratum = "ADVERSARIAL"
      BY <2>1, <2>2, <3>2 DEF PlansForStratum, Plan
    <3>3. CASE t.stratum = "AMBIGUOUS"
      BY <2>1, <2>2, <3>3 DEF PlansForStratum, Plan, Undecidable
    <3>4. CASE t.stratum = "COMPOUND_UNSEEN"
      BY <2>1, <3>4 DEF PlansForStratum, Plan, kSubset
    <3>5. CASE t.stratum = "NOVEL_COMBINATION"
      BY <2>1, <3>1, <3>5 DEF PlansForStratum, Plan, kSubset
    <3>6. CASE t.stratum \notin {"ADVERSARIAL", "AMBIGUOUS", "COMPOUND_UNSEEN",
                                 "NOVEL_COMBINATION"}
      BY <2>1, <2>2, <3>6 DEF PlansForStratum, Plan
    <3> QED
      BY <3>2, <3>3, <3>4, <3>5, <3>6
  <2>4. \A cause \in SINGLE_CAUSES : {cause} \in Tuples(development)
    BY DEF BenchmarkInv, DatasetIsPlanned, RegistryAdequate, Singles
  <2> QED
    BY <2>2, <2>3, <2>4
<1> QED
  BY <1>1, ReportsAreWhole, PTL

----------------------------------------------------------------------------
(* Sums over finite sets. Total folds a set, and a fold is defined by      *)
(* recursion on its subsets; what it computes follows from there being no  *)
(* smallest set for which it fails.                                        *)

(* The order of the naturals, which is well-founded.                       *)
LessThan == {ss \in Nat \X Nat : ss[1] < ss[2]}

(* A set of naturals that is not empty has a least member.                 *)
LEMMA LeastNat ==
  ASSUME NEW T \in SUBSET Nat, T # {}
  PROVE  \E n \in T : \A m \in T : n <= m
<1>1. IsWellFoundedOn(LessThan, Nat)
  BY NatLessThanWellFounded DEF OpToRel, LessThan
<1>2. PICK n \in T : \A m \in T : ~(<<m, n>> \in LessThan)
  BY <1>1, WFMin
<1>3. ASSUME NEW m \in T
      PROVE  n <= m
  <2>1. m \in Nat /\ n \in Nat
    OBVIOUS
  <2>2. ~(m < n)
    BY <1>2, <2>1 DEF LessThan
  <2> QED
    BY <2>1, <2>2
<1> QED
  BY <1>3

(* A property of finite sets that fails, fails first at some size.         *)
LEMMA SmallestSet ==
  ASSUME NEW C, \A s \in C : IsFiniteSet(s), C # {}
  PROVE  \E s \in C : \A t \in C : Cardinality(s) <= Cardinality(t)
<1>1. \A s \in C : Cardinality(s) \in Nat
  BY FS_CardinalityType
<1>2. PICK n \in {Cardinality(s) : s \in C} :
        \A m \in {Cardinality(s) : s \in C} : n <= m
  BY <1>1, LeastNat
<1> QED
  BY <1>2

(* The member that a fold over a set takes next.                           *)
Any(s) == CHOOSE x \in s : TRUE

(* g sums F over the subsets of S, as MapThenSumSet does.                  *)
Sums(g, F, S) ==
  g = [s \in SUBSET S |-> IF s = {} THEN 0 ELSE F[Any(s)] + g[s \ {Any(s)}]]

(* Without one of its members a finite set is smaller by one.              *)
LEMMA Removed ==
  ASSUME NEW S, IsFiniteSet(S), NEW s \in SUBSET S, NEW x \in s
  PROVE  /\ IsFiniteSet(s) /\ IsFiniteSet(s \ {x})
         /\ Cardinality(s) \in Nat \ {0}
         /\ Cardinality(s \ {x}) = Cardinality(s) - 1
         /\ s \ {x} \in SUBSET S
<1>1. IsFiniteSet(s)
  BY FS_Subset
<1>2. Cardinality(s) \in Nat /\ Cardinality(s) # 0
  BY <1>1, FS_CardinalityType, FS_EmptySet
<1> QED
  BY <1>1, <1>2, FS_RemoveElement

(* There is such a function: one for the subsets of each size.             *)
LEMMA SumsExist ==
  ASSUME NEW S, IsFiniteSet(S), NEW F
  PROVE  \E g : Sums(g, F, S)
<1> DEFINE Upto(n) == {s \in SUBSET S : Cardinality(s) <= n}
           IsPart(g, n) ==
             g = [s \in Upto(n) |-> IF s = {} THEN 0 ELSE F[Any(s)] + g[s \ {Any(s)}]]
           Bad == {n \in Nat : ~\E g : IsPart(g, n)}
<1>1. Bad = {}
  <2> SUFFICES ASSUME Bad # {} PROVE FALSE
    OBVIOUS
  <2>1. PICK n \in Bad : \A m \in Bad : n <= m
    BY LeastNat
  <2>2. n # 0
    <3>1. ASSUME n = 0 PROVE FALSE
      <4>1. Upto(0) = {{}}
        <5>1. \A s \in SUBSET S : Cardinality(s) <= 0 => s = {}
          BY FS_Subset, FS_CardinalityType, FS_EmptySet
        <5>2. {} \in Upto(0)
          BY FS_EmptySet
        <5>3. \A s \in Upto(0) : s = {}
          BY <5>1
        <5> HIDE DEF Upto
        <5> QED
          BY <5>2, <5>3
      <4>2. IsPart([s \in Upto(0) |-> 0], 0)
        BY <4>1
      <4> QED
        BY <2>1, <3>1, <4>2
    <3> QED
      BY <3>1
  <2>3. n - 1 \in Nat /\ n - 1 \notin Bad
    <3>1. n \in Nat \ {0} /\ ~(n <= n - 1)
      BY <2>2
    <3> HIDE DEF Bad
    <3> QED
      BY <2>1, <3>1
  <2>4. PICK g : IsPart(g, n - 1)
    BY <2>3
  <2> DEFINE h == [s \in Upto(n) |-> IF Cardinality(s) <= n - 1 THEN g[s]
                                     ELSE F[Any(s)] + g[s \ {Any(s)}]]
  <2>5. ASSUME NEW s \in Upto(n)
        PROVE  h[s] = IF s = {} THEN 0 ELSE F[Any(s)] + h[s \ {Any(s)}]
    <3>1. CASE s = {}
      <4>1. s \in Upto(n - 1)
        BY <2>3, <3>1, FS_EmptySet
      <4> QED
        BY <2>4, <3>1, <4>1
    <3>2. CASE s # {}
      <4>1. Any(s) \in s
        BY <3>2 DEF Any
      <4>2. /\ Cardinality(s) \in Nat \ {0}
            /\ Cardinality(s \ {Any(s)}) = Cardinality(s) - 1
            /\ s \ {Any(s)} \in SUBSET S
        BY <4>1, Removed
      <4>3. s \ {Any(s)} \in Upto(n - 1) /\ s \ {Any(s)} \in Upto(n)
        BY <2>3, <4>2
      <4>4. h[s \ {Any(s)}] = g[s \ {Any(s)}]
        BY <4>3
      <4>5. h[s] = F[Any(s)] + g[s \ {Any(s)}]
        <5>1. CASE Cardinality(s) <= n - 1
          BY <2>4, <3>2, <5>1
        <5>2. CASE ~(Cardinality(s) <= n - 1)
          BY <5>2
        <5> QED
          BY <5>1, <5>2
      <4> QED
        BY <3>2, <4>4, <4>5
    <3> QED
      BY <3>1, <3>2
  <2>6. IsPart(h, n)
    BY <2>5
  <2> QED
    BY <2>1, <2>6
<1>2. Cardinality(S) \in Nat
  BY FS_CardinalityType
<1>3. PICK g : IsPart(g, Cardinality(S))
  BY <1>1, <1>2
<1>4. Upto(Cardinality(S)) = SUBSET S
  BY FS_Subset
<1>5. Sums(g, F, S)
  BY <1>3, <1>4 DEF Sums
<1> QED
  BY <1>5

(* Sums of integers are integers.                                          *)
LEMMA SumsAreInts ==
  ASSUME NEW S, IsFiniteSet(S), NEW F, \A x \in S : F[x] \in Int, NEW g, Sums(g, F, S)
  PROVE  \A s \in SUBSET S : g[s] \in Int
<1> DEFINE Bad == {s \in SUBSET S : g[s] \notin Int}
<1> SUFFICES ASSUME Bad # {} PROVE FALSE
  OBVIOUS
<1>1. PICK s \in Bad : \A t \in Bad : Cardinality(s) <= Cardinality(t)
  <2>1. \A t \in Bad : IsFiniteSet(t)
    BY FS_Subset
  <2> HIDE DEF Bad
  <2> QED
    BY <2>1, SmallestSet
<1>2. CASE s = {}
  BY <1>1, <1>2 DEF Sums
<1>3. CASE s # {}
  <2>1. Any(s) \in s
    BY <1>3 DEF Any
  <2>2. /\ Cardinality(s) \in Nat \ {0}
        /\ Cardinality(s \ {Any(s)}) = Cardinality(s) - 1
        /\ s \ {Any(s)} \in SUBSET S
    BY <2>1, Removed
  <2>3. g[s \ {Any(s)}] \in Int
    BY <1>1, <2>2
  <2>4. g[s] = F[Any(s)] + g[s \ {Any(s)}]
    BY <1>3 DEF Sums
  <2> QED
    BY <2>1, <2>3, <2>4
<1> QED
  BY <1>2, <1>3

(* The sum over a set does not depend on the set it is taken as a part of. *)
LEMMA SumsAgree ==
  ASSUME NEW S, IsFiniteSet(S), NEW R \in SUBSET S, NEW F, NEW G, \A x \in R : F[x] = G[x],
         NEW g, Sums(g, F, S), NEW h, Sums(h, G, R)
  PROVE  \A s \in SUBSET R : g[s] = h[s]
<1> DEFINE Bad == {s \in SUBSET R : g[s] # h[s]}
<1> SUFFICES ASSUME Bad # {} PROVE FALSE
  OBVIOUS
<1>0. IsFiniteSet(R)
  BY FS_Subset
<1>1. PICK s \in Bad : \A t \in Bad : Cardinality(s) <= Cardinality(t)
  <2>1. \A t \in Bad : IsFiniteSet(t)
    BY <1>0, FS_Subset
  <2> HIDE DEF Bad
  <2> QED
    BY <2>1, SmallestSet
<1>2. CASE s = {}
  BY <1>1, <1>2 DEF Sums
<1>3. CASE s # {}
  <2>1. Any(s) \in s
    BY <1>3 DEF Any
  <2>2. /\ Cardinality(s) \in Nat \ {0}
        /\ Cardinality(s \ {Any(s)}) = Cardinality(s) - 1
        /\ s \ {Any(s)} \in SUBSET R
    BY <1>0, <2>1, Removed
  <2>3. g[s \ {Any(s)}] = h[s \ {Any(s)}]
    BY <1>1, <2>2
  <2>4. g[s] = F[Any(s)] + g[s \ {Any(s)}] /\ h[s] = G[Any(s)] + h[s \ {Any(s)}]
    BY <1>3 DEF Sums
  <2> QED
    BY <1>1, <2>1, <2>3, <2>4
<1> QED
  BY <1>2, <1>3

(* Any element may be taken out first.                                     *)
LEMMA SumsTakeOut ==
  ASSUME NEW S, IsFiniteSet(S), NEW F, \A x \in S : F[x] \in Int, NEW g, Sums(g, F, S)
  PROVE  \A s \in SUBSET S : \A x \in s : g[s] = F[x] + g[s \ {x}]
<1> DEFINE Bad == {s \in SUBSET S : ~\A x \in s : g[s] = F[x] + g[s \ {x}]}
<1> SUFFICES ASSUME Bad # {} PROVE FALSE
  OBVIOUS
<1>1. PICK s \in Bad : \A t \in Bad : Cardinality(s) <= Cardinality(t)
  <2>1. \A t \in Bad : IsFiniteSet(t)
    BY FS_Subset
  <2> HIDE DEF Bad
  <2> QED
    BY <2>1, SmallestSet
<1>2. PICK x \in s : g[s] # F[x] + g[s \ {x}]
  BY <1>1
<1>3. Any(s) \in s
  BY <1>2 DEF Any
<1>4. g[s] = F[Any(s)] + g[s \ {Any(s)}]
  BY <1>2 DEF Sums
<1>5. Any(s) # x
  BY <1>2, <1>4
<1>6. /\ g[s \ {Any(s)}] = F[x] + g[(s \ {Any(s)}) \ {x}]
      /\ g[s \ {x}] = F[Any(s)] + g[(s \ {x}) \ {Any(s)}]
  <2>1. \A y \in s : s \ {y} \in SUBSET S /\ ~(Cardinality(s) <= Cardinality(s \ {y}))
    BY Removed
  <2>2. \A y \in s : s \ {y} \notin Bad
    BY <1>1, <2>1
  <2>3. x \in s \ {Any(s)} /\ Any(s) \in s \ {x}
    BY <1>3, <1>5
  <2> QED
    BY <1>3, <2>1, <2>2, <2>3
<1>7. (s \ {Any(s)}) \ {x} = (s \ {x}) \ {Any(s)}
  OBVIOUS
<1>8. g[(s \ {x}) \ {Any(s)}] \in Int
  BY SumsAreInts
<1>9. F[x] \in Int /\ F[Any(s)] \in Int
  BY <1>2, <1>3
<1>10. g[s] = F[x] + g[s \ {x}]
  <2>1. PICK k \in Int : k = g[(s \ {x}) \ {Any(s)}]
    BY <1>8
  <2>2. g[s \ {Any(s)}] = F[x] + k /\ g[s \ {x}] = F[Any(s)] + k
    BY <1>6, <1>7, <2>1
  <2>3. PICK a \in Int, b \in Int : a = F[x] /\ b = F[Any(s)]
    BY <1>9
  <2>4. g[s] = b + (a + k) /\ g[s \ {x}] = b + k
    BY <1>4, <2>2, <2>3
  <2>5. b + (a + k) = a + (b + k)
    OBVIOUS
  <2> QED
    BY <2>3, <2>4, <2>5
<1> QED
  BY <1>2, <1>10

----------------------------------------------------------------------------
(* Total is a sum, and so what is known of sums is known of it.            *)
LEMMA TotalIsSum ==
  ASSUME NEW S, IsFiniteSet(S)
  PROVE  \E g : Sums(g, [x \in S |-> x.amount], S) /\ Total(S) = g[S]
<1> DEFINE F == [x \in S |-> x.amount]
           Iterates(g) == g = [s \in SUBSET S |-> IF s = {} THEN 0
                                ELSE (Any(s)).amount + g[s \ {Any(s)}]]
<1>1. \A g : Sums(g, F, S) <=> Iterates(g)
  <2>1. \A s \in SUBSET S : s # {} => F[Any(s)] = (Any(s)).amount
    BY DEF Any
  <2> QED
    BY <2>1 DEF Sums
<1>2. \E g : Iterates(g)
  BY <1>1, SumsExist
<1>3. \E g : Iterates(g) /\ Total(S) = g[S]
  BY <1>2 DEF Total, MapThenSumSet, MapThenFoldSet, Any, AmountOf
<1> QED
  BY <1>1, <1>3

(* Nothing adds up to nothing.                                             *)
LEMMA TotalOfNone == Total({}) = 0
<1>1. IsFiniteSet({})
  BY FS_EmptySet
<1>2. PICK g : Sums(g, [x \in {} |-> x.amount], {}) /\ Total({}) = g[{}]
  BY <1>1, TotalIsSum
<1> QED
  BY <1>2 DEF Sums

(* Any member may be taken out of a total.                                 *)
LEMMA TotalTakesOut ==
  ASSUME NEW S, IsFiniteSet(S), \A y \in S : y.amount \in Int, NEW x \in S
  PROVE  /\ Total(S) \in Int
         /\ Total(S) = x.amount + Total(S \ {x})
<1> DEFINE F == [y \in S |-> y.amount]
           R == S \ {x}
           G == [y \in R |-> y.amount]
<1>1. PICK g : Sums(g, F, S) /\ Total(S) = g[S]
  BY TotalIsSum
<1>2. IsFiniteSet(R)
  BY FS_Subset
<1>3. PICK h : Sums(h, G, R) /\ Total(R) = h[R]
  BY <1>2, TotalIsSum
<1>4. \A y \in S : F[y] \in Int
  OBVIOUS
<1>5. \A y \in R : F[y] = G[y]
  OBVIOUS
<1>6. g[S] \in Int /\ g[S] = F[x] + g[R]
  <2> HIDE DEF F, R
  <2>1. g[S] \in Int
    BY <1>1, <1>4, SumsAreInts
  <2>2. g[S] = F[x] + g[S \ {x}]
    BY <1>1, <1>4, SumsTakeOut
  <2> QED
    BY <2>1, <2>2 DEF R
<1>7. g[R] = h[R]
  <2>1. R \in SUBSET S
    OBVIOUS
  <2> HIDE DEF F, R, G
  <2> QED
    BY <1>1, <1>3, <1>5, <2>1, SumsAgree
<1> QED
  BY <1>1, <1>3, <1>6, <1>7

(* The same of the adjustments, which come in pairs with the line they     *)
(* were selected through.                                                  *)
PairTotal(pairs) == MapThenSumSet(LAMBDA al : al[1].amount, pairs)

(* It is a sum, too.                                                       *)
LEMMA PairTotalIsSum ==
  ASSUME NEW S, IsFiniteSet(S)
  PROVE  \E g : Sums(g, [al \in S |-> al[1].amount], S) /\ PairTotal(S) = g[S]
<1> DEFINE F == [al \in S |-> al[1].amount]
           Iterates(g) == g = [s \in SUBSET S |-> IF s = {} THEN 0
                                ELSE (Any(s))[1].amount + g[s \ {Any(s)}]]
<1>1. \A g : Sums(g, F, S) <=> Iterates(g)
  <2>1. \A s \in SUBSET S : s # {} => F[Any(s)] = (Any(s))[1].amount
    BY DEF Any
  <2> QED
    BY <2>1 DEF Sums
<1>2. \E g : Iterates(g)
  BY <1>1, SumsExist
<1>3. \E g : Iterates(g) /\ PairTotal(S) = g[S]
  BY <1>2 DEF PairTotal, MapThenSumSet, MapThenFoldSet, Any
<1> QED
  BY <1>1, <1>3

(* Of none.                                                                *)
LEMMA PairTotalOfNone == PairTotal({}) = 0
<1>1. IsFiniteSet({})
  BY FS_EmptySet
<1>2. PICK g : Sums(g, [al \in {} |-> al[1].amount], {}) /\ PairTotal({}) = g[{}]
  BY <1>1, PairTotalIsSum
<1> QED
  BY <1>2 DEF Sums

(* And without one of them.                                                *)
LEMMA PairTotalTakesOut ==
  ASSUME NEW S, IsFiniteSet(S), \A y \in S : y[1].amount \in Int, NEW x \in S
  PROVE  /\ PairTotal(S) \in Int
         /\ PairTotal(S) = x[1].amount + PairTotal(S \ {x})
<1> DEFINE F == [y \in S |-> y[1].amount]
           R == S \ {x}
           G == [y \in R |-> y[1].amount]
<1>1. PICK g : Sums(g, F, S) /\ PairTotal(S) = g[S]
  BY PairTotalIsSum
<1>2. IsFiniteSet(R)
  BY FS_Subset
<1>3. PICK h : Sums(h, G, R) /\ PairTotal(R) = h[R]
  BY <1>2, PairTotalIsSum
<1>4. \A y \in S : F[y] \in Int
  OBVIOUS
<1>5. \A y \in R : F[y] = G[y]
  OBVIOUS
<1>6. g[S] \in Int /\ g[S] = F[x] + g[R]
  <2> HIDE DEF F, R
  <2>1. g[S] \in Int
    BY <1>1, <1>4, SumsAreInts
  <2>2. g[S] = F[x] + g[S \ {x}]
    BY <1>1, <1>4, SumsTakeOut
  <2> QED
    BY <2>1, <2>2 DEF R
<1>7. g[R] = h[R]
  <2>1. R \in SUBSET S
    OBVIOUS
  <2> HIDE DEF F, R, G
  <2> QED
    BY <1>1, <1>3, <1>5, <2>1, SumsAgree
<1> QED
  BY <1>1, <1>3, <1>6, <1>7

(* Of one, and of two.                                                     *)
LEMMA TotalOfOne ==
  ASSUME NEW x, x.amount \in Int
  PROVE  Total({x}) = x.amount
<1>1. IsFiniteSet({x}) /\ {x} \ {x} = {}
  BY FS_Singleton
<1> QED
  BY <1>1, TotalTakesOut, TotalOfNone

LEMMA TotalOfTwo ==
  ASSUME NEW x, NEW y, x # y, x.amount \in Int, y.amount \in Int
  PROVE  Total({x, y}) = x.amount + y.amount
<1>1. IsFiniteSet({x, y})
  <2>1. IsFiniteSet({x} \cup {y})
    BY FS_Singleton, FS_AddElement
  <2>2. {x} \cup {y} = {x, y}
    OBVIOUS
  <2> QED
    BY <2>1, <2>2
<1>2. {x, y} \ {x} = {y}
  OBVIOUS
<1>3. Total({x, y}) = x.amount + Total({x, y} \ {x})
  BY <1>1, TotalTakesOut
<1> QED
  BY <1>2, <1>3, TotalOfOne

----------------------------------------------------------------------------
(* The calendar of a settlement.                                           *)

(* A pair.                                                                 *)
LEMMA PairHasTwo ==
  ASSUME NEW S, NEW a, NEW b, a # b, S = {a, b}
  PROVE  Cardinality(S) = 2
<1>1. Cardinality({a}) = 1 /\ IsFiniteSet({a})
  BY FS_Singleton
<1>2. Cardinality({a} \cup {b}) = 1 + 1
  BY <1>1, FS_AddElement
<1>3. {a} \cup {b} = S
  OBVIOUS
<1> QED
  BY <1>2, <1>3

(* Two business days are within a week of any day.                         *)
LEMMA BusinessDayAfterIsLater ==
  ASSUME NEW day \in Int
  PROVE  BusinessDayAfter(day, 2) \in (day + 1)..(day + 7)
<1> DEFINE Week == (day + 1)..(day + 7)
           Between(d) == {e \in (day + 1)..d : IsBusinessDay(e)}
<1>1. \E a, b \in Week :
        /\ a < b /\ IsBusinessDay(a) /\ IsBusinessDay(b)
        /\ \A e \in (day + 1)..b : IsBusinessDay(e) => e \in {a, b}
  <2>1. PICK w \in 0..6 : w = (day + 4) % 7
    OBVIOUS
  <2>2. \A k \in 1..7 : IsBusinessDay(day + k) <=> (w + k) % 7 \notin {0, 6}
    BY <2>1 DEF IsBusinessDay
  <2>3. ASSUME NEW i \in 1..7, NEW j \in 1..7, i < j,
               (w + i) % 7 \notin {0, 6}, (w + j) % 7 \notin {0, 6},
               \A k \in 1..j : (w + k) % 7 \notin {0, 6} => k \in {i, j}
        PROVE  <1>1!:
    <3>1. ASSUME NEW e \in (day + 1)..(day + j), IsBusinessDay(e)
          PROVE  e \in {day + i, day + j}
      <4>1. e - day \in 1..j /\ e - day \in 1..7 /\ e = day + (e - day)
        OBVIOUS
      <4> QED
        BY <2>2, <2>3, <3>1, <4>1
    <3>2. day + i \in Week /\ day + j \in Week /\ day + i < day + j
      BY <2>3
    <3>3. IsBusinessDay(day + i) /\ IsBusinessDay(day + j)
      BY <2>2, <2>3
    <3> QED
      BY <3>1, <3>2, <3>3
  <2> QED
    BY <2>3
<1>2. \E d \in Week : IsBusinessDay(d) /\ Cardinality(Between(d)) = 2
  <2>1. PICK a \in Week, b \in Week :
          /\ a < b /\ IsBusinessDay(a) /\ IsBusinessDay(b)
          /\ \A e \in (day + 1)..b : IsBusinessDay(e) => e \in {a, b}
    BY <1>1
  <2>2. Between(b) = {a, b} /\ a # b
    BY <2>1
  <2> HIDE DEF Between
  <2> QED
    BY <2>1, <2>2, PairHasTwo
<1>3. BusinessDayAfter(day, 2) =
        CHOOSE d \in Week : IsBusinessDay(d) /\ Cardinality(Between(d)) = 2
  BY DEF BusinessDayAfter
<1> HIDE DEF Week, Between
<1>4. BusinessDayAfter(day, 2) \in Week
  BY <1>2, <1>3
<1> QED
  BY <1>4 DEF Week

LEMMA BusinessDayBeforeIsEarlier ==
  ASSUME NEW day \in Int
  PROVE  BusinessDayBefore(day, 2) \in (day - 7)..(day - 1)
<1> DEFINE Week == (day - 7)..(day - 1)
           Between(d) == {e \in d..(day - 1) : IsBusinessDay(e)}
<1>1. \E a, b \in Week :
        /\ a > b /\ IsBusinessDay(a) /\ IsBusinessDay(b)
        /\ \A e \in b..(day - 1) : IsBusinessDay(e) => e \in {a, b}
  <2>1. PICK w \in 0..6 : w = (day - 4) % 7
    OBVIOUS
  <2>2. \A k \in 1..7 : IsBusinessDay(day - k) <=> (w + 8 - k) % 7 \notin {0, 6}
    BY <2>1 DEF IsBusinessDay
  <2>3. ASSUME NEW i \in 1..7, NEW j \in 1..7, i < j,
               (w + 8 - i) % 7 \notin {0, 6}, (w + 8 - j) % 7 \notin {0, 6},
               \A k \in 1..j : (w + 8 - k) % 7 \notin {0, 6} => k \in {i, j}
        PROVE  <1>1!:
    <3>1. ASSUME NEW e \in (day - j)..(day - 1), IsBusinessDay(e)
          PROVE  e \in {day - i, day - j}
      <4>1. day - e \in 1..j /\ day - e \in 1..7 /\ e = day - (day - e)
        OBVIOUS
      <4> QED
        BY <2>2, <2>3, <3>1, <4>1
    <3>2. day - i \in Week /\ day - j \in Week /\ day - i > day - j
      BY <2>3
    <3>3. IsBusinessDay(day - i) /\ IsBusinessDay(day - j)
      BY <2>2, <2>3
    <3> QED
      BY <3>1, <3>2, <3>3
  <2> QED
    BY <2>3
<1>2. \E d \in Week : IsBusinessDay(d) /\ Cardinality(Between(d)) = 2
  <2>1. PICK a \in Week, b \in Week :
          /\ a > b /\ IsBusinessDay(a) /\ IsBusinessDay(b)
          /\ \A e \in b..(day - 1) : IsBusinessDay(e) => e \in {a, b}
    BY <1>1
  <2>2. Between(b) = {a, b} /\ a # b
    BY <2>1
  <2> HIDE DEF Between
  <2> QED
    BY <2>1, <2>2, PairHasTwo
<1>3. BusinessDayBefore(day, 2) =
        CHOOSE d \in Week : IsBusinessDay(d) /\ Cardinality(Between(d)) = 2
  BY DEF BusinessDayBefore
<1> HIDE DEF Week, Between
<1>4. BusinessDayBefore(day, 2) \in Week
  BY <1>2, <1>3
<1> QED
  BY <1>4 DEF Week

(* The date the cycle gives is a midnight.                                 *)
LEMMA ExpectedIsMidnight ==
  ASSUME NEW at \in Nat
  PROVE  \E day \in Int : ExpectedSettlementDate(at) = DAY * day
<1> DEFINE ist  == at + IST_OFFSET_MINUTES
           from == IF ist % DAY >= SETTLEMENT_CUTOFF_HOUR_IST * HOUR
                   THEN ist \div DAY + 1
                   ELSE ist \div DAY
<1>1. from \in Int
  BY DEF IST_OFFSET_MINUTES, DAY, HOUR
<1>2. ExpectedSettlementDate(at) = DAY * BusinessDayAfter(from, 2)
  BY DEF ExpectedSettlementDate, SETTLEMENT_CYCLE_BUSINESS_DAYS
<1> HIDE DEF from
<1>3. BusinessDayAfter(from, 2) \in Int
  BY <1>1, BusinessDayAfterIsLater
<1> QED
  BY <1>2, <1>3

(* Half a day before a settlement, and any time a day before it, but not   *)
(* after it, is in the window of the adjustments that can explain it.      *)
LEMMA JustBeforeExplains ==
  ASSUME NEW at \in Int, NEW settledAt \in Int, at <= settledAt, settledAt - at <= DAY
  PROVE  AdjustmentCanExplainSettlement(at, settledAt)
<1> DEFINE day == settledAt \div DAY
<1>1. day \in Int
  BY DEF DAY, HOUR
<1>2. BusinessDaysBefore(settledAt, 2) = settledAt - DAY * (day - BusinessDayBefore(day, 2))
  BY DEF BusinessDaysBefore
<1> HIDE DEF day
<1>3. PICK before \in (day - 7)..(day - 1) : before = BusinessDayBefore(day, 2)
  BY <1>1, BusinessDayBeforeIsEarlier
<1>4. BusinessDaysBefore(settledAt, 2) <= settledAt - DAY
  BY <1>1, <1>2, <1>3 DEF DAY, HOUR
<1>5. BusinessDaysBefore(settledAt, 2) \in Int /\ DAY \in Int
  BY <1>1, <1>2, <1>3 DEF DAY, HOUR
<1> QED
  BY <1>4, <1>5 DEF AdjustmentCanExplainSettlement, SETTLEMENT_CYCLE_BUSINESS_DAYS

----------------------------------------------------------------------------
(* The fee schedules, and what can be drawn.                               *)

(* A schedule is in force at any time of the period, the one ScheduleAt    *)
(* chooses.                                                                *)
LEMMA ScheduleIsInForce ==
  ASSUME NEW at \in Nat
  PROVE  /\ ScheduleAt(at) \in FEE_SCHEDULES
         /\ InForce(at) # {}
<1> DEFINE first  == CHOOSE s \in FEE_SCHEDULES : s.effectiveFrom = 0
           second == CHOOSE s \in FEE_SCHEDULES : s.effectiveFrom = 90 * DAY
<1>1. /\ first \in FEE_SCHEDULES /\ first.effectiveFrom = 0
      /\ second \in FEE_SCHEDULES /\ second.effectiveFrom = 90 * DAY
      /\ FEE_SCHEDULES = {first, second}
  BY DEF FEE_SCHEDULES, DAY, HOUR
<1> HIDE DEF first, second
<1>2. \E s \in InForce(at) : \A t \in InForce(at) : t.effectiveFrom <= s.effectiveFrom
  <2>1. CASE 90 * DAY <= at
    BY <1>1, <2>1 DEF InForce, DAY, HOUR
  <2>2. CASE ~(90 * DAY <= at)
    BY <1>1, <2>2 DEF InForce, DAY, HOUR
  <2> QED
    BY <2>1, <2>2
<1>3. ScheduleAt(at) \in InForce(at)
  BY <1>2 DEF ScheduleAt
<1> QED
  BY <1>3 DEF InForce

(* UPI is free; the others take something.                                 *)
LEMMA RatesAre ==
  ASSUME NEW at \in Nat, NEW method \in PaymentMethod
  PROVE  /\ ScheduleAt(at).feeRateBps[method] \in {0, 190, 200, 230, 250}
         /\ ScheduleAt(at).feeRateBps[method] = 0 <=> method = "UPI"
BY ScheduleIsInForce DEF FEE_SCHEDULES, PaymentMethod

(* A share in basis points is rounded half up, and is nothing only of less *)
(* than half.                                                              *)
LEMMA RoundedShare ==
  ASSUME NEW amount \in Nat, NEW bps \in Nat
  PROVE  /\ ApplyBasisPoints(amount, bps) \in Nat
         /\ amount * bps >= 10000 => ApplyBasisPoints(amount, bps) > 0
         /\ amount * bps = 0 => ApplyBasisPoints(amount, bps) = 0
<1>1. PICK product \in Nat : product = amount * bps
  OBVIOUS
<1>2. ApplyBasisPoints(amount, bps) =
        IF 2 * (product % 10000) >= 10000 THEN product \div 10000 + 1 ELSE product \div 10000
  BY <1>1 DEF ApplyBasisPoints, MulDivHalfUp, Magnitude
<1>3. /\ product \div 10000 \in Nat
      /\ product >= 10000 => product \div 10000 > 0
      /\ product = 0 => product \div 10000 = 0 /\ product % 10000 = 0
  OBVIOUS
<1> QED
  BY <1>1, <1>2, <1>3

(* What is drawn has the types of its fields.                              *)
LEMMA DrawnTypes ==
  ASSUME NEW draw \in Drawn
  PROVE  /\ draw.gross \in Nat /\ draw.gross >= 45000 /\ draw.gross \in AMOUNT_CHOICES
         /\ draw.capturedAt \in Nat /\ draw.method \in PaymentMethod
         /\ draw.variant \in 0..7 /\ draw.jitterDays \in 0..1
         /\ draw.varianceScaleBps \in 20..900
         /\ draw.routine \in Seq(Int) /\ Len(draw.routine) <= 3
         /\ \A i \in DOMAIN draw.routine : draw.routine[i] \in -900..900
         /\ draw.feeInParts \in BOOLEAN
<1> DEFINE Rates == -900..900
<1>1. /\ draw.gross \in AMOUNT_CHOICES
      /\ draw.capturedAt \in Nat /\ draw.method \in PaymentMethod
      /\ draw.variant \in 0..7 /\ draw.jitterDays \in 0..1
      /\ draw.varianceScaleBps \in 20..900
      /\ draw.feeInParts \in BOOLEAN
  BY SMT DEF Drawn
<1>2. draw.gross \in Nat /\ draw.gross >= 45000
  BY <1>1, SMT DEF AMOUNT_CHOICES
<1>3. /\ draw.routine \in Seq(Int) /\ Len(draw.routine) <= 3
      /\ \A i \in DOMAIN draw.routine : draw.routine[i] \in Rates
  <2>1. draw.routine \in Seq(Rates) /\ Len(draw.routine) <= 3
    BY SMT DEF Drawn
  <2>2. Rates \subseteq Int
    OBVIOUS
  <2> HIDE DEF Rates
  <2>3. PICK rates \in Seq(Rates) : rates = draw.routine
    BY <2>1, Zenon
  <2>4. rates \in Seq(Int) /\ \A i \in DOMAIN rates : rates[i] \in Rates
    <3>1. /\ Len(rates) \in Nat /\ DOMAIN rates = 1..Len(rates)
          /\ rates \in [1..Len(rates) -> Rates]
      OBVIOUS
    <3>2. rates \in [1..Len(rates) -> Int]
      BY <2>2, <3>1
    <3> QED
      BY <3>1, <3>2
  <2> QED
    BY <2>1, <2>3, <2>4, Zenon
<1> QED
  BY <1>1, <1>2, <1>3, SMT

(* A rate that is not zero takes something of any amount that can be       *)
(* drawn.                                                                  *)
LEMMA RateTakes ==
  ASSUME NEW gross \in Nat, gross >= 45000, NEW rate \in {0, 190, 200, 230, 250}
  PROVE  /\ ApplyBasisPoints(gross, rate) \in Nat
         /\ rate # 0 => ApplyBasisPoints(gross, rate) > 0
         /\ rate = 0 => ApplyBasisPoints(gross, rate) = 0
<1>1. CASE rate = 0
  <2>1. gross * 0 = 0 /\ 0 \in Nat
    BY <1>1
  <2> QED
    BY <1>1, <2>1, RoundedShare
<1>2. CASE rate = 190
  <2>1. gross * 190 >= 10000 /\ 190 \in Nat
    BY <1>2
  <2> QED
    BY <1>2, <2>1, RoundedShare
<1>3. CASE rate = 200
  <2>1. gross * 200 >= 10000 /\ 200 \in Nat
    BY <1>3
  <2> QED
    BY <1>3, <2>1, RoundedShare
<1>4. CASE rate = 230
  <2>1. gross * 230 >= 10000 /\ 230 \in Nat
    BY <1>4
  <2> QED
    BY <1>4, <2>1, RoundedShare
<1>5. CASE rate = 250
  <2>1. gross * 250 >= 10000 /\ 250 \in Nat
    BY <1>5
  <2> QED
    BY <1>5, <2>1, RoundedShare
<1> QED
  BY <1>1, <1>2, <1>3, <1>4, <1>5

(* The fee of a case is due for every method but UPI.                      *)
LEMMA FeesAreNat ==
  ASSUME NEW draw \in Drawn
  PROVE  /\ FeeOf(draw) \in Nat /\ TaxOf(draw) \in Nat
         /\ FeeOf(draw) = ScheduledFee(draw.gross, draw.method, draw.capturedAt)
         /\ TaxOf(draw) = ScheduledTax(draw.gross, draw.method, draw.capturedAt)
         /\ draw.method = "UPI" => FeeOf(draw) = 0 /\ TaxOf(draw) = 0
         /\ draw.method # "UPI" => FeeOf(draw) > 0
<1>1. PICK rate \in {0, 190, 200, 230, 250} :
        /\ rate = ScheduleAt(draw.capturedAt).feeRateBps[draw.method]
        /\ rate = 0 <=> draw.method = "UPI"
  BY DrawnTypes, RatesAre
<1>2. PICK gross \in Nat : gross = draw.gross /\ gross >= 45000
  BY DrawnTypes
<1>3. /\ FeeOf(draw) = ApplyBasisPoints(gross, rate)
      /\ TaxOf(draw) = ApplyBasisPoints(FeeOf(draw), 1800)
  BY <1>1, <1>2 DEF FeeOf, TaxOf, ScheduledFee, ScheduledTax, TAX_ON_FEE_BPS
<1>5. /\ FeeOf(draw) \in Nat
      /\ rate # 0 => FeeOf(draw) > 0
      /\ rate = 0 => FeeOf(draw) = 0
  BY <1>2, <1>3, RateTakes
<1>6. TaxOf(draw) \in Nat /\ (FeeOf(draw) = 0 => TaxOf(draw) = 0)
  <2>1. PICK fee \in Nat : fee = FeeOf(draw)
    BY <1>5
  <2>2. fee = 0 => fee * 1800 = 0
    OBVIOUS
  <2>3. /\ ApplyBasisPoints(fee, 1800) \in Nat
        /\ fee * 1800 = 0 => ApplyBasisPoints(fee, 1800) = 0
    BY RoundedShare
  <2> QED
    BY <1>3, <2>1, <2>2, <2>3
<1> QED
  BY <1>1, <1>5, <1>6 DEF FeeOf, TaxOf

(* A share of 20 to 900 basis points of the amounts that can be drawn.     *)
LEMMA Within ==
  ASSUME NEW product \in Nat, 900000 <= product, NEW gross \in Nat, gross >= 45000,
         product <= 900 * gross
  PROVE  /\ product \div 10000 + 1 \in Nat
         /\ product \div 10000 + 1 >= 91
         /\ product \div 10000 + 1 <= gross
BY SMT

(* A variance that is drawn is no rounding of a line or two.               *)
LEMMA VarianceIsDrawn ==
  ASSUME NEW draw \in Drawn
  PROVE  /\ VarianceOf(draw) \in Nat /\ VarianceOf(draw) >= 91
         /\ VarianceOf(draw) <= draw.gross
<1>1. PICK bps \in 20..900 : bps = draw.varianceScaleBps
  <2>1. draw.varianceScaleBps \in 20..900
    BY DrawnTypes, SMT
  <2> QED
    BY <2>1
<1>2. VarianceOf(draw) = (draw.gross * bps) \div 10000 + 1
  BY <1>1 DEF VarianceOf
<1>3. CASE draw.gross = 45000
  <2>1. 900000 <= 45000 * bps /\ 45000 * bps <= 900 * 45000 /\ 45000 * bps \in Nat
    BY <1>1, SMT
  <2> QED
    BY <1>2, <1>3, <2>1, Within, SMT
<1>4. CASE draw.gross = 90000
  <2>1. 900000 <= 90000 * bps /\ 90000 * bps <= 900 * 90000 /\ 90000 * bps \in Nat
    BY <1>1, SMT
  <2> QED
    BY <1>2, <1>4, <2>1, Within, SMT
<1>5. CASE draw.gross = 250000
  <2>1. 900000 <= 250000 * bps /\ 250000 * bps <= 900 * 250000 /\ 250000 * bps \in Nat
    BY <1>1, SMT
  <2> QED
    BY <1>2, <1>5, <2>1, Within, SMT
<1>6. CASE draw.gross = 600000
  <2>1. 900000 <= 600000 * bps /\ 600000 * bps <= 900 * 600000 /\ 600000 * bps \in Nat
    BY <1>1, SMT
  <2> QED
    BY <1>2, <1>6, <2>1, Within, SMT
<1>7. CASE draw.gross = 1000000
  <2>1. 900000 <= 1000000 * bps /\ 1000000 * bps <= 900 * 1000000 /\ 1000000 * bps \in Nat
    BY <1>1, SMT
  <2> QED
    BY <1>2, <1>7, <2>1, Within, SMT
<1>8. CASE draw.gross = 2500000
  <2>1. 900000 <= 2500000 * bps /\ 2500000 * bps <= 900 * 2500000 /\ 2500000 * bps \in Nat
    BY <1>1, SMT
  <2> QED
    BY <1>2, <1>8, <2>1, Within, SMT
<1>9. CASE draw.gross = 7500000
  <2>1. 900000 <= 7500000 * bps /\ 7500000 * bps <= 900 * 7500000 /\ 7500000 * bps \in Nat
    BY <1>1, SMT
  <2> QED
    BY <1>2, <1>9, <2>1, Within, SMT
<1>10. CASE draw.gross = 15000000
  <2>1. 900000 <= 15000000 * bps /\ 15000000 * bps <= 900 * 15000000 /\ 15000000 * bps \in Nat
    BY <1>1, SMT
  <2> QED
    BY <1>2, <1>10, <2>1, Within, SMT
<1> QED
  BY <1>3, <1>4, <1>5, <1>6, <1>7, <1>8, <1>9, <1>10, DrawnTypes, SMT DEF AMOUNT_CHOICES

----------------------------------------------------------------------------
(* Routine adjustments change the net of the first settlement and are      *)
(* recorded, each by what it changed.                                      *)

(* A routine adjustment is a whole amount.                                 *)
LEMMA RoutineDeltaIsInt ==
  ASSUME NEW net \in Int, NEW rate \in Int
  PROVE  RoutineDelta(net, rate) \in Int
<1>1. Magnitude(net) * rate \in Int /\ Magnitude(net) * (-rate) \in Int
  BY SMT DEF Magnitude
<1>2. PICK p \in Int, q \in Int : p = Magnitude(net) * rate /\ q = Magnitude(net) * (-rate)
  BY <1>1
<1>3. RoutineDelta(net, rate) = p \div 10000 \/ RoutineDelta(net, rate) = -(q \div 10000)
  BY <1>2, SMT DEF RoutineDelta
<1>4. p \div 10000 \in Int /\ -(q \div 10000) \in Int
  BY SMT
<1> QED
  BY <1>3, <1>4, SMT

(* What the net is after each of the routine adjustments.                  *)
LEMMA NetAfterIs ==
  ASSUME NEW net \in Int, NEW rates \in Seq(Int), Len(rates) <= 3
  PROVE  /\ NetAfter(net, rates)[0] = net
         /\ \A i \in 0..Len(rates) : NetAfter(net, rates)[i] \in Int
         /\ DOMAIN NetAfter(net, rates) = 0..Len(rates)
<1> DEFINE Nets(g) ==
             g = [i \in 0..Len(rates) |->
                    IF i = 0 THEN net ELSE g[i - 1] + RoutineDelta(g[i - 1], rates[i])]
           first  == net + RoutineDelta(net, rates[1])
           second == first + RoutineDelta(first, rates[2])
           third  == second + RoutineDelta(second, rates[3])
           h == [i \in 0..Len(rates) |->
                   IF i = 0 THEN net ELSE IF i = 1 THEN first
                   ELSE IF i = 2 THEN second ELSE third]
<1>1. Len(rates) \in {0, 1, 2, 3} /\ \A i \in 1..Len(rates) : rates[i] \in Int
  <2>1. Len(rates) \in Nat /\ \A i \in 1..Len(rates) : rates[i] \in Int
    OBVIOUS
  <2>2. PICK n \in Nat : n = Len(rates) /\ n <= 3
    BY <2>1
  <2>3. n \in {0, 1, 2, 3}
    BY <2>2
  <2> QED
    BY <2>1, <2>2, <2>3
<1>2. Nets(h)
  <2> HIDE DEF first, second, third
  <2>1. \A i \in 0..Len(rates) : i \in {0, 1, 2, 3} /\ (i # 0 => i - 1 \in 0..Len(rates))
    BY <1>1
  <2>2. /\ first = net + RoutineDelta(net, rates[1])
        /\ second = first + RoutineDelta(first, rates[2])
        /\ third = second + RoutineDelta(second, rates[3])
    BY DEF first, second, third
  <2>3. ASSUME NEW i \in 0..Len(rates)
        PROVE  h[i] = IF i = 0 THEN net ELSE h[i - 1] + RoutineDelta(h[i - 1], rates[i])
    BY <2>1, <2>2
  <2> QED
    BY <2>3
<1>3. PICK g : Nets(g) /\ NetAfter(net, rates) = g
  BY <1>2 DEF NetAfter
<1>4. \A i \in 0..Len(rates) : g[i] \in Int
  <2>1. 0 \in 0..Len(rates) => g[0] \in Int
    BY <1>3
  <2>2. ASSUME NEW i \in 1..Len(rates), g[i - 1] \in Int PROVE g[i] \in Int
    <3>1. i \in 0..Len(rates) /\ i # 0
      OBVIOUS
    <3>2. g[i] = g[i - 1] + RoutineDelta(g[i - 1], rates[i])
      BY <1>3, <3>1
    <3>3. RoutineDelta(g[i - 1], rates[i]) \in Int
      BY <1>1, <2>2, RoutineDeltaIsInt
    <3> QED
      BY <2>2, <3>2, <3>3
  <2>3. 1 \in 1..Len(rates) => g[1] \in Int
    BY <1>1, <2>1, <2>2
  <2>4. 2 \in 1..Len(rates) => g[2] \in Int
    BY <1>1, <2>2, <2>3
  <2>5. 3 \in 1..Len(rates) => g[3] \in Int
    BY <1>1, <2>2, <2>4
  <2>6. \A i \in 0..Len(rates) : i = 0 \/ (i \in {1, 2, 3} /\ i \in 1..Len(rates))
    BY <1>1
  <2> QED
    BY <2>1, <2>3, <2>4, <2>5, <2>6
<1>5. g[0] = net /\ DOMAIN g = 0..Len(rates)
  <2>1. 0 \in 0..Len(rates)
    BY <1>1
  <2> QED
    BY <1>3, <2>1
<1> QED
  BY <1>3, <1>4, <1>5

(* A pair more.                                                            *)
LEMMA PairTotalAdds ==
  ASSUME NEW S, IsFiniteSet(S), \A y \in S : y[1].amount \in Int,
         NEW x, x \notin S, x[1].amount \in Int
  PROVE  /\ IsFiniteSet(S \cup {x})
         /\ PairTotal(S) \in Int
         /\ PairTotal(S \cup {x}) = x[1].amount + PairTotal(S)
<1>1. IsFiniteSet(S \cup {x}) /\ (S \cup {x}) \ {x} = S
  BY FS_AddElement
<1>2. \A y \in S \cup {x} : y[1].amount \in Int
  OBVIOUS
<1>3. PairTotal(S \cup {x}) = x[1].amount + PairTotal((S \cup {x}) \ {x})
  BY <1>1, <1>2, PairTotalTakesOut
<1>4. PairTotal(S) \in Int
  <2>1. CASE S = {}
    BY <2>1, PairTotalOfNone
  <2>2. CASE S # {}
    BY <2>2, PairTotalTakesOut
  <2> QED
    BY <2>1, <2>2
<1> QED
  BY <1>1, <1>3, <1>4

(* No two routine adjustments of a case have one id.                       *)
LEMMA RoutineIdsDiffer ==
  ASSUME NEW i \in 1..3, NEW j \in 1..3, RoutineId(i) = RoutineId(j)
  PROVE  i = j
BY DEF RoutineId

(* The routine adjustments, with the line they come through.               *)
RoutinePairs(net, rates, at, line) ==
  {<<a, line>> : a \in RoutineAdjustments(net, rates, at)}

(* The routine adjustments, each with the line it comes through, add up to *)
(* what they change of the net of the first settlement.                    *)
LEMMA RoutineAddsUp ==
  ASSUME NEW net \in Int, NEW rates \in Seq(Int), Len(rates) <= 3, NEW at \in Int, NEW line
  PROVE  /\ IsFiniteSet(RoutinePairs(net, rates, at, line))
         /\ \A y \in RoutinePairs(net, rates, at, line) : y[1].amount \in Int
         /\ PairTotal(RoutinePairs(net, rates, at, line)) = FirstNet(net, rates) - net
         /\ FirstNet(net, rates) \in Int
<1> DEFINE n        == Len(rates)
           after    == NetAfter(net, rates)
           delta(i) == after[i] - after[i - 1]
           pair(i)  == <<Adjustment(RoutineId(i), "set", delta(i), at - 12 * HOUR), line>>
           Upto(k)  == {pair(i) : i \in {i \in 1..k : delta(i) # 0}}
<1>1. /\ n \in {0, 1, 2, 3} /\ DOMAIN rates = 1..n
      /\ after[0] = net /\ \A i \in 0..n : after[i] \in Int
  <2>1. n \in Nat /\ DOMAIN rates = 1..n
    OBVIOUS
  <2>2. n \in {0, 1, 2, 3}
    BY <2>1
  <2> QED
    BY <2>1, <2>2, NetAfterIs
<1>2. RoutinePairs(net, rates, at, line) = Upto(n)
  BY <1>1 DEF RoutinePairs, RoutineAdjustments
<1>3. \A i \in 1..n : i \in 1..3 /\ i \in 0..n /\ i - 1 \in 0..n
  BY <1>1
<1>4. \A i \in 1..n : pair(i)[1].amount = delta(i) /\ delta(i) \in Int
  <2>1. \A i \in 1..n : pair(i)[1].amount = delta(i)
    BY DEF Adjustment
  <2>2. \A i \in 1..n : delta(i) \in Int
    BY <1>1, <1>3
  <2> QED
    BY <2>1, <2>2
<1>5. \A i \in 1..n, j \in 1..n : pair(i) = pair(j) => i = j
  BY <1>3, RoutineIdsDiffer DEF Adjustment
<1> DEFINE Adds(k) == /\ IsFiniteSet(Upto(k)) /\ \A y \in Upto(k) : y[1].amount \in Int
                      /\ PairTotal(Upto(k)) = after[k] - net
<1>6. Adds(0)
  <2>1. Upto(0) = {}
    OBVIOUS
  <2>2. after[0] - net = 0
    BY <1>1
  <2> HIDE DEF Upto, after
  <2> QED
    BY <2>1, <2>2, FS_EmptySet, PairTotalOfNone
<1>7. ASSUME NEW k \in 0..2, k + 1 \in 1..n, Adds(k) PROVE Adds(k + 1)
  <2>1. k \in 0..n /\ \A i \in 1..k : i \in 1..n /\ i # k + 1
    BY <1>1, <1>7
  <2>2. delta(k + 1) = after[k + 1] - after[k] /\ after[k] \in Int /\ after[k + 1] \in Int
    BY <1>1, <1>3, <1>7, <2>1
  <2>3. CASE delta(k + 1) = 0
    <3>1. Upto(k + 1) = Upto(k)
      <4>1. \A i : i \in 1..(k + 1) <=> i \in 1..k \/ i = k + 1
        BY <1>7
      <4> HIDE DEF pair, delta
      <4> QED
        BY <2>3, <4>1
    <3>2. after[k + 1] = after[k]
      BY <2>2, <2>3
    <3> HIDE DEF Upto, after
    <3> QED
      BY <1>7, <3>1, <3>2
  <2>4. CASE delta(k + 1) # 0
    <3>1. Upto(k + 1) = Upto(k) \cup {pair(k + 1)}
      <4>1. \A i : i \in 1..(k + 1) <=> i \in 1..k \/ i = k + 1
        BY <1>7
      <4> HIDE DEF pair, delta
      <4> QED
        BY <2>4, <4>1
    <3>2. pair(k + 1) \notin Upto(k)
      <4> HIDE DEF pair, delta
      <4> QED
        BY <1>5, <1>7, <2>1
    <3>3. pair(k + 1)[1].amount = delta(k + 1) /\ delta(k + 1) \in Int
      BY <1>4, <1>7
    <3> HIDE DEF Upto, after, pair
    <3>4. /\ IsFiniteSet(Upto(k + 1))
          /\ PairTotal(Upto(k + 1)) = delta(k + 1) + PairTotal(Upto(k))
      BY <1>7, <3>1, <3>2, <3>3, PairTotalAdds
    <3>5. \A y \in Upto(k + 1) : y[1].amount \in Int
      BY <1>7, <3>1, <3>3
    <3>6. PairTotal(Upto(k + 1)) = after[k + 1] - net
      BY <1>7, <2>2, <3>4
    <3> QED
      BY <3>4, <3>5, <3>6
  <2> QED
    BY <2>3, <2>4
<1>8. Adds(n)
  <2> HIDE DEF Adds
  <2>1. 1 \in 1..n => Adds(1)
    BY <1>6, <1>7
  <2>2. 2 \in 1..n => Adds(2)
    <3>1. 2 \in 1..n => 1 \in 1..n
      BY <1>1
    <3>2. 1 + 1 = 2 /\ 1 \in 0..2
      OBVIOUS
    <3> QED
      BY <1>7, <2>1, <3>1, <3>2
  <2>3. 3 \in 1..n => Adds(3)
    <3>1. 3 \in 1..n => 2 \in 1..n
      BY <1>1
    <3>2. 2 + 1 = 3 /\ 2 \in 0..2
      OBVIOUS
    <3> QED
      BY <1>7, <2>2, <3>1, <3>2
  <2>4. n = 0 \/ (n \in {1, 2, 3} /\ n \in 1..n)
    BY <1>1
  <2> HIDE DEF n
  <2> QED
    BY <1>6, <2>1, <2>2, <2>3, <2>4
<1>9. FirstNet(net, rates) = after[n] /\ after[n] \in Int
  BY <1>1 DEF FirstNet
<1> QED
  BY <1>2, <1>8, <1>9

----------------------------------------------------------------------------
(* The records of a case, kind by kind.                                    *)

(* What is planned: one defect that cannot be decided, or defects that     *)
(* can.                                                                    *)
IsPlan(plan) ==
  \/ plan.causes = {"AMBIGUOUS"} /\ plan.adversarial \in BOOLEAN
  \/ plan.causes \in (SUBSET SINGLE_CAUSES) \ {{}} /\ plan.adversarial = FALSE

(* A case that settles in two legs.                                        *)
IsSplit(plan) == "UTR_SPLIT" \in plan.causes

(* What is paid out, in one settlement or two, before routine adjustments. *)
NetOf(plan, draw) == draw.gross - FeeOf(draw) - TaxOf(draw) - Unexplained(plan, draw)

FirstPart(plan, draw) == IF IsSplit(plan) THEN NetOf(plan, draw) \div 2 ELSE NetOf(plan, draw)

FirstPaid(plan, draw) == FirstNet(FirstPart(plan, draw), draw.routine)

SecondPaid(plan, draw) == NetOf(plan, draw) - FirstPart(plan, draw)

CreditedLate(plan, draw) == SettledAtOf(plan, draw) + (26 + (draw.variant % 20)) * HOUR

(* The rows of a settlement.                                               *)
SettlementRow(ids, net, at) ==
  [kind |-> "SETTLEMENT", id |-> ids.settlement, net |-> net, settlementAt |-> at, utr |-> ids.utr]

LineRow(ids, net) ==
  [ kind |-> "SETTLEMENT_LINE", id |-> ids.line, settlement |-> ids.settlement,
    payment |-> "pay", amount |-> net ]

CreditRow(ids, net, at) ==
  [kind |-> "BANK_CREDIT", id |-> ids.credit, utr |-> ids.utr, amount |-> net, creditedAt |-> at]

FirstSettlement(plan, draw) ==
  SettlementRow(FirstLegIds, FirstPaid(plan, draw), SettledAtOf(plan, draw))

SecondSettlement(plan, draw) ==
  SettlementRow(SecondLegIds, SecondPaid(plan, draw), SettledAtOf(plan, draw))

FirstLine(plan, draw) == LineRow(FirstLegIds, FirstPaid(plan, draw))

SecondLine(plan, draw) == LineRow(SecondLegIds, SecondPaid(plan, draw))

FirstCredit(plan, draw) ==
  CreditRow(FirstLegIds, FirstPaid(plan, draw), SettledAtOf(plan, draw) + 6 * HOUR)

SecondCredit(plan, draw) ==
  CreditRow(SecondLegIds, SecondPaid(plan, draw), CreditedLate(plan, draw))

InParts(draw) == draw.feeInParts /\ FeeOf(draw) >= 2

(* The fees and the taxes, if they are reported.                           *)
FeeRows(plan, draw) ==
  IF "MDR_FEE" \in plan.causes THEN {}
  ELSE IF InParts(draw)
  THEN {FeeLine("fee", FeeOf(draw) \div 2), FeeLine("fee_b", FeeOf(draw) - FeeOf(draw) \div 2)}
  ELSE {FeeLine("fee", FeeOf(draw))}

TaxRows(plan, draw) ==
  IF "MDR_FEE" \in plan.causes THEN {}
  ELSE IF InParts(draw)
  THEN {TaxLine("tax", TaxOf(draw) \div 2), TaxLine("tax_b", TaxOf(draw) - TaxOf(draw) \div 2)}
  ELSE {TaxLine("tax", TaxOf(draw))}

(* The rows of one settlement or two.                                      *)
SettlementRows(plan, draw) ==
  IF IsSplit(plan) THEN {FirstSettlement(plan, draw), SecondSettlement(plan, draw)}
  ELSE {FirstSettlement(plan, draw)}

LineRows(plan, draw) ==
  IF IsSplit(plan) THEN {FirstLine(plan, draw), SecondLine(plan, draw)}
  ELSE {FirstLine(plan, draw)}

CreditRows(plan, draw) ==
  IF IsSplit(plan) THEN {FirstCredit(plan, draw), SecondCredit(plan, draw)}
  ELSE {FirstCredit(plan, draw)}

RoutineRows(plan, draw) ==
  RoutineAdjustments(FirstPart(plan, draw), draw.routine, SettledAtOf(plan, draw))

AdjustmentRows(plan, draw) == EmitAdjustments(plan, draw) \cup RoutineRows(plan, draw)

(* The records that VisibleRecords returns are these.                      *)
LEMMA RecordsByKind ==
  ASSUME NEW plan, NEW draw
  PROVE  VisibleRecords(plan, draw) =
           {PaymentRecord(draw)} \cup FeeRows(plan, draw) \cup TaxRows(plan, draw)
             \cup SettlementRows(plan, draw) \cup LineRows(plan, draw)
             \cup CreditRows(plan, draw) \cup RefundRecords(plan, draw)
             \cup AdjustmentRows(plan, draw)
<1> DEFINE first  == {FirstSettlement(plan, draw), FirstLine(plan, draw),
                      FirstCredit(plan, draw)}
           second == {SecondSettlement(plan, draw), SecondLine(plan, draw),
                      SecondCredit(plan, draw)}
           fees   == IF "MDR_FEE" \in plan.causes THEN {} ELSE FeeRecords(draw)
<1>1. Leg(FirstLegIds, FirstPaid(plan, draw), SettledAtOf(plan, draw),
          SettledAtOf(plan, draw) + 6 * HOUR) = first
  BY DEF Leg, FirstSettlement, FirstLine, FirstCredit, SettlementRow, LineRow, CreditRow
<1>2. Leg(SecondLegIds, SecondPaid(plan, draw), SettledAtOf(plan, draw),
          CreditedLate(plan, draw)) = second
  BY DEF Leg, SecondSettlement, SecondLine, SecondCredit, SettlementRow, LineRow, CreditRow
<1>3. VisibleRecords(plan, draw) =
        {PaymentRecord(draw)} \cup fees
          \cup Leg(FirstLegIds, FirstPaid(plan, draw), SettledAtOf(plan, draw),
                   SettledAtOf(plan, draw) + 6 * HOUR)
          \cup (IF IsSplit(plan)
                THEN Leg(SecondLegIds, SecondPaid(plan, draw), SettledAtOf(plan, draw),
                         CreditedLate(plan, draw))
                ELSE {})
          \cup RefundRecords(plan, draw)
          \cup EmitAdjustments(plan, draw)
          \cup RoutineRows(plan, draw)
  BY DEF VisibleRecords, FirstPaid, SecondPaid, FirstPart, NetOf, IsSplit, CreditedLate,
     RoutineRows
<1>4. fees = FeeRows(plan, draw) \cup TaxRows(plan, draw)
  BY DEF FeeRecords, FeeRows, TaxRows, InParts
<1> HIDE DEF fees
<1>5. CASE IsSplit(plan)
  BY <1>1, <1>2, <1>3, <1>4, <1>5
  DEF SettlementRows, LineRows, CreditRows, AdjustmentRows
<1>6. CASE ~IsSplit(plan)
  BY <1>1, <1>3, <1>4, <1>6 DEF SettlementRows, LineRows, CreditRows, AdjustmentRows
<1> QED
  BY <1>5, <1>6

(* Each of them has its kind.                                              *)
LEMMA KindsAre ==
  ASSUME NEW plan, NEW draw
  PROVE  /\ PaymentRecord(draw).kind = "PAYMENT"
         /\ \A x \in FeeRows(plan, draw) : x.kind = "FEE_LINE"
         /\ \A x \in TaxRows(plan, draw) : x.kind = "TAX_LINE"
         /\ \A x \in SettlementRows(plan, draw) : x.kind = "SETTLEMENT"
         /\ \A x \in LineRows(plan, draw) : x.kind = "SETTLEMENT_LINE"
         /\ \A x \in CreditRows(plan, draw) : x.kind = "BANK_CREDIT"
         /\ \A x \in RefundRecords(plan, draw) : x.kind = "REFUND"
         /\ \A x \in AdjustmentRows(plan, draw) : x.kind = "ADJUSTMENT"
<1>1. PaymentRecord(draw).kind = "PAYMENT"
  BY DEF PaymentRecord
<1>2. \A id, amount : FeeLine(id, amount).kind = "FEE_LINE" /\ TaxLine(id, amount).kind = "TAX_LINE"
  BY DEF FeeLine, TaxLine
<1>3. /\ \A x \in FeeRows(plan, draw) : x.kind = "FEE_LINE"
      /\ \A x \in TaxRows(plan, draw) : x.kind = "TAX_LINE"
  BY <1>2 DEF FeeRows, TaxRows
<1>4. \A ids, net, at : /\ SettlementRow(ids, net, at).kind = "SETTLEMENT"
                        /\ LineRow(ids, net).kind = "SETTLEMENT_LINE"
                        /\ CreditRow(ids, net, at).kind = "BANK_CREDIT"
  BY DEF SettlementRow, LineRow, CreditRow
<1>5. /\ \A x \in SettlementRows(plan, draw) : x.kind = "SETTLEMENT"
      /\ \A x \in LineRows(plan, draw) : x.kind = "SETTLEMENT_LINE"
      /\ \A x \in CreditRows(plan, draw) : x.kind = "BANK_CREDIT"
  BY <1>4 DEF SettlementRows, LineRows, CreditRows, FirstSettlement, SecondSettlement,
     FirstLine, SecondLine, FirstCredit, SecondCredit
<1>6. \A x \in RefundRecords(plan, draw) : x.kind = "REFUND"
  BY DEF RefundRecords
<1>7. \A id, settlement, amount, at : Adjustment(id, settlement, amount, at).kind = "ADJUSTMENT"
  BY DEF Adjustment
<1>8. \A x \in AdjustmentRows(plan, draw) : x.kind = "ADJUSTMENT"
  BY <1>7 DEF AdjustmentRows, RoutineRows, EmitAdjustments, RoutineAdjustments
<1> QED
  BY <1>1, <1>3, <1>5, <1>6, <1>8

(* The records of a case are selected by their kind.                       *)
LEMMA KindsSelect ==
  ASSUME NEW plan, NEW draw, NEW records, records = VisibleRecords(plan, draw)
  PROVE  /\ OfKind(records, "PAYMENT") = {PaymentRecord(draw)}
         /\ OfKind(records, "FEE_LINE") = FeeRows(plan, draw)
         /\ OfKind(records, "TAX_LINE") = TaxRows(plan, draw)
         /\ OfKind(records, "SETTLEMENT") = SettlementRows(plan, draw)
         /\ OfKind(records, "SETTLEMENT_LINE") = LineRows(plan, draw)
         /\ OfKind(records, "BANK_CREDIT") = CreditRows(plan, draw)
         /\ OfKind(records, "REFUND") = RefundRecords(plan, draw)
         /\ OfKind(records, "ADJUSTMENT") = AdjustmentRows(plan, draw)
<1> DEFINE P == {PaymentRecord(draw)}
           F == FeeRows(plan, draw)
           T == TaxRows(plan, draw)
           S == SettlementRows(plan, draw)
           L == LineRows(plan, draw)
           C == CreditRows(plan, draw)
           R == RefundRecords(plan, draw)
           A == AdjustmentRows(plan, draw)
<1>1. records = P \cup F \cup T \cup S \cup L \cup C \cup R \cup A
  BY RecordsByKind
<1>2. \A x \in P : x.kind = "PAYMENT"
  BY KindsAre
<1>3. /\ \A x \in F : x.kind = "FEE_LINE"
      /\ \A x \in T : x.kind = "TAX_LINE"
      /\ \A x \in S : x.kind = "SETTLEMENT"
      /\ \A x \in L : x.kind = "SETTLEMENT_LINE"
      /\ \A x \in C : x.kind = "BANK_CREDIT"
      /\ \A x \in R : x.kind = "REFUND"
      /\ \A x \in A : x.kind = "ADJUSTMENT"
  BY KindsAre
<1> HIDE DEF P, F, T, S, L, C, R, A
<1>4. OfKind(records, "PAYMENT") = P
  BY <1>1, <1>2, <1>3 DEF OfKind
<1>5. OfKind(records, "FEE_LINE") = F
  BY <1>1, <1>2, <1>3 DEF OfKind
<1>6. OfKind(records, "TAX_LINE") = T
  BY <1>1, <1>2, <1>3 DEF OfKind
<1>7. OfKind(records, "SETTLEMENT") = S
  BY <1>1, <1>2, <1>3 DEF OfKind
<1>8. OfKind(records, "SETTLEMENT_LINE") = L
  BY <1>1, <1>2, <1>3 DEF OfKind
<1>9. OfKind(records, "BANK_CREDIT") = C
  BY <1>1, <1>2, <1>3 DEF OfKind
<1>10. OfKind(records, "REFUND") = R
  BY <1>1, <1>2, <1>3 DEF OfKind
<1>11. OfKind(records, "ADJUSTMENT") = A
  BY <1>1, <1>2, <1>3 DEF OfKind
<1> QED
  BY <1>4, <1>5, <1>6, <1>7, <1>8, <1>9, <1>10, <1>11
  DEF P, F, T, S, L, C, R, A

----------------------------------------------------------------------------
(* The import keeps all of them, and the unit of the case is loaded from   *)
(* them.                                                                   *)

(* What the rows of a case refer to is in the case, or is nothing.         *)
LEMMA ReferencesAre ==
  ASSUME NEW plan, NEW draw
  PROVE  /\ \A f \in FeeRows(plan, draw) : \E id, amount : f = FeeLine(id, amount)
         /\ TaxRows(plan, draw) # {} => "fee" \in {f.id : f \in FeeRows(plan, draw)}
         /\ \A t \in TaxRows(plan, draw) : \E id, amount : t = TaxLine(id, amount)
         /\ \A l \in LineRows(plan, draw) :
              /\ \E ids, net : l = LineRow(ids, net)
              /\ l.settlement \in {s.id : s \in SettlementRows(plan, draw)}
         /\ \A r \in RefundRecords(plan, draw) : r.payment = "pay"
         /\ "set" \in {s.id : s \in SettlementRows(plan, draw)}
         /\ \A a \in AdjustmentRows(plan, draw) :
              \E id, settlement, amount, at :
                settlement \in {"set", NoRow} /\ a = Adjustment(id, settlement, amount, at)
<1>1. \A f \in FeeRows(plan, draw) : \E id, amount : f = FeeLine(id, amount)
  BY DEF FeeRows
<1>2. TaxRows(plan, draw) # {} => "fee" \in {f.id : f \in FeeRows(plan, draw)}
  <2>1. \A amount : FeeLine("fee", amount).id = "fee"
    BY DEF FeeLine
  <2> QED
    BY <2>1 DEF TaxRows, FeeRows
<1>3. \A t \in TaxRows(plan, draw) : \E id, amount : t = TaxLine(id, amount)
  BY DEF TaxRows
<1>4. \A ids, net, at : /\ LineRow(ids, net).settlement = ids.settlement
                        /\ SettlementRow(ids, net, at).id = ids.settlement
  BY DEF LineRow, SettlementRow
<1>5. /\ FirstLine(plan, draw).settlement = FirstSettlement(plan, draw).id
      /\ SecondLine(plan, draw).settlement = SecondSettlement(plan, draw).id
      /\ FirstSettlement(plan, draw).id = "set"
  BY <1>4 DEF FirstLine, SecondLine, FirstSettlement, SecondSettlement, FirstLegIds
<1>6. \A l \in LineRows(plan, draw) :
        /\ \E ids, net : l = LineRow(ids, net)
        /\ l.settlement \in {s.id : s \in SettlementRows(plan, draw)}
  <2>1. \A l \in LineRows(plan, draw) : \E ids, net : l = LineRow(ids, net)
    BY DEF LineRows, FirstLine, SecondLine
  <2>2. \A l \in LineRows(plan, draw) : l.settlement \in {s.id : s \in SettlementRows(plan, draw)}
    BY <1>5 DEF LineRows, SettlementRows
  <2> QED
    BY <2>1, <2>2
<1>7. "set" \in {s.id : s \in SettlementRows(plan, draw)}
  BY <1>5 DEF SettlementRows
<1>8. \A r \in RefundRecords(plan, draw) : r.payment = "pay"
  BY DEF RefundRecords
<1>9. \A a \in AdjustmentRows(plan, draw) :
        \E id, settlement, amount, at :
          settlement \in {"set", NoRow} /\ a = Adjustment(id, settlement, amount, at)
  <2>1. \A a \in EmitAdjustments(plan, draw) :
          \E id, settlement, amount, at :
            settlement \in {"set", NoRow} /\ a = Adjustment(id, settlement, amount, at)
    BY DEF EmitAdjustments
  <2>2. \A a \in RoutineRows(plan, draw) :
          \E id, settlement, amount, at :
            settlement \in {"set", NoRow} /\ a = Adjustment(id, settlement, amount, at)
    BY DEF RoutineRows, RoutineAdjustments
  <2> QED
    BY <2>1, <2>2 DEF AdjustmentRows
<1> QED
  BY <1>1, <1>2, <1>3, <1>6, <1>7, <1>8, <1>9

(* The import of a case into an empty store keeps all of its records as    *)
(* they were sent.                                                         *)
LEMMA ImportKeepsAll ==
  ASSUME NEW plan, NEW draw
  PROVE  AfterImport({}, VisibleRecords(plan, draw)) = VisibleRecords(plan, draw)
<1> DEFINE P == {PaymentRecord(draw)}
           F == FeeRows(plan, draw)
           T == TaxRows(plan, draw)
           S == SettlementRows(plan, draw)
           L == LineRows(plan, draw)
           C == CreditRows(plan, draw)
           R == RefundRecords(plan, draw)
           A == AdjustmentRows(plan, draw)
           batch == VisibleRecords(plan, draw)
           ids(kind) == IdsIn({}, kind) \cup IdsIn(batch, kind)
<1>1. batch = P \cup F \cup T \cup S \cup L \cup C \cup R \cup A
  BY RecordsByKind
<1>2. /\ OfKind(batch, "PAYMENT") = P /\ OfKind(batch, "FEE_LINE") = F
      /\ OfKind(batch, "TAX_LINE") = T /\ OfKind(batch, "SETTLEMENT") = S
      /\ OfKind(batch, "SETTLEMENT_LINE") = L /\ OfKind(batch, "BANK_CREDIT") = C
      /\ OfKind(batch, "REFUND") = R /\ OfKind(batch, "ADJUSTMENT") = A
  BY KindsSelect
<1>3. \A kind : IdsIn({}, kind) = {} /\ IdsIn(batch, kind) = {x.id : x \in OfKind(batch, kind)}
  BY DEF IdsIn, OfKind
<1>4. /\ ids("PAYMENT") = {"pay"}
      /\ ids("FEE_LINE") = {f.id : f \in F}
      /\ ids("SETTLEMENT") = {s.id : s \in S}
  <2>1. {x.id : x \in P} = {"pay"}
    BY DEF PaymentRecord
  <2> QED
    BY <1>2, <1>3, <2>1
<1>5. \A kind : {x \in OfKind(batch, kind) : x.id \notin IdsIn({}, kind)} = OfKind(batch, kind)
  BY <1>3
<1>6. AfterImport({}, batch) =
        {} \cup P \cup S \cup C
          \cup {[f EXCEPT !.payment = OrNull(@, ids("PAYMENT"))] : f \in F}
          \cup {[t EXCEPT !.fee = OrNull(@, ids("FEE_LINE"))] : t \in T}
          \cup {[a EXCEPT !.settlement = OrNull(@, ids("SETTLEMENT"))] : a \in A}
          \cup {r \in R : r.payment \in ids("PAYMENT")}
          \cup {[l EXCEPT !.payment = OrNull(@, ids("PAYMENT"))] :
                  l \in {l \in L : l.settlement \in ids("SETTLEMENT")}}
  <2> HIDE DEF batch, P, F, T, S, L, C, R, A
  <2> QED
    BY <1>2, <1>5 DEF AfterImport
<1> HIDE DEF ids, P, batch
<1>7. {[f EXCEPT !.payment = OrNull(@, ids("PAYMENT"))] : f \in F} = F
  <2>1. \A f \in F : [f EXCEPT !.payment = OrNull(@, ids("PAYMENT"))] = f
    <3> SUFFICES ASSUME NEW f \in F
                 PROVE  [f EXCEPT !.payment = OrNull(@, ids("PAYMENT"))] = f
      OBVIOUS
    <3>1. PICK id, amount : f = FeeLine(id, amount)
      BY ReferencesAre
    <3>2. OrNull("pay", ids("PAYMENT")) = "pay"
      BY <1>4 DEF OrNull
    <3> QED
      BY <3>1, <3>2 DEF FeeLine
  <2> QED
    BY <2>1
<1>8. {[t EXCEPT !.fee = OrNull(@, ids("FEE_LINE"))] : t \in T} = T
  <2>1. \A t \in T : [t EXCEPT !.fee = OrNull(@, ids("FEE_LINE"))] = t
    <3> SUFFICES ASSUME NEW t \in T
                 PROVE  [t EXCEPT !.fee = OrNull(@, ids("FEE_LINE"))] = t
      OBVIOUS
    <3>1. PICK id, amount : t = TaxLine(id, amount)
      BY ReferencesAre
    <3>2. "fee" \in {f.id : f \in F}
      BY ReferencesAre
    <3>3. OrNull("fee", ids("FEE_LINE")) = "fee"
      BY <1>4, <3>2 DEF OrNull
    <3> QED
      BY <3>1, <3>3 DEF TaxLine
  <2> QED
    BY <2>1
<1>9. {[a EXCEPT !.settlement = OrNull(@, ids("SETTLEMENT"))] : a \in A} = A
  <2>1. \A a \in A : [a EXCEPT !.settlement = OrNull(@, ids("SETTLEMENT"))] = a
    <3> SUFFICES ASSUME NEW a \in A
                 PROVE  [a EXCEPT !.settlement = OrNull(@, ids("SETTLEMENT"))] = a
      OBVIOUS
    <3>1. PICK id, settlement, amount, at :
            settlement \in {"set", NoRow} /\ a = Adjustment(id, settlement, amount, at)
      BY ReferencesAre
    <3>2. "set" \in {s.id : s \in S}
      BY ReferencesAre
    <3>3. OrNull(settlement, ids("SETTLEMENT")) = settlement
      BY <1>4, <3>1, <3>2 DEF OrNull
    <3> QED
      BY <3>1, <3>3 DEF Adjustment
  <2> QED
    BY <2>1
<1>10. {r \in R : r.payment \in ids("PAYMENT")} = R
  <2>1. \A r \in R : r.payment = "pay"
    BY ReferencesAre
  <2> HIDE DEF R
  <2> QED
    BY <1>4, <2>1
<1>11. {[l EXCEPT !.payment = OrNull(@, ids("PAYMENT"))] :
          l \in {l \in L : l.settlement \in ids("SETTLEMENT")}} = L
  <2>1. \A l \in L : l.settlement \in ids("SETTLEMENT")
    BY <1>4, ReferencesAre
  <2>2. \A l \in L : [l EXCEPT !.payment = OrNull(@, ids("PAYMENT"))] = l
    <3> SUFFICES ASSUME NEW l \in L
                 PROVE  [l EXCEPT !.payment = OrNull(@, ids("PAYMENT"))] = l
      OBVIOUS
    <3>1. PICK i, net : l = LineRow(i, net)
      BY ReferencesAre
    <3>2. OrNull("pay", ids("PAYMENT")) = "pay"
      BY <1>4 DEF OrNull
    <3> QED
      BY <3>1, <3>2 DEF LineRow
  <2> HIDE DEF L
  <2>3. {l \in L : l.settlement \in ids("SETTLEMENT")} = L
    BY <2>1
  <2> QED
    BY <2>2, <2>3
<1> HIDE DEF F, T, S, L, C, R, A
<1>12. AfterImport({}, batch) = {} \cup P \cup S \cup C \cup F \cup T \cup A \cup R \cup L
  BY <1>6, <1>7, <1>8, <1>9, <1>10, <1>11
<1>13. AfterImport({}, batch) = batch
  BY <1>1, <1>12
<1> QED
  BY <1>13 DEF batch

(* The unit of a case.                                                     *)
UnitOfPlan(plan, draw) == UnitOf(AfterImport({}, VisibleRecords(plan, draw)), "pay")

(* The queries of loadUnit select all records of the case, but for an      *)
(* adjustment that no settlement names.                                    *)
LEMMA UnitIs ==
  ASSUME NEW plan, NEW draw, NEW unit, unit = UnitOfPlan(plan, draw)
  PROVE  /\ unit.payment = PaymentRecord(draw)
         /\ unit.rows["fees"] = FeeRows(plan, draw)
         /\ unit.rows["taxes"] = TaxRows(plan, draw)
         /\ unit.rows["refunds"] = RefundRecords(plan, draw)
         /\ unit.rows["lines"] = LineRows(plan, draw)
         /\ unit.rows["settlements"] = SettlementRows(plan, draw)
         /\ unit.rows["credits"] = CreditRows(plan, draw)
         /\ unit.rows["adjustments"] =
              {<<a, FirstLine(plan, draw)>> :
                 a \in {a \in AdjustmentRows(plan, draw) : a.settlement = "set"}}
<1> DEFINE records == VisibleRecords(plan, draw)
<1>1. /\ unit.payment = PaymentIn(records, "pay")
      /\ \A q \in Queries : unit.rows[q] = Select(q, records, "pay")
  BY ImportKeepsAll DEF UnitOfPlan, UnitOf
<1> HIDE DEF records
<1>2. /\ OfKind(records, "PAYMENT") = {PaymentRecord(draw)}
      /\ OfKind(records, "FEE_LINE") = FeeRows(plan, draw)
      /\ OfKind(records, "TAX_LINE") = TaxRows(plan, draw)
      /\ OfKind(records, "SETTLEMENT") = SettlementRows(plan, draw)
      /\ OfKind(records, "SETTLEMENT_LINE") = LineRows(plan, draw)
      /\ OfKind(records, "BANK_CREDIT") = CreditRows(plan, draw)
      /\ OfKind(records, "REFUND") = RefundRecords(plan, draw)
      /\ OfKind(records, "ADJUSTMENT") = AdjustmentRows(plan, draw)
  BY KindsSelect DEF records
<1>3. unit.payment = PaymentRecord(draw)
  <2>1. PaymentRecord(draw).id = "pay"
    BY DEF PaymentRecord
  <2> QED
    BY <1>1, <1>2, <2>1 DEF PaymentIn
<1>4. FeesOf(records, "pay") = FeeRows(plan, draw)
  <2>1. \A id, amount : FeeLine(id, amount).payment = "pay"
    BY DEF FeeLine
  <2>2. \A f \in FeeRows(plan, draw) : f.payment = "pay"
    BY <2>1, ReferencesAre
  <2> QED
    BY <1>2, <2>2 DEF FeesOf
<1>5. TaxesOf(records, "pay") = TaxRows(plan, draw)
  <2>1. \A id, amount : TaxLine(id, amount).fee = "fee"
    BY DEF TaxLine
  <2>2. \A t \in TaxRows(plan, draw) : t.fee = "fee"
    BY <2>1, ReferencesAre
  <2>3. TaxRows(plan, draw) # {} => \E f \in FeeRows(plan, draw) : f.id = "fee"
    BY ReferencesAre
  <2> QED
    BY <1>2, <1>4, <2>2, <2>3 DEF TaxesOf
<1>6. RefundsOf(records, "pay") = RefundRecords(plan, draw)
  BY <1>2, ReferencesAre DEF RefundsOf
<1>7. LinesOf(records, "pay") = LineRows(plan, draw)
  <2>1. \A ids, net : LineRow(ids, net).payment = "pay"
    BY DEF LineRow
  <2>2. \A l \in LineRows(plan, draw) : l.payment = "pay"
    BY <2>1, ReferencesAre
  <2> QED
    BY <1>2, <2>2 DEF LinesOf
<1>8. /\ FirstSettlement(plan, draw).id = "set" /\ FirstLine(plan, draw).settlement = "set"
      /\ SecondSettlement(plan, draw).id = "setb" /\ SecondLine(plan, draw).settlement = "setb"
      /\ FirstSettlement(plan, draw).utr = FirstCredit(plan, draw).utr
      /\ SecondSettlement(plan, draw).utr = SecondCredit(plan, draw).utr
  BY DEF FirstSettlement, FirstLine, SecondSettlement, SecondLine, FirstCredit, SecondCredit,
     SettlementRow, LineRow, CreditRow, FirstLegIds, SecondLegIds
<1>9. SettlementsOf(records, "pay") = SettlementRows(plan, draw)
  <2>1. \A s \in SettlementRows(plan, draw) : \E l \in LineRows(plan, draw) : l.settlement = s.id
    BY <1>8 DEF SettlementRows, LineRows
  <2> QED
    BY <1>2, <1>7, <2>1 DEF SettlementsOf
<1>10. CreditsOf(records, "pay") = CreditRows(plan, draw)
  <2>1. \A b \in CreditRows(plan, draw) : \E s \in SettlementRows(plan, draw) : s.utr = b.utr
    BY <1>8 DEF SettlementRows, CreditRows
  <2> QED
    BY <1>2, <1>9, <2>1 DEF CreditsOf
<1>11. AdjustmentsOf(records, "pay") =
         {<<a, FirstLine(plan, draw)>> :
            a \in {a \in AdjustmentRows(plan, draw) : a.settlement = "set"}}
  <2>1. \A a \in AdjustmentRows(plan, draw) : a.settlement \in {"set", NoRow}
    <3>1. \A id, settlement, amount, at :
            Adjustment(id, settlement, amount, at).settlement = settlement
      BY DEF Adjustment
    <3> QED
      BY <3>1, ReferencesAre
  <2>2. \A a \in AdjustmentRows(plan, draw), l \in LineRows(plan, draw) :
          a.settlement = l.settlement <=> a.settlement = "set" /\ l = FirstLine(plan, draw)
    BY <1>8, <2>1 DEF LineRows, NoRow
  <2>3. FirstLine(plan, draw) \in LineRows(plan, draw)
    BY DEF LineRows
  <2> QED
    BY <1>2, <1>7, <2>2, <2>3 DEF AdjustmentsOf
<1>12. /\ Select("fees", records, "pay") = FeesOf(records, "pay")
       /\ Select("taxes", records, "pay") = TaxesOf(records, "pay")
       /\ Select("refunds", records, "pay") = RefundsOf(records, "pay")
       /\ Select("adjustments", records, "pay") = AdjustmentsOf(records, "pay")
       /\ Select("lines", records, "pay") = LinesOf(records, "pay")
       /\ Select("settlements", records, "pay") = SettlementsOf(records, "pay")
       /\ Select("credits", records, "pay") = CreditsOf(records, "pay")
  BY DEF Select
<1>13. {"fees", "taxes", "refunds", "adjustments", "lines", "settlements", "credits"} = Queries
  BY DEF Queries
<1> QED
  BY <1>1, <1>3, <1>4, <1>5, <1>6, <1>7, <1>9, <1>10, <1>11, <1>12, <1>13

----------------------------------------------------------------------------
(* The variance of the unit is what no record explains and what is         *)
(* withheld, less what was refunded or took effect too late.               *)

(* What a case withholds without a record of it, what it refunds, and what *)
(* its adjustment of a month later takes.                                  *)
Withheld(plan, draw) == IF "MDR_FEE" \in plan.causes THEN FeeOf(draw) + TaxOf(draw) ELSE 0

Refunded(plan, draw) == IF "REFUND_NETTING" \in plan.causes THEN VarianceOf(draw) ELSE 0

Misdated(plan, draw) == IF Undecidable(plan) /\ plan.adversarial THEN VarianceOf(draw) ELSE 0

(* What no record explains of it is a small drift or the variance drawn.   *)
LEMMA UnexplainedIs ==
  ASSUME NEW plan, NEW draw \in Drawn
  PROVE  /\ Unexplained(plan, draw) \in Nat
         /\ Drift(draw) \in 3..7
<1>1. Drift(draw) \in 3..7
  BY DrawnTypes DEF Drift
<1>2. VarianceOf(draw) \in Nat
  BY VarianceIsDrawn
<1> QED
  BY <1>1, <1>2 DEF Unexplained

(* Amounts paid are whole.                                                 *)
LEMMA PaidAreInts ==
  ASSUME NEW plan, NEW draw \in Drawn
  PROVE  /\ NetOf(plan, draw) \in Int /\ FirstPart(plan, draw) \in Int
         /\ FirstPaid(plan, draw) \in Int /\ SecondPaid(plan, draw) \in Int
<1>1. NetOf(plan, draw) \in Int
  <2>1. draw.gross \in Nat
    BY DrawnTypes
  <2> QED
    BY <2>1, FeesAreNat, UnexplainedIs DEF NetOf
<1>2. FirstPart(plan, draw) \in Int
  BY <1>1 DEF FirstPart
<1>3. draw.routine \in Seq(Int) /\ Len(draw.routine) <= 3
  BY DrawnTypes
<1>4. FirstPaid(plan, draw) \in Int
  BY <1>2, <1>3, RoutineAddsUp DEF FirstPaid
<1> QED
  BY <1>1, <1>2, <1>4 DEF SecondPaid

(* When the case settles.                                                  *)
LEMMA SettledAtIs ==
  ASSUME NEW plan, NEW draw \in Drawn
  PROVE  /\ \E day \in Int : SettledInTime(draw) = DAY * day
         /\ SettledInTime(draw) \in Int /\ SettledAtOf(plan, draw) \in Int
         /\ ExpectedSettlementDate(draw.capturedAt) \in Int
<1>1. PICK day \in Int : ExpectedSettlementDate(draw.capturedAt) = DAY * day
  BY DrawnTypes, ExpectedIsMidnight
<1>2. draw.jitterDays \in 0..1 /\ draw.variant \in 0..7
  BY DrawnTypes
<1>3. SettledInTime(draw) = DAY * (day + draw.jitterDays) /\ day + draw.jitterDays \in Int
  BY <1>1, <1>2 DEF SettledInTime, DAY, HOUR
<1>4. DAY * day \in Int /\ SettledInTime(draw) \in Int
  BY <1>3 DEF DAY, HOUR
<1>5. SettledAtOf(plan, draw) \in Int
  BY <1>2, <1>4 DEF SettledAtOf, DAY, HOUR
<1> QED
  BY <1>1, <1>3, <1>4, <1>5

(* The fees and taxes that are reported, in parts or not, are those of the *)
(* schedule.                                                               *)
LEMMA FeesAddUp ==
  ASSUME NEW plan, NEW draw \in Drawn
  PROVE  /\ Total(FeeRows(plan, draw)) + Total(TaxRows(plan, draw))
              = FeeOf(draw) + TaxOf(draw) - Withheld(plan, draw)
         /\ Total(FeeRows(plan, draw)) = IF "MDR_FEE" \in plan.causes THEN 0 ELSE FeeOf(draw)
         /\ Total(TaxRows(plan, draw)) = IF "MDR_FEE" \in plan.causes THEN 0 ELSE TaxOf(draw)
<1>1. PICK fee \in Nat, tax \in Nat : fee = FeeOf(draw) /\ tax = TaxOf(draw)
  BY FeesAreNat
<1>2. /\ fee \div 2 \in Int /\ fee - fee \div 2 \in Int
      /\ tax \div 2 \in Int /\ tax - tax \div 2 \in Int
  OBVIOUS
<1>3. \A id, amount : FeeLine(id, amount).amount = amount /\ TaxLine(id, amount).amount = amount
  BY DEF FeeLine, TaxLine
<1>4. \A a, b : FeeLine("fee", a) # FeeLine("fee_b", b) /\ TaxLine("tax", a) # TaxLine("tax_b", b)
  <2>1. \A a : /\ FeeLine("fee", a).id = "fee" /\ FeeLine("fee_b", a).id = "fee_b"
               /\ TaxLine("tax", a).id = "tax" /\ TaxLine("tax_b", a).id = "tax_b"
    BY DEF FeeLine, TaxLine
  <2>2. "fee" # "fee_b" /\ "tax" # "tax_b"
    OBVIOUS
  <2> QED
    BY <2>1, <2>2
<1>5. Total(FeeRows(plan, draw)) = IF "MDR_FEE" \in plan.causes THEN 0 ELSE fee
  <2>1. CASE "MDR_FEE" \in plan.causes
    BY <2>1, TotalOfNone DEF FeeRows
  <2>2. CASE "MDR_FEE" \notin plan.causes /\ InParts(draw)
    <3>1. FeeRows(plan, draw) = {FeeLine("fee", fee \div 2), FeeLine("fee_b", fee - fee \div 2)}
      BY <1>1, <2>2 DEF FeeRows
    <3>2. Total(FeeRows(plan, draw)) = fee \div 2 + (fee - fee \div 2)
      BY <1>2, <1>3, <1>4, <3>1, TotalOfTwo
    <3> QED
      BY <1>2, <2>2, <3>2
  <2>3. CASE "MDR_FEE" \notin plan.causes /\ ~InParts(draw)
    <3>1. FeeRows(plan, draw) = {FeeLine("fee", fee)}
      BY <1>1, <2>3 DEF FeeRows
    <3> QED
      BY <1>3, <2>3, <3>1, TotalOfOne
  <2> QED
    BY <2>1, <2>2, <2>3
<1>6. Total(TaxRows(plan, draw)) = IF "MDR_FEE" \in plan.causes THEN 0 ELSE tax
  <2>1. CASE "MDR_FEE" \in plan.causes
    BY <2>1, TotalOfNone DEF TaxRows
  <2>2. CASE "MDR_FEE" \notin plan.causes /\ InParts(draw)
    <3>1. TaxRows(plan, draw) = {TaxLine("tax", tax \div 2), TaxLine("tax_b", tax - tax \div 2)}
      BY <1>1, <2>2 DEF TaxRows
    <3>2. Total(TaxRows(plan, draw)) = tax \div 2 + (tax - tax \div 2)
      BY <1>2, <1>3, <1>4, <3>1, TotalOfTwo
    <3> QED
      BY <1>2, <2>2, <3>2
  <2>3. CASE "MDR_FEE" \notin plan.causes /\ ~InParts(draw)
    <3>1. TaxRows(plan, draw) = {TaxLine("tax", tax)}
      BY <1>1, <2>3 DEF TaxRows
    <3> QED
      BY <1>3, <2>3, <3>1, TotalOfOne
  <2> QED
    BY <2>1, <2>2, <2>3
<1> QED
  BY <1>1, <1>5, <1>6 DEF Withheld

(* The refund of a case.                                                   *)
RefundRow(draw) ==
  LET createdAt == SettledInTime(draw) - DAY IN
  [ kind |-> "REFUND", id |-> "rfnd", payment |-> "pay", amount |-> VarianceOf(draw),
    createdAt |-> createdAt,
    settledAt |-> createdAt + (IF WithinNettingWindow(draw) THEN 2 ELSE 9) * DAY ]

LEMMA RefundRecordsAre ==
  ASSUME NEW plan, NEW draw
  PROVE  RefundRecords(plan, draw) =
           IF "REFUND_NETTING" \in plan.causes THEN {RefundRow(draw)} ELSE {}
BY DEF RefundRecords, RefundRow

(* The refunds add up to what is refunded.                                 *)
LEMMA RefundsAddUp ==
  ASSUME NEW plan, NEW draw \in Drawn
  PROVE  Total(RefundRecords(plan, draw)) = Refunded(plan, draw)
<1>1. CASE "REFUND_NETTING" \notin plan.causes
  BY <1>1, RefundRecordsAre, TotalOfNone DEF Refunded
<1>2. CASE "REFUND_NETTING" \in plan.causes
  <2>1. RefundRow(draw).amount = VarianceOf(draw)
    BY DEF RefundRow
  <2> QED
    BY <1>2, <2>1, RefundRecordsAre, TotalOfOne, VarianceIsDrawn DEF Refunded
<1> QED
  BY <1>1, <1>2

(* The lines add up to what is paid out.                                   *)
LEMMA LinesAddUp ==
  ASSUME NEW plan, NEW draw \in Drawn
  PROVE  Total(LineRows(plan, draw)) =
           FirstPaid(plan, draw) + NetOf(plan, draw) - FirstPart(plan, draw)
<1>1. \A ids, net : LineRow(ids, net).amount = net /\ LineRow(ids, net).id = ids.line
  BY DEF LineRow
<1>2. /\ FirstLine(plan, draw).amount = FirstPaid(plan, draw)
      /\ SecondLine(plan, draw).amount = SecondPaid(plan, draw)
      /\ FirstLine(plan, draw) # SecondLine(plan, draw)
  <2>1. FirstLine(plan, draw).id = "sl" /\ SecondLine(plan, draw).id = "slb"
    BY <1>1 DEF FirstLine, SecondLine, FirstLegIds, SecondLegIds
  <2> QED
    BY <1>1, <2>1 DEF FirstLine, SecondLine
<1>3. CASE IsSplit(plan)
  <2>1. Total(LineRows(plan, draw)) = FirstPaid(plan, draw) + SecondPaid(plan, draw)
    BY <1>2, <1>3, PaidAreInts, TotalOfTwo DEF LineRows
  <2> QED
    BY <2>1, PaidAreInts DEF SecondPaid
<1>4. CASE ~IsSplit(plan)
  <2>1. Total(LineRows(plan, draw)) = FirstPaid(plan, draw)
    BY <1>2, <1>4, PaidAreInts, TotalOfOne DEF LineRows
  <2>2. FirstPart(plan, draw) = NetOf(plan, draw)
    BY <1>4 DEF FirstPart
  <2> QED
    BY <2>1, <2>2, PaidAreInts
<1> QED
  BY <1>3, <1>4

(* The adjustments of the unit.                                            *)
UnitAdjustments(plan, draw) ==
  {<<a, FirstLine(plan, draw)>> :
     a \in {a \in AdjustmentRows(plan, draw) : a.settlement = "set"}}

(* The adjustment that is a month late.                                    *)
LateAdjustment(plan, draw) ==
  Adjustment("adji", "set", -VarianceOf(draw), SettledAtOf(plan, draw) + 30 * DAY)

(* The adjustments that the unit loads, each with its line.                *)
LEMMA UnitAdjustmentsAre ==
  ASSUME NEW plan, NEW draw
  PROVE  UnitAdjustments(plan, draw) =
           {<<a, FirstLine(plan, draw)>> : a \in RoutineRows(plan, draw)}
             \cup (IF Undecidable(plan) /\ plan.adversarial
                   THEN {<<LateAdjustment(plan, draw), FirstLine(plan, draw)>>}
                   ELSE {})
<1>1. \A id, settlement, amount, at :
        Adjustment(id, settlement, amount, at).settlement = settlement
  BY DEF Adjustment
<1>2. \A a \in RoutineRows(plan, draw) : a.settlement = "set"
  BY <1>1 DEF RoutineRows, RoutineAdjustments
<1>3. {a \in EmitAdjustments(plan, draw) : a.settlement = "set"} =
        IF Undecidable(plan) /\ plan.adversarial THEN {LateAdjustment(plan, draw)} ELSE {}
  <2>1. CASE ~Undecidable(plan)
    <3>1. EmitAdjustments(plan, draw) = {}
      BY <2>1 DEF EmitAdjustments
    <3> QED
      BY <2>1, <3>1
  <2>2. CASE Undecidable(plan) /\ plan.adversarial
    <3>1. EmitAdjustments(plan, draw) = {LateAdjustment(plan, draw)}
      BY <2>2 DEF EmitAdjustments, LateAdjustment
    <3>2. LateAdjustment(plan, draw).settlement = "set"
      BY <1>1 DEF LateAdjustment
    <3> QED
      BY <2>2, <3>1, <3>2
  <2>3. CASE Undecidable(plan) /\ ~plan.adversarial
    <3>1. PICK a : EmitAdjustments(plan, draw) = {a} /\ a.settlement = NoRow
      BY <1>1, <2>3 DEF EmitAdjustments
    <3>2. NoRow # "set"
      BY DEF NoRow
    <3> QED
      BY <2>3, <3>1, <3>2
  <2> QED
    BY <2>1, <2>2, <2>3
<1>4. {a \in AdjustmentRows(plan, draw) : a.settlement = "set"} =
        {a \in EmitAdjustments(plan, draw) : a.settlement = "set"} \cup RoutineRows(plan, draw)
  BY <1>2 DEF AdjustmentRows
<1>5. CASE Undecidable(plan) /\ plan.adversarial
  BY <1>3, <1>4, <1>5 DEF UnitAdjustments
<1>6. CASE ~(Undecidable(plan) /\ plan.adversarial)
  BY <1>3, <1>4, <1>6 DEF UnitAdjustments
<1> QED
  BY <1>5, <1>6

(* They add up to what routine changed and what is a month late.           *)
LEMMA AdjustmentsAddUp ==
  ASSUME NEW plan, NEW draw \in Drawn
  PROVE  PairTotal(UnitAdjustments(plan, draw)) =
           FirstPaid(plan, draw) - FirstPart(plan, draw) - Misdated(plan, draw)
<1> DEFINE pairs == {<<a, FirstLine(plan, draw)>> : a \in RoutineRows(plan, draw)}
           late  == <<LateAdjustment(plan, draw), FirstLine(plan, draw)>>
<1>1. /\ IsFiniteSet(pairs) /\ \A y \in pairs : y[1].amount \in Int
      /\ PairTotal(pairs) = FirstPaid(plan, draw) - FirstPart(plan, draw)
  <2>1. PICK rates \in Seq(Int) : rates = draw.routine /\ Len(rates) <= 3
    BY DrawnTypes
  <2>2. PICK net \in Int, at \in Int :
          net = FirstPart(plan, draw) /\ at = SettledAtOf(plan, draw)
    BY PaidAreInts, SettledAtIs
  <2>3. pairs = RoutinePairs(net, rates, at, FirstLine(plan, draw))
    BY <2>1, <2>2 DEF RoutineRows, RoutinePairs
  <2> HIDE DEF pairs
  <2>4. /\ IsFiniteSet(pairs) /\ \A y \in pairs : y[1].amount \in Int
        /\ PairTotal(pairs) = FirstNet(net, rates) - net
    BY <2>1, <2>3, RoutineAddsUp
  <2> QED
    BY <2>1, <2>2, <2>4 DEF FirstPaid
<1>2. late[1].amount = -VarianceOf(draw) /\ late[1].id = "adji"
  BY DEF LateAdjustment, Adjustment
<1>3. late \notin pairs
  <2>1. \A y \in pairs : y[1].id \in {"adjr0", "adjr1", "adjr2"}
    <3>1. draw.routine \in Seq(Int) /\ Len(draw.routine) <= 3
      BY DrawnTypes
    <3>2. \A i \in DOMAIN draw.routine : RoutineId(i) \in {"adjr0", "adjr1", "adjr2"}
      <4>1. \A i \in DOMAIN draw.routine : i \in {1, 2, 3}
        BY <3>1
      <4> QED
        BY <4>1 DEF RoutineId
    <3>3. \A id, settlement, amount, at : Adjustment(id, settlement, amount, at).id = id
      BY DEF Adjustment
    <3>4. \A a \in RoutineRows(plan, draw) : a.id \in {"adjr0", "adjr1", "adjr2"}
      BY <3>2, <3>3 DEF RoutineRows, RoutineAdjustments
    <3> QED
      BY <3>4
  <2> HIDE DEF pairs, late
  <2> QED
    BY <1>2, <2>1
<1>4. PICK v \in Nat : v = VarianceOf(draw)
  BY VarianceIsDrawn
<1> HIDE DEF pairs, late
<1>5. CASE Undecidable(plan) /\ plan.adversarial
  <2>1. UnitAdjustments(plan, draw) = pairs \cup {late}
    BY <1>5, UnitAdjustmentsAre DEF pairs, late
  <2>2. PairTotal(UnitAdjustments(plan, draw)) = -v + PairTotal(pairs)
    BY <1>1, <1>2, <1>3, <1>4, <2>1, PairTotalAdds
  <2> QED
    BY <1>1, <1>4, <1>5, <2>2, PaidAreInts DEF Misdated
<1>6. CASE ~(Undecidable(plan) /\ plan.adversarial)
  <2>1. UnitAdjustments(plan, draw) = pairs
    BY <1>6, UnitAdjustmentsAre DEF pairs, late
  <2> QED
    BY <1>1, <1>6, <2>1, PaidAreInts DEF Misdated
<1> QED
  BY <1>5, <1>6

(* What the verifier computes of the unit of a case: the variance is what  *)
(* the causes made of it and no more.                                      *)
LEMMA VarianceIs ==
  ASSUME NEW plan, NEW draw \in Drawn, NEW unit, unit = UnitOfPlan(plan, draw)
  PROVE  /\ HasBreakdown(unit)
         /\ Variance(unit) = Unexplained(plan, draw) + Withheld(plan, draw)
                               - Refunded(plan, draw) - Misdated(plan, draw)
         /\ Unrecorded(unit) = Withheld(plan, draw)
         /\ FeeTime(unit) = draw.capturedAt /\ FeeTime(unit) # Never
<1>1. /\ unit.payment.amount = draw.gross /\ unit.payment.method = draw.method
      /\ unit.payment.capturedAt = draw.capturedAt
  <2>1. unit.payment = PaymentRecord(draw)
    BY UnitIs
  <2> QED
    BY <2>1 DEF PaymentRecord
<1>2. PICK gross \in Nat, fee \in Nat, tax \in Nat, v \in Nat, u \in Nat :
        /\ gross = draw.gross /\ fee = FeeOf(draw) /\ tax = TaxOf(draw)
        /\ v = VarianceOf(draw) /\ u = Unexplained(plan, draw)
  <2>1. draw.gross \in Nat
    BY DrawnTypes
  <2> QED
    BY <2>1, FeesAreNat, VarianceIsDrawn, UnexplainedIs
<1>3. FeeTime(unit) = draw.capturedAt /\ FeeTime(unit) # Never
  <2>1. draw.capturedAt \in Nat
    BY DrawnTypes
  <2> QED
    BY <1>1, <2>1 DEF FeeTime, Never
<1>4. /\ Total(unit.rows["fees"]) = IF "MDR_FEE" \in plan.causes THEN 0 ELSE fee
      /\ Total(unit.rows["taxes"]) = IF "MDR_FEE" \in plan.causes THEN 0 ELSE tax
  BY <1>2, UnitIs, FeesAddUp
<1>5. Total(unit.rows["refunds"]) = IF "REFUND_NETTING" \in plan.causes THEN v ELSE 0
  BY <1>2, UnitIs, RefundsAddUp DEF Refunded
<1>6. HasBreakdown(unit)
  BY <1>1, <1>2, <1>4, <1>5 DEF HasBreakdown
<1>7. PICK first \in Int, part \in Int, net \in Int :
        /\ first = FirstPaid(plan, draw) /\ part = FirstPart(plan, draw)
        /\ net = NetOf(plan, draw)
  BY PaidAreInts
<1>8. /\ SettledTotal(unit) = first + net - part
      /\ net = gross - fee - tax - u
  BY <1>2, <1>7, UnitIs, LinesAddUp DEF SettledTotal, NetOf
<1>9. TotalAdjustment(unit) =
        first - part - (IF Undecidable(plan) /\ plan.adversarial THEN v ELSE 0)
  <2>1. TotalAdjustment(unit) = PairTotal(UnitAdjustments(plan, draw))
    <3>1. unit.rows["adjustments"] = UnitAdjustments(plan, draw)
      BY UnitIs DEF UnitAdjustments
    <3>2. TotalAdjustment(unit) = PairTotal(unit.rows["adjustments"])
      BY DEF TotalAdjustment, PairTotal
    <3> QED
      BY <3>1, <3>2
  <2> QED
    BY <1>2, <1>7, <2>1, AdjustmentsAddUp DEF Misdated
<1>10. Variance(unit) = Unexplained(plan, draw) + Withheld(plan, draw)
                          - Refunded(plan, draw) - Misdated(plan, draw)
  BY <1>1, <1>2, <1>4, <1>5, <1>8, <1>9
  DEF Variance, ExpectedNet, Withheld, Refunded, Misdated
<1>11. Unrecorded(unit) = Withheld(plan, draw)
  BY <1>1, <1>2, <1>3, <1>4, FeesAreNat DEF Unrecorded, Withheld
<1> QED
  BY <1>3, <1>6, <1>10, <1>11

----------------------------------------------------------------------------
(* The other checks.                                                       *)

(* The settlements of a case and how many lines it has.                    *)
LEMMA SettlementsAre ==
  ASSUME NEW plan, NEW draw, NEW unit, unit = UnitOfPlan(plan, draw)
  PROVE  /\ unit.rows["settlements"] # {}
         /\ FirstSettlement(plan, draw) \in unit.rows["settlements"]
         /\ \A s \in unit.rows["settlements"] :
              s.settlementAt = SettledAtOf(plan, draw) /\ s.utr # NoUtr
         /\ ~IsSplit(plan) => Cardinality(unit.rows["settlements"]) = 1
         /\ IsSplit(plan) => Cardinality(unit.rows["settlements"]) = 2
         /\ unit.rows["lines"] # {}
         /\ Cardinality(unit.rows["lines"]) = IF IsSplit(plan) THEN 2 ELSE 1
<1>1. \A ids, net, at : /\ SettlementRow(ids, net, at).settlementAt = at
                        /\ SettlementRow(ids, net, at).utr = ids.utr
                        /\ SettlementRow(ids, net, at).id = ids.settlement
                        /\ LineRow(ids, net).id = ids.line
  BY DEF SettlementRow, LineRow
<1>2. /\ FirstSettlement(plan, draw).id = "set" /\ SecondSettlement(plan, draw).id = "setb"
      /\ FirstSettlement(plan, draw).utr = "UTR" /\ SecondSettlement(plan, draw).utr = "UTRB"
      /\ FirstSettlement(plan, draw).settlementAt = SettledAtOf(plan, draw)
      /\ SecondSettlement(plan, draw).settlementAt = SettledAtOf(plan, draw)
      /\ FirstLine(plan, draw).id = "sl" /\ SecondLine(plan, draw).id = "slb"
  BY <1>1 DEF FirstSettlement, SecondSettlement, FirstLine, SecondLine, FirstLegIds, SecondLegIds
<1>3. /\ unit.rows["settlements"] = SettlementRows(plan, draw)
      /\ unit.rows["lines"] = LineRows(plan, draw)
  BY UnitIs
<1>4. CASE IsSplit(plan)
  <2>1. /\ SettlementRows(plan, draw) = {FirstSettlement(plan, draw), SecondSettlement(plan, draw)}
        /\ LineRows(plan, draw) = {FirstLine(plan, draw), SecondLine(plan, draw)}
    BY <1>4 DEF SettlementRows, LineRows
  <2>2. /\ FirstSettlement(plan, draw) # SecondSettlement(plan, draw)
        /\ FirstLine(plan, draw) # SecondLine(plan, draw)
    BY <1>2
  <2>3. Cardinality(SettlementRows(plan, draw)) = 2 /\ Cardinality(LineRows(plan, draw)) = 2
    BY <2>1, <2>2, PairHasTwo
  <2> QED
    BY <1>2, <1>3, <1>4, <2>1, <2>3 DEF NoUtr
<1>5. CASE ~IsSplit(plan)
  <2>1. /\ SettlementRows(plan, draw) = {FirstSettlement(plan, draw)}
        /\ LineRows(plan, draw) = {FirstLine(plan, draw)}
    BY <1>5 DEF SettlementRows, LineRows
  <2>2. Cardinality(SettlementRows(plan, draw)) = 1 /\ Cardinality(LineRows(plan, draw)) = 1
    BY <2>1, FS_Singleton
  <2> QED
    BY <1>2, <1>3, <1>5, <2>1, <2>2 DEF NoUtr
<1> QED
  BY <1>4, <1>5

(* Routine adjustments can explain the settlement they name.               *)
LEMMA RoutineIsPossible ==
  ASSUME NEW plan, NEW draw \in Drawn, ~(Undecidable(plan) /\ plan.adversarial),
         NEW unit, unit = UnitOfPlan(plan, draw)
  PROVE  NoImpossibleAdjustment(unit) /\ AdjustmentsPossible(unit)
<1>1. unit.rows["adjustments"] = {<<a, FirstLine(plan, draw)>> : a \in RoutineRows(plan, draw)}
  BY UnitIs, UnitAdjustmentsAre DEF UnitAdjustments
<1>2. \A id, settlement, amount, at : Adjustment(id, settlement, amount, at).effectiveAt = at
  BY DEF Adjustment
<1>3. \A al \in unit.rows["adjustments"] : al[1].effectiveAt = SettledAtOf(plan, draw) - 12 * HOUR
  <2>1. \A a \in RoutineRows(plan, draw) : a.effectiveAt = SettledAtOf(plan, draw) - 12 * HOUR
    BY <1>2 DEF RoutineRows, RoutineAdjustments
  <2> QED
    BY <1>1, <2>1
<1>4. AdjustmentCanExplainSettlement(SettledAtOf(plan, draw) - 12 * HOUR, SettledAtOf(plan, draw))
  <2>1. PICK at \in Int : at = SettledAtOf(plan, draw)
    BY SettledAtIs
  <2>2. /\ at - 12 * HOUR \in Int /\ at - 12 * HOUR <= at
        /\ at - (at - 12 * HOUR) <= DAY
    BY DEF DAY, HOUR
  <2> QED
    BY <2>1, <2>2, JustBeforeExplains
<1>5. ImpossibleAdjustments(unit) = {}
  <2>1. PICK s \in unit.rows["settlements"] : s.settlementAt = SettledAtOf(plan, draw)
    BY SettlementsAre
  <2> QED
    BY <1>3, <1>4, <2>1 DEF ImpossibleAdjustments
<1> QED
  BY <1>5 DEF NoImpossibleAdjustment, AdjustmentsPossible

(* An adjustment of a month later cannot.                                  *)
LEMMA LateIsImpossible ==
  ASSUME NEW plan, NEW draw \in Drawn, Undecidable(plan), plan.adversarial,
         NEW unit, unit = UnitOfPlan(plan, draw)
  PROVE  ~NoImpossibleAdjustment(unit) /\ ~AdjustmentsPossible(unit)
<1>1. <<LateAdjustment(plan, draw), FirstLine(plan, draw)>> \in unit.rows["adjustments"]
  BY UnitIs, UnitAdjustmentsAre DEF UnitAdjustments
<1>2. LateAdjustment(plan, draw).effectiveAt = SettledAtOf(plan, draw) + 30 * DAY
  BY DEF LateAdjustment, Adjustment
<1>3. ~AdjustmentCanExplainSettlement(SettledAtOf(plan, draw) + 30 * DAY, SettledAtOf(plan, draw))
  <2>1. PICK at \in Int : at = SettledAtOf(plan, draw)
    BY SettledAtIs
  <2>2. ~(at + 30 * DAY <= at)
    BY DEF DAY, HOUR
  <2> QED
    BY <2>1, <2>2 DEF AdjustmentCanExplainSettlement
<1>4. \A s \in unit.rows["settlements"] : s.settlementAt = SettledAtOf(plan, draw)
  BY SettlementsAre
<1>5. ImpossibleAdjustments(unit) # {}
  BY <1>1, <1>2, <1>3, <1>4 DEF ImpossibleAdjustments
<1> QED
  BY <1>5, SettlementsAre DEF NoImpossibleAdjustment, AdjustmentsPossible

(* The window of a refund is that of the draw.                             *)
LEMMA RefundWindowIs ==
  ASSUME NEW plan, NEW draw \in Drawn, NEW unit, unit = UnitOfPlan(plan, draw)
  PROVE  /\ RefundsInWindow(unit) <=>
              ("REFUND_NETTING" \in plan.causes => WithinNettingWindow(draw))
         /\ unit.rows["refunds"] # {} <=> "REFUND_NETTING" \in plan.causes
<1>1. unit.rows["refunds"] = IF "REFUND_NETTING" \in plan.causes THEN {RefundRow(draw)} ELSE {}
  BY UnitIs, RefundRecordsAre
<1>2. Late(RefundRow(draw)) <=> ~WithinNettingWindow(draw)
  <2>1. PICK day \in Int : SettledInTime(draw) = DAY * day
    BY SettledAtIs
  <2>2. PICK created \in Int : created = DAY * (day - 1)
    BY DEF DAY, HOUR
  <2>3. SettledInTime(draw) - DAY = created
    BY <2>1, <2>2 DEF DAY, HOUR
  <2>4. /\ RefundRow(draw).createdAt = created
        /\ RefundRow(draw).settledAt =
             created + (IF WithinNettingWindow(draw) THEN 2 ELSE 9) * DAY
    BY <2>3 DEF RefundRow
  <2>5. \A n \in {2, 9} : created + n * DAY # Never
    BY <2>2 DEF Never, DAY, HOUR
  <2>6. \A n \in {2, 9} : DaysBetween(created + n * DAY, created) = n
    BY DEF DaysBetween, Magnitude, DAY, HOUR
  <2>7. CASE WithinNettingWindow(draw)
    BY <2>4, <2>5, <2>6, <2>7 DEF Late, REFUND_NETTING_MAX_CYCLES
  <2>8. CASE ~WithinNettingWindow(draw)
    BY <2>4, <2>5, <2>6, <2>8 DEF Late, REFUND_NETTING_MAX_CYCLES
  <2> QED
    BY <2>7, <2>8
<1> QED
  BY <1>1, <1>2 DEF RefundsInWindow

(* A settlement is late in a case of a lag, and in no other: a jitter of a *)
(* day is in tolerance.                                                    *)
LEMMA LagIsUntimely ==
  ASSUME NEW plan, NEW draw \in Drawn, NEW unit, unit = UnitOfPlan(plan, draw)
  PROVE  SettlementTimely(unit) <=> "TIMING_LAG" \notin plan.causes
<1>1. /\ unit.payment.capturedAt = draw.capturedAt /\ draw.capturedAt # Never
  <2>1. unit.payment = PaymentRecord(draw)
    BY UnitIs
  <2>2. draw.capturedAt \in Nat
    BY DrawnTypes
  <2> QED
    BY <2>1, <2>2 DEF PaymentRecord, Never
<1>2. PICK due \in Int, jitter \in 0..1, lag \in 0..3 :
        /\ due = ExpectedSettlementDate(draw.capturedAt)
        /\ jitter = draw.jitterDays /\ lag = draw.variant % 4
  <2>1. draw.variant \in 0..7 /\ draw.jitterDays \in 0..1
    BY DrawnTypes
  <2>2. draw.variant % 4 \in 0..3
    BY <2>1
  <2> QED
    BY <2>1, <2>2, SettledAtIs
<1>3. SettledAtOf(plan, draw) =
        due + (IF "TIMING_LAG" \in plan.causes THEN jitter + 2 + lag ELSE jitter) * DAY
  BY <1>2 DEF SettledAtOf, SettledInTime, DAY, HOUR
<1>4. \A n \in 0..6 : DaysBetween(due + n * DAY, due) = n
  BY DEF DaysBetween, Magnitude, DAY, HOUR
<1>5. \A s \in unit.rows["settlements"] : s.settlementAt = SettledAtOf(plan, draw)
  BY SettlementsAre
<1>6. CASE "TIMING_LAG" \in plan.causes
  <2>1. DaysBetween(SettledAtOf(plan, draw), due) = jitter + 2 + lag
    BY <1>3, <1>4, <1>6
  <2>2. ~(jitter + 2 + lag <= 1)
    OBVIOUS
  <2>3. ~(DaysBetween(SettledAtOf(plan, draw), due) <= SETTLEMENT_DATE_MATCH_TOLERANCE_DAYS)
    BY <2>1, <2>2 DEF SETTLEMENT_DATE_MATCH_TOLERANCE_DAYS
  <2> QED
    BY <1>1, <1>2, <1>5, <1>6, <2>3, SettlementsAre DEF SettlementTimely
<1>7. CASE "TIMING_LAG" \notin plan.causes
  <2>1. DaysBetween(SettledAtOf(plan, draw), due) = jitter
    BY <1>3, <1>4, <1>7
  <2>2. DaysBetween(SettledAtOf(plan, draw), due) <= SETTLEMENT_DATE_MATCH_TOLERANCE_DAYS
    BY <2>1 DEF SETTLEMENT_DATE_MATCH_TOLERANCE_DAYS
  <2> QED
    BY <1>1, <1>2, <1>5, <1>7, <2>2, SettlementsAre DEF SettlementTimely
<1> QED
  BY <1>6, <1>7

(* Each settlement has its credit.                                         *)
LEMMA CreditsExist ==
  ASSUME NEW plan, NEW draw, NEW unit, unit = UnitOfPlan(plan, draw)
  PROVE  \A s \in unit.rows["settlements"] : \E b \in unit.rows["credits"] : b.utr = s.utr
<1>1. /\ FirstSettlement(plan, draw).utr = FirstCredit(plan, draw).utr
      /\ SecondSettlement(plan, draw).utr = SecondCredit(plan, draw).utr
  BY DEF FirstSettlement, SecondSettlement, FirstCredit, SecondCredit, SettlementRow, CreditRow
<1>2. /\ unit.rows["settlements"] = SettlementRows(plan, draw)
      /\ unit.rows["credits"] = CreditRows(plan, draw)
  BY UnitIs
<1> QED
  BY <1>1, <1>2 DEF SettlementRows, CreditRows

(* The credit of the second settlement comes too late to be its own.       *)
LEMMA CreditsAre ==
  ASSUME NEW plan, NEW draw \in Drawn, NEW unit, unit = UnitOfPlan(plan, draw),
         NEW find \in Finds(unit)
  PROVE  BankCredited(unit, find) <=> ~IsSplit(plan)
<1>1. \A ids, net, at : /\ SettlementRow(ids, net, at).settlementAt = at
                        /\ SettlementRow(ids, net, at).utr = ids.utr
                        /\ SettlementRow(ids, net, at).net = net
                        /\ CreditRow(ids, net, at).utr = ids.utr
                        /\ CreditRow(ids, net, at).amount = net
                        /\ CreditRow(ids, net, at).creditedAt = at
  BY DEF SettlementRow, CreditRow
<1>2. /\ FirstSettlement(plan, draw).utr = "UTR" /\ FirstCredit(plan, draw).utr = "UTR"
      /\ SecondSettlement(plan, draw).utr = "UTRB" /\ SecondCredit(plan, draw).utr = "UTRB"
      /\ FirstCredit(plan, draw).amount = FirstSettlement(plan, draw).net
      /\ FirstSettlement(plan, draw).settlementAt = SettledAtOf(plan, draw)
      /\ SecondSettlement(plan, draw).settlementAt = SettledAtOf(plan, draw)
      /\ FirstCredit(plan, draw).creditedAt = SettledAtOf(plan, draw) + 6 * HOUR
      /\ SecondCredit(plan, draw).creditedAt = CreditedLate(plan, draw)
  BY <1>1 DEF FirstSettlement, SecondSettlement, FirstCredit, SecondCredit,
     FirstLegIds, SecondLegIds
<1>3. /\ unit.rows["settlements"] = SettlementRows(plan, draw)
      /\ unit.rows["credits"] = CreditRows(plan, draw)
  BY UnitIs
<1>4. /\ DOMAIN find = {b.utr : b \in CreditRows(plan, draw)}
      /\ \A utr \in DOMAIN find : find[utr] \in CreditRows(plan, draw) /\ find[utr].utr = utr
  BY <1>3 DEF Finds
<1>5. PICK at \in Int, v \in 0..7 : at = SettledAtOf(plan, draw) /\ v = draw.variant
  BY SettledAtIs, DrawnTypes
<1>6. BankCreditWithinExpectedLag(at, at + 6 * HOUR)
  BY DEF BankCreditWithinExpectedLag, BANK_CREDIT_EXPECTED_LAG_HOURS, HOUR
<1>7. ~BankCreditWithinExpectedLag(at, CreditedLate(plan, draw))
  <2>1. PICK lag \in Nat : lag = v % 20
    BY <1>5
  <2>2. CreditedLate(plan, draw) = at + (26 + lag) * 60
    BY <1>5, <2>1 DEF CreditedLate, HOUR
  <2>3. CreditedLate(plan, draw) \in Int /\ CreditedLate(plan, draw) - at > 1440
    BY <2>2
  <2> QED
    BY <2>3 DEF BankCreditWithinExpectedLag, BANK_CREDIT_EXPECTED_LAG_HOURS, HOUR
<1>8. CASE IsSplit(plan)
  <2>1. /\ SettlementRows(plan, draw) = {FirstSettlement(plan, draw), SecondSettlement(plan, draw)}
        /\ CreditRows(plan, draw) = {FirstCredit(plan, draw), SecondCredit(plan, draw)}
    BY <1>8 DEF SettlementRows, CreditRows
  <2>2. "UTRB" \in DOMAIN find /\ find["UTRB"] = SecondCredit(plan, draw)
    BY <1>2, <1>4, <2>1
  <2>3. ~Credited(SecondSettlement(plan, draw), find)
    BY <1>2, <1>5, <1>7, <2>2 DEF Credited
  <2> QED
    BY <1>2, <1>3, <1>8, <2>1, <2>3 DEF BankCredited, NoUtr
<1>9. CASE ~IsSplit(plan)
  <2>1. /\ SettlementRows(plan, draw) = {FirstSettlement(plan, draw)}
        /\ CreditRows(plan, draw) = {FirstCredit(plan, draw)}
    BY <1>9 DEF SettlementRows, CreditRows
  <2>2. "UTR" \in DOMAIN find /\ find["UTR"] = FirstCredit(plan, draw)
    BY <1>2, <1>4, <2>1
  <2>3. Credited(FirstSettlement(plan, draw), find)
    BY <1>2, <1>5, <1>6, <2>2 DEF Credited
  <2> QED
    BY <1>2, <1>3, <1>9, <2>1, <2>3 DEF BankCredited
<1> QED
  BY <1>8, <1>9

----------------------------------------------------------------------------
(* What the matcher makes of a case.                                       *)

(* The names of the checks that fail.                                      *)
ChecksFailed(unit, find) == {c[1] : c \in Failures(unit, find)}

(* A check is among them if it fails.                                      *)
LEMMA FailuresAre ==
  ASSUME NEW unit, NEW find
  PROVE  /\ "lifecycle_consistency" \in ChecksFailed(unit, find) <=> ~LifecycleConsistent(unit)
         /\ "fee_matches_schedule" \in ChecksFailed(unit, find) <=> ~FeeMatchesSchedule(unit)
         /\ "settlement_present" \in ChecksFailed(unit, find) <=> ~SettlementPresent(unit)
         /\ "amount_conservation" \in ChecksFailed(unit, find) <=> ~AmountConserved(unit)
         /\ "settlement_timing" \in ChecksFailed(unit, find) <=> ~SettlementTimely(unit)
         /\ "refund_netting_window" \in ChecksFailed(unit, find) <=> ~RefundsInWindow(unit)
         /\ "adjustment_timing" \in ChecksFailed(unit, find) <=> ~AdjustmentsPossible(unit)
         /\ "bank_credit" \in ChecksFailed(unit, find) <=> ~BankCredited(unit, find)
         /\ ChecksFailed(unit, find) \subseteq
              { "lifecycle_consistency", "fee_matches_schedule", "settlement_present",
                "amount_conservation", "settlement_timing", "refund_netting_window",
                "adjustment_timing", "bank_credit" }
<1> DEFINE life == <<"lifecycle_consistency", LifecycleConsistent(unit)>>
           fee == <<"fee_matches_schedule", FeeMatchesSchedule(unit)>>
           present == <<"settlement_present", SettlementPresent(unit)>>
           amount == <<"amount_conservation", AmountConserved(unit)>>
           timing == <<"settlement_timing", SettlementTimely(unit)>>
           refund == <<"refund_netting_window", RefundsInWindow(unit)>>
           adjust == <<"adjustment_timing", AdjustmentsPossible(unit)>>
           credit == <<"bank_credit", BankCredited(unit, find)>>
<1>1. ChecksFailed(unit, find) =
        {c[1] : c \in {c \in {life, fee, present, amount, timing, refund, adjust, credit} :
                         ~c[2]}}
  BY DEF ChecksFailed, Failures
<1>2. /\ life[1] = "lifecycle_consistency" /\ (life[2] <=> LifecycleConsistent(unit))
      /\ fee[1] = "fee_matches_schedule" /\ (fee[2] <=> FeeMatchesSchedule(unit))
      /\ present[1] = "settlement_present" /\ (present[2] <=> SettlementPresent(unit))
      /\ amount[1] = "amount_conservation" /\ (amount[2] <=> AmountConserved(unit))
      /\ timing[1] = "settlement_timing" /\ (timing[2] <=> SettlementTimely(unit))
      /\ refund[1] = "refund_netting_window" /\ (refund[2] <=> RefundsInWindow(unit))
      /\ adjust[1] = "adjustment_timing" /\ (adjust[2] <=> AdjustmentsPossible(unit))
      /\ credit[1] = "bank_credit" /\ (credit[2] <=> BankCredited(unit, find))
  OBVIOUS
<1> HIDE DEF life, fee, present, amount, timing, refund, adjust, credit
<1>3. \A n : n \in ChecksFailed(unit, find) <=>
        \E c \in {life, fee, present, amount, timing, refund, adjust, credit} :
          ~c[2] /\ c[1] = n
  BY <1>1
<1> QED
  BY <1>2, <1>3

(* The reasons of a verdict are those of the checks that fail.             *)
LEMMA ReasonsAre ==
  ASSUME NEW unit, NEW reasons \in Verdicts(unit)
  PROVE  \E find \in Finds(unit) :
           /\ reasons = {} <=> ChecksFailed(unit, find) = {}
           /\ \A check \in ChecksFailed(unit, find) \ {"bank_credit"} :
                ReasonOf(check, unit) \in reasons
<1>1. PICK find \in Finds(unit) : reasons \in ReasonsOf(unit, find)
  BY DEF Verdicts
<1> DEFINE checks == ChecksFailed(unit, find)
           others == {ReasonOf(check, unit) : check \in checks \ {"bank_credit"}}
<1>2. ReasonsOf(unit, find) =
        IF "bank_credit" \in checks
        THEN {others \cup {CreditReason(s, find)} : s \in Uncredited(unit, find)}
        ELSE {others}
  BY DEF ReasonsOf, ChecksFailed
<1> HIDE DEF checks
<1>3. CASE "bank_credit" \in checks
  <2>1. PICK s \in Uncredited(unit, find) : reasons = others \cup {CreditReason(s, find)}
    BY <1>1, <1>2, <1>3
  <2>2. reasons # {} /\ checks # {}
    BY <1>3, <2>1
  <2>3. \A check \in checks \ {"bank_credit"} : ReasonOf(check, unit) \in reasons
    BY <2>1
  <2> QED
    BY <2>2, <2>3 DEF checks
<1>4. CASE "bank_credit" \notin checks
  <2>1. reasons = others
    BY <1>1, <1>2, <1>4
  <2>2. reasons = {} <=> checks = {}
    BY <1>4, <2>1
  <2>3. \A check \in checks \ {"bank_credit"} : ReasonOf(check, unit) \in reasons
    BY <2>1
  <2> QED
    BY <2>2, <2>3 DEF checks
<1> QED
  BY <1>3, <1>4

(* What rounding is allowed for none, one and two records.                 *)
LEMMA Tolerances ==
  /\ RoundingToleranceFor(0) = 2 /\ RoundingToleranceFor(1) = 2 /\ RoundingToleranceFor(2) = 4
BY DEF RoundingToleranceFor, Smaller, Larger, ROUNDING_TOLERANCE_PER_RECORD_MINOR,
   ROUNDING_TOLERANCE_ABSOLUTE_CAP_MINOR

(* The net of a case matches when its variance is within the rounding of   *)
(* its lines.                                                              *)
LEMMA AmountIs ==
  ASSUME NEW plan, NEW draw \in Drawn, NEW unit, unit = UnitOfPlan(plan, draw)
  PROVE  /\ AmountConserved(unit) <=>
              Magnitude(Variance(unit)) <= IF IsSplit(plan) THEN 4 ELSE 2
         /\ WithinRoundingTolerance(Variance(unit), Cardinality(unit.rows["lines"])) <=>
              Magnitude(Variance(unit)) <= IF IsSplit(plan) THEN 4 ELSE 2
         /\ SettlementPresent(unit)
<1>1. WithinRoundingTolerance(Variance(unit), Cardinality(unit.rows["lines"])) <=>
        Magnitude(Variance(unit)) <= IF IsSplit(plan) THEN 4 ELSE 2
  BY SettlementsAre, Tolerances DEF WithinRoundingTolerance
<1>2. SettlementPresent(unit)
  BY SettlementsAre DEF SettlementPresent
<1>3. Discrepancy(unit) = Variance(unit) /\ HasBreakdown(unit)
  BY VarianceIs DEF Discrepancy, Variance
<1> QED
  BY <1>1, <1>2, <1>3 DEF AmountConserved

(* The causes of a case, one by one.                                       *)
LEMMA PlanCauses ==
  ASSUME NEW plan, IsPlan(plan)
  PROVE  /\ plan.causes # {}
         /\ Undecidable(plan) => plan.causes = {"AMBIGUOUS"}
         /\ ~Undecidable(plan) => plan.adversarial = FALSE /\ plan.causes \subseteq SINGLE_CAUSES
<1>1. "AMBIGUOUS" \notin SINGLE_CAUSES
  BY DEF SINGLE_CAUSES
<1>2. CASE plan.causes = {"AMBIGUOUS"}
  BY <1>2 DEF Undecidable
<1>3. CASE plan.causes # {"AMBIGUOUS"}
  <2>1. /\ plan.causes \subseteq SINGLE_CAUSES /\ plan.causes # {}
        /\ plan.adversarial = FALSE
    <3>1. plan.causes \in (SUBSET SINGLE_CAUSES) \ {{}}
      BY <1>3, Zenon DEF IsPlan
    <3>2. plan.adversarial = FALSE
      BY <1>3, Zenon DEF IsPlan
    <3>3. plan.causes \subseteq SINGLE_CAUSES /\ plan.causes # {}
      BY <3>1
    <3> QED
      BY <3>2, <3>3, Zenon
  <2>2. ~Undecidable(plan)
    BY <1>1, <2>1 DEF Undecidable
  <2> QED
    BY <2>1, <2>2
<1> QED
  BY <1>2, <1>3

(* The variance of a case whose fee is recorded, or due at nothing.        *)
LEMMA VarianceApart ==
  ASSUME NEW plan, IsPlan(plan), NEW draw \in Drawn, NEW unit, unit = UnitOfPlan(plan, draw),
         "MDR_FEE" \in plan.causes => draw.method = "UPI"
  PROVE  /\ Undecidable(plan) /\ ~plan.adversarial => Variance(unit) = VarianceOf(draw)
         /\ plan.causes \cap {"ROUNDING_DRIFT", "REFUND_NETTING"} # {} =>
              Magnitude(Variance(unit)) > 2
         /\ plan.causes \cap {"ROUNDING_DRIFT", "REFUND_NETTING", "AMBIGUOUS"} = {} =>
              Variance(unit) = 0
<1>1. PICK v \in Nat, drift \in 3..7 : v = VarianceOf(draw) /\ v >= 91 /\ drift = Drift(draw)
  BY VarianceIsDrawn, UnexplainedIs
<1>2. Withheld(plan, draw) = 0
  BY FeesAreNat DEF Withheld
<1>3. Variance(unit) = Unexplained(plan, draw) - Refunded(plan, draw) - Misdated(plan, draw)
  <2>1. PICK u \in Int, r \in Int, m \in Int :
          /\ u = Unexplained(plan, draw) /\ r = Refunded(plan, draw)
          /\ m = Misdated(plan, draw)
    BY UnexplainedIs, VarianceIsDrawn DEF Refunded, Misdated
  <2>2. Variance(unit) = u + 0 - r - m
    BY <1>2, <2>1, VarianceIs
  <2> QED
    BY <2>1, <2>2
<1>4. CASE Undecidable(plan)
  <2>1. plan.causes = {"AMBIGUOUS"}
    BY <1>4, PlanCauses
  <2>2. ~plan.adversarial => Variance(unit) = v
    BY <1>1, <1>3, <1>4, <2>1 DEF Unexplained, Refunded, Misdated
  <2> QED
    BY <1>1, <1>4, <2>1, <2>2
<1>5. CASE ~Undecidable(plan)
  <2>1. Variance(unit) = (IF "ROUNDING_DRIFT" \in plan.causes THEN drift ELSE 0)
                           - (IF "REFUND_NETTING" \in plan.causes THEN v ELSE 0)
    BY <1>1, <1>3, <1>5 DEF Unexplained, Refunded, Misdated
  <2>2. plan.causes \cap {"ROUNDING_DRIFT", "REFUND_NETTING"} # {} =>
          Magnitude(Variance(unit)) > 2
    BY <1>1, <2>1 DEF Magnitude
  <2>3. plan.causes \cap {"ROUNDING_DRIFT", "REFUND_NETTING", "AMBIGUOUS"} = {} =>
          Variance(unit) = 0
    BY <2>1
  <2> QED
    BY <1>5, <2>2, <2>3
<1> QED
  BY <1>4, <1>5

(* Every case but one has a check that fails.                              *)
LEMMA SomethingFails ==
  ASSUME NEW plan, IsPlan(plan), NEW draw \in Drawn, NEW unit, unit = UnitOfPlan(plan, draw),
         NEW find \in Finds(unit), ~(plan.causes = {"MDR_FEE"} /\ draw.method = "UPI")
  PROVE  ChecksFailed(unit, find) # {}
<1>1. CASE IsSplit(plan)
  BY <1>1, CreditsAre, FailuresAre
<1>2. CASE "TIMING_LAG" \in plan.causes
  BY <1>2, LagIsUntimely, FailuresAre
<1>3. CASE "MDR_FEE" \in plan.causes /\ draw.method # "UPI"
  <2>1. unit.rows["fees"] = {}
    BY <1>3, UnitIs DEF FeeRows
  <2>2. unit.payment = PaymentRecord(draw)
    BY UnitIs
  <2>3. ScheduledFee(unit.payment.amount, unit.payment.method, FeeTime(unit)) = FeeOf(draw)
    BY <2>2, VarianceIs, FeesAreNat DEF PaymentRecord
  <2>4. FeeOf(draw) # 0
    BY <1>3, FeesAreNat
  <2>5. ~FeeMatchesSchedule(unit)
    BY <2>1, <2>3, <2>4 DEF FeeMatchesSchedule
  <2> QED
    BY <2>5, FailuresAre
<1>4. CASE Undecidable(plan) /\ plan.adversarial
  BY <1>4, LateIsImpossible, FailuresAre
<1>5. CASE /\ ~IsSplit(plan) /\ "TIMING_LAG" \notin plan.causes
           /\ "MDR_FEE" \in plan.causes => draw.method = "UPI"
           /\ ~(Undecidable(plan) /\ plan.adversarial)
  <2>1. Magnitude(Variance(unit)) > 2 /\ Magnitude(Variance(unit)) \in Int
    <3>0. Variance(unit) \in Int
      <4>1. Withheld(plan, draw) \in Int /\ Refunded(plan, draw) \in Int /\ Misdated(plan, draw) \in Int
        BY FeesAreNat, VarianceIsDrawn DEF Withheld, Refunded, Misdated
      <4> QED
        BY <4>1, UnexplainedIs, VarianceIs
    <3>1. CASE Undecidable(plan)
      <4>1. Variance(unit) = VarianceOf(draw)
        BY <1>5, <3>1, VarianceApart
      <4>2. PICK v \in Nat : v = VarianceOf(draw) /\ v >= 91
        BY VarianceIsDrawn
      <4> QED
        BY <4>1, <4>2 DEF Magnitude
    <3>2. CASE ~Undecidable(plan)
      <4>1. plan.causes \cap {"ROUNDING_DRIFT", "REFUND_NETTING"} # {}
        <5>1. plan.causes # {} /\ plan.causes \subseteq SINGLE_CAUSES
          BY <3>2, PlanCauses
        <5>2. plan.causes # {"MDR_FEE"}
          BY <1>5
        <5> QED
          BY <1>5, <5>1, <5>2 DEF SINGLE_CAUSES, IsSplit
      <4> QED
        BY <1>5, <3>0, <4>1, VarianceApart DEF Magnitude
    <3> QED
      BY <3>1, <3>2
  <2>2. ~AmountConserved(unit)
    BY <1>5, <2>1, AmountIs
  <2> QED
    BY <2>2, FailuresAre
<1> QED
  BY <1>1, <1>2, <1>3, <1>4, <1>5

(* The one that has none: a missing fee where none is due.                 *)
LEMMA NothingFails ==
  ASSUME NEW plan, IsPlan(plan), NEW draw \in Drawn, NEW unit, unit = UnitOfPlan(plan, draw),
         NEW find \in Finds(unit), plan.causes = {"MDR_FEE"}, draw.method = "UPI"
  PROVE  ChecksFailed(unit, find) = {}
<1>1. unit.payment = PaymentRecord(draw) /\ unit.rows["fees"] = {} /\ unit.rows["refunds"] = {}
  <2>1. unit.payment = PaymentRecord(draw)
    BY UnitIs
  <2>2. unit.rows["fees"] = {}
    BY UnitIs DEF FeeRows
  <2>3. unit.rows["refunds"] = {}
    BY RefundWindowIs
  <2> QED
    BY <2>1, <2>2, <2>3
<1>2. PICK at \in Nat : at = draw.capturedAt
  BY DrawnTypes
<1>3. LifecycleConsistent(unit)
  <2>1. /\ unit.payment.capturedAt = at /\ unit.payment.authorizedAt = at - HOUR
        /\ unit.payment.status = "CAPTURED"
    BY <1>1, <1>2 DEF PaymentRecord
  <2>2. at # Never /\ at >= at - HOUR
    BY DEF Never, HOUR
  <2> QED
    BY <1>1, <2>1, <2>2 DEF LifecycleConsistent
<1>4. FeeMatchesSchedule(unit)
  <2>1. ScheduledFee(unit.payment.amount, unit.payment.method, FeeTime(unit)) = 0
    BY <1>1, VarianceIs, FeesAreNat DEF PaymentRecord
  <2>2. Total(unit.rows["fees"]) = 0 /\ Cardinality(unit.rows["fees"]) = 0
    BY <1>1, TotalOfNone, FS_EmptySet
  <2>3. WithinRoundingTolerance(0 - 0, 0)
    BY Tolerances DEF WithinRoundingTolerance, Magnitude
  <2>4. FeeTime(unit) # Never /\ InForce(FeeTime(unit)) # {}
    BY <1>2, VarianceIs, ScheduleIsInForce
  <2> QED
    BY <2>1, <2>2, <2>3, <2>4 DEF FeeMatchesSchedule
<1>5. ~IsSplit(plan) /\ ~Undecidable(plan)
  BY DEF IsSplit, Undecidable
<1>6. AmountConserved(unit) /\ SettlementPresent(unit)
  <2>1. Variance(unit) = 0
    BY VarianceApart
  <2> QED
    BY <1>5, <2>1, AmountIs DEF Magnitude
<1>7. SettlementTimely(unit)
  BY LagIsUntimely
<1>8. RefundsInWindow(unit)
  BY <1>1 DEF RefundsInWindow
<1>9. AdjustmentsPossible(unit)
  BY <1>5, RoutineIsPossible
<1>10. BankCredited(unit, find)
  BY <1>5, CreditsAre
<1> QED
  BY <1>3, <1>4, <1>6, <1>7, <1>8, <1>9, <1>10, FailuresAre

----------------------------------------------------------------------------
(* What the verifier makes of a case.                                      *)

(* PlansForStratum plans nothing else.                                     *)
LEMMA PlansArePlans ==
  ASSUME NEW stratum, NEW plan \in PlansForStratum(stratum, development),
         development \in Developments
  PROVE  IsPlan(plan)
<1>1. \A causes, adversarial :
        /\ Plan(causes, adversarial).causes = causes
        /\ Plan(causes, adversarial).adversarial = adversarial
  BY DEF Plan
<1>2. ASSUME NEW causes \in (SUBSET SINGLE_CAUSES) \ {{}}, plan = Plan(causes, FALSE)
      PROVE  IsPlan(plan)
  BY <1>1, <1>2, Zenon DEF IsPlan
<1>3. \A S : \A k \in {1, 2, 3, 4} : \A causes \in kSubset(k, S) : causes \subseteq S /\ causes # {}
  BY FS_EmptySet DEF kSubset
<1>4. CASE stratum = "ADVERSARIAL"
  <2>1. plan = Plan({"AMBIGUOUS"}, TRUE)
    BY <1>4 DEF PlansForStratum
  <2>2. plan.causes = {"AMBIGUOUS"} /\ plan.adversarial \in BOOLEAN
    BY <1>1, <2>1
  <2> QED
    BY <2>2, Zenon DEF IsPlan
<1>5. CASE stratum = "AMBIGUOUS"
  <2>1. plan = Plan({"AMBIGUOUS"}, FALSE)
    BY <1>5 DEF PlansForStratum
  <2>2. plan.causes = {"AMBIGUOUS"} /\ plan.adversarial \in BOOLEAN
    BY <1>1, <2>1
  <2> QED
    BY <2>2, Zenon DEF IsPlan
<1>6. CASE stratum = "COMPOUND_UNSEEN"
  <2>1. PICK causes \in kSubset(3, SINGLE_CAUSES) \cup kSubset(4, SINGLE_CAUSES) :
          plan = Plan(causes, FALSE)
    BY <1>6 DEF PlansForStratum
  <2> QED
    BY <1>2, <1>3, <2>1
<1>7. CASE stratum = "NOVEL_COMBINATION"
  <2>1. PICK causes \in kSubset(2, Singles(development)) \cup kSubset(1, SINGLE_CAUSES) :
          plan = Plan(causes, FALSE)
    BY <1>7 DEF PlansForStratum
  <2>2. Singles(development) \subseteq SINGLE_CAUSES
    BY DEF Singles
  <2>3. causes \subseteq SINGLE_CAUSES /\ causes # {}
    BY <1>3, <2>1, <2>2
  <2> QED
    BY <1>2, <2>1, <2>3
<1>8. CASE stratum \notin {"ADVERSARIAL", "AMBIGUOUS", "COMPOUND_UNSEEN", "NOVEL_COMBINATION"}
  <2>1. PICK causes \in Tuples(development) : plan = Plan(causes, FALSE)
    BY <1>8 DEF PlansForStratum
  <2>2. causes \in (SUBSET SINGLE_CAUSES) \ {{}}
    BY <2>1, BenchmarkAssumption DEF Tuples
  <2> QED
    BY <1>2, <2>1, <2>2
<1> QED
  BY <1>4, <1>5, <1>6, <1>7, <1>8

(* A set of one.                                                           *)
LEMMA OneCause ==
  ASSUME NEW S, Cardinality(S) = 1, NEW x \in S, IsFiniteSet(S)
  PROVE  S = {x}
<1>1. PICK y : S = {y}
  BY FS_Singleton
<1> QED
  BY <1>1

(* A case has finitely many causes.                                        *)
LEMMA CausesAreFinite ==
  ASSUME NEW plan, IsPlan(plan)
  PROVE  IsFiniteSet(plan.causes)
<1>1. IsFiniteSet({"AMBIGUOUS"})
  BY FS_Singleton
<1>2. IsFiniteSet(SINGLE_CAUSES)
  <2>1. IsFiniteSet({"MDR_FEE"} \cup {"UTR_SPLIT"} \cup {"REFUND_NETTING"} \cup {"TIMING_LAG"}
                      \cup {"ROUNDING_DRIFT"})
    BY FS_Singleton, FS_Union
  <2>2. SINGLE_CAUSES = {"MDR_FEE"} \cup {"UTR_SPLIT"} \cup {"REFUND_NETTING"}
                          \cup {"TIMING_LAG"} \cup {"ROUNDING_DRIFT"}
    BY DEF SINGLE_CAUSES
  <2> QED
    BY <2>1, <2>2
<1> QED
  BY <1>1, <1>2, PlanCauses, FS_Subset

(* A case of one cause that cannot be proved is an unexplained variance or *)
(* a late refund.                                                          *)
LEMMA TrapIs ==
  ASSUME NEW plan, IsPlan(plan), NEW draw, Cardinality(plan.causes) = 1,
         TrueDisposition(plan, draw) # "RESOLVE"
  PROVE  \/ plan.causes = {"AMBIGUOUS"}
         \/ plan.causes = {"REFUND_NETTING"} /\ ~WithinNettingWindow(draw)
BY CausesAreFinite, PlanCauses, OneCause DEF TrueDisposition

(* The verifier accepts no cause of it, but rounding that the variance can *)
(* pass for, where no adjustment is impossible.                            *)
LEMMA TrapIsRefused ==
  ASSUME NEW plan, IsPlan(plan), NEW draw \in Drawn, NEW unit, unit = UnitOfPlan(plan, draw),
         Cardinality(plan.causes) = 1, TrueDisposition(plan, draw) # "RESOLVE",
         NEW proposal, Substantiated(proposal, unit)
  PROVE  ~plan.adversarial /\ VarianceOf(draw) <= ROUNDING_TOLERANCE_ABSOLUTE_CAP_MINOR
<1>1. \/ plan.causes = {"AMBIGUOUS"}
      \/ plan.causes = {"REFUND_NETTING"} /\ ~WithinNettingWindow(draw)
  BY TrapIs
<1>2. /\ "RESOLVE" \in CauseDispositionPolicy(proposal.cause)
      /\ NoImpossibleAdjustment(unit) /\ CauseSupported(proposal.cause, unit)
  BY DEF Substantiated
<1>3. ~plan.adversarial
  <2>1. CASE plan.causes = {"AMBIGUOUS"}
    BY <1>2, <2>1, LateIsImpossible DEF Undecidable
  <2>2. CASE plan.causes = {"REFUND_NETTING"}
    BY <2>2, PlanCauses DEF Undecidable
  <2> QED
    BY <1>1, <2>1, <2>2
<1>4. PICK v \in Nat : v = VarianceOf(draw) /\ v >= 91
  BY VarianceIsDrawn
<1>5. Variance(unit) \in {v, -v} /\ Unrecorded(unit) = 0 /\ ~IsSplit(plan)
  <2>1. Withheld(plan, draw) = 0 /\ ~IsSplit(plan) /\ Misdated(plan, draw) = 0
    BY <1>1, <1>3 DEF Withheld, IsSplit, Misdated
  <2>2. /\ plan.causes = {"AMBIGUOUS"} =>
             Unexplained(plan, draw) = v /\ Refunded(plan, draw) = 0
        /\ plan.causes = {"REFUND_NETTING"} =>
             Unexplained(plan, draw) = 0 /\ Refunded(plan, draw) = v
    BY <1>4 DEF Unexplained, Refunded, Undecidable
  <2>3. Variance(unit) = v \/ Variance(unit) = -v
    BY <1>1, <2>1, <2>2, VarianceIs
  <2> QED
    BY <2>1, <2>3, VarianceIs
<1>6. Magnitude(Variance(unit)) = v /\ Magnitude(Unrecorded(unit)) = 0
  BY <1>5 DEF Magnitude
<1>7. ~FeeExplains(unit)
  BY <1>4, <1>6, Tolerances DEF FeeExplains, WithinRoundingTolerance, Magnitude
<1>8. ~SplitExplains(unit)
  BY <1>5, SettlementsAre DEF SplitExplains
<1>9. ~LagExplains(unit)
  BY <1>4, <1>5, <1>6, AmountIs DEF LagExplains
<1>10. ~RefundExplains(unit)
  BY <1>1, RefundWindowIs DEF RefundExplains
<1>11. proposal.cause # "AMBIGUOUS"
  BY <1>2 DEF CauseDispositionPolicy
<1>12. DriftExplains(unit)
  BY <1>2, <1>7, <1>8, <1>9, <1>10, <1>11 DEF CauseSupported
<1> QED
  BY <1>3, <1>4, <1>6, <1>12 DEF DriftExplains

(* A cause that is supported is verified, on all the records of the unit.  *)
LEMMA SupportedIsVerified ==
  ASSUME NEW cause, NEW unit, "RESOLVE" \in CauseDispositionPolicy(cause),
         NoImpossibleAdjustment(unit), CauseSupported(cause, unit)
  PROVE  Verified(cause, unit).effective = "RESOLVE"
<1>1. /\ Resolution(cause, unit).cause = cause /\ Resolution(cause, unit).disposition = "RESOLVE"
      /\ Resolution(cause, unit).evidence = RecordIds(unit)
      /\ Resolution(cause, unit).retrieved = RecordIds(unit)
  BY DEF Resolution, Proposal
<1>2. EvidenceInScope(Resolution(cause, unit), unit)
  <2>1. RecordIds(unit) # {}
    BY DEF RecordIds
  <2> QED
    BY <1>1, <2>1 DEF EvidenceInScope
<1>3. Substantiated(Resolution(cause, unit), unit)
  BY <1>1, <1>2 DEF Substantiated
<1>4. Effective(Resolution(cause, unit), unit) = "RESOLVE"
  BY <1>1, <1>3 DEF Effective
<1> QED
  BY <1>4 DEF Verified, Outcome

(* The verifier accepts the cause of a case of one that can be proved.     *)
LEMMA CauseIsProvable ==
  ASSUME NEW plan, IsPlan(plan), NEW draw \in Drawn, NEW unit, unit = UnitOfPlan(plan, draw),
         NEW cause, plan.causes = {cause}, TrueDisposition(plan, draw) = "RESOLVE"
  PROVE  Verified(cause, unit).effective = "RESOLVE"
<1>1. ~Undecidable(plan) /\ cause \in SINGLE_CAUSES
  BY PlanCauses DEF TrueDisposition, Undecidable
<1>2. "RESOLVE" \in CauseDispositionPolicy(cause)
  BY <1>1 DEF CauseDispositionPolicy, SINGLE_CAUSES, DISPOSITIONS
<1>5. NoImpossibleAdjustment(unit)
  BY <1>1, RoutineIsPossible
<1>6. CauseSupported(cause, unit)
  <2>1. HasBreakdown(unit)
    BY VarianceIs
  <2>2. Misdated(plan, draw) = 0
    BY <1>1 DEF Misdated
  <2>3. CASE cause = "MDR_FEE"
    <3>1. PICK w \in Nat : w = Withheld(plan, draw)
      BY FeesAreNat DEF Withheld
    <3>2. Unexplained(plan, draw) = 0 /\ Refunded(plan, draw) = 0
      BY <1>1, <2>3 DEF Unexplained, Refunded
    <3>3. Variance(unit) = w /\ Unrecorded(unit) = w
      BY <2>2, <3>1, <3>2, VarianceIs
    <3>4. FeeTime(unit) # Never /\ InForce(FeeTime(unit)) # {}
      BY DrawnTypes, VarianceIs, ScheduleIsInForce
    <3>5. FeeExplains(unit)
      BY <3>3, <3>4, Tolerances DEF FeeExplains, WithinRoundingTolerance, Magnitude
    <3> QED
      BY <2>1, <2>3, <3>5 DEF CauseSupported, VarianceComputable
  <2>4. CASE cause \in {"UTR_SPLIT", "TIMING_LAG"}
    <3>1. Variance(unit) = 0
      BY <2>4, VarianceApart
    <3>2. WithinRoundingTolerance(Variance(unit), Cardinality(unit.rows["lines"]))
      BY <3>1, AmountIs DEF Magnitude
    <3>3. cause = "UTR_SPLIT" => SplitExplains(unit)
      <4>1. cause = "UTR_SPLIT" => Cardinality(unit.rows["settlements"]) >= 2
        BY SettlementsAre DEF IsSplit
      <4>2. \A s \in unit.rows["settlements"] : \E b \in unit.rows["credits"] : b.utr = s.utr
        BY CreditsExist
      <4> QED
        BY <3>2, <4>1, <4>2 DEF SplitExplains
    <3>4. LagExplains(unit)
      <4>1. unit.payment = PaymentRecord(draw) /\ draw.capturedAt \in Nat
        BY UnitIs, DrawnTypes
      <4>2. unit.payment.capturedAt # Never
        BY <4>1 DEF PaymentRecord, Never
      <4> QED
        BY <3>2, <4>2, SettlementsAre DEF LagExplains
    <3> QED
      BY <2>1, <2>4, <3>3, <3>4 DEF CauseSupported, VarianceComputable
  <2>5. CASE cause = "ROUNDING_DRIFT"
    <3>1. PICK drift \in 3..7 : drift = Drift(draw)
      BY UnexplainedIs
    <3>2. Unexplained(plan, draw) = drift /\ Refunded(plan, draw) = 0 /\ Withheld(plan, draw) = 0
      BY <1>1, <2>5, <3>1 DEF Unexplained, Refunded, Withheld
    <3>3. Variance(unit) = drift
      BY <2>2, <3>2, VarianceIs
    <3>4. DriftExplains(unit)
      BY <3>3 DEF DriftExplains, Magnitude, ROUNDING_TOLERANCE_ABSOLUTE_CAP_MINOR
    <3> QED
      BY <2>1, <2>5, <3>4 DEF CauseSupported, VarianceComputable
  <2>6. CASE cause = "REFUND_NETTING"
    <3>1. WithinNettingWindow(draw)
      BY <2>6 DEF TrueDisposition
    <3>2. RefundExplains(unit)
      BY <2>6, <3>1, RefundWindowIs DEF RefundExplains
    <3> QED
      BY <2>1, <2>6, <3>2 DEF CauseSupported, VarianceComputable
  <2> QED
    BY <1>1, <2>3, <2>4, <2>5, <2>6 DEF SINGLE_CAUSES
<1> QED
  BY <1>2, <1>5, <1>6, SupportedIsVerified

----------------------------------------------------------------------------
(* What the systems make of a case.                                        *)

(* What the verifier resolves is substantiated.                            *)
LEMMA ResolutionIsSubstantiated ==
  ASSUME NEW proposal, NEW unit, Effective(proposal, unit) = "RESOLVE"
  PROVE  Substantiated(proposal, unit)
BY DEF Effective

(* Of a system without a loop, too.                                        *)
LEMMA VerifiedIsSubstantiated ==
  ASSUME NEW cause, NEW unit, Verified(cause, unit).effective = "RESOLVE"
  PROVE  /\ Substantiated(Resolution(cause, unit), unit)
         /\ Resolution(cause, unit).cause = cause
<1>1. Effective(Resolution(cause, unit), unit) = "RESOLVE"
  BY DEF Verified, Outcome
<1> QED
  BY <1>1, ResolutionIsSubstantiated DEF Resolution, Proposal

(* The baseline resolves what reconciles, and by the cause of its reason.  *)
LEMMA BaselineResolves ==
  ASSUME NEW unit, NEW reasons, RunSystemA(unit, reasons).effective = "RESOLVE"
  PROVE  \/ reasons = {}
         \/ \E r \in DOMAIN REASON_TO_CAUSE :
              /\ reasons = {r}
              /\ Verified(REASON_TO_CAUSE[r], unit).effective = "RESOLVE"
<1>1. CASE reasons = {}
  BY <1>1
<1>2. CASE \E r \in DOMAIN REASON_TO_CAUSE : reasons = {r}
  <2>1. PICK r \in DOMAIN REASON_TO_CAUSE : reasons = {r}
    BY <1>2
  <2>2. (CHOOSE x \in reasons : TRUE) = r /\ reasons # {}
    BY <2>1
  <2>3. RunSystemA(unit, reasons) = Verified(REASON_TO_CAUSE[r], unit)
    BY <1>2, <2>2 DEF RunSystemA
  <2> QED
    BY <2>1, <2>3
<1>3. CASE reasons # {} /\ ~\E r \in DOMAIN REASON_TO_CAUSE : reasons = {r}
  <2>1. RunSystemA(unit, reasons) = Escalated
    BY <1>3 DEF RunSystemA
  <2> QED
    BY <2>1 DEF Escalated, Outcome
<1> QED
  BY <1>1, <1>2, <1>3

(* No system resolves but through the verifier, or what reconciles.        *)
LEMMA SystemsResolve ==
  ASSUME NEW system \in Systems, NEW unit, NEW reasons,
         NEW outcome \in OutcomesOf(system, unit, reasons), outcome.effective = "RESOLVE"
  PROVE  reasons = {} \/ \E proposal : Substantiated(proposal, unit)
<1>1. Escalated.effective # "RESOLVE"
  BY DEF Escalated, Outcome
<1>2. CASE system = "A"
  <2>1. outcome = RunSystemA(unit, reasons)
    BY <1>2 DEF OutcomesOf
  <2> QED
    BY <2>1, BaselineResolves, VerifiedIsSubstantiated
<1>3. CASE system = "B"
  <2>1. outcome = RunSystemB(unit, reasons)
    BY <1>3 DEF OutcomesOf
  <2>2. outcome = Escalated \/ \E cause : outcome = Verified(cause, unit)
    BY <2>1 DEF RunSystemB
  <2> QED
    BY <1>1, <2>2, VerifiedIsSubstantiated
<1>4. CASE system = "C"
  <2>1. outcome \in RunSystemC(unit)
    BY <1>4 DEF OutcomesOf
  <2>2. PICK cause, disposition, evidence :
          outcome = Outcome(cause, Effective(Proposal(cause, disposition, evidence), unit))
    BY <1>1, <2>1 DEF RunSystemC
  <2>3. Effective(Proposal(cause, disposition, evidence), unit) = "RESOLVE"
    BY <2>2 DEF Outcome
  <2> QED
    BY <2>3, ResolutionIsSubstantiated
<1> QED
  BY <1>2, <1>3, <1>4 DEF Systems

(* Why the net of a case in one settlement does not match.                 *)
LEMMA MismatchIs ==
  ASSUME NEW plan, NEW draw \in Drawn, NEW unit, unit = UnitOfPlan(plan, draw),
         ~IsSplit(plan)
  PROVE  ReasonOf("amount_conservation", unit) = "NET_AMOUNT_MISMATCH"
<1>1. unit.rows["lines"] = {FirstLine(plan, draw)}
  BY UnitIs DEF LineRows
<1>2. Cardinality({l.settlement : l \in unit.rows["lines"]}) = 1
  <2>1. {l.settlement : l \in unit.rows["lines"]} = {FirstLine(plan, draw).settlement}
    BY <1>1
  <2> QED
    BY <2>1, FS_Singleton
<1>3. HasBreakdown(unit) /\ SettlementPresent(unit)
  BY VarianceIs, AmountIs
<1>4. AmountReason(unit) = "NET_AMOUNT_MISMATCH"
  BY <1>2, <1>3 DEF AmountReason
<1> QED
  BY <1>4 DEF ReasonOf

(* The baseline resolves nothing that cannot be resolved.                  *)
LEMMA BaselineIsRefused ==
  ASSUME NEW plan, IsPlan(plan), NEW draw \in Drawn, NEW unit, unit = UnitOfPlan(plan, draw),
         TrueDisposition(plan, draw) # "RESOLVE", NEW reasons \in Verdicts(unit)
  PROVE  RunSystemA(unit, reasons).effective # "RESOLVE"
<1> SUFFICES ASSUME RunSystemA(unit, reasons).effective = "RESOLVE"
             PROVE  FALSE
  OBVIOUS
<1>1. PICK find \in Finds(unit) :
        /\ reasons = {} <=> ChecksFailed(unit, find) = {}
        /\ \A check \in ChecksFailed(unit, find) \ {"bank_credit"} :
             ReasonOf(check, unit) \in reasons
  BY ReasonsAre
<1>2. Undecidable(plan) \/ ("REFUND_NETTING" \in plan.causes /\ ~WithinNettingWindow(draw))
  BY DEF TrueDisposition
<1>3. reasons # {}
  <2>1. ~(plan.causes = {"MDR_FEE"} /\ draw.method = "UPI")
    BY <1>2 DEF Undecidable
  <2> QED
    BY <1>1, <2>1, SomethingFails
<1>4. PICK r \in DOMAIN REASON_TO_CAUSE :
        reasons = {r} /\ Verified(REASON_TO_CAUSE[r], unit).effective = "RESOLVE"
  BY <1>3, BaselineResolves
<1>5. /\ NoImpossibleAdjustment(unit) /\ CauseSupported(REASON_TO_CAUSE[r], unit)
  BY <1>4, VerifiedIsSubstantiated DEF Substantiated
<1>6. CASE Undecidable(plan)
  <2>1. ~plan.adversarial
    BY <1>5, <1>6, LateIsImpossible
  <2>2. plan.causes = {"AMBIGUOUS"}
    BY <1>6, PlanCauses
  <2>3. ~IsSplit(plan)
    BY <2>2 DEF IsSplit
  <2>4. Variance(unit) = VarianceOf(draw)
    BY <1>6, <2>1, <2>2, VarianceApart
  <2>5. ~AmountConserved(unit)
    <3>1. PICK v \in Nat : v = VarianceOf(draw) /\ v >= 91
      BY VarianceIsDrawn
    <3> QED
      BY <2>3, <2>4, <3>1, AmountIs DEF Magnitude
  <2>6. "NET_AMOUNT_MISMATCH" \in reasons
    BY <1>1, <2>3, <2>5, FailuresAre, MismatchIs
  <2> QED
    BY <1>4, <2>6 DEF REASON_TO_CAUSE
<1>7. CASE "REFUND_NETTING" \in plan.causes /\ ~WithinNettingWindow(draw)
  <2>1. ~RefundsInWindow(unit)
    BY <1>7, RefundWindowIs
  <2>2. ReasonOf("refund_netting_window", unit) = "REFUND_OUTSIDE_NETTING_WINDOW"
    BY DEF ReasonOf
  <2>3. "REFUND_OUTSIDE_NETTING_WINDOW" \in reasons
    BY <1>1, <2>1, <2>2, FailuresAre
  <2>4. REASON_TO_CAUSE[r] = "REFUND_NETTING"
    BY <1>4, <2>3 DEF REASON_TO_CAUSE
  <2>5. RefundExplains(unit)
    BY <1>5, <2>4 DEF CauseSupported
  <2> QED
    BY <2>1, <2>5 DEF RefundExplains
<1> QED
  BY <1>2, <1>6, <1>7

----------------------------------------------------------------------------
(* What the rows and the verdicts say.                                     *)

(* A row is what one of the systems made of one of the verdicts.           *)
IsScored(r) ==
  \E system \in Systems, reasons \in Verdicts(UnitOfCase(r.case)) :
    \E outcome \in OutcomesOf(system, UnitOfCase(r.case), reasons) :
      r = Row(system, r.turn, r.case, outcome)

(* A verdict is one of those that the rows of the unit allow.              *)
IsReached(v, i) ==
  \E reasons \in Verdicts(UnitOfCase(i)) :
    v = IF reasons = {} THEN "RECONCILED" ELSE "EXCEPTION"

(* All rows are.                                                           *)
RowsAreScored == \A r \in rows : IsScored(r)

(* All verdicts are.                                                       *)
VerdictsAreReached ==
  \A g \in Runs, i \in Indices : verdict[<<g, i>>] # NoVerdict => IsReached(verdict[<<g, i>>], i)

(* Nothing is reconciled before the dataset is whole.                      *)
NothingYet ==
  Len(dataset) < Len(Targets) => \A g \in Runs, i \in Indices : verdict[<<g, i>>] = NoVerdict

(* The invariant of the benchmark, with what its rows and verdicts say.    *)
ScoringInv == BenchmarkInv /\ RowsAreScored /\ VerdictsAreReached /\ NothingYet

(* They are about the cases of a dataset that no longer grows.             *)
LEMMA CasesStay ==
  ASSUME UNCHANGED dataset
  PROVE  /\ \A i : UnitOfCase(i)' = UnitOfCase(i)
         /\ \A r : IsScored(r) => IsScored(r)'
         /\ \A v, i : IsReached(v, i) => IsReached(v, i)'
<1>1. \A i : UnitOfCase(i)' = UnitOfCase(i)
  BY DEF UnitOfCase
<1>2. \A system, turn, i, outcome :
        Row(system, turn, i, outcome)' = Row(system, turn, i, outcome)
  BY DEF Row, TruthOf
<1> QED
  BY <1>1, <1>2 DEF IsScored, IsReached

LEMMA ScoringStays ==
  ASSUME ScoringInv, UNCHANGED <<dataset, rows, verdict>>
  PROVE  RowsAreScored' /\ VerdictsAreReached' /\ NothingYet'
BY CasesStay DEF ScoringInv, RowsAreScored, VerdictsAreReached, NothingYet

(* A case is added while there is no verdict and no row.                   *)
LEMMA GenerateCaseScores ==
  ASSUME ScoringInv, GenerateCase
  PROVE  RowsAreScored' /\ VerdictsAreReached' /\ NothingYet'
<1>1. Len(dataset) < Len(Targets) /\ UNCHANGED <<gen, verdict, bench, rows>>
  BY DEF GenerateCase, stored
<1>2. \A g \in Runs, i \in Indices : verdict[<<g, i>>] = NoVerdict
  BY <1>1 DEF ScoringInv, NothingYet
<1>3. rows = {}
  <2>1. Len(dataset) # Len(Targets)
    BY <1>1, DatasetGrows, TargetsAreSeq DEF ScoringInv
  <2>2. \A g \in Runs : gen[g].pc = "idle"
    BY <2>1 DEF ScoringInv, BenchmarkInv, IsInOrder
  <2>3. bench.pc = "idle"
    BY <2>2 DEF ScoringInv, BenchmarkInv, IsTreating
  <2> QED
    BY <2>3 DEF ScoringInv, BenchmarkInv
<1> QED
  BY <1>1, <1>2, <1>3 DEF RowsAreScored, VerdictsAreReached, NothingYet

(* A reconciliation adds a verdict of the rows.                            *)
LEMMA ReconcileCaseScores ==
  ASSUME ScoringInv, NEW g \in Runs, ReconcileCase(g)
  PROVE  RowsAreScored' /\ VerdictsAreReached' /\ NothingYet'
<1>1. gen[g].pc = "reconcile" /\ UNCHANGED <<dataset, rows>>
  BY DEF ReconcileCase
<1>2. PICK n : n = gen[g].next
  OBVIOUS
<1>3. Len(dataset) = Len(Targets) /\ n \in Indices
  BY <1>1, <1>2 DEF ScoringInv, BenchmarkInv, IsInOrder
<1>4. PICK v : IsReached(v, n) /\ verdict' = [verdict EXCEPT ![<<g, n>>] = v]
  BY <1>2 DEF ReconcileCase, IsReached
<1>5. verdict \in [Runs \X Indices -> {NoVerdict, "RECONCILED", "EXCEPTION"}]
  BY TablesStay DEF ScoringInv
<1>6. \A h \in Runs, i \in Indices :
        verdict'[<<h, i>>] = IF h = g /\ i = n THEN v ELSE verdict[<<h, i>>]
  BY <1>3, <1>4, <1>5
<1>7. RowsAreScored'
  BY <1>1, CasesStay DEF ScoringInv, RowsAreScored
<1>8. VerdictsAreReached'
  BY <1>1, <1>4, <1>6, CasesStay DEF ScoringInv, VerdictsAreReached
<1>9. NothingYet'
  BY <1>1, <1>3, TargetsAreSeq DEF NothingYet
<1> QED
  BY <1>7, <1>8, <1>9

(* A system adds a row of its outcome.                                     *)
LEMMA TreatScores ==
  ASSUME ScoringInv, Treat
  PROVE  RowsAreScored' /\ VerdictsAreReached' /\ NothingYet'
<1>1. bench.pc = "treat" /\ UNCHANGED <<dataset, verdict>>
  BY DEF Treat, stored
<1>2. PICK i, turn, system :
        i = bench.case /\ turn = bench.turn /\ system = bench.args.systems[turn]
  OBVIOUS
<1>3. system \in Systems
  <2>1. bench.args \in Options /\ turn \in DOMAIN bench.args.systems
    BY <1>1, <1>2, TreatingFacts DEF ScoringInv, IsTreating
  <2>2. bench.args.systems \in Seq(Systems)
    BY <2>1, OptionTypes
  <2> QED
    BY <1>2, <2>1, <2>2
<1>4. PICK reasons \in Verdicts(UnitOfCase(i)) :
        \E outcome \in OutcomesOf(system, UnitOfCase(i), reasons) :
          rows' = rows \cup {Row(system, turn, i, outcome)}
  BY <1>2 DEF Treat
<1>5. PICK outcome \in OutcomesOf(system, UnitOfCase(i), reasons) :
        rows' = rows \cup {Row(system, turn, i, outcome)}
  BY <1>4
<1>6. IsScored(Row(system, turn, i, outcome))
  <2>1. /\ Row(system, turn, i, outcome).case = i
        /\ Row(system, turn, i, outcome).turn = turn
    BY DEF Row
  <2> QED
    BY <1>3, <2>1 DEF IsScored
<1>7. RowsAreScored'
  BY <1>1, <1>5, <1>6, CasesStay DEF ScoringInv, RowsAreScored
<1> QED
  BY <1>1, <1>7, CasesStay DEF ScoringInv, VerdictsAreReached, NothingYet

LEMMA ScoringKeeps == ScoringInv /\ [Next]_vars => ScoringInv'
<1> SUFFICES ASSUME ScoringInv, [Next]_vars PROVE ScoringInv'
  OBVIOUS
<1>1. BenchmarkInv'
  BY NextKeeps DEF ScoringInv
<1>2. ASSUME NEW g \in Runs,
             \/ BeginGeneration(g) \/ ImportCase(g) \/ RecordHiddenTruth(g)
             \/ CompleteGeneration(g) \/ Die(g)
      PROVE  UNCHANGED <<dataset, rows, verdict>>
  BY <1>2 DEF BeginGeneration, ImportCase, RecordHiddenTruth, CompleteGeneration, Die
<1>3. ASSUME NEW args, NEW exploratory, BeginBenchmark(args, exploratory)
      PROVE  UNCHANGED <<dataset, rows, verdict>>
  BY <1>3 DEF BeginBenchmark, stored
<1>4. NextCase \/ Report => UNCHANGED <<dataset, rows, verdict>>
  BY DEF NextCase, Report, stored
<1>5. UNCHANGED vars => UNCHANGED <<dataset, rows, verdict>>
  BY DEF vars
<1>6. RowsAreScored' /\ VerdictsAreReached' /\ NothingYet'
  <2>1. \/ GenerateCase \/ Treat \/ UNCHANGED <<dataset, rows, verdict>>
        \/ \E g \in Runs : ReconcileCase(g)
    BY <1>2, <1>3, <1>4, <1>5 DEF Next
  <2> QED
    BY <2>1, GenerateCaseScores, TreatScores, ReconcileCaseScores, ScoringStays
<1> QED
  BY <1>1, <1>6 DEF ScoringInv

LEMMA ScoringHolds == Spec => []ScoringInv
<1>1. Init => ScoringInv
  BY InitHolds DEF Init, ScoringInv, RowsAreScored, VerdictsAreReached, NothingYet
<1> QED
  BY <1>1, ScoringKeeps, PTL DEF Spec

----------------------------------------------------------------------------
(* What the systems made of the cases, for every draw.                     *)

(* What is known of a case of the dataset, of its records and of a row.    *)
LEMMA CaseIs ==
  ASSUME ScoringInv, NEW i \in DOMAIN dataset
  PROVE  /\ IsPlan(dataset[i].plan) /\ dataset[i].draw \in Drawn
         /\ UnitOfCase(i) = UnitOfPlan(dataset[i].plan, dataset[i].draw)
<1>1. i \in DOMAIN Targets
  <2>1. Len(dataset) \in Nat /\ DOMAIN dataset = 1..Len(dataset) /\ Len(dataset) <= Len(Targets)
    BY DEF ScoringInv, BenchmarkInv, TypeOK
  <2> QED
    BY <2>1, TargetsAreSeq DEF Indices
<1>2. PICK t \in Targets[i] :
        /\ dataset[i].plan \in PlansForStratum(t.stratum, development)
        /\ dataset[i].draw \in Draws[i]
  BY DEF ScoringInv, BenchmarkInv, DatasetIsPlanned
<1>3. development \in Developments
  BY DEF ScoringInv, BenchmarkInv, TypeOK
<1>4. IsPlan(dataset[i].plan)
  BY <1>2, <1>3, PlansArePlans
<1>5. dataset[i].draw \in Drawn
  BY <1>1, <1>2, BenchmarkAssumption
<1> QED
  BY <1>4, <1>5 DEF UnitOfCase, UnitOfPlan

(* A row that resolves what it should not is of a case that is no          *)
(* resolution and of a system that resolved.                               *)
LEMMA RowIs ==
  ASSUME ScoringInv, NEW r \in rows
  PROVE  /\ r.case \in DOMAIN dataset
         /\ \E system \in Systems, reasons \in Verdicts(UnitOfCase(r.case)) :
              \E outcome \in OutcomesOf(system, UnitOfCase(r.case), reasons) :
                /\ r.system = system
                /\ r.outcome = "UNSUPPORTED_RESOLVE" =>
                     outcome.effective = "RESOLVE" /\ TruthOf(r.case) # "RESOLVE"
<1>1. r.case \in DOMAIN dataset
  <2>1. bench.pc # "idle" /\ r.case \in Indices
    BY DEF ScoringInv, BenchmarkInv, TypeOK
  <2>2. bench.run \in Runs /\ gen[bench.run].pc = "done"
    BY <2>1, TreatingFacts DEF ScoringInv, IsTreating
  <2>3. Len(dataset) = Len(Targets)
    BY <2>2 DEF ScoringInv, BenchmarkInv, IsInOrder
  <2>4. DOMAIN dataset = 1..Len(dataset)
    BY DEF ScoringInv, BenchmarkInv, TypeOK
  <2> QED
    BY <2>1, <2>3, <2>4, TargetsAreSeq
<1>2. PICK system \in Systems, reasons \in Verdicts(UnitOfCase(r.case)) :
        \E outcome \in OutcomesOf(system, UnitOfCase(r.case), reasons) :
          r = Row(system, r.turn, r.case, outcome)
  BY DEF ScoringInv, RowsAreScored, IsScored
<1>3. PICK outcome \in OutcomesOf(system, UnitOfCase(r.case), reasons) :
        r = Row(system, r.turn, r.case, outcome)
  BY <1>2
<1>4. PICK i : i = r.case
  OBVIOUS
<1>5. /\ r.system = system
      /\ r.outcome = ScoreOutcome(outcome, dataset[i].plan.causes, TruthOf(i))
  <2>1. r = Row(system, r.turn, i, outcome)
    BY <1>3, <1>4
  <2> QED
    BY <2>1 DEF Row
<1>6. ASSUME NEW causes, NEW truly,
             ScoreOutcome(outcome, causes, truly) = "UNSUPPORTED_RESOLVE"
      PROVE  outcome.effective = "RESOLVE" /\ truly # "RESOLVE"
  BY <1>6 DEF ScoreOutcome
<1> QED
  BY <1>1, <1>4, <1>5, <1>6

(* A trap of one cause that a system resolved.                             *)
LEMMA TrapsAreRefused ==
  ASSUME ScoringInv, NEW r \in rows, r.outcome = "UNSUPPORTED_RESOLVE",
         Cardinality(CausesOf(r.case)) = 1
  PROVE  /\ ~dataset[r.case].plan.adversarial
         /\ VarianceOf(dataset[r.case].draw) <= ROUNDING_TOLERANCE_ABSOLUTE_CAP_MINOR
<1>1. PICK plan, draw : plan = dataset[r.case].plan /\ draw = dataset[r.case].draw
  OBVIOUS
<1>2. PICK unit : unit = UnitOfCase(r.case)
  OBVIOUS
<1>3. PICK system \in Systems, reasons \in Verdicts(unit) :
        \E outcome \in OutcomesOf(system, unit, reasons) :
          outcome.effective = "RESOLVE" /\ TruthOf(r.case) # "RESOLVE"
  BY <1>2, RowIs
<1>4. IsPlan(plan) /\ draw \in Drawn /\ unit = UnitOfPlan(plan, draw)
  BY <1>1, <1>2, RowIs, CaseIs
<1>5. TrueDisposition(plan, draw) # "RESOLVE" /\ Cardinality(plan.causes) = 1
  BY <1>1, <1>3 DEF TruthOf, CausesOf
<1>6. reasons # {}
  <2>1. plan.causes # {"MDR_FEE"}
    BY <1>4, <1>5, TrapIs
  <2> QED
    BY <1>4, <2>1, ReasonsAre, SomethingFails
<1>7. \E proposal : Substantiated(proposal, unit)
  BY <1>3, <1>6, SystemsResolve
<1> QED
  BY <1>1, <1>4, <1>5, <1>7, TrapIsRefused

(* A trap of one defect is resolved by none of the systems, whatever loop  *)
(* proposes what, but where rounding can pass for the variance: for every  *)
(* draw of the generator (renderCase, verify, runBenchmark).               *)
THEOREM TrapsAreHeld == Spec => []TrapsHold
<1>1. ScoringInv => TrapsHold
  BY TrapsAreRefused DEF TrapsHold
<1> QED
  BY <1>1, ScoringHolds, PTL

(* The lookup of the baseline, from reason to cause, leads it to resolve   *)
(* no case that cannot be resolved, of whichever causes (runSystemA).      *)
THEOREM BaselineStaysSafe == Spec => []BaselineIsSafe
<1>1. ASSUME ScoringInv, NEW r \in rows, r.system = "A", r.outcome = "UNSUPPORTED_RESOLVE"
      PROVE  FALSE
  <2>1. PICK plan, draw : plan = dataset[r.case].plan /\ draw = dataset[r.case].draw
    OBVIOUS
  <2>2. PICK unit : unit = UnitOfCase(r.case)
    OBVIOUS
  <2>3. PICK reasons \in Verdicts(unit) :
          \E outcome \in OutcomesOf("A", unit, reasons) :
            outcome.effective = "RESOLVE" /\ TruthOf(r.case) # "RESOLVE"
    BY <1>1, <2>2, RowIs
  <2>4. RunSystemA(unit, reasons).effective = "RESOLVE" /\ TrueDisposition(plan, draw) # "RESOLVE"
    BY <2>1, <2>3 DEF OutcomesOf, TruthOf
  <2>5. IsPlan(plan) /\ draw \in Drawn /\ unit = UnitOfPlan(plan, draw)
    BY <1>1, <2>1, <2>2, RowIs, CaseIs
  <2> QED
    BY <2>4, <2>5, BaselineIsRefused
<1>2. ScoringInv => BaselineIsSafe
  BY <1>1 DEF BaselineIsSafe
<1> QED
  BY <1>2, ScoringHolds, PTL

(* reconcileUnit leaves every generated case as an exception, whichever    *)
(* routine adjustments and fee parts come with it, but a missing fee where *)
(* the schedule charges none; and that one it reconciles.                  *)
THEOREM DefectsAreSeen == Spec => []DefectsShow
<1>1. ASSUME ScoringInv, NEW g \in Runs, NEW i \in DOMAIN dataset,
             verdict[<<g, i>>] # NoVerdict
      PROVE  verdict[<<g, i>>] = "RECONCILED"
               <=> CausesOf(i) = {"MDR_FEE"} /\ dataset[i].draw.method = "UPI"
  <2>1. PICK plan, draw : plan = dataset[i].plan /\ draw = dataset[i].draw
    OBVIOUS
  <2>2. PICK unit : unit = UnitOfCase(i)
    OBVIOUS
  <2>3. IsPlan(plan) /\ draw \in Drawn /\ unit = UnitOfPlan(plan, draw)
    BY <1>1, <2>1, <2>2, CaseIs
  <2>4. i \in Indices
    <3>1. Len(dataset) \in Nat /\ DOMAIN dataset = 1..Len(dataset) /\ Len(dataset) <= Len(Targets)
      BY <1>1 DEF ScoringInv, BenchmarkInv, TypeOK
    <3> QED
      BY <3>1, TargetsAreSeq
  <2>5. PICK reasons \in Verdicts(unit) :
          verdict[<<g, i>>] = IF reasons = {} THEN "RECONCILED" ELSE "EXCEPTION"
    BY <1>1, <2>2, <2>4 DEF ScoringInv, VerdictsAreReached, IsReached
  <2>6. reasons = {} <=> plan.causes = {"MDR_FEE"} /\ draw.method = "UPI"
    <3>1. PICK find \in Finds(unit) : reasons = {} <=> ChecksFailed(unit, find) = {}
      BY ReasonsAre
    <3> QED
      BY <2>3, <3>1, SomethingFails, NothingFails
  <2> QED
    BY <2>1, <2>5, <2>6 DEF CausesOf
<1>2. ScoringInv => DefectsShow
  BY <1>1 DEF DefectsShow
<1> QED
  BY <1>2, ScoringHolds, PTL

(* What the hidden truth calls resolvable the verifier resolves, for its   *)
(* true cause, when that is the only one: whatever was drawn (buildCase,   *)
(* verify).                                                                *)
THEOREM ProvableOnesAreProved == Spec => []ProvableAlone
<1>1. ASSUME ScoringInv, NEW i \in DOMAIN dataset, Cardinality(CausesOf(i)) = 1,
             TruthOf(i) = "RESOLVE", NEW cause \in CausesOf(i)
      PROVE  Verified(cause, UnitOfCase(i)).effective = "RESOLVE"
  <2>1. PICK plan, draw : plan = dataset[i].plan /\ draw = dataset[i].draw
    OBVIOUS
  <2>2. /\ IsPlan(plan) /\ draw \in Drawn
        /\ UnitOfCase(i) = UnitOfPlan(plan, draw)
    BY <1>1, <2>1, CaseIs
  <2>3. TrueDisposition(plan, draw) = "RESOLVE" /\ plan.causes = {cause}
    <3>1. Cardinality(plan.causes) = 1 /\ cause \in plan.causes
      BY <1>1, <2>1 DEF CausesOf
    <3>2. plan.causes = {cause}
      BY <2>2, <3>1, CausesAreFinite, OneCause
    <3> QED
      BY <1>1, <2>1, <3>2 DEF TruthOf
  <2> QED
    BY <2>2, <2>3, CauseIsProvable
<1>2. ScoringInv => ProvableAlone
  <2>1. Tried \subseteq DOMAIN dataset
    BY DEF Tried
  <2> QED
    BY <1>1, <2>1 DEF ProvableAlone
<1> QED
  BY <1>2, ScoringHolds, PTL

----------------------------------------------------------------------------
(* The records of a scenario, kind by kind.                                *)

(* What its first settlement pays, and its second.                         *)
FirstShare(def) ==
  CASE def = "split-settlement" -> CleanNet(def) \div 2
    [] def \in {"ambiguous-adjustment", "misleading-adjustment"} -> CleanNet(def) - Shortfall
    [] OTHER -> CleanNet(def)

SecondShare(def) == CleanNet(def) - CleanNet(def) \div 2

(* Its rows.                                                               *)
FeeRow(def, r) ==
  [kind |-> "FEE_LINE", id |-> r.fee, payment |-> r.pay, amount |-> ScenarioFee(def)]

TaxRow(def, r) ==
  [kind |-> "TAX_LINE", id |-> r.tax, fee |-> r.fee, amount |-> ScenarioTax(def)]

SettledRow(id, utr, net) ==
  [kind |-> "SETTLEMENT", id |-> id, net |-> net, settlementAt |-> SETTLED_AT, utr |-> utr]

PaidRow(id, settlement, payment, net) ==
  [ kind |-> "SETTLEMENT_LINE", id |-> id, settlement |-> settlement, payment |-> payment,
    amount |-> net ]

BankRow(id, utr, net, at) ==
  [kind |-> "BANK_CREDIT", id |-> id, utr |-> utr, amount |-> net, creditedAt |-> at]

Settled1(def, r) == SettledRow(r.set, r.UTR, FirstShare(def))

Settled2(def, r) == SettledRow(r.set_b, r.UTR_b, SecondShare(def))

Paid1(def, r) == PaidRow(r.sl, r.set, r.pay, FirstShare(def))

Paid2(def, r) == PaidRow(r.sl_b, r.set_b, r.pay, SecondShare(def))

Bank1(def, r) == BankRow(r.bc, r.UTR, FirstShare(def), CREDITED_AT)

Bank2(def, r) == BankRow(r.bc_b, r.UTR_b, SecondShare(def), LATE_CREDIT_AT)

(* And those it has of each kind.                                          *)
ScenarioFees(def, r) == IF def = "fee-tax-discrepancy" THEN {} ELSE {FeeRow(def, r)}

ScenarioTaxes(def, r) == IF def = "fee-tax-discrepancy" THEN {} ELSE {TaxRow(def, r)}

ScenarioSettlements(def, r) ==
  IF def = "split-settlement" THEN {Settled1(def, r), Settled2(def, r)} ELSE {Settled1(def, r)}

ScenarioLines(def, r) ==
  IF def = "split-settlement" THEN {Paid1(def, r), Paid2(def, r)} ELSE {Paid1(def, r)}

ScenarioCredits(def, r) ==
  IF def = "split-settlement" THEN {Bank1(def, r), Bank2(def, r)} ELSE {Bank1(def, r)}

ScenarioRefunds(def, r) == IF def = "refund-netting" THEN {RefundRecord(r)} ELSE {}

ScenarioAdjustments(def, r) ==
  CASE def = "ambiguous-adjustment" ->
         {AdjustmentRecord(r.adj_a, r, SETTLED_AT), AdjustmentRecord(r.adj_b, r, SETTLED_AT)}
    [] def = "misleading-adjustment" ->
         {AdjustmentRecord(r.adj_late, r, IMPLAUSIBLE_ADJUSTMENT_AT)}
    [] OTHER -> {}

(* The records that generateScenarioBatch returns are these.               *)
LEMMA ScenarioByKind ==
  ASSUME NEW key, NEW def \in SCENARIO_IDS, NEW seed, NEW r, r = Refs(seed)
  PROVE  GenerateScenarioBatch(key, def, seed) =
           {ScenarioPayment(key, def, r)} \cup ScenarioFees(def, r) \cup ScenarioTaxes(def, r)
             \cup ScenarioSettlements(def, r) \cup ScenarioLines(def, r)
             \cup ScenarioCredits(def, r) \cup ScenarioRefunds(def, r)
             \cup ScenarioAdjustments(def, r)
<1> DEFINE first  == {Settled1(def, r), Paid1(def, r), Bank1(def, r)}
           second == {Settled2(def, r), Paid2(def, r), Bank2(def, r)}
           fee    == {FeeRow(def, r), TaxRow(def, r)}
           net    == CleanNet(def)
           pay    == {ScenarioPayment(key, def, r)}
<1>1. FirstLeg(r, FirstShare(def)) = first
  BY DEF FirstLeg, SettlementLeg, Settled1, Paid1, Bank1, SettledRow, PaidRow, BankRow
<1>2. SecondLeg(r, SecondShare(def)) = second
  BY DEF SecondLeg, SettlementLeg, Settled2, Paid2, Bank2, SettledRow, PaidRow, BankRow
<1>3. FeeAndTax(def, r) = fee
  BY DEF FeeAndTax, FeeRow, TaxRow
<1> HIDE DEF first, second, fee, pay
<1>4. CASE def = "clean-settlement"
  <2>1. GenerateScenarioBatch(key, def, seed) = pay \cup (fee \cup FirstLeg(r, net))
    BY <1>3, <1>4 DEF GenerateScenarioBatch, pay
  <2>2. FirstShare(def) = net
    BY <1>4 DEF FirstShare
  <2>3. GenerateScenarioBatch(key, def, seed) = pay \cup fee \cup first
    BY <1>1, <2>1, <2>2
  <2> QED
    BY <1>4, <2>3 DEF pay, fee, first, ScenarioFees, ScenarioTaxes, ScenarioSettlements,
       ScenarioLines, ScenarioCredits, ScenarioRefunds, ScenarioAdjustments
<1>5. CASE def = "fee-tax-discrepancy"
  <2>1. GenerateScenarioBatch(key, def, seed) = pay \cup FirstLeg(r, net)
    BY <1>5 DEF GenerateScenarioBatch, pay
  <2>2. FirstShare(def) = net
    BY <1>5 DEF FirstShare
  <2>3. GenerateScenarioBatch(key, def, seed) = pay \cup first
    BY <1>1, <2>1, <2>2
  <2> QED
    BY <1>5, <2>3 DEF pay, first, ScenarioFees, ScenarioTaxes, ScenarioSettlements,
       ScenarioLines, ScenarioCredits, ScenarioRefunds, ScenarioAdjustments
<1>6. CASE def = "split-settlement"
  <2>1. GenerateScenarioBatch(key, def, seed) =
          pay \cup (fee \cup FirstLeg(r, net \div 2) \cup SecondLeg(r, net - net \div 2))
    BY <1>3, <1>6 DEF GenerateScenarioBatch, pay
  <2>2. FirstShare(def) = net \div 2 /\ SecondShare(def) = net - net \div 2
    BY <1>6 DEF FirstShare, SecondShare
  <2>3. GenerateScenarioBatch(key, def, seed) = pay \cup fee \cup first \cup second
    BY <1>1, <1>2, <2>1, <2>2
  <2> QED
    BY <1>6, <2>3 DEF pay, fee, first, second, ScenarioFees, ScenarioTaxes,
       ScenarioSettlements, ScenarioLines, ScenarioCredits, ScenarioRefunds,
       ScenarioAdjustments
<1>7. CASE def = "refund-netting"
  <2>1. GenerateScenarioBatch(key, def, seed) =
          pay \cup (fee \cup FirstLeg(r, net) \cup {RefundRecord(r)})
    BY <1>3, <1>7 DEF GenerateScenarioBatch, pay
  <2>2. FirstShare(def) = net
    BY <1>7 DEF FirstShare
  <2>3. GenerateScenarioBatch(key, def, seed) = pay \cup fee \cup first \cup {RefundRecord(r)}
    BY <1>1, <2>1, <2>2
  <2> QED
    BY <1>7, <2>3 DEF pay, fee, first, ScenarioFees, ScenarioTaxes, ScenarioSettlements,
       ScenarioLines, ScenarioCredits, ScenarioRefunds, ScenarioAdjustments
<1>8. CASE def = "ambiguous-adjustment"
  <2>1. GenerateScenarioBatch(key, def, seed) =
          pay \cup (fee \cup FirstLeg(r, net - Shortfall)
                      \cup { AdjustmentRecord(r.adj_a, r, SETTLED_AT),
                             AdjustmentRecord(r.adj_b, r, SETTLED_AT) })
    BY <1>3, <1>8 DEF GenerateScenarioBatch, pay
  <2>2. FirstShare(def) = net - Shortfall
    BY <1>8 DEF FirstShare
  <2>3. GenerateScenarioBatch(key, def, seed) =
          pay \cup fee \cup first \cup ScenarioAdjustments(def, r)
    BY <1>1, <1>8, <2>1, <2>2 DEF ScenarioAdjustments
  <2> QED
    BY <1>8, <2>3 DEF pay, fee, first, ScenarioFees, ScenarioTaxes, ScenarioSettlements,
       ScenarioLines, ScenarioCredits, ScenarioRefunds
<1>9. CASE def = "misleading-adjustment"
  <2>1. GenerateScenarioBatch(key, def, seed) =
          pay \cup (fee \cup FirstLeg(r, net - Shortfall)
                      \cup {AdjustmentRecord(r.adj_late, r, IMPLAUSIBLE_ADJUSTMENT_AT)})
    BY <1>3, <1>9 DEF GenerateScenarioBatch, pay
  <2>2. FirstShare(def) = net - Shortfall
    BY <1>9 DEF FirstShare
  <2>3. GenerateScenarioBatch(key, def, seed) =
          pay \cup fee \cup first \cup ScenarioAdjustments(def, r)
    BY <1>1, <1>9, <2>1, <2>2 DEF ScenarioAdjustments
  <2> QED
    BY <1>9, <2>3 DEF pay, fee, first, ScenarioFees, ScenarioTaxes, ScenarioSettlements,
       ScenarioLines, ScenarioCredits, ScenarioRefunds
<1> QED
  BY <1>4, <1>5, <1>6, <1>7, <1>8, <1>9 DEF SCENARIO_IDS

(* Each of them has its kind, and names the rows of its seed.              *)
LEMMA PaymentNames ==
  ASSUME NEW key, NEW def, NEW r
  PROVE  /\ ScenarioPayment(key, def, r).kind = "PAYMENT"
         /\ ScenarioPayment(key, def, r).id = r.pay /\ ScenarioPayment(key, def, r).import = key
BY DEF ScenarioPayment

LEMMA FeesName ==
  ASSUME NEW def, NEW r
  PROVE  \A x \in ScenarioFees(def, r) : x.kind = "FEE_LINE" /\ x.id = r.fee /\ x.payment = r.pay
BY DEF ScenarioFees, FeeRow

LEMMA TaxesName ==
  ASSUME NEW def, NEW r
  PROVE  \A x \in ScenarioTaxes(def, r) : x.kind = "TAX_LINE" /\ x.id = r.tax /\ x.fee = r.fee
BY DEF ScenarioTaxes, TaxRow

LEMMA RefundsName ==
  ASSUME NEW def, NEW r
  PROVE  \A x \in ScenarioRefunds(def, r) : x.kind = "REFUND" /\ x.id = r.ref /\ x.payment = r.pay
BY DEF ScenarioRefunds, RefundRecord

LEMMA AdjustmentsName ==
  ASSUME NEW def, NEW r
  PROVE  \A x \in ScenarioAdjustments(def, r) :
           /\ x.kind = "ADJUSTMENT" /\ x.id \in {r.adj_a, r.adj_b, r.adj_late}
           /\ x.settlement = r.set
BY DEF ScenarioAdjustments, AdjustmentRecord

(* The rows of a settlement have the fields they are given.                *)
LEMMA SettledFields ==
  ASSUME NEW id, NEW utr, NEW net
  PROVE  /\ SettledRow(id, utr, net).kind = "SETTLEMENT"
         /\ SettledRow(id, utr, net).id = id /\ SettledRow(id, utr, net).utr = utr
         /\ SettledRow(id, utr, net).net = net
         /\ SettledRow(id, utr, net).settlementAt = SETTLED_AT
BY DEF SettledRow

LEMMA PaidFields ==
  ASSUME NEW id, NEW settlement, NEW payment, NEW net
  PROVE  /\ PaidRow(id, settlement, payment, net).kind = "SETTLEMENT_LINE"
         /\ PaidRow(id, settlement, payment, net).id = id
         /\ PaidRow(id, settlement, payment, net).payment = payment
         /\ PaidRow(id, settlement, payment, net).settlement = settlement
         /\ PaidRow(id, settlement, payment, net).amount = net
BY DEF PaidRow

LEMMA BankFields ==
  ASSUME NEW id, NEW utr, NEW net, NEW at
  PROVE  /\ BankRow(id, utr, net, at).kind = "BANK_CREDIT"
         /\ BankRow(id, utr, net, at).id = id /\ BankRow(id, utr, net, at).utr = utr
         /\ BankRow(id, utr, net, at).amount = net /\ BankRow(id, utr, net, at).creditedAt = at
BY DEF BankRow

LEMMA SettlementsName ==
  ASSUME NEW def, NEW r
  PROVE  \A x \in ScenarioSettlements(def, r) :
           /\ x.kind = "SETTLEMENT"
           /\ (x.id = r.set /\ x.utr = r.UTR) \/ (x.id = r.set_b /\ x.utr = r.UTR_b)
BY SettledFields DEF ScenarioSettlements, Settled1, Settled2

LEMMA LinesName ==
  ASSUME NEW def, NEW r
  PROVE  \A x \in ScenarioLines(def, r) :
           /\ x.kind = "SETTLEMENT_LINE" /\ x.id \in {r.sl, r.sl_b} /\ x.payment = r.pay
           /\ x.settlement \in {r.set, r.set_b}
BY PaidFields DEF ScenarioLines, Paid1, Paid2

LEMMA CreditsName ==
  ASSUME NEW def, NEW r
  PROVE  \A x \in ScenarioCredits(def, r) :
           /\ x.kind = "BANK_CREDIT"
           /\ (x.id = r.bc /\ x.utr = r.UTR) \/ (x.id = r.bc_b /\ x.utr = r.UTR_b)
BY BankFields DEF ScenarioCredits, Bank1, Bank2

(* The records of a scenario are selected by their kind.                   *)
LEMMA ScenarioSelects ==
  ASSUME NEW key, NEW def \in SCENARIO_IDS, NEW seed, NEW r, r = Refs(seed),
         NEW batch, batch = GenerateScenarioBatch(key, def, seed)
  PROVE  /\ OfKind(batch, "PAYMENT") = {ScenarioPayment(key, def, r)}
         /\ OfKind(batch, "FEE_LINE") = ScenarioFees(def, r)
         /\ OfKind(batch, "TAX_LINE") = ScenarioTaxes(def, r)
         /\ OfKind(batch, "SETTLEMENT") = ScenarioSettlements(def, r)
         /\ OfKind(batch, "SETTLEMENT_LINE") = ScenarioLines(def, r)
         /\ OfKind(batch, "BANK_CREDIT") = ScenarioCredits(def, r)
         /\ OfKind(batch, "REFUND") = ScenarioRefunds(def, r)
         /\ OfKind(batch, "ADJUSTMENT") = ScenarioAdjustments(def, r)
<1> DEFINE P == {ScenarioPayment(key, def, r)}
           F == ScenarioFees(def, r)
           T == ScenarioTaxes(def, r)
           S == ScenarioSettlements(def, r)
           L == ScenarioLines(def, r)
           C == ScenarioCredits(def, r)
           R == ScenarioRefunds(def, r)
           A == ScenarioAdjustments(def, r)
<1>1. batch = P \cup F \cup T \cup S \cup L \cup C \cup R \cup A
  BY ScenarioByKind
<1>2. \A x \in P : x.kind = "PAYMENT"
  BY DEF ScenarioPayment
<1>11. /\ \A x \in F : x.kind = "FEE_LINE"
       /\ \A x \in T : x.kind = "TAX_LINE"
       /\ \A x \in S : x.kind = "SETTLEMENT"
       /\ \A x \in L : x.kind = "SETTLEMENT_LINE"
       /\ \A x \in C : x.kind = "BANK_CREDIT"
       /\ \A x \in R : x.kind = "REFUND"
       /\ \A x \in A : x.kind = "ADJUSTMENT"
  BY FeesName, TaxesName, SettlementsName, LinesName, CreditsName, RefundsName,
     AdjustmentsName
<1> HIDE DEF P, F, T, S, L, C, R, A
<1>3. OfKind(batch, "PAYMENT") = P
  BY <1>1, <1>2, <1>11 DEF OfKind
<1>4. OfKind(batch, "FEE_LINE") = F
  BY <1>1, <1>2, <1>11 DEF OfKind
<1>5. OfKind(batch, "TAX_LINE") = T
  BY <1>1, <1>2, <1>11 DEF OfKind
<1>6. OfKind(batch, "SETTLEMENT") = S
  BY <1>1, <1>2, <1>11 DEF OfKind
<1>7. OfKind(batch, "SETTLEMENT_LINE") = L
  BY <1>1, <1>2, <1>11 DEF OfKind
<1>8. OfKind(batch, "BANK_CREDIT") = C
  BY <1>1, <1>2, <1>11 DEF OfKind
<1>9. OfKind(batch, "REFUND") = R
  BY <1>1, <1>2, <1>11 DEF OfKind
<1>10. OfKind(batch, "ADJUSTMENT") = A
  BY <1>1, <1>2, <1>11 DEF OfKind
<1> QED
  BY <1>3, <1>4, <1>5, <1>6, <1>7, <1>8, <1>9, <1>10 DEF P, F, T, S, L, C, R, A

(* What its rows refer to is in the batch.                                 *)
LEMMA ScenarioRefers ==
  ASSUME NEW def, NEW r
  PROVE  /\ ScenarioTaxes(def, r) # {} => r.fee \in {f.id : f \in ScenarioFees(def, r)}
         /\ r.set \in {s.id : s \in ScenarioSettlements(def, r)}
         /\ \A l \in ScenarioLines(def, r) :
              l.settlement \in {s.id : s \in ScenarioSettlements(def, r)}
<1>1. ScenarioTaxes(def, r) # {} => r.fee \in {f.id : f \in ScenarioFees(def, r)}
  BY DEF ScenarioTaxes, ScenarioFees, FeeRow
<1>2. /\ Settled1(def, r).id = r.set /\ Settled2(def, r).id = r.set_b
      /\ Paid1(def, r).settlement = r.set /\ Paid2(def, r).settlement = r.set_b
  BY SettledFields, PaidFields DEF Settled1, Settled2, Paid1, Paid2
<1>3. r.set \in {s.id : s \in ScenarioSettlements(def, r)}
  BY <1>2 DEF ScenarioSettlements
<1>4. \A l \in ScenarioLines(def, r) :
        l.settlement \in {s.id : s \in ScenarioSettlements(def, r)}
  BY <1>2 DEF ScenarioLines, ScenarioSettlements
<1> QED
  BY <1>1, <1>3, <1>4

(* So an import of it adds the records that are new, as they were sent.    *)
LEMMA ImportAddsFresh ==
  ASSUME NEW st, NEW key, NEW def \in SCENARIO_IDS, NEW seed,
         NEW batch, batch = GenerateScenarioBatch(key, def, seed)
  PROVE  AfterImport(st, batch) = st \cup {x \in batch : x.id \notin IdsIn(st, x.kind)}
<1> DEFINE r == Refs(seed)
           fresh(kind) == {x \in OfKind(batch, kind) : x.id \notin IdsIn(st, kind)}
           ids(kind) == IdsIn(st, kind) \cup IdsIn(batch, kind)
<1>1. /\ OfKind(batch, "PAYMENT") = {ScenarioPayment(key, def, r)}
      /\ OfKind(batch, "FEE_LINE") = ScenarioFees(def, r)
      /\ OfKind(batch, "TAX_LINE") = ScenarioTaxes(def, r)
      /\ OfKind(batch, "SETTLEMENT") = ScenarioSettlements(def, r)
      /\ OfKind(batch, "SETTLEMENT_LINE") = ScenarioLines(def, r)
      /\ OfKind(batch, "BANK_CREDIT") = ScenarioCredits(def, r)
      /\ OfKind(batch, "REFUND") = ScenarioRefunds(def, r)
      /\ OfKind(batch, "ADJUSTMENT") = ScenarioAdjustments(def, r)
  BY ScenarioSelects
<1>2. batch = OfKind(batch, "PAYMENT") \cup OfKind(batch, "FEE_LINE")
                \cup OfKind(batch, "TAX_LINE") \cup OfKind(batch, "SETTLEMENT")
                \cup OfKind(batch, "SETTLEMENT_LINE") \cup OfKind(batch, "BANK_CREDIT")
                \cup OfKind(batch, "REFUND") \cup OfKind(batch, "ADJUSTMENT")
  <2>1. batch = {ScenarioPayment(key, def, r)} \cup ScenarioFees(def, r)
                  \cup ScenarioTaxes(def, r) \cup ScenarioSettlements(def, r)
                  \cup ScenarioLines(def, r) \cup ScenarioCredits(def, r)
                  \cup ScenarioRefunds(def, r) \cup ScenarioAdjustments(def, r)
    BY ScenarioByKind
  <2> QED
    BY <1>1, <2>1
<1>3. /\ r.pay \in ids("PAYMENT")
      /\ ScenarioTaxes(def, r) # {} => r.fee \in ids("FEE_LINE")
      /\ r.set \in ids("SETTLEMENT")
      /\ \A l \in ScenarioLines(def, r) : l.settlement \in ids("SETTLEMENT")
  <2>1. \A kind : {x.id : x \in OfKind(batch, kind)} \subseteq ids(kind)
    BY DEF IdsIn
  <2>2. ScenarioPayment(key, def, r).id = r.pay
    BY PaymentNames
  <2>3. r.pay \in ids("PAYMENT")
    BY <1>1, <2>1, <2>2
  <2> HIDE DEF r, ids
  <2> QED
    BY <1>1, <2>1, <2>3, ScenarioRefers
<1> HIDE DEF r, ids
<1>4. AfterImport(st, batch) =
        st \cup fresh("PAYMENT") \cup fresh("SETTLEMENT") \cup fresh("BANK_CREDIT")
          \cup {[f EXCEPT !.payment = OrNull(@, ids("PAYMENT"))] : f \in fresh("FEE_LINE")}
          \cup {[t EXCEPT !.fee = OrNull(@, ids("FEE_LINE"))] : t \in fresh("TAX_LINE")}
          \cup {[a EXCEPT !.settlement = OrNull(@, ids("SETTLEMENT"))] : a \in fresh("ADJUSTMENT")}
          \cup {f \in fresh("REFUND") : f.payment \in ids("PAYMENT")}
          \cup {[l EXCEPT !.payment = OrNull(@, ids("PAYMENT"))] :
                  l \in {l \in fresh("SETTLEMENT_LINE") : l.settlement \in ids("SETTLEMENT")}}
  BY DEF AfterImport, ids
<1>5. {[f EXCEPT !.payment = OrNull(@, ids("PAYMENT"))] : f \in fresh("FEE_LINE")} =
        fresh("FEE_LINE")
  <2>1. \A f \in ScenarioFees(def, r) : [f EXCEPT !.payment = OrNull(@, ids("PAYMENT"))] = f
    BY <1>3 DEF ScenarioFees, FeeRow, OrNull
  <2> QED
    BY <1>1, <2>1
<1>6. {[t EXCEPT !.fee = OrNull(@, ids("FEE_LINE"))] : t \in fresh("TAX_LINE")} =
        fresh("TAX_LINE")
  <2>1. \A t \in ScenarioTaxes(def, r) : [t EXCEPT !.fee = OrNull(@, ids("FEE_LINE"))] = t
    BY <1>3 DEF ScenarioTaxes, TaxRow, OrNull
  <2> QED
    BY <1>1, <2>1
<1>7. {[a EXCEPT !.settlement = OrNull(@, ids("SETTLEMENT"))] : a \in fresh("ADJUSTMENT")} =
        fresh("ADJUSTMENT")
  <2>1. \A a \in ScenarioAdjustments(def, r) :
          [a EXCEPT !.settlement = OrNull(@, ids("SETTLEMENT"))] = a
    BY <1>3 DEF ScenarioAdjustments, AdjustmentRecord, OrNull
  <2> QED
    BY <1>1, <2>1
<1>8. {f \in fresh("REFUND") : f.payment \in ids("PAYMENT")} = fresh("REFUND")
  <2>1. \A f \in ScenarioRefunds(def, r) : f.payment = r.pay
    BY RefundsName
  <2> QED
    BY <1>1, <1>3, <2>1
<1>9. {[l EXCEPT !.payment = OrNull(@, ids("PAYMENT"))] :
         l \in {l \in fresh("SETTLEMENT_LINE") : l.settlement \in ids("SETTLEMENT")}} =
        fresh("SETTLEMENT_LINE")
  <2>1. \A l \in ScenarioLines(def, r) : [l EXCEPT !.payment = OrNull(@, ids("PAYMENT"))] = l
    BY <1>3 DEF ScenarioLines, Paid1, Paid2, PaidRow, OrNull
  <2>2. {l \in fresh("SETTLEMENT_LINE") : l.settlement \in ids("SETTLEMENT")} =
          fresh("SETTLEMENT_LINE")
    BY <1>1, <1>3
  <2> QED
    BY <1>1, <2>1, <2>2
<1>10. \A kind, x : x \in fresh(kind) <=>
         x \in batch /\ x.kind = kind /\ x.id \notin IdsIn(st, x.kind)
  BY DEF OfKind
<1>11. \A x \in batch :
         x.kind \in { "PAYMENT", "FEE_LINE", "TAX_LINE", "SETTLEMENT", "SETTLEMENT_LINE",
                      "BANK_CREDIT", "REFUND", "ADJUSTMENT" }
  BY <1>2 DEF OfKind
<1> HIDE DEF fresh
<1>12. AfterImport(st, batch) =
         st \cup fresh("PAYMENT") \cup fresh("SETTLEMENT") \cup fresh("BANK_CREDIT")
           \cup fresh("FEE_LINE") \cup fresh("TAX_LINE") \cup fresh("ADJUSTMENT")
           \cup fresh("REFUND") \cup fresh("SETTLEMENT_LINE")
  BY <1>4, <1>5, <1>6, <1>7, <1>8, <1>9
<1> QED
  BY <1>10, <1>11, <1>12

----------------------------------------------------------------------------
(* The ids of a seed are its own.                                          *)

(* The ids of one seed differ from each other, and are ids.                *)
LEMMA OwnIds ==
  ASSUME NEW seed \in Seeds, NEW r, r = Refs(seed)
  PROVE  /\ r.set # r.set_b /\ r.UTR # r.UTR_b /\ r.sl # r.sl_b /\ r.bc # r.bc_b
         /\ r.adj_a # r.adj_b
         /\ r.UTR # NoUtr /\ r.UTR_b # NoUtr /\ r.set # NoRow /\ r.set_b # NoRow
<1>1. \A name \in ID_NAMES : r[name] = RecordId(name, seed)
  BY DEF Refs
<1>2. \A name, other \in ID_NAMES :
        r[name] \notin {NoRow, NoUtr} /\ (r[name] = r[other] => name = other)
  BY <1>1, RecordIdAssumption
<1>3. {"set", "set_b", "UTR", "UTR_b", "sl", "sl_b", "bc", "bc_b", "adj_a", "adj_b"}
        \subseteq ID_NAMES
  BY DEF ID_NAMES
<1> QED
  BY <1>2, <1>3

(* The ids of two seeds differ from each other.                            *)
LEMMA OtherIds ==
  ASSUME NEW seed \in Seeds, NEW s \in Seeds, seed # s,
         NEW r, r = Refs(seed), NEW q, q = Refs(s)
  PROVE  /\ r.pay # q.pay /\ r.fee # q.fee /\ r.tax # q.tax /\ r.ref # q.ref
         /\ {r.set, r.set_b} \cap {q.set, q.set_b} = {}
         /\ {r.UTR, r.UTR_b} \cap {q.UTR, q.UTR_b} = {}
         /\ {r.sl, r.sl_b} \cap {q.sl, q.sl_b} = {}
         /\ {r.bc, r.bc_b} \cap {q.bc, q.bc_b} = {}
         /\ {r.adj_a, r.adj_b, r.adj_late} \cap {q.adj_a, q.adj_b, q.adj_late} = {}
<1>1. \A name \in ID_NAMES : r[name] = RecordId(name, seed) /\ q[name] = RecordId(name, s)
  BY DEF Refs
<1>2. \A name, other \in ID_NAMES : r[name] # q[other]
  BY <1>1, RecordIdAssumption
<1>3. { "pay", "fee", "tax", "ref", "set", "set_b", "UTR", "UTR_b", "sl", "sl_b", "bc", "bc_b",
        "adj_a", "adj_b", "adj_late" } \subseteq ID_NAMES
  BY DEF ID_NAMES
<1> QED
  BY <1>2, <1>3

(* A record of another seed.                                               *)
IsForeign(x, seed) ==
  \E key \in Keys, def \in SCENARIO_IDS, s \in Seeds \ {seed} :
    x \in GenerateScenarioBatch(key, def, s)

(* It names nothing of this one, and has an id of its own.                 *)
LEMMA ForeignersName ==
  ASSUME NEW seed \in Seeds, NEW r, r = Refs(seed), NEW x, IsForeign(x, seed)
  PROVE  /\ x.kind = "PAYMENT" => x.id # r.pay
         /\ x.kind = "FEE_LINE" => x.payment # r.pay /\ x.id # r.fee
         /\ x.kind = "TAX_LINE" => x.fee # r.fee /\ x.id # r.tax
         /\ x.kind = "SETTLEMENT" => x.id \notin {r.set, r.set_b}
         /\ x.kind = "SETTLEMENT_LINE" => x.payment # r.pay /\ x.id \notin {r.sl, r.sl_b}
         /\ x.kind = "BANK_CREDIT" => x.utr \notin {r.UTR, r.UTR_b} /\ x.id \notin {r.bc, r.bc_b}
         /\ x.kind = "REFUND" => x.payment # r.pay /\ x.id # r.ref
         /\ x.kind = "ADJUSTMENT" => /\ x.settlement \notin {r.set, r.set_b}
                                     /\ x.id \notin {r.adj_a, r.adj_b, r.adj_late}
<1>1. PICK key \in Keys, def \in SCENARIO_IDS, s \in Seeds \ {seed} :
        x \in GenerateScenarioBatch(key, def, s)
  BY DEF IsForeign
<1> DEFINE batch == GenerateScenarioBatch(key, def, s)
           q == Refs(s)
<1>2. x \in OfKind(batch, x.kind)
  BY <1>1 DEF OfKind
<1>3. /\ r.pay # q.pay /\ r.fee # q.fee /\ r.tax # q.tax /\ r.ref # q.ref
      /\ {r.set, r.set_b} \cap {q.set, q.set_b} = {}
      /\ {r.UTR, r.UTR_b} \cap {q.UTR, q.UTR_b} = {}
      /\ {r.sl, r.sl_b} \cap {q.sl, q.sl_b} = {}
      /\ {r.bc, r.bc_b} \cap {q.bc, q.bc_b} = {}
      /\ {r.adj_a, r.adj_b, r.adj_late} \cap {q.adj_a, q.adj_b, q.adj_late} = {}
  BY OtherIds
<1>4. /\ OfKind(batch, "PAYMENT") = {ScenarioPayment(key, def, q)}
      /\ OfKind(batch, "FEE_LINE") = ScenarioFees(def, q)
      /\ OfKind(batch, "TAX_LINE") = ScenarioTaxes(def, q)
      /\ OfKind(batch, "SETTLEMENT") = ScenarioSettlements(def, q)
      /\ OfKind(batch, "SETTLEMENT_LINE") = ScenarioLines(def, q)
      /\ OfKind(batch, "BANK_CREDIT") = ScenarioCredits(def, q)
      /\ OfKind(batch, "REFUND") = ScenarioRefunds(def, q)
      /\ OfKind(batch, "ADJUSTMENT") = ScenarioAdjustments(def, q)
  BY ScenarioSelects
<1> HIDE DEF q, batch
<1>5. x.kind = "PAYMENT" => x.id # r.pay
  BY <1>2, <1>3, <1>4, PaymentNames
<1>6. x.kind = "FEE_LINE" => x.payment # r.pay /\ x.id # r.fee
  BY <1>2, <1>3, <1>4, FeesName
<1>7. x.kind = "TAX_LINE" => x.fee # r.fee /\ x.id # r.tax
  BY <1>2, <1>3, <1>4, TaxesName
<1>8. x.kind = "SETTLEMENT" => x.id \notin {r.set, r.set_b}
  <2>1. x.kind = "SETTLEMENT" => x \in ScenarioSettlements(def, q)
    BY <1>2, <1>4
  <2>2. \A y \in ScenarioSettlements(def, q) : y.id \in {q.set, q.set_b}
    BY SettlementsName
  <2> QED
    BY <1>3, <2>1, <2>2
<1>9. x.kind = "SETTLEMENT_LINE" => x.payment # r.pay /\ x.id \notin {r.sl, r.sl_b}
  <2>1. x.kind = "SETTLEMENT_LINE" => x \in ScenarioLines(def, q)
    BY <1>2, <1>4
  <2>2. \A y \in ScenarioLines(def, q) : y.payment = q.pay /\ y.id \in {q.sl, q.sl_b}
    BY LinesName
  <2> QED
    BY <1>3, <2>1, <2>2
<1>10. x.kind = "BANK_CREDIT" => x.utr \notin {r.UTR, r.UTR_b} /\ x.id \notin {r.bc, r.bc_b}
  <2>1. x.kind = "BANK_CREDIT" => x \in ScenarioCredits(def, q)
    BY <1>2, <1>4
  <2>2. \A y \in ScenarioCredits(def, q) : y.utr \in {q.UTR, q.UTR_b} /\ y.id \in {q.bc, q.bc_b}
    BY CreditsName
  <2> QED
    BY <1>3, <2>1, <2>2
<1>11. x.kind = "REFUND" => x.payment # r.pay /\ x.id # r.ref
  BY <1>2, <1>3, <1>4, RefundsName
<1>12. x.kind = "ADJUSTMENT" => /\ x.settlement \notin {r.set, r.set_b}
                                /\ x.id \notin {r.adj_a, r.adj_b, r.adj_late}
  <2>1. x.kind = "ADJUSTMENT" => x \in ScenarioAdjustments(def, q)
    BY <1>2, <1>4
  <2>2. \A y \in ScenarioAdjustments(def, q) : y.settlement = q.set /\ y.id \in {q.adj_a, q.adj_b, q.adj_late}
    BY AdjustmentsName
  <2> QED
    BY <1>3, <2>1, <2>2
<1> QED
  BY <1>5, <1>6, <1>7, <1>8, <1>9, <1>10, <1>11, <1>12

(* No row of another seed has the id of one of this.                       *)
LEMMA ForeignIdsDiffer ==
  ASSUME NEW key, NEW def \in SCENARIO_IDS, NEW seed \in Seeds,
         NEW x \in GenerateScenarioBatch(key, def, seed), NEW y, IsForeign(y, seed),
         y.kind = x.kind
  PROVE  y.id # x.id
<1> DEFINE batch == GenerateScenarioBatch(key, def, seed)
           r == Refs(seed)
<1>1. x \in OfKind(batch, x.kind)
  BY DEF OfKind
<1>2. /\ OfKind(batch, "PAYMENT") = {ScenarioPayment(key, def, r)}
      /\ OfKind(batch, "FEE_LINE") = ScenarioFees(def, r)
      /\ OfKind(batch, "TAX_LINE") = ScenarioTaxes(def, r)
      /\ OfKind(batch, "SETTLEMENT") = ScenarioSettlements(def, r)
      /\ OfKind(batch, "SETTLEMENT_LINE") = ScenarioLines(def, r)
      /\ OfKind(batch, "BANK_CREDIT") = ScenarioCredits(def, r)
      /\ OfKind(batch, "REFUND") = ScenarioRefunds(def, r)
      /\ OfKind(batch, "ADJUSTMENT") = ScenarioAdjustments(def, r)
  BY ScenarioSelects
<1>3. x.kind \in { "PAYMENT", "FEE_LINE", "TAX_LINE", "SETTLEMENT", "SETTLEMENT_LINE",
                   "BANK_CREDIT", "REFUND", "ADJUSTMENT" }
  <2>1. batch = {ScenarioPayment(key, def, r)} \cup ScenarioFees(def, r)
                  \cup ScenarioTaxes(def, r) \cup ScenarioSettlements(def, r)
                  \cup ScenarioLines(def, r) \cup ScenarioCredits(def, r)
                  \cup ScenarioRefunds(def, r) \cup ScenarioAdjustments(def, r)
    BY ScenarioByKind
  <2>2. \/ x \in OfKind(batch, "PAYMENT") \/ x \in OfKind(batch, "FEE_LINE")
        \/ x \in OfKind(batch, "TAX_LINE") \/ x \in OfKind(batch, "SETTLEMENT")
        \/ x \in OfKind(batch, "SETTLEMENT_LINE") \/ x \in OfKind(batch, "BANK_CREDIT")
        \/ x \in OfKind(batch, "REFUND") \/ x \in OfKind(batch, "ADJUSTMENT")
    <3>1. x \in batch
      OBVIOUS
    <3> HIDE DEF batch, r
    <3> QED
      BY <1>2, <2>1, <3>1
  <2> QED
    BY <2>2 DEF OfKind
<1>4. /\ y.kind = "PAYMENT" => y.id # r.pay
      /\ y.kind = "FEE_LINE" => y.id # r.fee
      /\ y.kind = "TAX_LINE" => y.id # r.tax
      /\ y.kind = "SETTLEMENT" => y.id \notin {r.set, r.set_b}
      /\ y.kind = "SETTLEMENT_LINE" => y.id \notin {r.sl, r.sl_b}
      /\ y.kind = "BANK_CREDIT" => y.id \notin {r.bc, r.bc_b}
      /\ y.kind = "REFUND" => y.id # r.ref
      /\ y.kind = "ADJUSTMENT" => y.id \notin {r.adj_a, r.adj_b, r.adj_late}
  BY ForeignersName
<1> HIDE DEF batch, r
<1>5. CASE x.kind = "PAYMENT"
  BY <1>1, <1>2, <1>4, <1>5, PaymentNames
<1>6. CASE x.kind = "FEE_LINE"
  BY <1>1, <1>2, <1>4, <1>6, FeesName
<1>7. CASE x.kind = "TAX_LINE"
  BY <1>1, <1>2, <1>4, <1>7, TaxesName
<1>8. CASE x.kind = "SETTLEMENT"
  <2>1. \A z \in ScenarioSettlements(def, r) : z.id \in {r.set, r.set_b}
    BY SettlementsName
  <2> QED
    BY <1>1, <1>2, <1>4, <1>8, <2>1
<1>9. CASE x.kind = "SETTLEMENT_LINE"
  <2>1. \A z \in ScenarioLines(def, r) : z.id \in {r.sl, r.sl_b}
    BY LinesName
  <2> QED
    BY <1>1, <1>2, <1>4, <1>9, <2>1
<1>10. CASE x.kind = "BANK_CREDIT"
  <2>1. \A z \in ScenarioCredits(def, r) : z.id \in {r.bc, r.bc_b}
    BY CreditsName
  <2> QED
    BY <1>1, <1>2, <1>4, <1>10, <2>1
<1>11. CASE x.kind = "REFUND"
  BY <1>1, <1>2, <1>4, <1>11, RefundsName
<1>12. CASE x.kind = "ADJUSTMENT"
  <2>1. \A z \in ScenarioAdjustments(def, r) : z.id \in {r.adj_a, r.adj_b, r.adj_late}
    BY AdjustmentsName
  <2> QED
    BY <1>1, <1>2, <1>4, <1>12, <2>1
<1> QED
  BY <1>3, <1>5, <1>6, <1>7, <1>8, <1>9, <1>10, <1>11, <1>12

----------------------------------------------------------------------------
(* The unit of a scenario whose batch is stored whole, among rows of other *)
(* seeds.                                                                  *)

(* A unit that holds the rows of a scenario and no others.                 *)
IsScenarioUnit(unit, def, r) ==
  /\ \E key : unit.payment = ScenarioPayment(key, def, r)
  /\ unit.rows["fees"] = ScenarioFees(def, r)
  /\ unit.rows["taxes"] = ScenarioTaxes(def, r)
  /\ unit.rows["refunds"] = ScenarioRefunds(def, r)
  /\ unit.rows["lines"] = ScenarioLines(def, r)
  /\ unit.rows["settlements"] = ScenarioSettlements(def, r)
  /\ unit.rows["credits"] = ScenarioCredits(def, r)
  /\ unit.rows["adjustments"] = {<<a, Paid1(def, r)>> : a \in ScenarioAdjustments(def, r)}

(* The rows of a store that are of a kind, and name a seed.                *)
LEMMA AmongForeigners ==
  ASSUME NEW key, NEW def \in SCENARIO_IDS, NEW seed \in Seeds, NEW st,
         GenerateScenarioBatch(key, def, seed) \subseteq st,
         \A x \in st : x \in GenerateScenarioBatch(key, def, seed) \/ IsForeign(x, seed),
         NEW kind
  PROVE  /\ OfKind(GenerateScenarioBatch(key, def, seed), kind) \subseteq OfKind(st, kind)
         /\ \A x \in OfKind(st, kind) :
              \/ x \in OfKind(GenerateScenarioBatch(key, def, seed), kind)
              \/ x.kind = kind /\ IsForeign(x, seed)
BY DEF OfKind

(* The queries of loadUnit select the records of the scenario and no other.*)
LEMMA ScenarioUnitIs ==
  ASSUME NEW key, NEW def \in SCENARIO_IDS, NEW seed \in Seeds, NEW st,
         GenerateScenarioBatch(key, def, seed) \subseteq st,
         \A x \in st : x \in GenerateScenarioBatch(key, def, seed) \/ IsForeign(x, seed),
         NEW r, r = Refs(seed), NEW unit, unit = UnitOf(st, r.pay)
  PROVE  IsScenarioUnit(unit, def, r)
<1> DEFINE batch == GenerateScenarioBatch(key, def, seed)
<1>1. /\ unit.payment = PaymentIn(st, r.pay)
      /\ \A q \in Queries : unit.rows[q] = Select(q, st, r.pay)
  BY DEF UnitOf
<1>2. /\ OfKind(batch, "PAYMENT") = {ScenarioPayment(key, def, r)}
      /\ OfKind(batch, "FEE_LINE") = ScenarioFees(def, r)
      /\ OfKind(batch, "TAX_LINE") = ScenarioTaxes(def, r)
      /\ OfKind(batch, "SETTLEMENT") = ScenarioSettlements(def, r)
      /\ OfKind(batch, "SETTLEMENT_LINE") = ScenarioLines(def, r)
      /\ OfKind(batch, "BANK_CREDIT") = ScenarioCredits(def, r)
      /\ OfKind(batch, "REFUND") = ScenarioRefunds(def, r)
      /\ OfKind(batch, "ADJUSTMENT") = ScenarioAdjustments(def, r)
  BY ScenarioSelects
<1>3. \A kind : /\ OfKind(batch, kind) \subseteq OfKind(st, kind)
                /\ \A x \in OfKind(st, kind) :
                     x \in OfKind(batch, kind) \/ (x.kind = kind /\ IsForeign(x, seed))
  BY AmongForeigners
<1> HIDE DEF batch
<1>4. unit.payment = ScenarioPayment(key, def, r)
  <2>1. ScenarioPayment(key, def, r).id = r.pay
    BY PaymentNames
  <2>2. \A x \in OfKind(st, "PAYMENT") : x.id = r.pay <=> x = ScenarioPayment(key, def, r)
    BY <1>2, <1>3, <2>1, ForeignersName
  <2>3. ScenarioPayment(key, def, r) \in OfKind(st, "PAYMENT")
    BY <1>2, <1>3
  <2> QED
    BY <1>1, <2>1, <2>2, <2>3 DEF PaymentIn
<1>5. FeesOf(st, r.pay) = ScenarioFees(def, r)
  <2>1. \A x \in OfKind(st, "FEE_LINE") : x.payment = r.pay <=> x \in ScenarioFees(def, r)
    BY <1>2, <1>3, FeesName, ForeignersName
  <2> QED
    BY <1>2, <1>3, <2>1 DEF FeesOf
<1>6. TaxesOf(st, r.pay) = ScenarioTaxes(def, r)
  <2>1. \A x \in OfKind(st, "TAX_LINE") : x.fee = r.fee <=> x \in ScenarioTaxes(def, r)
    BY <1>2, <1>3, TaxesName, ForeignersName
  <2>2. \A f \in ScenarioFees(def, r) : f.id = r.fee
    BY FeesName
  <2>3. ScenarioTaxes(def, r) # {} => \E f \in ScenarioFees(def, r) : f.id = r.fee
    BY ScenarioRefers
  <2> QED
    BY <1>2, <1>3, <1>5, <2>1, <2>2, <2>3 DEF TaxesOf
<1>7. RefundsOf(st, r.pay) = ScenarioRefunds(def, r)
  <2>1. \A x \in OfKind(st, "REFUND") : x.payment = r.pay <=> x \in ScenarioRefunds(def, r)
    BY <1>2, <1>3, RefundsName, ForeignersName
  <2> QED
    BY <1>2, <1>3, <2>1 DEF RefundsOf
<1>8. LinesOf(st, r.pay) = ScenarioLines(def, r)
  <2>1. \A x \in ScenarioLines(def, r) : x.payment = r.pay
    BY LinesName
  <2>2. \A x \in OfKind(st, "SETTLEMENT_LINE") : x.payment = r.pay <=> x \in ScenarioLines(def, r)
    BY <1>2, <1>3, <2>1, ForeignersName
  <2> QED
    BY <1>2, <1>3, <2>2 DEF LinesOf
<1>9. /\ Settled1(def, r).id = r.set /\ Settled2(def, r).id = r.set_b
      /\ Settled1(def, r).utr = r.UTR /\ Settled2(def, r).utr = r.UTR_b
      /\ Paid1(def, r).settlement = r.set /\ Paid2(def, r).settlement = r.set_b
      /\ Bank1(def, r).utr = r.UTR /\ Bank2(def, r).utr = r.UTR_b
  BY SettledFields, PaidFields, BankFields
  DEF Settled1, Settled2, Paid1, Paid2, Bank1, Bank2
<1>10. SettlementsOf(st, r.pay) = ScenarioSettlements(def, r)
  <2>1. \A s \in ScenarioSettlements(def, r) : \E l \in ScenarioLines(def, r) : l.settlement = s.id
    BY <1>9 DEF ScenarioSettlements, ScenarioLines
  <2>2. \A l \in ScenarioLines(def, r) : l.settlement \in {r.set, r.set_b}
    BY LinesName
  <2>3. \A x \in OfKind(st, "SETTLEMENT") :
          x \in ScenarioSettlements(def, r) \/ x.id \notin {r.set, r.set_b}
    BY <1>2, <1>3, ForeignersName
  <2> QED
    BY <1>2, <1>3, <1>8, <2>1, <2>2, <2>3 DEF SettlementsOf
<1>11. CreditsOf(st, r.pay) = ScenarioCredits(def, r)
  <2>1. \A b \in ScenarioCredits(def, r) : \E s \in ScenarioSettlements(def, r) : s.utr = b.utr
    BY <1>9 DEF ScenarioSettlements, ScenarioCredits
  <2>2. \A s \in ScenarioSettlements(def, r) : s.utr \in {r.UTR, r.UTR_b}
    BY SettlementsName
  <2>3. \A x \in OfKind(st, "BANK_CREDIT") :
          x \in ScenarioCredits(def, r) \/ x.utr \notin {r.UTR, r.UTR_b}
    BY <1>2, <1>3, ForeignersName
  <2> QED
    BY <1>2, <1>3, <1>10, <2>1, <2>2, <2>3 DEF CreditsOf
<1>12. AdjustmentsOf(st, r.pay) = {<<a, Paid1(def, r)>> : a \in ScenarioAdjustments(def, r)}
  <2>1. \A a \in ScenarioAdjustments(def, r) : a.settlement = r.set
    BY AdjustmentsName
  <2>2. \A x \in OfKind(st, "ADJUSTMENT") :
          x \in ScenarioAdjustments(def, r) \/ x.settlement \notin {r.set, r.set_b}
    BY <1>2, <1>3, ForeignersName
  <2>3. Paid1(def, r) \in ScenarioLines(def, r)
    BY DEF ScenarioLines
  <2>4. \A l \in ScenarioLines(def, r) :
          l.settlement \in {r.set, r.set_b} /\ (l.settlement = r.set <=> l = Paid1(def, r))
    BY <1>9, OwnIds DEF ScenarioLines
  <2> QED
    BY <1>2, <1>3, <1>8, <2>1, <2>2, <2>3, <2>4 DEF AdjustmentsOf
<1>13. /\ Select("fees", st, r.pay) = FeesOf(st, r.pay)
       /\ Select("taxes", st, r.pay) = TaxesOf(st, r.pay)
       /\ Select("refunds", st, r.pay) = RefundsOf(st, r.pay)
       /\ Select("adjustments", st, r.pay) = AdjustmentsOf(st, r.pay)
       /\ Select("lines", st, r.pay) = LinesOf(st, r.pay)
       /\ Select("settlements", st, r.pay) = SettlementsOf(st, r.pay)
       /\ Select("credits", st, r.pay) = CreditsOf(st, r.pay)
  BY DEF Select
<1>14. {"fees", "taxes", "refunds", "adjustments", "lines", "settlements", "credits"} = Queries
  BY DEF Queries
<1> QED
  BY <1>1, <1>4, <1>5, <1>6, <1>7, <1>8, <1>10, <1>11, <1>12, <1>13, <1>14 DEF IsScenarioUnit

----------------------------------------------------------------------------
(* The amounts of a scenario.                                              *)

(* What the schedule takes of it, and when it settles.                     *)
LEMMA ScenarioFeesAre ==
  ASSUME NEW def
  PROVE  /\ ScenarioFee(def) \in Nat /\ ScenarioFee(def) > 0 /\ ScenarioTax(def) \in Nat
         /\ CAPTURED_AT \in Nat /\ SETTLED_AT \in Int
<1>1. CAPTURED_AT \in Nat /\ CAPTURED_AT = 46680
  BY DEF CAPTURED_AT, DAY, HOUR
<1>2. SETTLED_AT \in Int
  <2>1. PICK day \in Int : SETTLED_AT = DAY * day
    BY <1>1, ExpectedIsMidnight DEF SETTLED_AT
  <2> QED
    BY <2>1 DEF DAY, HOUR
<1>3. PICK rate \in {0, 190, 200, 230, 250} :
        rate = ScheduleAt(CAPTURED_AT).feeRateBps[PaymentMethodOf(def)] /\ rate # 0
  <2>1. PaymentMethodOf(def) \in PaymentMethod /\ PaymentMethodOf(def) # "UPI"
    BY DEF PaymentMethodOf, PaymentMethod
  <2> QED
    BY <1>1, <2>1, RatesAre
<1>4. GrossMinor \in Nat /\ GrossMinor >= 45000
  BY DEF GrossMinor
<1>5. /\ ScenarioFee(def) = ApplyBasisPoints(GrossMinor, rate)
      /\ ScenarioTax(def) = ApplyBasisPoints(ScenarioFee(def), 1800)
  BY <1>3 DEF ScenarioFee, ScenarioTax, ScheduledFee, ScheduledTax, TAX_ON_FEE_BPS
<1>6. ScenarioFee(def) \in Nat /\ ScenarioFee(def) > 0
  BY <1>3, <1>4, <1>5, RateTakes
<1>7. ScenarioTax(def) \in Nat
  BY <1>5, <1>6, RoundedShare
<1> QED
  BY <1>1, <1>2, <1>6, <1>7

(* Its payment.                                                            *)
LEMMA ScenarioPaymentIs ==
  ASSUME NEW unit, NEW def, NEW r, IsScenarioUnit(unit, def, r)
  PROVE  /\ unit.payment.amount = GrossMinor /\ unit.payment.method = PaymentMethodOf(def)
         /\ unit.payment.status = "CAPTURED"
         /\ unit.payment.capturedAt = CAPTURED_AT /\ CAPTURED_AT # Never
         /\ unit.payment.authorizedAt = CAPTURED_AT - HOUR
         /\ FeeTime(unit) = CAPTURED_AT /\ InForce(CAPTURED_AT) # {}
<1>1. PICK key : unit.payment = ScenarioPayment(key, def, r)
  BY DEF IsScenarioUnit
<1>2. CAPTURED_AT \in Nat
  BY ScenarioFeesAre
<1>3. CAPTURED_AT # Never
  BY <1>2 DEF Never
<1>4. unit.payment.capturedAt = CAPTURED_AT
  BY <1>1 DEF ScenarioPayment
<1>5. FeeTime(unit) = CAPTURED_AT
  BY <1>3, <1>4 DEF FeeTime
<1>6. InForce(CAPTURED_AT) # {}
  BY <1>2, ScheduleIsInForce
<1> QED
  BY <1>1, <1>3, <1>4, <1>5, <1>6 DEF ScenarioPayment

(* What its lines pay out.                                                 *)
LEMMA ScenarioLinesAddUp ==
  ASSUME NEW def \in SCENARIO_IDS, NEW seed \in Seeds, NEW r, r = Refs(seed)
  PROVE  /\ Total(ScenarioLines(def, r)) =
              IF def \in {"ambiguous-adjustment", "misleading-adjustment"}
              THEN CleanNet(def) - Shortfall ELSE CleanNet(def)
         /\ Total(ScenarioLines(def, r)) \in Int /\ CleanNet(def) \in Int
         /\ Cardinality(ScenarioLines(def, r)) = IF def = "split-settlement" THEN 2 ELSE 1
<1>1. PICK net \in Int : net = CleanNet(def)
  BY ScenarioFeesAre DEF CleanNet, GrossMinor
<1>2. /\ Paid1(def, r).amount = FirstShare(def) /\ Paid2(def, r).amount = SecondShare(def)
      /\ Paid1(def, r) # Paid2(def, r)
  <2>1. Paid1(def, r).id = r.sl /\ Paid2(def, r).id = r.sl_b
    BY PaidFields DEF Paid1, Paid2
  <2> QED
    BY <2>1, PaidFields, OwnIds DEF Paid1, Paid2
<1>3. CASE def = "split-settlement"
  <2>1. FirstShare(def) = net \div 2 /\ SecondShare(def) = net - net \div 2
    BY <1>1, <1>3 DEF FirstShare, SecondShare
  <2>2. ScenarioLines(def, r) = {Paid1(def, r), Paid2(def, r)}
    BY <1>3 DEF ScenarioLines
  <2>3. Total(ScenarioLines(def, r)) = net \div 2 + (net - net \div 2)
    BY <1>2, <2>1, <2>2, TotalOfTwo
  <2>4. Cardinality(ScenarioLines(def, r)) = 2
    BY <1>2, <2>2, PairHasTwo
  <2> QED
    BY <1>1, <1>3, <2>3, <2>4
<1>4. CASE def # "split-settlement"
  <2>1. FirstShare(def) = IF def \in {"ambiguous-adjustment", "misleading-adjustment"}
                          THEN net - 50000 ELSE net
    BY <1>1, <1>4 DEF FirstShare, Shortfall
  <2>2. ScenarioLines(def, r) = {Paid1(def, r)}
    BY <1>4 DEF ScenarioLines
  <2>3. Total(ScenarioLines(def, r)) = FirstShare(def)
    BY <1>2, <2>1, <2>2, TotalOfOne
  <2>4. Cardinality(ScenarioLines(def, r)) = 1
    BY <2>2, FS_Singleton
  <2> QED
    BY <1>1, <1>4, <2>1, <2>3, <2>4 DEF Shortfall
<1> QED
  BY <1>3, <1>4

(* What its adjustments take.                                              *)
LEMMA ScenarioAdjustmentsAddUp ==
  ASSUME NEW def \in SCENARIO_IDS, NEW seed \in Seeds, NEW r, r = Refs(seed)
  PROVE  PairTotal({<<a, Paid1(def, r)>> : a \in ScenarioAdjustments(def, r)}) =
           CASE def = "ambiguous-adjustment"  -> -100000
             [] def = "misleading-adjustment" -> -50000
             [] OTHER -> 0
<1> DEFINE line == Paid1(def, r)
           pairs == {<<a, line>> : a \in ScenarioAdjustments(def, r)}
           x == <<AdjustmentRecord(r.adj_a, r, SETTLED_AT), line>>
           y == <<AdjustmentRecord(r.adj_b, r, SETTLED_AT), line>>
           z == <<AdjustmentRecord(r.adj_late, r, IMPLAUSIBLE_ADJUSTMENT_AT), line>>
<1>1. /\ x[1].amount = -50000 /\ y[1].amount = -50000 /\ z[1].amount = -50000
      /\ x[1].id = r.adj_a /\ y[1].id = r.adj_b
  BY DEF AdjustmentRecord, Shortfall
<1>2. x # y
  BY <1>1, OwnIds
<1>3. CASE def = "ambiguous-adjustment"
  <2>1. pairs = {y} \cup {x}
    BY <1>3 DEF ScenarioAdjustments
  <2> HIDE DEF x, y, z, pairs
  <2>2. PairTotal({} \cup {y}) = y[1].amount + PairTotal({})
    BY <1>1, PairTotalAdds, FS_EmptySet
  <2>3. {} \cup {y} = {y} /\ x \notin {y}
    BY <1>2
  <2>4. PairTotal({y} \cup {x}) = x[1].amount + PairTotal({y})
    <3>1. IsFiniteSet({y})
      BY FS_Singleton
    <3>2. x[1].amount \in Int /\ \A w \in {y} : w[1].amount \in Int
      BY <1>1
    <3> QED
      BY <2>3, <3>1, <3>2, PairTotalAdds
  <2>5. PairTotal(pairs) = -100000
    BY <1>1, <2>1, <2>2, <2>3, <2>4, PairTotalOfNone
  <2> QED
    BY <1>3, <2>5 DEF pairs
<1>4. CASE def = "misleading-adjustment"
  <2>1. pairs = {} \cup {z}
    BY <1>4 DEF ScenarioAdjustments
  <2> HIDE DEF x, y, z, pairs
  <2>2. PairTotal({} \cup {z}) = z[1].amount + PairTotal({})
    BY <1>1, PairTotalAdds, FS_EmptySet
  <2>3. PairTotal(pairs) = -50000
    BY <1>1, <2>1, <2>2, PairTotalOfNone
  <2> QED
    BY <1>4, <2>3 DEF pairs
<1>5. CASE def \notin {"ambiguous-adjustment", "misleading-adjustment"}
  <2>1. pairs = {}
    BY <1>5 DEF ScenarioAdjustments
  <2> HIDE DEF x, y, z, pairs
  <2>2. PairTotal(pairs) = 0
    BY <2>1, PairTotalOfNone
  <2> QED
    BY <1>5, <2>2 DEF pairs
<1> QED
  BY <1>3, <1>4, <1>5

(* The variance that the definition is about.                              *)
ScenarioVariance(def) ==
  CASE def = "fee-tax-discrepancy"  -> ScenarioFee(def) + ScenarioTax(def)
    [] def = "refund-netting"       -> -RefundMinor
    [] def = "ambiguous-adjustment" -> -Shortfall
    [] OTHER -> 0

(* What the verifier computes of its unit is that.                         *)
LEMMA ScenarioVarianceIs ==
  ASSUME NEW def \in SCENARIO_IDS, NEW seed \in Seeds, NEW r, r = Refs(seed),
         NEW unit, IsScenarioUnit(unit, def, r)
  PROVE  /\ HasBreakdown(unit)
         /\ Variance(unit) = ScenarioVariance(def)
         /\ Unrecorded(unit) =
              IF def = "fee-tax-discrepancy" THEN ScenarioFee(def) + ScenarioTax(def) ELSE 0
         /\ Total(unit.rows["fees"]) =
              IF def = "fee-tax-discrepancy" THEN 0 ELSE ScenarioFee(def)
         /\ Total(unit.rows["refunds"]) = IF def = "refund-netting" THEN 100000 ELSE 0
<1>1. PICK fee \in Nat, tax \in Nat, net \in Int :
        fee = ScenarioFee(def) /\ tax = ScenarioTax(def) /\ net = CleanNet(def)
  BY ScenarioFeesAre, ScenarioLinesAddUp
<1>2. /\ Total(unit.rows["fees"]) = IF def = "fee-tax-discrepancy" THEN 0 ELSE fee
      /\ Total(unit.rows["taxes"]) = IF def = "fee-tax-discrepancy" THEN 0 ELSE tax
  <2>1. FeeRow(def, r).amount = fee /\ TaxRow(def, r).amount = tax
    BY <1>1 DEF FeeRow, TaxRow
  <2>2. Total({FeeRow(def, r)}) = fee /\ Total({TaxRow(def, r)}) = tax
    BY <2>1, TotalOfOne
  <2>3. /\ unit.rows["fees"] = ScenarioFees(def, r)
        /\ unit.rows["taxes"] = ScenarioTaxes(def, r)
    BY DEF IsScenarioUnit
  <2> QED
    BY <2>2, <2>3, TotalOfNone DEF ScenarioFees, ScenarioTaxes
<1>3. Total(unit.rows["refunds"]) = IF def = "refund-netting" THEN 100000 ELSE 0
  <2>1. RefundRecord(r).amount = 100000
    BY DEF RefundRecord, RefundMinor
  <2>2. Total({RefundRecord(r)}) = 100000
    BY <2>1, TotalOfOne
  <2>3. unit.rows["refunds"] = ScenarioRefunds(def, r)
    BY DEF IsScenarioUnit
  <2> QED
    BY <2>2, <2>3, TotalOfNone DEF ScenarioRefunds
<1>4. SettledTotal(unit) =
        IF def \in {"ambiguous-adjustment", "misleading-adjustment"} THEN net - 50000 ELSE net
  <2>1. unit.rows["lines"] = ScenarioLines(def, r)
    BY DEF IsScenarioUnit
  <2> QED
    BY <1>1, <2>1, ScenarioLinesAddUp DEF SettledTotal, Shortfall
<1>5. TotalAdjustment(unit) = CASE def = "ambiguous-adjustment"  -> -100000
                                [] def = "misleading-adjustment" -> -50000
                                [] OTHER -> 0
  <2>1. unit.rows["adjustments"] = {<<a, Paid1(def, r)>> : a \in ScenarioAdjustments(def, r)}
    BY DEF IsScenarioUnit
  <2>2. TotalAdjustment(unit) = PairTotal(unit.rows["adjustments"])
    BY DEF TotalAdjustment, PairTotal
  <2> QED
    BY <2>1, <2>2, ScenarioAdjustmentsAddUp
<1>6. unit.payment.amount = 1000000 /\ net = 1000000 - fee - tax
  BY <1>1, ScenarioPaymentIs DEF GrossMinor, CleanNet
<1>7. HasBreakdown(unit)
  BY <1>2, <1>3, <1>6 DEF HasBreakdown
<1>8. Variance(unit) = ScenarioVariance(def)
  <2>1. PICK f \in Int, t \in Int, back \in Int, adjusted \in Int, paid \in Int :
          /\ f = Total(unit.rows["fees"]) /\ t = Total(unit.rows["taxes"])
          /\ back = Total(unit.rows["refunds"]) /\ adjusted = TotalAdjustment(unit)
          /\ paid = SettledTotal(unit)
    <3>1. TotalAdjustment(unit) \in Int
      BY <1>5
    <3>2. /\ Total(unit.rows["fees"]) \in Int /\ Total(unit.rows["taxes"]) \in Int
          /\ Total(unit.rows["refunds"]) \in Int /\ SettledTotal(unit) \in Int
      BY <1>2, <1>3, <1>4
    <3> QED
      BY <3>1, <3>2
  <2>2. Variance(unit) = (1000000 - f - t - back + adjusted) - paid
    BY <1>6, <2>1 DEF Variance, ExpectedNet
  <2>3. CASE def = "fee-tax-discrepancy"
    <3>1. f = 0 /\ t = 0 /\ back = 0 /\ paid = net /\ adjusted = 0
      BY <1>2, <1>3, <1>4, <1>5, <2>1, <2>3
    <3>2. ScenarioVariance(def) = fee + tax
      BY <1>1, <2>3 DEF ScenarioVariance
    <3> QED
      BY <1>6, <2>2, <3>1, <3>2
  <2>4. CASE def = "refund-netting"
    <3>1. f = fee /\ t = tax /\ back = 100000 /\ paid = net /\ adjusted = 0
      BY <1>2, <1>3, <1>4, <1>5, <2>1, <2>4
    <3>2. ScenarioVariance(def) = -100000
      BY <2>4 DEF ScenarioVariance, RefundMinor
    <3> QED
      BY <1>6, <2>2, <3>1, <3>2
  <2>5. CASE def = "ambiguous-adjustment"
    <3>1. f = fee /\ t = tax /\ back = 0 /\ paid = net - 50000 /\ adjusted = -100000
      BY <1>2, <1>3, <1>4, <1>5, <2>1, <2>5
    <3>2. ScenarioVariance(def) = -50000
      BY <2>5 DEF ScenarioVariance, Shortfall
    <3> QED
      BY <1>6, <2>2, <3>1, <3>2
  <2>6. CASE def = "misleading-adjustment"
    <3>1. f = fee /\ t = tax /\ back = 0 /\ paid = net - 50000 /\ adjusted = -50000
      BY <1>2, <1>3, <1>4, <1>5, <2>1, <2>6
    <3>2. ScenarioVariance(def) = 0
      BY <2>6 DEF ScenarioVariance
    <3> QED
      BY <1>6, <2>2, <3>1, <3>2
  <2>7. CASE def \in {"clean-settlement", "split-settlement"}
    <3>1. f = fee /\ t = tax /\ back = 0 /\ paid = net /\ adjusted = 0
      BY <1>2, <1>3, <1>4, <1>5, <2>1, <2>7
    <3>2. ScenarioVariance(def) = 0
      BY <2>7 DEF ScenarioVariance
    <3> QED
      BY <1>6, <2>2, <3>1, <3>2
  <2> QED
    BY <2>3, <2>4, <2>5, <2>6, <2>7 DEF SCENARIO_IDS
<1>9. Unrecorded(unit) = IF def = "fee-tax-discrepancy" THEN fee + tax ELSE 0
  <2>1. /\ ScheduledFee(unit.payment.amount, unit.payment.method, FeeTime(unit)) = fee
        /\ ScheduledTax(unit.payment.amount, unit.payment.method, FeeTime(unit)) = tax
    BY <1>1, ScenarioPaymentIs DEF ScenarioFee, ScenarioTax
  <2> QED
    BY <1>2, <2>1 DEF Unrecorded
<1> QED
  BY <1>1, <1>2, <1>3, <1>7, <1>8, <1>9

----------------------------------------------------------------------------
(* What the matcher makes of a scenario.                                   *)

(* There is a first credit for every UTR.                                  *)
LEMMA FindsExist ==
  ASSUME NEW unit
  PROVE  Finds(unit) # {}
<1> DEFINE credits == unit.rows["credits"]
           find == [utr \in {b.utr : b \in credits} |-> CHOOSE b \in credits : b.utr = utr]
<1>1. \A utr \in {b.utr : b \in credits} : find[utr] \in credits /\ find[utr].utr = utr
  OBVIOUS
<1>2. find \in [{b.utr : b \in credits} -> credits]
  BY <1>1
<1>3. find \in Finds(unit)
  BY <1>1, <1>2 DEF Finds
<1> QED
  BY <1>3

(* Its settlements are credited, but the second credit comes late.         *)
LEMMA ScenarioCreditsAre ==
  ASSUME NEW def \in SCENARIO_IDS, NEW seed \in Seeds, NEW r, r = Refs(seed),
         NEW unit, IsScenarioUnit(unit, def, r)
  PROVE  /\ \A find \in Finds(unit) : BankCredited(unit, find) <=> def # "split-settlement"
         /\ \A s \in unit.rows["settlements"] : s.settlementAt = SETTLED_AT
         /\ \A s \in unit.rows["settlements"] : \E b \in unit.rows["credits"] : b.utr = s.utr
         /\ unit.rows["settlements"] # {}
         /\ Cardinality(unit.rows["settlements"]) = IF def = "split-settlement" THEN 2 ELSE 1
<1>1. /\ Settled1(def, r).id = r.set /\ Settled2(def, r).id = r.set_b
      /\ Settled1(def, r).utr = r.UTR /\ Settled2(def, r).utr = r.UTR_b
      /\ Settled1(def, r).settlementAt = SETTLED_AT /\ Settled2(def, r).settlementAt = SETTLED_AT
      /\ Settled1(def, r).net = Bank1(def, r).amount
      /\ Bank1(def, r).utr = r.UTR /\ Bank2(def, r).utr = r.UTR_b
      /\ Bank1(def, r).creditedAt = CREDITED_AT /\ Bank2(def, r).creditedAt = LATE_CREDIT_AT
  BY SettledFields, BankFields DEF Settled1, Settled2, Bank1, Bank2
<1>2. /\ unit.rows["settlements"] = ScenarioSettlements(def, r)
      /\ unit.rows["credits"] = ScenarioCredits(def, r)
  BY DEF IsScenarioUnit
<1>3. PICK at \in Int : at = SETTLED_AT
  BY ScenarioFeesAre
<1>4. /\ BankCreditWithinExpectedLag(SETTLED_AT, CREDITED_AT)
      /\ ~BankCreditWithinExpectedLag(SETTLED_AT, LATE_CREDIT_AT)
  BY <1>3 DEF BankCreditWithinExpectedLag, BANK_CREDIT_EXPECTED_LAG_HOURS, CREDITED_AT,
     LATE_CREDIT_AT, DAY, HOUR
<1>5. /\ r.set # r.set_b /\ r.UTR # r.UTR_b /\ r.UTR # NoUtr /\ r.UTR_b # NoUtr
  BY OwnIds
<1>6. \A find \in Finds(unit) :
        /\ DOMAIN find = {b.utr : b \in ScenarioCredits(def, r)}
        /\ \A utr \in DOMAIN find : find[utr] \in ScenarioCredits(def, r) /\ find[utr].utr = utr
  BY <1>2 DEF Finds
<1>7. CASE def = "split-settlement"
  <2>1. /\ ScenarioSettlements(def, r) = {Settled1(def, r), Settled2(def, r)}
        /\ ScenarioCredits(def, r) = {Bank1(def, r), Bank2(def, r)}
    BY <1>7 DEF ScenarioSettlements, ScenarioCredits
  <2>2. Cardinality(ScenarioSettlements(def, r)) = 2
    BY <1>1, <1>5, <2>1, PairHasTwo
  <2>3. ASSUME NEW find \in Finds(unit)
        PROVE  ~BankCredited(unit, find)
    <3>1. r.UTR_b \in DOMAIN find /\ find[r.UTR_b] = Bank2(def, r)
      <4>1. /\ DOMAIN find = {b.utr : b \in ScenarioCredits(def, r)}
            /\ \A utr \in DOMAIN find :
                 find[utr] \in ScenarioCredits(def, r) /\ find[utr].utr = utr
        BY <1>6
      <4>2. Bank2(def, r) \in ScenarioCredits(def, r)
        BY <2>1
      <4>3. r.UTR_b \in DOMAIN find
        BY <1>1, <4>1, <4>2
      <4>4. find[r.UTR_b] \in {Bank1(def, r), Bank2(def, r)} /\ find[r.UTR_b].utr = r.UTR_b
        BY <2>1, <4>1, <4>3
      <4> QED
        BY <1>1, <1>5, <4>3, <4>4
    <3>2. ~Credited(Settled2(def, r), find)
      BY <1>1, <1>4, <3>1 DEF Credited
    <3> QED
      BY <1>1, <1>2, <1>5, <2>1, <3>2 DEF BankCredited
  <2> QED
    BY <1>1, <1>2, <1>7, <2>1, <2>2, <2>3
<1>8. CASE def # "split-settlement"
  <2>1. /\ ScenarioSettlements(def, r) = {Settled1(def, r)}
        /\ ScenarioCredits(def, r) = {Bank1(def, r)}
    BY <1>8 DEF ScenarioSettlements, ScenarioCredits
  <2>2. Cardinality(ScenarioSettlements(def, r)) = 1
    BY <2>1, FS_Singleton
  <2>3. ASSUME NEW find \in Finds(unit)
        PROVE  BankCredited(unit, find)
    <3>1. r.UTR \in DOMAIN find /\ find[r.UTR] = Bank1(def, r)
      <4>1. /\ DOMAIN find = {b.utr : b \in ScenarioCredits(def, r)}
            /\ \A utr \in DOMAIN find :
                 find[utr] \in ScenarioCredits(def, r) /\ find[utr].utr = utr
        BY <1>6
      <4>2. Bank1(def, r) \in ScenarioCredits(def, r)
        BY <2>1
      <4>3. r.UTR \in DOMAIN find
        BY <1>1, <4>1, <4>2
      <4> QED
        BY <2>1, <4>1, <4>3
    <3>2. Credited(Settled1(def, r), find)
      BY <1>1, <1>4, <3>1 DEF Credited
    <3> QED
      BY <1>2, <2>1, <3>2 DEF BankCredited
  <2> QED
    BY <1>1, <1>2, <1>8, <2>1, <2>2, <2>3
<1> QED
  BY <1>7, <1>8

(* Its refund settles beyond the window.                                   *)
LEMMA ScenarioRefundIsLate ==
  ASSUME NEW def \in SCENARIO_IDS, NEW r, NEW unit, IsScenarioUnit(unit, def, r)
  PROVE  /\ RefundsInWindow(unit) <=> def # "refund-netting"
         /\ unit.rows["refunds"] = {} <=> def # "refund-netting"
<1>1. unit.rows["refunds"] = IF def = "refund-netting" THEN {RefundRecord(r)} ELSE {}
  BY DEF IsScenarioUnit, ScenarioRefunds
<1>2. Late(RefundRecord(r))
  <2>1. /\ RefundRecord(r).createdAt = 33 * DAY + 12 * HOUR
        /\ RefundRecord(r).settledAt = 50 * DAY
    BY DEF RefundRecord
  <2>2. DaysBetween(50 * DAY, 33 * DAY + 12 * HOUR) = 16
    BY DEF DaysBetween, Magnitude, DAY, HOUR
  <2>3. 50 * DAY # Never
    BY DEF Never, DAY, HOUR
  <2> QED
    BY <2>1, <2>2, <2>3 DEF Late, REFUND_NETTING_MAX_CYCLES
<1> QED
  BY <1>1, <1>2 DEF RefundsInWindow

(* Its misleading adjustment is the only one that is impossible.           *)
LEMMA ScenarioAdjustmentIsLate ==
  ASSUME NEW def \in SCENARIO_IDS, NEW seed \in Seeds, NEW r, r = Refs(seed),
         NEW unit, IsScenarioUnit(unit, def, r)
  PROVE  /\ AdjustmentsPossible(unit) <=> def # "misleading-adjustment"
         /\ NoImpossibleAdjustment(unit) <=> def # "misleading-adjustment"
<1>1. unit.rows["adjustments"] = {<<a, Paid1(def, r)>> : a \in ScenarioAdjustments(def, r)}
  BY DEF IsScenarioUnit
<1>2. PICK at \in Int : at = SETTLED_AT
  BY ScenarioFeesAre
<1>3. \A id, t : AdjustmentRecord(id, r, t).effectiveAt = t
  BY DEF AdjustmentRecord
<1>4. /\ unit.rows["settlements"] # {}
      /\ \A s \in unit.rows["settlements"] : s.settlementAt = at
  BY <1>2, ScenarioCreditsAre
<1>5. CASE def = "misleading-adjustment"
  <2>1. ~AdjustmentCanExplainSettlement(IMPLAUSIBLE_ADJUSTMENT_AT, at)
    BY <1>2 DEF AdjustmentCanExplainSettlement, IMPLAUSIBLE_ADJUSTMENT_AT, DAY, HOUR
  <2>2. ScenarioAdjustments(def, r) = {AdjustmentRecord(r.adj_late, r, IMPLAUSIBLE_ADJUSTMENT_AT)}
    BY <1>5 DEF ScenarioAdjustments
  <2> DEFINE al == <<AdjustmentRecord(r.adj_late, r, IMPLAUSIBLE_ADJUSTMENT_AT), Paid1(def, r)>>
  <2>3. al \in unit.rows["adjustments"] /\ al[1].effectiveAt = IMPLAUSIBLE_ADJUSTMENT_AT
    BY <1>1, <1>3, <2>2
  <2> HIDE DEF al
  <2>4. ImpossibleAdjustments(unit) # {}
    BY <1>4, <2>1, <2>3 DEF ImpossibleAdjustments
  <2> QED
    BY <1>4, <1>5, <2>4 DEF AdjustmentsPossible, NoImpossibleAdjustment
<1>6. CASE def # "misleading-adjustment"
  <2>1. AdjustmentCanExplainSettlement(at, at)
    <3>1. at <= at /\ at - at <= DAY
      BY DEF DAY, HOUR
    <3> QED
      BY <3>1, JustBeforeExplains
  <2>2. \A a \in ScenarioAdjustments(def, r) : a.effectiveAt = at
    BY <1>2, <1>3, <1>6 DEF ScenarioAdjustments
  <2>3. \A al \in unit.rows["adjustments"] : al[1].effectiveAt = at
    BY <1>1, <2>2
  <2>4. ImpossibleAdjustments(unit) = {}
    BY <1>4, <2>1, <2>3 DEF ImpossibleAdjustments
  <2> QED
    BY <1>6, <2>4 DEF AdjustmentsPossible, NoImpossibleAdjustment
<1> QED
  BY <1>5, <1>6

(* The variance is more than the rounding of its lines in three of the     *)
(* definitions.                                                            *)
LEMMA ScenarioAmountIs ==
  ASSUME NEW def \in SCENARIO_IDS, NEW seed \in Seeds, NEW r, r = Refs(seed),
         NEW unit, IsScenarioUnit(unit, def, r)
  PROVE  /\ def \in {"refund-netting", "ambiguous-adjustment"} =>
              /\ Magnitude(Variance(unit)) >= 50000
              /\ ~AmountConserved(unit)
              /\ ~WithinRoundingTolerance(Variance(unit), Cardinality(unit.rows["lines"]))
         /\ def \in {"clean-settlement", "split-settlement"} =>
              /\ Variance(unit) = 0
              /\ AmountConserved(unit)
              /\ WithinRoundingTolerance(Variance(unit), Cardinality(unit.rows["lines"]))
         /\ SettlementPresent(unit)
<1>1. unit.rows["lines"] = ScenarioLines(def, r)
  BY DEF IsScenarioUnit
<1>2. SettlementPresent(unit)
  BY <1>1 DEF SettlementPresent, ScenarioLines
<1>3. RoundingToleranceFor(Cardinality(unit.rows["lines"])) \in {2, 4}
  BY <1>1, ScenarioLinesAddUp, Tolerances
<1>4. /\ HasBreakdown(unit) /\ Discrepancy(unit) = Variance(unit)
      /\ Variance(unit) = ScenarioVariance(def)
  BY ScenarioVarianceIs DEF Discrepancy, Variance
<1>5. CASE def \in {"refund-netting", "ambiguous-adjustment"}
  <2>1. Variance(unit) \in {-100000, -50000}
    BY <1>4, <1>5 DEF ScenarioVariance, RefundMinor, Shortfall
  <2>2. Magnitude(Variance(unit)) >= 50000 /\ Magnitude(Variance(unit)) \in Int
    BY <2>1 DEF Magnitude
  <2> QED
    BY <1>2, <1>3, <1>4, <1>5, <2>2 DEF AmountConserved, WithinRoundingTolerance
<1>6. CASE def \in {"clean-settlement", "split-settlement"}
  <2>1. Variance(unit) = 0
    BY <1>4, <1>6 DEF ScenarioVariance
  <2>2. Magnitude(Variance(unit)) = 0
    BY <2>1 DEF Magnitude
  <2> QED
    BY <1>2, <1>3, <1>4, <1>6, <2>1, <2>2 DEF AmountConserved, WithinRoundingTolerance
<1> QED
  BY <1>2, <1>5, <1>6

(* Its fee is missing if that is what it is about.                         *)
LEMMA ScenarioFeeIsMissing ==
  ASSUME NEW def \in SCENARIO_IDS, NEW seed \in Seeds, NEW r, r = Refs(seed),
         NEW unit, IsScenarioUnit(unit, def, r)
  PROVE  FeeMatchesSchedule(unit) <=> def # "fee-tax-discrepancy"
<1>1. unit.rows["fees"] = ScenarioFees(def, r)
  BY DEF IsScenarioUnit
<1>2. /\ ScheduledFee(unit.payment.amount, unit.payment.method, FeeTime(unit)) = ScenarioFee(def)
      /\ FeeTime(unit) # Never /\ InForce(FeeTime(unit)) # {}
  BY ScenarioPaymentIs DEF ScenarioFee
<1>3. PICK fee \in Nat : fee = ScenarioFee(def) /\ fee > 0
  BY ScenarioFeesAre
<1>4. CASE def = "fee-tax-discrepancy"
  <2>1. unit.rows["fees"] = {}
    BY <1>1, <1>4 DEF ScenarioFees
  <2> QED
    BY <1>2, <1>3, <1>4, <2>1 DEF FeeMatchesSchedule
<1>5. CASE def # "fee-tax-discrepancy"
  <2>1. unit.rows["fees"] = {FeeRow(def, r)}
    BY <1>1, <1>5 DEF ScenarioFees
  <2>2. Cardinality(unit.rows["fees"]) = 1 /\ Total(unit.rows["fees"]) = fee
    <3>1. Cardinality(unit.rows["fees"]) = 1
      BY <2>1, FS_Singleton
    <3>2. Total(unit.rows["fees"]) = ScenarioFee(def)
      BY <1>5, ScenarioVarianceIs
    <3> QED
      BY <1>3, <3>1, <3>2
  <2>3. WithinRoundingTolerance(fee - fee, 1)
    BY Tolerances DEF WithinRoundingTolerance, Magnitude
  <2> QED
    BY <1>2, <1>3, <1>5, <2>1, <2>2, <2>3 DEF FeeMatchesSchedule
<1> QED
  BY <1>4, <1>5

(* The baseline reconciles the clean one and no other.                     *)
LEMMA ScenarioReconciles ==
  ASSUME NEW def \in SCENARIO_IDS, NEW seed \in Seeds, NEW r, r = Refs(seed),
         NEW unit, IsScenarioUnit(unit, def, r), NEW find \in Finds(unit)
  PROVE  Reconciles(unit, find) <=> def = "clean-settlement"
<1>1. Reconciles(unit, find) <=> ChecksFailed(unit, find) = {}
  BY DEF Reconciles, ChecksFailed
<1>2. CASE def = "clean-settlement"
  <2>1. LifecycleConsistent(unit)
    <3>1. CAPTURED_AT \in Nat /\ CAPTURED_AT >= CAPTURED_AT - HOUR
      BY ScenarioFeesAre DEF HOUR
    <3> QED
      BY <1>2, <3>1, ScenarioPaymentIs, ScenarioRefundIsLate DEF LifecycleConsistent
  <2>2. FeeMatchesSchedule(unit)
    BY <1>2, ScenarioFeeIsMissing
  <2>3. SettlementPresent(unit) /\ AmountConserved(unit)
    BY <1>2, ScenarioAmountIs
  <2>4. SettlementTimely(unit)
    <3>1. PICK at \in Int : at = SETTLED_AT
      BY ScenarioFeesAre
    <3>2. DaysBetween(at, at) <= SETTLEMENT_DATE_MATCH_TOLERANCE_DAYS
      BY DEF DaysBetween, Magnitude, SETTLEMENT_DATE_MATCH_TOLERANCE_DAYS, DAY, HOUR
    <3>3. ExpectedSettlementDate(unit.payment.capturedAt) = at
      BY <3>1, ScenarioPaymentIs DEF SETTLED_AT
    <3> QED
      BY <3>1, <3>2, <3>3, ScenarioCreditsAre DEF SettlementTimely
  <2>5. RefundsInWindow(unit)
    BY <1>2, ScenarioRefundIsLate
  <2>6. AdjustmentsPossible(unit)
    BY <1>2, ScenarioAdjustmentIsLate
  <2>7. BankCredited(unit, find)
    BY <1>2, ScenarioCreditsAre
  <2> QED
    BY <1>1, <1>2, <2>1, <2>2, <2>3, <2>4, <2>5, <2>6, <2>7, FailuresAre
<1> DEFINE failed == ChecksFailed(unit, find)
<1>8. /\ "fee_matches_schedule" \in failed <=> ~FeeMatchesSchedule(unit)
      /\ "bank_credit" \in failed <=> ~BankCredited(unit, find)
      /\ "refund_netting_window" \in failed <=> ~RefundsInWindow(unit)
      /\ "amount_conservation" \in failed <=> ~AmountConserved(unit)
      /\ "adjustment_timing" \in failed <=> ~AdjustmentsPossible(unit)
  BY FailuresAre
<1> HIDE DEF failed
<1>9. Reconciles(unit, find) <=> failed = {}
  BY <1>1 DEF failed
<1>3. CASE def = "fee-tax-discrepancy"
  <2>1. ~FeeMatchesSchedule(unit)
    BY <1>3, ScenarioFeeIsMissing
  <2> QED
    BY <1>3, <1>8, <1>9, <2>1
<1>4. CASE def = "split-settlement"
  <2>1. ~BankCredited(unit, find)
    BY <1>4, ScenarioCreditsAre
  <2> QED
    BY <1>4, <1>8, <1>9, <2>1
<1>5. CASE def = "refund-netting"
  <2>1. ~RefundsInWindow(unit)
    BY <1>5, ScenarioRefundIsLate
  <2> QED
    BY <1>5, <1>8, <1>9, <2>1
<1>6. CASE def = "ambiguous-adjustment"
  <2>1. ~AmountConserved(unit)
    BY <1>6, ScenarioAmountIs
  <2> QED
    BY <1>6, <1>8, <1>9, <2>1
<1>7. CASE def = "misleading-adjustment"
  <2>1. ~AdjustmentsPossible(unit)
    BY <1>7, ScenarioAdjustmentIsLate
  <2> QED
    BY <1>7, <1>8, <1>9, <2>1
<1> QED
  BY <1>2, <1>3, <1>4, <1>5, <1>6, <1>7 DEF SCENARIO_IDS

----------------------------------------------------------------------------
(* What the verifier makes of a scenario.                                  *)

(* The missing fee explains the variance of its scenario, and the second   *)
(* settlement that of the split.                                           *)
LEMMA ScenarioIsProvable ==
  ASSUME NEW def \in {"fee-tax-discrepancy", "split-settlement"},
         NEW seed \in Seeds, NEW r, r = Refs(seed),
         NEW unit, IsScenarioUnit(unit, def, r)
  PROVE  Verified(ExpectedCause(def), unit).effective = "RESOLVE"
<1>1. def \in SCENARIO_IDS
  BY DEF SCENARIO_IDS
<1>2. NoImpossibleAdjustment(unit)
  BY <1>1, ScenarioAdjustmentIsLate
<1>3. HasBreakdown(unit)
  BY <1>1, ScenarioVarianceIs
<1>4. CASE def = "fee-tax-discrepancy"
  <2>1. PICK w \in Nat : w = ScenarioFee(def) + ScenarioTax(def)
    BY ScenarioFeesAre
  <2>2. Variance(unit) = w /\ Unrecorded(unit) = w
    <3>1. ScenarioVariance(def) = w
      BY <1>4, <2>1 DEF ScenarioVariance
    <3> QED
      BY <1>1, <1>4, <2>1, <3>1, ScenarioVarianceIs
  <2>3. FeeTime(unit) # Never /\ InForce(FeeTime(unit)) # {}
    BY ScenarioPaymentIs
  <2>4. FeeExplains(unit)
    BY <2>2, <2>3, Tolerances DEF FeeExplains, WithinRoundingTolerance, Magnitude
  <2>5. CauseSupported("MDR_FEE", unit)
    BY <1>3, <2>4 DEF CauseSupported, VarianceComputable
  <2>6. "RESOLVE" \in CauseDispositionPolicy("MDR_FEE")
    BY DEF CauseDispositionPolicy, DISPOSITIONS
  <2>7. ExpectedCause(def) = "MDR_FEE"
    BY <1>4 DEF ExpectedCause
  <2> QED
    BY <1>2, <2>5, <2>6, <2>7, SupportedIsVerified
<1>5. CASE def = "split-settlement"
  <2>1. WithinRoundingTolerance(Variance(unit), Cardinality(unit.rows["lines"]))
    BY <1>1, <1>5, ScenarioAmountIs
  <2>2. /\ Cardinality(unit.rows["settlements"]) = 2
        /\ \A s \in unit.rows["settlements"] : \E b \in unit.rows["credits"] : b.utr = s.utr
    BY <1>1, <1>5, ScenarioCreditsAre
  <2>3. SplitExplains(unit)
    BY <2>1, <2>2 DEF SplitExplains
  <2>4. CauseSupported("UTR_SPLIT", unit)
    BY <1>3, <2>3 DEF CauseSupported, VarianceComputable
  <2>5. "RESOLVE" \in CauseDispositionPolicy("UTR_SPLIT")
    BY DEF CauseDispositionPolicy, DISPOSITIONS
  <2>6. ExpectedCause(def) = "UTR_SPLIT"
    BY <1>5 DEF ExpectedCause
  <2> QED
    BY <1>2, <2>4, <2>5, <2>6, SupportedIsVerified
<1> QED
  BY <1>4, <1>5

(* No cause of the other three is: the variance of two is a large amount   *)
(* that no fee withholds, and an adjustment of the third is impossible.    *)
LEMMA ScenarioIsRefused ==
  ASSUME NEW def \in {"refund-netting", "ambiguous-adjustment", "misleading-adjustment"},
         NEW seed \in Seeds, NEW r, r = Refs(seed),
         NEW unit, IsScenarioUnit(unit, def, r), NEW cause
  PROVE  Verified(cause, unit).effective # "RESOLVE"
<1>1. SUFFICES ASSUME Verified(cause, unit).effective = "RESOLVE"
               PROVE  FALSE
  OBVIOUS
<1>2. def \in SCENARIO_IDS
  BY DEF SCENARIO_IDS
<1>3. /\ "RESOLVE" \in CauseDispositionPolicy(cause)
      /\ NoImpossibleAdjustment(unit) /\ CauseSupported(cause, unit)
  BY <1>1, VerifiedIsSubstantiated DEF Substantiated
<1>4. def \in {"refund-netting", "ambiguous-adjustment"}
  BY <1>2, <1>3, ScenarioAdjustmentIsLate
<1>5. PICK m \in Int : m = Magnitude(Variance(unit)) /\ m >= 50000
  <2>1. Variance(unit) \in {-100000, -50000}
    BY <1>2, <1>4, ScenarioVarianceIs DEF ScenarioVariance, RefundMinor, Shortfall
  <2> QED
    BY <2>1 DEF Magnitude
<1>6. ~WithinRoundingTolerance(Variance(unit), Cardinality(unit.rows["lines"]))
  BY <1>2, <1>4, ScenarioAmountIs
<1>7. ~FeeExplains(unit)
  <2>1. Magnitude(Unrecorded(unit)) = 0
    BY <1>2, <1>4, ScenarioVarianceIs DEF Magnitude
  <2>2. ~WithinRoundingTolerance(m - 0, 2)
    BY <1>5, Tolerances DEF WithinRoundingTolerance, Magnitude
  <2> QED
    BY <1>5, <2>1, <2>2 DEF FeeExplains
<1>8. ~SplitExplains(unit) /\ ~LagExplains(unit)
  BY <1>6 DEF SplitExplains, LagExplains
<1>9. ~DriftExplains(unit)
  BY <1>5 DEF DriftExplains, ROUNDING_TOLERANCE_ABSOLUTE_CAP_MINOR
<1>10. ~RefundExplains(unit)
  <2>1. def = "refund-netting" => ~RefundsInWindow(unit)
    BY <1>2, ScenarioRefundIsLate
  <2>2. def # "refund-netting" => unit.rows["refunds"] = {}
    BY <1>2, ScenarioRefundIsLate
  <2> QED
    BY <2>1, <2>2 DEF RefundExplains
<1>11. cause # "AMBIGUOUS"
  BY <1>3 DEF CauseDispositionPolicy
<1> QED
  BY <1>3, <1>7, <1>8, <1>9, <1>10, <1>11 DEF CauseSupported

----------------------------------------------------------------------------
(* The instances, and what they stored.                                    *)

(* What a request for an instance makes.                                   *)
InstanceRow ==
  [ status : {"RUNNING", "SUCCEEDED", "FAILED"}, def : SCENARIO_IDS, seed : Seeds,
    imported : BOOLEAN, evaluated : Nat, casesCreated : Nat ]

InstancesAre == instances \in [Keys -> InstanceRow \cup {NoInstance}]

CasesAre == cases \subseteq [run : Keys \cup {Everyone}, payment : IdsIn(store, "PAYMENT")]

BatchOf(k) == GenerateScenarioBatch(k, instances[k].def, instances[k].seed)

HasImported(k) == instances[k] # NoInstance /\ instances[k].imported

(* Every row of the store is of the batch of an instance that imported it. *)
RowsAreOwned == \A x \in store : \E k \in Keys : HasImported(k) /\ x \in BatchOf(k)

(* Payments of one id are one.                                             *)
PaymentsDiffer == \A p, q \in OfKind(store, "PAYMENT") : p.id = q.id => p = q

(* An instance that has its seed to itself has stored all of its batch.    *)
OwnIsWhole == \A k \in Keys : HasImported(k) /\ Sharing(k) = {k} => BatchOf(k) \subseteq store

(* What an instance evaluated is its own payment.                          *)
EvaluatedIsStored ==
  \A k \in Keys : instances[k].status = "SUCCEEDED" =>
    instances[k].imported /\ (instances[k].evaluated # 0 => Imported(k) # {})

(* Nobody makes a case of a clean scenario.                                *)
CleanHasNoCase ==
  \A k \in Keys :
    instances[k] # NoInstance /\ Sharing(k) = {k} /\ instances[k].def = "clean-settlement" =>
      \A c \in cases : c.payment # PaymentOf(k)

(* An instance that has its seed to itself shows what it is for.           *)
OwnShows ==
  \A k \in Keys : instances[k].status = "SUCCEEDED" /\ Sharing(k) = {k} =>
    /\ instances[k].evaluated = 1
    /\ instances[k].casesCreated = IF ExpectsException(instances[k].def) THEN 1 ELSE 0

(* The inductive invariant of the scenarios.                               *)
ScenarioWhole ==
  /\ InstancesAre /\ CasesAre /\ RowsAreOwned /\ PaymentsDiffer
  /\ OwnIsWhole /\ EvaluatedIsStored /\ CleanHasNoCase /\ OwnShows

(* An instance is a row, and the instances of its seed are with it.        *)
LEMMA InstanceIs ==
  ASSUME InstancesAre, NEW k \in Keys, instances[k] # NoInstance
  PROVE  /\ instances[k] \in InstanceRow /\ instances[k].def \in SCENARIO_IDS
         /\ instances[k].seed \in Seeds /\ k \in Sharing(k)
BY DEF InstancesAre, InstanceRow, Sharing

LEMMA SucceededIs ==
  ASSUME NEW k \in Keys, instances[k].status # "ABSENT"
  PROVE  instances[k] # NoInstance
BY DEF NoInstance

(* An instance that has its seed to itself is alone with the ids of it.    *)
LEMMA OwnerIsAlone ==
  ASSUME InstancesAre, NEW k \in Keys, instances[k] # NoInstance, Sharing(k) = {k},
         NEW j \in Keys, instances[j] # NoInstance, j # k
  PROVE  /\ instances[j].seed \in Seeds \ {instances[k].seed}
         /\ PaymentOf(j) # PaymentOf(k)
<1>1. instances[j].seed \in Seeds /\ instances[k].seed \in Seeds
  BY InstanceIs
<1>2. instances[j].seed # instances[k].seed
  BY DEF Sharing
<1> QED
  BY <1>1, <1>2, OtherIds DEF PaymentOf

(* A payment is that of the instance that imported it.                     *)
LEMMA PaymentIsOwned ==
  ASSUME InstancesAre, RowsAreOwned, NEW p \in OfKind(store, "PAYMENT")
  PROVE  \E j \in Keys : /\ HasImported(j) /\ p.import = j /\ p.id = PaymentOf(j)
                         /\ p = ScenarioPayment(j, instances[j].def, Refs(instances[j].seed))
<1>1. PICK j \in Keys : HasImported(j) /\ p \in BatchOf(j)
  BY DEF RowsAreOwned, OfKind
<1>2. p \in OfKind(BatchOf(j), "PAYMENT")
  BY <1>1 DEF OfKind
<1>3. instances[j].def \in SCENARIO_IDS
  BY <1>1, InstanceIs DEF HasImported
<1>4. OfKind(BatchOf(j), "PAYMENT") =
        {ScenarioPayment(j, instances[j].def, Refs(instances[j].seed))}
  BY <1>3, ScenarioSelects DEF BatchOf
<1>5. p = ScenarioPayment(j, instances[j].def, Refs(instances[j].seed))
  BY <1>2, <1>4
<1>6. p.import = j /\ p.id = PaymentOf(j)
  BY <1>5, PaymentNames DEF PaymentOf
<1> QED
  BY <1>1, <1>5, <1>6

(* So the instance has its own at most.                                    *)
LEMMA ImportedIs ==
  ASSUME InstancesAre, RowsAreOwned, NEW k \in Keys
  PROVE  /\ Imported(k) \subseteq
              {ScenarioPayment(k, instances[k].def, Refs(instances[k].seed))}
         /\ \A p \in Imported(k) : p.id = PaymentOf(k)
<1>1. \A p \in Imported(k) : p \in OfKind(store, "PAYMENT") /\ p.import = k
  BY DEF Imported
<1> QED
  BY <1>1, PaymentIsOwned

(* The unit of a scenario that has its seed to itself, and was imported.   *)
LEMMA OwnUnitIs ==
  ASSUME InstancesAre, RowsAreOwned, OwnIsWhole,
         NEW k \in Keys, HasImported(k), Sharing(k) = {k}
  PROVE  /\ IsScenarioUnit(UnitOf(store, PaymentOf(k)), instances[k].def, Refs(instances[k].seed))
         /\ ScenarioPayment(k, instances[k].def, Refs(instances[k].seed)) \in Imported(k)
<1> DEFINE def  == instances[k].def
           seed == instances[k].seed
<1>1. def \in SCENARIO_IDS /\ seed \in Seeds /\ instances[k] # NoInstance
  BY InstanceIs DEF HasImported
<1>2. GenerateScenarioBatch(k, def, seed) \subseteq store
  BY DEF OwnIsWhole, BatchOf
<1>3. \A x \in store : x \in GenerateScenarioBatch(k, def, seed) \/ IsForeign(x, seed)
  <2>1. SUFFICES ASSUME NEW x \in store, x \notin GenerateScenarioBatch(k, def, seed)
                 PROVE  IsForeign(x, seed)
    OBVIOUS
  <2>2. PICK j \in Keys : HasImported(j) /\ x \in BatchOf(j)
    BY DEF RowsAreOwned
  <2>3. j # k /\ instances[j] # NoInstance
    BY <2>1, <2>2 DEF BatchOf, HasImported
  <2>4. instances[j].seed \in Seeds \ {seed} /\ instances[j].def \in SCENARIO_IDS
    BY <1>1, <2>3, OwnerIsAlone, InstanceIs
  <2> QED
    BY <2>2, <2>4 DEF IsForeign, BatchOf
<1> HIDE DEF def, seed
<1>4. IsScenarioUnit(UnitOf(store, Refs(seed).pay), def, Refs(seed))
  BY <1>1, <1>2, <1>3, ScenarioUnitIs
<1>5. ScenarioPayment(k, def, Refs(seed)) \in OfKind(store, "PAYMENT")
  <2>1. OfKind(GenerateScenarioBatch(k, def, seed), "PAYMENT") =
          {ScenarioPayment(k, def, Refs(seed))}
    BY <1>1, ScenarioSelects
  <2> QED
    BY <1>2, <2>1 DEF OfKind
<1>6. ScenarioPayment(k, def, Refs(seed)).import = k
  BY PaymentNames
<1> QED
  BY <1>4, <1>5, <1>6 DEF Imported, PaymentOf, def, seed

(* Its payment is residual if it is for an exception.                      *)
LEMMA OwnIsResidual ==
  ASSUME InstancesAre, RowsAreOwned, OwnIsWhole,
         NEW k \in Keys, HasImported(k), Sharing(k) = {k}, NEW p, p.id = PaymentOf(k)
  PROVE  Residual(p) <=> ExpectsException(instances[k].def)
<1> DEFINE def  == instances[k].def
           seed == instances[k].seed
           unit == UnitOf(store, p.id)
<1>1. def \in SCENARIO_IDS /\ seed \in Seeds
  BY InstanceIs DEF HasImported
<1>2. IsScenarioUnit(unit, def, Refs(seed))
  BY OwnUnitIs
<1>3. Residual(p) <=> \E find \in Finds(unit) : ~Reconciles(unit, find)
  BY DEF Residual
<1> HIDE DEF def, seed, unit
<1>4. \A find \in Finds(unit) : Reconciles(unit, find) <=> def = "clean-settlement"
  BY <1>1, <1>2, ScenarioReconciles
<1>5. Finds(unit) # {}
  BY FindsExist
<1>6. ExpectsException(def) <=> def # "clean-settlement"
  BY DEF ExpectsException
<1> QED
  BY <1>3, <1>4, <1>5, <1>6 DEF def

----------------------------------------------------------------------------
(* The steps.                                                              *)

(* What a step that changes the row of one instance, but for its           *)
(* definition and seed, leaves alone.                                      *)
LEMMA RowChanges ==
  ASSUME InstancesAre, NEW k \in Keys, instances[k] # NoInstance,
         NEW row \in InstanceRow, row.def = instances[k].def, row.seed = instances[k].seed,
         instances' = [instances EXCEPT ![k] = row]
  PROVE  /\ InstancesAre'
         /\ instances'[k] = row
         /\ \A j \in Keys : j # k => instances'[j] = instances[j]
         /\ \A j \in Keys : /\ instances'[j] # NoInstance <=> instances[j] # NoInstance
                            /\ instances'[j].def = instances[j].def
                            /\ instances'[j].seed = instances[j].seed
         /\ \A j \in Keys : Sharing(j)' = Sharing(j)
<1>1. instances' \in [Keys -> InstanceRow \cup {NoInstance}] /\ instances'[k] = row
  BY DEF InstancesAre
<1>2. \A j \in Keys : j # k => instances'[j] = instances[j]
  BY DEF InstancesAre
<1>3. row # NoInstance
  BY DEF InstanceRow, NoInstance
<1>4. \A j \in Keys : /\ instances'[j] # NoInstance <=> instances[j] # NoInstance
                      /\ instances'[j].def = instances[j].def
                      /\ instances'[j].seed = instances[j].seed
  BY <1>1, <1>2, <1>3
<1>5. \A j \in Keys : Sharing(j)' = Sharing(j)
  BY <1>4 DEF Sharing
<1> QED
  BY <1>1, <1>2, <1>4, <1>5 DEF InstancesAre

(* The row of a running instance, with another status or other counters.   *)
LEMMA RowStays ==
  ASSUME NEW row \in InstanceRow
  PROVE  /\ [row EXCEPT !.imported = TRUE] \in InstanceRow
         /\ [row EXCEPT !.status = "FAILED"] \in InstanceRow
         /\ \A e, c \in Nat :
              [row EXCEPT !.status = "SUCCEEDED", !.evaluated = e, !.casesCreated = c]
                \in InstanceRow
BY DEF InstanceRow

(* At first nothing is stored.                                             *)
LEMMA ScenarioStarts ==
  ScenarioInit => ScenarioWhole
<1> SUFFICES ASSUME ScenarioInit PROVE ScenarioWhole
  OBVIOUS
<1>1. \A k \in Keys : instances[k] = NoInstance /\ instances[k].status = "ABSENT"
  BY DEF ScenarioInit, NoInstance
<1>2. \A kind : OfKind(store, kind) = {}
  BY DEF ScenarioInit, OfKind
<1> QED
  BY <1>1, <1>2 DEF ScenarioInit, ScenarioWhole, InstancesAre, CasesAre, RowsAreOwned,
     PaymentsDiffer, OwnIsWhole, EvaluatedIsStored, CleanHasNoCase, OwnShows, HasImported

(* A new instance leaves to the others what they have.                     *)
LEMMA CreateKeeps ==
  ASSUME ScenarioWhole, NEW k \in Keys, CreateOrGet(k)
  PROVE  ScenarioWhole'
<1> USE DEF ScenarioWhole
<1>1. PICK def \in SCENARIO_IDS, seed \in Seeds :
        instances' = [instances EXCEPT ![k] =
          [ status |-> "RUNNING", def |-> def, seed |-> seed, imported |-> FALSE,
            evaluated |-> 0, casesCreated |-> 0 ]]
  BY DEF CreateOrGet
<1> DEFINE row == [ status |-> "RUNNING", def |-> def, seed |-> seed, imported |-> FALSE,
                    evaluated |-> 0, casesCreated |-> 0 ]
<1>2. /\ row \in InstanceRow /\ row.status = "RUNNING" /\ row.def = def /\ row.seed = seed
      /\ ~row.imported /\ row # NoInstance
  BY DEF InstanceRow, NoInstance
<1>3. instances' = [instances EXCEPT ![k] = row] /\ instances[k] = NoInstance
  BY <1>1 DEF CreateOrGet
<1> HIDE DEF row
<1>4. /\ store' = store /\ cases' = cases
      /\ instances'[k] = row /\ \A j \in Keys : j # k => instances'[j] = instances[j]
  BY <1>3 DEF InstancesAre, CreateOrGet
<1>5. InstancesAre'
  BY <1>2, <1>3 DEF InstancesAre
<1>6. ASSUME NEW j \in Keys, j # k, instances[j] # NoInstance, Sharing(j)' = {j}
      PROVE  Sharing(j) = {j}
  <2>1. Sharing(j) \subseteq Sharing(j)'
    BY <1>3, <1>4, <1>6 DEF Sharing
  <2> QED
    BY <1>6, <2>1, InstanceIs
<1>7. \A j \in Keys : HasImported(j)' => j # k /\ HasImported(j) /\ BatchOf(j)' = BatchOf(j)
  BY <1>2, <1>4 DEF HasImported, BatchOf
<1>8. \A j \in Keys : HasImported(j) => HasImported(j)' /\ BatchOf(j)' = BatchOf(j)
  BY <1>3, <1>4 DEF HasImported, BatchOf
<1>9. CasesAre' /\ PaymentsDiffer'
  BY <1>4 DEF CasesAre, PaymentsDiffer
<1>10. RowsAreOwned'
  BY <1>4, <1>8 DEF RowsAreOwned
<1>11. OwnIsWhole'
  <2>1. SUFFICES ASSUME NEW j \in Keys, HasImported(j)', Sharing(j)' = {j}
                 PROVE  (BatchOf(j) \subseteq store)'
    BY DEF OwnIsWhole
  <2>2. j # k /\ HasImported(j) /\ BatchOf(j)' = BatchOf(j) /\ instances[j] # NoInstance
    BY <1>7, <2>1 DEF HasImported
  <2>3. Sharing(j) = {j}
    BY <1>6, <2>1, <2>2
  <2> QED
    BY <1>4, <2>2, <2>3 DEF OwnIsWhole
<1>12. \A j \in Keys : instances'[j].status = "SUCCEEDED" =>
         j # k /\ instances'[j] = instances[j] /\ instances[j] # NoInstance
  BY <1>2, <1>4, SucceededIs
<1>13. EvaluatedIsStored'
  BY <1>4, <1>12 DEF EvaluatedIsStored, Imported
<1>14. OwnShows'
  <2>1. SUFFICES ASSUME NEW j \in Keys, instances'[j].status = "SUCCEEDED", Sharing(j)' = {j}
                 PROVE  /\ instances'[j].evaluated = 1
                        /\ instances'[j].casesCreated =
                             IF ExpectsException(instances'[j].def) THEN 1 ELSE 0
    BY DEF OwnShows
  <2>2. instances'[j] = instances[j] /\ Sharing(j) = {j}
    BY <1>6, <1>12, <2>1
  <2> QED
    BY <2>1, <2>2 DEF OwnShows
<1>15. CleanHasNoCase'
  <2>1. SUFFICES ASSUME NEW j \in Keys, instances'[j] # NoInstance, Sharing(j)' = {j},
                        instances'[j].def = "clean-settlement", NEW c \in cases
                 PROVE  c.payment # PaymentOf(j)'
    BY <1>4 DEF CleanHasNoCase
  <2>2. CASE j # k
    <3>1. instances'[j] = instances[j] /\ Sharing(j) = {j} /\ PaymentOf(j)' = PaymentOf(j)
      BY <1>4, <1>6, <2>1, <2>2 DEF PaymentOf
    <3> QED
      BY <2>1, <3>1 DEF CleanHasNoCase
  <2>3. CASE j = k
    <3>1. PICK p \in OfKind(store, "PAYMENT") : p.id = c.payment
      BY DEF CasesAre, IdsIn
    <3>2. PICK i \in Keys : HasImported(i) /\ p.id = PaymentOf(i)
      BY PaymentIsOwned
    <3>3. HasImported(i)' /\ i # k /\ instances'[i] # NoInstance /\ instances'[i] = instances[i]
      BY <1>3, <1>4, <1>8, <3>2 DEF HasImported
    <3>4. instances[i].seed \in Seeds /\ instances'[i].seed # seed
      <4>1. i \notin Sharing(k)'
        BY <2>1, <2>3, <3>3
      <4>2. instances[i].seed \in Seeds
        BY <3>2, InstanceIs DEF HasImported
      <4> QED
        BY <1>2, <1>4, <3>3, <4>1, <4>2 DEF Sharing
    <3>5. PaymentOf(i) = Refs(instances[i].seed).pay /\ PaymentOf(k)' = Refs(seed).pay
      BY <1>2, <1>4 DEF PaymentOf
    <3>6. PaymentOf(i) # PaymentOf(k)'
      BY <3>3, <3>4, <3>5, OtherIds
    <3> QED
      BY <2>3, <3>1, <3>2, <3>6
  <2> QED
    BY <2>2, <2>3
<1> QED
  BY <1>5, <1>9, <1>10, <1>11, <1>13, <1>14, <1>15

(* An import of an instance stores what is new of its batch.               *)
LEMMA SubmitKeeps ==
  ASSUME ScenarioWhole, NEW k \in Keys, SubmitImport(k)
  PROVE  ScenarioWhole'
<1> USE DEF ScenarioWhole
<1> DEFINE row   == [instances[k] EXCEPT !.imported = TRUE]
           fresh == {x \in BatchOf(k) : x.id \notin IdsIn(store, x.kind)}
<1>1. instances[k] # NoInstance /\ instances[k].status = "RUNNING" /\ ~instances[k].imported
  BY SucceededIs DEF SubmitImport, IsRunning
<1>2. /\ instances[k] \in InstanceRow /\ instances[k].def \in SCENARIO_IDS
      /\ instances[k].seed \in Seeds
  BY <1>1, InstanceIs
<1>3. /\ row \in InstanceRow /\ row.imported /\ row.def = instances[k].def
      /\ row.seed = instances[k].seed /\ row.status = "RUNNING"
  <2>1. row \in InstanceRow
    BY <1>2, RowStays
  <2> QED
    BY <1>1, <1>2, <2>1 DEF InstanceRow
<1>4. store' = store \cup fresh
  BY <1>2, ImportAddsFresh DEF SubmitImport, BatchOf
<1>5. instances' = [instances EXCEPT ![k] = row] /\ cases' = cases
  BY DEF SubmitImport
<1> HIDE DEF row, fresh
<1>6. /\ InstancesAre'
      /\ instances'[k] = row
      /\ \A j \in Keys : j # k => instances'[j] = instances[j]
      /\ \A j \in Keys : /\ instances'[j] # NoInstance <=> instances[j] # NoInstance
                         /\ instances'[j].def = instances[j].def
                         /\ instances'[j].seed = instances[j].seed
      /\ \A j \in Keys : Sharing(j)' = Sharing(j)
  BY <1>1, <1>3, <1>5, RowChanges
<1>7. \A j \in Keys : BatchOf(j)' = BatchOf(j) /\ PaymentOf(j)' = PaymentOf(j)
  BY <1>6 DEF BatchOf, PaymentOf
<1>8. \A j \in Keys : HasImported(j) => HasImported(j)'
  BY <1>1, <1>6 DEF HasImported
<1>9. HasImported(k)'
  BY <1>1, <1>3, <1>6 DEF HasImported
<1>10. \A j \in Keys : j # k => (HasImported(j)' <=> HasImported(j))
  BY <1>6 DEF HasImported
<1>11. \A kind : OfKind(store, kind) \subseteq OfKind(store, kind)'
  BY <1>4 DEF OfKind
<1>12. CasesAre'
  <2>1. IdsIn(store, "PAYMENT") \subseteq IdsIn(store, "PAYMENT")'
    BY <1>11 DEF IdsIn
  <2> QED
    BY <1>5, <2>1 DEF CasesAre
<1>13. RowsAreOwned'
  <2>1. SUFFICES ASSUME NEW x \in store'
                 PROVE  \E j \in Keys : (HasImported(j) /\ x \in BatchOf(j))'
    BY DEF RowsAreOwned
  <2>2. CASE x \in store
    BY <1>7, <1>8, <2>2 DEF RowsAreOwned
  <2>3. CASE x \in fresh
    BY <1>7, <1>9, <2>3 DEF fresh
  <2> QED
    BY <1>4, <2>2, <2>3
<1>14. PaymentsDiffer'
  <2> DEFINE own == ScenarioPayment(k, instances[k].def, Refs(instances[k].seed))
  <2>1. OfKind(BatchOf(k), "PAYMENT") = {own}
    BY <1>2, ScenarioSelects DEF BatchOf
  <2>2. \A p \in OfKind(store, "PAYMENT")' : p \in OfKind(store, "PAYMENT") \/ p \in fresh
    BY <1>4 DEF OfKind
  <2>3. \A p \in OfKind(store, "PAYMENT")' :
          p \in fresh => p = own /\ \A q \in OfKind(store, "PAYMENT") : q.id # p.id
    <3>1. SUFFICES ASSUME NEW p \in OfKind(store, "PAYMENT")', p \in fresh
                   PROVE  p = own /\ \A q \in OfKind(store, "PAYMENT") : q.id # p.id
      OBVIOUS
    <3>2. p.kind = "PAYMENT" /\ p \in BatchOf(k) /\ p.id \notin IdsIn(store, "PAYMENT")
      BY <3>1 DEF OfKind, fresh
    <3>3. p \in OfKind(BatchOf(k), "PAYMENT")
      BY <3>2 DEF OfKind
    <3> QED
      BY <2>1, <3>2, <3>3 DEF IdsIn
  <2> HIDE DEF own
  <2> QED
    BY <2>2, <2>3 DEF PaymentsDiffer
<1>15. OwnIsWhole'
  <2>1. SUFFICES ASSUME NEW j \in Keys, HasImported(j)', Sharing(j)' = {j}
                 PROVE  (BatchOf(j) \subseteq store)'
    BY DEF OwnIsWhole
  <2>2. CASE j # k
    BY <1>4, <1>6, <1>7, <1>10, <2>1, <2>2 DEF OwnIsWhole
  <2>3. CASE j = k
    <3>1. Sharing(k) = {k}
      BY <1>6, <2>1, <2>3
    <3>2. \A x \in BatchOf(k) : x.id \notin IdsIn(store, x.kind)
      <4>1. SUFFICES ASSUME NEW x \in BatchOf(k), NEW y \in OfKind(store, x.kind)
                     PROVE  y.id # x.id
        BY DEF IdsIn
      <4>2. y \in store /\ y.kind = x.kind
        BY DEF OfKind
      <4>3. PICK i \in Keys : HasImported(i) /\ y \in BatchOf(i)
        BY <4>2 DEF RowsAreOwned
      <4>4. i # k /\ instances[i] # NoInstance
        BY <1>1, <4>3 DEF HasImported
      <4>5. instances[i].seed \in Seeds \ {instances[k].seed} /\ instances[i].def \in SCENARIO_IDS
        BY <1>1, <3>1, <4>4, OwnerIsAlone, InstanceIs
      <4>6. IsForeign(y, instances[k].seed)
        BY <4>3, <4>5 DEF IsForeign, BatchOf
      <4> QED
        BY <1>2, <4>2, <4>6, ForeignIdsDiffer DEF BatchOf
    <3>3. BatchOf(k) \subseteq store'
      BY <1>4, <3>2 DEF fresh
    <3> QED
      BY <1>7, <2>3, <3>3
  <2> QED
    BY <2>2, <2>3
<1>16. \A j \in Keys : instances'[j].status = "SUCCEEDED" =>
         j # k /\ instances'[j] = instances[j]
  BY <1>3, <1>6
<1>17. EvaluatedIsStored'
  <2>1. \A j \in Keys : Imported(j) \subseteq Imported(j)'
    BY <1>11 DEF Imported
  <2> QED
    BY <1>16, <2>1 DEF EvaluatedIsStored
<1>18. OwnShows'
  <2>1. SUFFICES ASSUME NEW j \in Keys, instances'[j].status = "SUCCEEDED", Sharing(j)' = {j}
                 PROVE  /\ instances'[j].evaluated = 1
                        /\ instances'[j].casesCreated =
                             IF ExpectsException(instances'[j].def) THEN 1 ELSE 0
    BY DEF OwnShows
  <2>2. instances'[j] = instances[j] /\ Sharing(j) = {j}
    BY <1>6, <1>16, <2>1
  <2> QED
    BY <2>1, <2>2 DEF OwnShows
<1>19. CleanHasNoCase'
  <2>1. SUFFICES ASSUME NEW j \in Keys, instances'[j] # NoInstance, Sharing(j)' = {j},
                        instances'[j].def = "clean-settlement", NEW c \in cases
                 PROVE  c.payment # PaymentOf(j)'
    BY <1>5 DEF CleanHasNoCase
  <2>2. instances[j] # NoInstance /\ Sharing(j) = {j} /\ instances[j].def = "clean-settlement"
    BY <1>6, <2>1
  <2>3. PaymentOf(j)' = PaymentOf(j)
    BY <1>7
  <2> QED
    BY <2>2, <2>3 DEF CleanHasNoCase
<1> QED
  BY <1>6, <1>12, <1>13, <1>14, <1>15, <1>17, <1>18, <1>19

(* What only changes the row of an instance, and adds cases of payments    *)
(* that are stored, keeps all but what it says of the cases.               *)
LEMMA RunKeeps ==
  ASSUME ScenarioWhole, NEW k \in Keys, instances[k] # NoInstance, NEW row \in InstanceRow,
         row.def = instances[k].def, row.seed = instances[k].seed,
         row.imported = instances[k].imported,
         instances' = [instances EXCEPT ![k] = row], store' = store
  PROVE  /\ InstancesAre' /\ RowsAreOwned' /\ PaymentsDiffer' /\ OwnIsWhole'
         /\ \A j \in Keys : PaymentOf(j)' = PaymentOf(j) /\ Imported(j)' = Imported(j)
<1>1. /\ InstancesAre'
      /\ instances'[k] = row
      /\ \A j \in Keys : j # k => instances'[j] = instances[j]
      /\ \A j \in Keys : /\ instances'[j] # NoInstance <=> instances[j] # NoInstance
                         /\ instances'[j].def = instances[j].def
                         /\ instances'[j].seed = instances[j].seed
      /\ \A j \in Keys : Sharing(j)' = Sharing(j)
  BY RowChanges DEF ScenarioWhole
<1>2. \A j \in Keys : BatchOf(j)' = BatchOf(j) /\ PaymentOf(j)' = PaymentOf(j)
  BY <1>1 DEF BatchOf, PaymentOf
<1>3. \A j \in Keys : HasImported(j)' <=> HasImported(j)
  BY <1>1 DEF HasImported
<1>4. \A j \in Keys : Imported(j)' = Imported(j)
  BY DEF Imported
<1>5. RowsAreOwned' /\ PaymentsDiffer' /\ OwnIsWhole'
  BY <1>1, <1>2, <1>3 DEF ScenarioWhole, RowsAreOwned, PaymentsDiffer, OwnIsWhole
<1> QED
  BY <1>1, <1>2, <1>4, <1>5

(* A run makes no case of a clean scenario.                                *)
LEMMA CleanIsNoCase ==
  ASSUME ScenarioWhole, NEW run, NEW payments, payments \subseteq OfKind(store, "PAYMENT"),
         NEW k \in Keys, instances[k] # NoInstance, Sharing(k) = {k},
         instances[k].def = "clean-settlement"
  PROVE  \A c \in CasesFor(run, payments) : c.payment # PaymentOf(k)
<1> USE DEF ScenarioWhole
<1>1. SUFFICES ASSUME NEW c \in CasesFor(run, payments), c.payment = PaymentOf(k)
               PROVE  FALSE
  OBVIOUS
<1>2. PICK p \in payments : Residual(p) /\ p.id = PaymentOf(k)
  BY <1>1 DEF CasesFor
<1>3. PICK j \in Keys : HasImported(j) /\ p.id = PaymentOf(j)
  BY PaymentIsOwned
<1>4. j = k
  BY <1>2, <1>3, OwnerIsAlone DEF HasImported
<1>5. ~ExpectsException(instances[k].def)
  BY DEF ExpectsException
<1> QED
  BY <1>2, <1>3, <1>4, <1>5, OwnIsResidual

(* The cases of a run are of payments that are stored.                     *)
LEMMA RunAddsCases ==
  ASSUME CasesAre, NEW run \in Keys \cup {Everyone}, NEW payments,
         payments \subseteq OfKind(store, "PAYMENT"),
         store' = store, cases' = cases \cup CasesFor(run, payments)
  PROVE  CasesAre'
<1>1. \A c \in CasesFor(run, payments) :
        c \in [run : Keys \cup {Everyone}, payment : IdsIn(store, "PAYMENT")]
  BY DEF CasesFor, IdsIn
<1> QED
  BY <1>1 DEF CasesAre

(* The run of an instance evaluates one payment at most, and none but its  *)
(* own.                                                                    *)
LEMMA OwnRunCounts ==
  ASSUME ScenarioWhole, NEW k \in Keys, HasImported(k)
  PROVE  /\ Cardinality(Imported(k)) \in Nat /\ Cardinality(CasesFor(k, Imported(k))) \in Nat
         /\ Cardinality(Imported(k)) # 0 => Imported(k) # {}
         /\ Sharing(k) = {k} =>
              /\ Cardinality(Imported(k)) = 1
              /\ Cardinality(CasesFor(k, Imported(k))) =
                   IF ExpectsException(instances[k].def) THEN 1 ELSE 0
<1> USE DEF ScenarioWhole
<1> DEFINE own == ScenarioPayment(k, instances[k].def, Refs(instances[k].seed))
           case == [run |-> k, payment |-> PaymentOf(k)]
<1>1. Imported(k) \subseteq {own} /\ \A p \in Imported(k) : p.id = PaymentOf(k)
  BY ImportedIs
<1>2. Sharing(k) = {k} => own \in Imported(k)
  BY OwnUnitIs
<1> HIDE DEF own
<1>3. Imported(k) = {} \/ Imported(k) = {own}
  BY <1>1
<1>4. /\ Cardinality({}) = 0 /\ Cardinality({own}) = 1 /\ Cardinality({case}) = 1
  BY FS_EmptySet, FS_Singleton
<1>5. \A c \in CasesFor(k, Imported(k)) : c = case
  BY <1>1 DEF CasesFor
<1> HIDE DEF case
<1>6. CasesFor(k, Imported(k)) = {} \/ CasesFor(k, Imported(k)) = {case}
  BY <1>5
<1>7. ASSUME Sharing(k) = {k}
      PROVE  CasesFor(k, Imported(k)) # {} <=> ExpectsException(instances[k].def)
  <2>1. \A p \in Imported(k) : Residual(p) <=> ExpectsException(instances[k].def)
    BY <1>1, <1>7, OwnIsResidual
  <2>2. own \in Imported(k)
    BY <1>2, <1>7
  <2> QED
    BY <2>1, <2>2 DEF CasesFor
<1> QED
  BY <1>2, <1>3, <1>4, <1>6, <1>7

(* The run of an instance.                                                 *)
LEMMA ReconcileKeeps ==
  ASSUME ScenarioWhole, NEW k \in Keys, ReconcileOwn(k)
  PROVE  ScenarioWhole'
<1> USE DEF ScenarioWhole
<1> DEFINE evaluated == Cardinality(Imported(k))
           created   == Cardinality(CasesFor(k, Imported(k)))
           row       == [instances[k] EXCEPT !.status = "SUCCEEDED", !.evaluated = evaluated,
                                             !.casesCreated = created]
<1>1. instances[k] # NoInstance /\ instances[k].status = "RUNNING" /\ instances[k].imported
  BY SucceededIs DEF ReconcileOwn, IsRunning
<1>2. HasImported(k) /\ instances[k] \in InstanceRow
  BY <1>1, InstanceIs DEF HasImported
<1>3. /\ evaluated \in Nat /\ created \in Nat
      /\ evaluated # 0 => Imported(k) # {}
      /\ Sharing(k) = {k} =>
           evaluated = 1 /\ created = IF ExpectsException(instances[k].def) THEN 1 ELSE 0
  BY <1>2, OwnRunCounts
<1>4. /\ instances' = [instances EXCEPT ![k] = row]
      /\ cases' = cases \cup CasesFor(k, Imported(k)) /\ store' = store
  BY DEF ReconcileOwn
<1> HIDE DEF evaluated, created
<1>5. /\ row \in InstanceRow /\ row.def = instances[k].def /\ row.seed = instances[k].seed
      /\ row.imported /\ row.status = "SUCCEEDED"
      /\ row.evaluated = evaluated /\ row.casesCreated = created
  <2>1. row \in InstanceRow
    BY <1>2, <1>3, RowStays
  <2> QED
    BY <1>1, <1>2, <2>1 DEF InstanceRow
<1> HIDE DEF row
<1>6. /\ InstancesAre' /\ RowsAreOwned' /\ PaymentsDiffer' /\ OwnIsWhole'
      /\ \A j \in Keys : PaymentOf(j)' = PaymentOf(j) /\ Imported(j)' = Imported(j)
  BY <1>1, <1>4, <1>5, RunKeeps
<1>7. /\ instances'[k] = row
      /\ \A j \in Keys : j # k => instances'[j] = instances[j]
      /\ \A j \in Keys : /\ instances'[j] # NoInstance <=> instances[j] # NoInstance
                         /\ instances'[j].def = instances[j].def
                         /\ instances'[j].seed = instances[j].seed
      /\ \A j \in Keys : Sharing(j)' = Sharing(j)
  BY <1>1, <1>4, <1>5, RowChanges
<1>8. Imported(k) \subseteq OfKind(store, "PAYMENT")
  BY DEF Imported
<1>9. CasesAre'
  BY <1>4, <1>8, RunAddsCases
<1>10. EvaluatedIsStored'
  <2>1. SUFFICES ASSUME NEW j \in Keys, instances'[j].status = "SUCCEEDED"
                 PROVE  /\ instances'[j].imported
                        /\ instances'[j].evaluated # 0 => Imported(j)' # {}
    BY DEF EvaluatedIsStored
  <2>2. CASE j = k
    BY <1>3, <1>5, <1>6, <1>7, <2>2
  <2>3. CASE j # k
    BY <1>6, <1>7, <2>1, <2>3 DEF EvaluatedIsStored
  <2> QED
    BY <2>2, <2>3
<1>11. OwnShows'
  <2>1. SUFFICES ASSUME NEW j \in Keys, instances'[j].status = "SUCCEEDED", Sharing(j)' = {j}
                 PROVE  /\ instances'[j].evaluated = 1
                        /\ instances'[j].casesCreated =
                             IF ExpectsException(instances'[j].def) THEN 1 ELSE 0
    BY DEF OwnShows
  <2>2. CASE j = k
    BY <1>3, <1>5, <1>7, <2>1, <2>2
  <2>3. CASE j # k
    BY <1>7, <2>1, <2>3 DEF OwnShows
  <2> QED
    BY <2>2, <2>3
<1>12. CleanHasNoCase'
  <2>1. SUFFICES ASSUME NEW j \in Keys, instances'[j] # NoInstance, Sharing(j)' = {j},
                        instances'[j].def = "clean-settlement", NEW c \in cases'
                 PROVE  c.payment # PaymentOf(j)'
    BY DEF CleanHasNoCase
  <2>2. instances[j] # NoInstance /\ Sharing(j) = {j} /\ instances[j].def = "clean-settlement"
    BY <1>7, <2>1
  <2>3. \A d \in cases : d.payment # PaymentOf(j)
    BY <2>2 DEF CleanHasNoCase
  <2>4. \A d \in CasesFor(k, Imported(k)) : d.payment # PaymentOf(j)
    BY <1>8, <2>2, CleanIsNoCase
  <2> QED
    BY <1>4, <1>6, <2>1, <2>3, <2>4
<1> QED
  BY <1>6, <1>9, <1>10, <1>11, <1>12

(* A failure leaves what was stored.                                       *)
LEMMA FailureKeeps ==
  ASSUME ScenarioWhole, NEW k \in Keys, MarkFailed(k)
  PROVE  ScenarioWhole'
<1> USE DEF ScenarioWhole
<1> DEFINE row == [instances[k] EXCEPT !.status = "FAILED"]
<1>1. instances[k] # NoInstance
  BY DEF MarkFailed, NoInstance
<1>2. instances[k] \in InstanceRow
  BY <1>1, InstanceIs
<1>3. instances' = [instances EXCEPT ![k] = row] /\ cases' = cases /\ store' = store
  BY DEF MarkFailed
<1>4. /\ row \in InstanceRow /\ row.def = instances[k].def /\ row.seed = instances[k].seed
      /\ row.imported = instances[k].imported /\ row.status = "FAILED"
  <2>1. row \in InstanceRow
    BY <1>2, RowStays
  <2> QED
    BY <1>2, <2>1 DEF InstanceRow
<1> HIDE DEF row
<1>5. /\ InstancesAre' /\ RowsAreOwned' /\ PaymentsDiffer' /\ OwnIsWhole'
      /\ \A j \in Keys : PaymentOf(j)' = PaymentOf(j) /\ Imported(j)' = Imported(j)
  BY <1>1, <1>3, <1>4, RunKeeps
<1>6. /\ instances'[k] = row
      /\ \A j \in Keys : j # k => instances'[j] = instances[j]
      /\ \A j \in Keys : /\ instances'[j] # NoInstance <=> instances[j] # NoInstance
                         /\ instances'[j].def = instances[j].def
                         /\ instances'[j].seed = instances[j].seed
      /\ \A j \in Keys : Sharing(j)' = Sharing(j)
  BY <1>1, <1>3, <1>4, RowChanges
<1>7. \A j \in Keys : instances'[j].status = "SUCCEEDED" =>
        j # k /\ instances'[j] = instances[j]
  BY <1>4, <1>6
<1>8. CasesAre'
  BY <1>3 DEF CasesAre
<1>9. EvaluatedIsStored'
  BY <1>5, <1>7 DEF EvaluatedIsStored
<1>10. OwnShows'
  BY <1>6, <1>7 DEF OwnShows
<1>11. CleanHasNoCase'
  BY <1>3, <1>5, <1>6 DEF CleanHasNoCase
<1> QED
  BY <1>5, <1>8, <1>9, <1>10, <1>11

(* A run over everyone.                                                    *)
LEMMA EveryoneKeeps ==
  ASSUME ScenarioWhole, ReconcileAll
  PROVE  ScenarioWhole'
<1> USE DEF ScenarioWhole
<1> DEFINE payments == OfKind(store, "PAYMENT")
<1>1. /\ cases' = cases \cup CasesFor(Everyone, payments)
      /\ store' = store /\ instances' = instances
  BY DEF ReconcileAll
<1>2. CasesAre'
  BY <1>1, RunAddsCases
<1>3. InstancesAre' /\ RowsAreOwned' /\ PaymentsDiffer' /\ OwnIsWhole'
  BY <1>1 DEF InstancesAre, RowsAreOwned, PaymentsDiffer, OwnIsWhole, HasImported, BatchOf,
     Sharing
<1>4. EvaluatedIsStored' /\ OwnShows'
  BY <1>1 DEF EvaluatedIsStored, OwnShows, Imported, Sharing
<1>5. CleanHasNoCase'
  <2>1. SUFFICES ASSUME NEW j \in Keys, instances[j] # NoInstance, Sharing(j) = {j},
                        instances[j].def = "clean-settlement", NEW c \in cases'
                 PROVE  c.payment # PaymentOf(j)
    BY <1>1 DEF CleanHasNoCase, Sharing, PaymentOf
  <2>2. \A d \in CasesFor(Everyone, payments) : d.payment # PaymentOf(j)
    BY <2>1, CleanIsNoCase
  <2> QED
    BY <1>1, <2>1, <2>2 DEF CleanHasNoCase
<1> QED
  BY <1>2, <1>3, <1>4, <1>5

----------------------------------------------------------------------------
(* The scenarios.                                                          *)

LEMMA ScenarioStepKeeps ==
  ScenarioWhole /\ [ScenarioNext]_scenarioVars => ScenarioWhole'
<1> SUFFICES ASSUME ScenarioWhole, [ScenarioNext]_scenarioVars PROVE ScenarioWhole'
  OBVIOUS
<1>1. ASSUME NEW k \in Keys, CreateOrGet(k) \/ SubmitImport(k) \/ ReconcileOwn(k) \/ MarkFailed(k)
      PROVE  ScenarioWhole'
  BY <1>1, CreateKeeps, SubmitKeeps, ReconcileKeeps, FailureKeeps
<1>2. CASE ReconcileAll
  BY <1>2, EveryoneKeeps
<1>3. CASE UNCHANGED scenarioVars
  BY <1>3 DEF scenarioVars, ScenarioWhole, InstancesAre, CasesAre, RowsAreOwned, PaymentsDiffer,
     OwnIsWhole, EvaluatedIsStored, CleanHasNoCase, OwnShows, HasImported, BatchOf, Sharing,
     Imported, PaymentOf
<1> QED
  BY <1>1, <1>2, <1>3 DEF ScenarioNext

LEMMA ScenariosAreWhole == ScenarioSpec => []ScenarioWhole
BY ScenarioStarts, ScenarioStepKeeps, PTL DEF ScenarioSpec

(* The invariant implies what the scenarios are to show.                   *)
LEMMA WholeShows ==
  ScenarioWhole => ScenarioInv
<1> SUFFICES ASSUME ScenarioWhole PROVE ScenarioInv
  OBVIOUS
<1> USE DEF ScenarioWhole
<1>1. ScenarioTypes
  <2>1. \A p \in OfKind(store, "PAYMENT") : p.import \in Keys
    BY PaymentIsOwned
  <2>2. \A k \in Keys : instances[k].status \in {"ABSENT", "RUNNING", "SUCCEEDED", "FAILED"}
    BY DEF InstancesAre, InstanceRow, NoInstance
  <2> QED
    BY <2>1, <2>2 DEF ScenarioTypes, CasesAre
<1>2. ScenariosShow
  <2>1. SUFFICES ASSUME NEW k \in Keys, instances[k].status = "SUCCEEDED", Sharing(k) # {k},
                        NEW j \in Sharing(k) \ {k}, instances[j].status = "SUCCEEDED"
                 PROVE  0 \in {instances[j].evaluated, instances[k].evaluated}
    BY DEF ScenariosShow, OwnShows
  <2>2. SUFFICES ASSUME instances[j].evaluated # 0, instances[k].evaluated # 0
                 PROVE  FALSE
    OBVIOUS
  <2>3. j \in Keys /\ PaymentOf(j) = PaymentOf(k)
    BY <2>1 DEF Sharing, PaymentOf
  <2>4. PICK p \in Imported(k), q \in Imported(j) : TRUE
    BY <2>1, <2>2, <2>3 DEF EvaluatedIsStored
  <2>5. p.id = q.id
    BY <2>3, <2>4, ImportedIs
  <2>6. /\ p \in OfKind(store, "PAYMENT") /\ p.import = k
        /\ q \in OfKind(store, "PAYMENT") /\ q.import = j
    BY <2>4 DEF Imported
  <2>7. p = q
    BY <2>5, <2>6 DEF PaymentsDiffer
  <2> QED
    BY <2>1, <2>6, <2>7
<1> QED
  BY <1>1, <1>2 DEF ScenarioInv

(* ScenarioInv: rows and cases are of their types; an instance that has    *)
(* its seed to itself evaluates one payment when it succeeds, whatever     *)
(* other instances, failures and runs come in between, and counts a case   *)
(* unless its scenario is the clean one; and of two that share a seed at   *)
(* most one evaluates anything (instance-service.ts, generator.ts).        *)
THEOREM ScenariosAreShown == ScenarioSpec => []ScenarioInv
BY ScenariosAreWhole, WholeShows, PTL

(* The invariant implies what can come of the cases.                       *)
LEMMA WholeIsExpected ==
  ScenarioWhole => CausesAreAsExpected
<1> SUFFICES ASSUME ScenarioWhole,
                    NEW k \in Keys, instances[k] # NoInstance, Sharing(k) = {k},
                    NEW c \in cases, c.payment = PaymentOf(k)
             PROVE  IF ExpectedCause(instances[k].def) \in {"MDR_FEE", "UTR_SPLIT"}
                    THEN ExpectedCause(instances[k].def) \in Accepted(k)
                    ELSE Accepted(k) = {}
  BY DEF CausesAreAsExpected
<1> USE DEF ScenarioWhole
<1> DEFINE def  == instances[k].def
           seed == instances[k].seed
           unit == UnitOf(store, PaymentOf(k))
<1>1. def \in SCENARIO_IDS /\ seed \in Seeds
  BY InstanceIs
<1>2. def # "clean-settlement"
  BY DEF CleanHasNoCase
<1>3. HasImported(k)
  <2>1. PICK p \in OfKind(store, "PAYMENT") : p.id = c.payment
    BY DEF CasesAre, IdsIn
  <2>2. PICK j \in Keys : HasImported(j) /\ p.id = PaymentOf(j)
    BY PaymentIsOwned
  <2> QED
    BY <2>1, <2>2, OwnerIsAlone DEF HasImported
<1>4. IsScenarioUnit(unit, def, Refs(seed))
  BY <1>3, OwnUnitIs
<1>5. Accepted(k) = {cause \in CauseCode : Verified(cause, unit).effective = "RESOLVE"}
  BY DEF Accepted
<1> HIDE DEF def, seed, unit
<1>6. CASE def \in {"fee-tax-discrepancy", "split-settlement"}
  <2>1. ExpectedCause(def) \in {"MDR_FEE", "UTR_SPLIT"} /\ ExpectedCause(def) \in CauseCode
    BY <1>6 DEF ExpectedCause, CauseCode
  <2>2. Verified(ExpectedCause(def), unit).effective = "RESOLVE"
    BY <1>1, <1>4, <1>6, ScenarioIsProvable
  <2> QED
    BY <1>5, <2>1, <2>2 DEF def
<1>7. CASE def \in {"refund-netting", "ambiguous-adjustment", "misleading-adjustment"}
  <2>1. ExpectedCause(def) \notin {"MDR_FEE", "UTR_SPLIT"}
    BY <1>7 DEF ExpectedCause, NoCause
  <2>2. \A cause : Verified(cause, unit).effective # "RESOLVE"
    BY <1>1, <1>4, <1>7, ScenarioIsRefused
  <2> QED
    BY <1>5, <2>1, <2>2 DEF def
<1> QED
  BY <1>1, <1>2, <1>6, <1>7 DEF SCENARIO_IDS

(* CausesAreAsExpected: as long as its seed is its own, the case of a      *)
(* scenario about a fee or a split can be resolved by the cause that the   *)
(* definition expects, and the case of every other scenario by no cause,   *)
(* whoever made the case and whatever other scenarios have stored beside   *)
(* it (verifier.ts, generator.ts).                                         *)
THEOREM CausesAreExpected == ScenarioSpec => []CausesAreAsExpected
BY ScenariosAreWhole, WholeIsExpected, PTL
================================================================================
