-------------------------- MODULE ReconciliationProofs --------------------------
(***************************************************************************)
(* Reconciliation runs keep RunsInv for every set of requests and imports, *)
(* whatever is imported meanwhile and whatever fails: a run that succeeded *)
(* is accounted for, and a scenario that succeeded is complete.            *)
(***************************************************************************)
EXTENDS ReconciliationRuns, FiniteSetTheorems, TLAPS

----------------------------------------------------------------------------
(* What a batch adds.                                                      *)

(* The reference of a row that finds nothing is NULL; its kind stays.      *)
LEMMA KindStays ==
  ASSUME NEW x, "kind" \in DOMAIN x, NEW e
  PROVE  /\ [x EXCEPT !.payment = e].kind = x.kind
         /\ [x EXCEPT !.fee = e].kind = x.kind
         /\ [x EXCEPT !.settlement = e].kind = x.kind
OBVIOUS

Fresh(batch) == {x \in OfKind(batch, "PAYMENT") : x.id \notin IdsIn(store, "PAYMENT")}

(* Of the payments, an import adds those that are not there.               *)
LEMMA PaymentsAfterImport ==
  ASSUME NEW i \in Imports
  PROVE  OfKind(AfterImport(store, Batch[i]), "PAYMENT") =
           OfKind(store, "PAYMENT") \cup Fresh(Batch[i])
<1> DEFINE batch == Batch[i]
           fresh(kind) == {x \in OfKind(batch, kind) : x.id \notin IdsIn(store, kind)}
           ids(kind) == IdsIn(store, kind) \cup IdsIn(batch, kind)
           fees == {[f EXCEPT !.payment = OrNull(@, ids("PAYMENT"))] : f \in fresh("FEE_LINE")}
           taxes == {[t EXCEPT !.fee = OrNull(@, ids("FEE_LINE"))] : t \in fresh("TAX_LINE")}
           adjustments ==
             {[a EXCEPT !.settlement = OrNull(@, ids("SETTLEMENT"))] : a \in fresh("ADJUSTMENT")}
           refunds == {r \in fresh("REFUND") : r.payment \in ids("PAYMENT")}
           lines ==
             {[l EXCEPT !.payment = OrNull(@, ids("PAYMENT"))] :
                l \in {l \in fresh("SETTLEMENT_LINE") : l.settlement \in ids("SETTLEMENT")}}
<1>1. \A kind : \A x \in fresh(kind) : "kind" \in DOMAIN x /\ x.kind = kind
  BY BatchAssumption DEF OfKind
<1>2. /\ \A x \in fees : x.kind = "FEE_LINE"
      /\ \A x \in taxes : x.kind = "TAX_LINE"
      /\ \A x \in adjustments : x.kind = "ADJUSTMENT"
      /\ \A x \in refunds : x.kind = "REFUND"
      /\ \A x \in lines : x.kind = "SETTLEMENT_LINE"
  <2> HIDE DEF fresh, ids
  <2> QED
    BY <1>1, KindStays
<1>3. AfterImport(store, batch) =
        store \cup fresh("PAYMENT") \cup fresh("SETTLEMENT") \cup fresh("BANK_CREDIT")
          \cup fees \cup taxes \cup adjustments \cup refunds \cup lines
  BY DEF AfterImport
<1>4. fresh("PAYMENT") = Fresh(batch)
  BY DEF Fresh
<1> HIDE DEF fresh, fees, taxes, adjustments, refunds, lines
<1> QED
  BY <1>1, <1>2, <1>3, <1>4 DEF OfKind

(* An import's commit adds captured payments to its own run and to those   *)
(* over all imports.                                                       *)
LEMMA CommitFacts ==
  ASSUME RunsInv, NEW i \in Imports, Commit(i)
  PROVE  /\ PaymentsAreOnce'
         /\ \A j : Captured(j) \subseteq Captured(j)'
         /\ \A j \in Imports \ {i} : Captured(j)' = Captured(j)
         /\ IdsIn(store, "PAYMENT") \subseteq IdsIn(store, "PAYMENT")'
<1> DEFINE old == OfKind(store, "PAYMENT")
           fresh == Fresh(Batch[i])
           new == OfKind(store', "PAYMENT")
<1>1. new = old \cup fresh
  BY PaymentsAfterImport DEF Commit
<1>2. /\ IsFiniteSet(old)
      /\ \A x \in old : x.import \in Imports /\ x \in Batch[x.import]
      /\ \A x, y \in old : x.id = y.id => x = y
  BY DEF RunsInv, PaymentsAreOnce
<1>3. /\ IsFiniteSet(fresh)
      /\ \A x \in fresh : x \in Batch[i] /\ x.import = i
      /\ \A x, y \in fresh : x.id = y.id => x = y
      /\ \A x \in fresh, y \in old : x.id # y.id
  <2>1. IsFiniteSet(Batch[i]) /\ fresh \subseteq Batch[i]
    BY BatchAssumption DEF Fresh, OfKind
  <2>2. IsFiniteSet(fresh)
    BY <2>1, FS_Subset
  <2> QED
    BY <2>2, BatchAssumption DEF Fresh, OfKind, IdsIn
<1>4. IsFiniteSet(new)
  <2> HIDE DEF old, new, fresh
  <2>1. IsFiniteSet(old \cup fresh)
    BY <1>2, <1>3, FS_Union
  <2> QED
    BY <1>1, <2>1
<1>5. PaymentsAreOnce'
  <2>1. /\ \A x \in new : x.import \in Imports /\ x \in Batch[x.import]
        /\ \A x, y \in new : x.id = y.id => x = y
    <3> HIDE DEF old, new, fresh
    <3> QED
      BY <1>1, <1>2, <1>3
  <2> QED
    BY <1>4, <2>1 DEF PaymentsAreOnce
<1>6. /\ \A j : Captured(j) \subseteq Captured(j)'
      /\ \A j \in Imports \ {i} : Captured(j)' = Captured(j)
  <2>1. \A j : Captured(j) = {x \in old : x.status = "CAPTURED" /\ j \in {AllImports, x.import}}
    BY DEF Captured
  <2>2. \A j : Captured(j)' = {x \in new : x.status = "CAPTURED" /\ j \in {AllImports, x.import}}
    BY DEF Captured
  <2> HIDE DEF old, new, fresh
  <2> QED
    BY <1>1, <1>3, <2>1, <2>2, RunsAssumption
<1>7. IdsIn(store, "PAYMENT") \subseteq IdsIn(store, "PAYMENT")'
  <2>1. IdsIn(store, "PAYMENT") = {x.id : x \in old} /\ IdsIn(store, "PAYMENT")' = {x.id : x \in new}
    BY DEF IdsIn
  <2> HIDE DEF old, new
  <2> QED
    BY <1>1, <2>1
<1> QED
  BY <1>5, <1>6, <1>7

(* Nothing is captured anew while nothing is committed.                    *)
LEMMA SameStore ==
  ASSUME UNCHANGED store
  PROVE  /\ \A j : Captured(j)' = Captured(j)
         /\ IdsIn(store, "PAYMENT")' = IdsIn(store, "PAYMENT")
         /\ PaymentsAreOnce => PaymentsAreOnce'
BY DEF Captured, IdsIn, OfKind, PaymentsAreOnce

----------------------------------------------------------------------------
(* Steps of one request.                                                   *)

(* What a request relies on outlives the steps of others, as long as they  *)
(* leave it, its run, its cases and its instance alone.                    *)
LEMMA OthersKeep ==
  ASSUME RunsInv, NEW s \in Requests,
         req'[s] = req[s], runs'[s] = runs[s], CasesOf(s)' = CasesOf(s),
         audited \subseteq audited',
         \A j : Captured(j) \subseteq Captured(j)',
         req[s].pc \notin {"idle", "done"} /\ req[s].scenario =>
           /\ Captured(req[s].import)' = Captured(req[s].import)
           /\ scenarios'[req[s].import] = scenarios[req[s].import]
  PROVE  (IsAccounted(s) /\ HasNotBegun(s) /\ IsUnderWay(s) /\ IsLinking(s) /\ OwnsInstance(s))'
<1>1. IsAccounted(s) /\ HasNotBegun(s) /\ IsUnderWay(s) /\ IsLinking(s) /\ OwnsInstance(s)
  BY DEF RunsInv
<1>2. IsAccounted(s)'
  BY <1>1 DEF IsAccounted
<1>3. HasNotBegun(s)'
  BY <1>1 DEF HasNotBegun, At
<1>4. Pending(s)' = Pending(s)
  BY DEF Pending, At
<1>5. req[s].pc \notin {"idle", "done"} /\ req[s].scenario =>
        Quota(req[s].import)' = Quota(req[s].import)
  BY DEF Quota
<1>6. CasesAmong(s, Captured(req[s].import)) => CasesAmong(s, Captured(req[s].import))'
  <2>1. Captured(req[s].import) \subseteq Captured(req[s].import)'
    <3>1. PICK j : j = req[s].import
      OBVIOUS
    <3> QED
      BY <3>1
  <2> QED
    BY <2>1 DEF CasesAmong
<1>7. IsUnderWay(s)'
  <2>1. Captured(req[s].import) \subseteq Captured(req[s].import)'
    <3>1. PICK j : j = req[s].import
      OBVIOUS
    <3> QED
      BY <3>1
  <2> QED
    BY <1>1, <1>4, <1>5, <1>6, <2>1 DEF IsUnderWay, At
<1>8. IsLinking(s)'
  BY <1>1, <1>5, <1>6 DEF IsLinking, At
<1>9. OwnsInstance(s)'
  BY <1>1 DEF OwnsInstance
<1> QED
  BY <1>2, <1>3, <1>7, <1>8, <1>9

(* A request that has not ended is idle or has its locals, with which come *)
(* the parts of the invariant.                                             *)
LEMMA AtIsTyped ==
  ASSUME RunsInv, NEW r \in Requests, req[r].pc \notin {"idle", "done"}
  PROVE  IsLocals(req[r])
BY DEF RunsInv, TypeOK, Idle, Done

(* A step of request r keeps the invariant if it keeps the types and what  *)
(* concerns r, touches no other request's run, cases or instance, and does *)
(* not touch its own run or cases once its instance has succeeded.         *)
LEMMA StepKeeps ==
  ASSUME RunsInv, NEW r \in Requests, req[r].pc # "done",
         \A s \in Requests \ {r} :
           req'[s] = req[s] /\ runs'[s] = runs[s] /\ CasesOf(s)' = CasesOf(s),
         audited \subseteq audited',
         \A j : Captured(j) \subseteq Captured(j)',
         \A j \in Scenarios :
           Captured(j)' = Captured(j) \/ (scenarios[j].run = r /\ At(r, "import")),
         \A j \in Scenarios :
           \/ scenarios'[j] = scenarios[j]
           \/ IsCounted(j)' /\ (scenarios[j].status = "ABSENT" \/ scenarios[j].run = r),
         req[r].pc \in {"event", "answer"} =>
           /\ req'[r].pc \in {"event", "answer", "done"}
           /\ runs'[r] = runs[r] /\ CasesOf(r)' = CasesOf(r),
         TypeOK', PaymentsAreOnce', CasesAreOnce',
         (IsAccounted(r) /\ HasNotBegun(r) /\ IsUnderWay(r) /\ IsLinking(r)
            /\ OwnsInstance(r))'
  PROVE  RunsInv'
<1>1. ASSUME NEW s \in Requests \ {r}
      PROVE  (IsAccounted(s) /\ HasNotBegun(s) /\ IsUnderWay(s) /\ IsLinking(s)
                /\ OwnsInstance(s))'
  <2>1. ASSUME req[s].pc \notin {"idle", "done"}, req[s].scenario
        PROVE  /\ Captured(req[s].import)' = Captured(req[s].import)
               /\ scenarios'[req[s].import] = scenarios[req[s].import]
    <3>1. PICK j \in Scenarios : j = req[s].import
      BY <2>1 DEF RunsInv, OwnsInstance
    <3>2. scenarios[j].run = s /\ scenarios[j].status # "ABSENT"
      BY <2>1, <3>1 DEF RunsInv, OwnsInstance
    <3>3. Captured(j)' = Captured(j) /\ scenarios'[j] = scenarios[j]
      BY <3>2
    <3>4. req'[s].import = j
      BY <3>1
    <3> QED
      BY <3>1, <3>3, <3>4 DEF Captured
  <2> QED
    BY <2>1, OthersKeep
<1>2. ASSUME NEW j \in Scenarios
      PROVE  IsCounted(j)'
  <2>1. CASE scenarios'[j] = scenarios[j]
    <3> SUFFICES ASSUME scenarios[j].status = "SUCCEEDED"
                 PROVE  IsCounted(j)'
      BY <2>1 DEF IsCounted
    <3>1. PICK s \in Requests : s = scenarios[j].run
      BY DEF RunsInv, IsCounted
    <3>2. /\ req[s].pc \in {"event", "answer", "done"}
          /\ runs[s].status = "SUCCEEDED"
          /\ runs[s].counts.evaluated = Quota(j)
          /\ scenarios[j].cases = Cardinality(CasesOf(s))
          /\ CasesAmong(s, Captured(j)) /\ \A c \in CasesOf(s) : c.scenario
      BY <3>1 DEF RunsInv, IsCounted
    <3>3. /\ req'[s].pc \in {"event", "answer", "done"} /\ runs'[s] = runs[s]
          /\ CasesOf(s)' = CasesOf(s)
      BY <3>2
    <3>4. Captured(j)' = Captured(j) /\ Quota(j)' = Quota(j)
      BY <3>1, <3>2 DEF At, Quota
    <3>5. scenarios'[j].run = s /\ scenarios'[j].cases = Cardinality(CasesOf(s)')
      BY <2>1, <3>1, <3>2, <3>3
    <3>6. CasesAmong(s, Captured(j))' /\ \A c \in CasesOf(s)' : c.scenario
      BY <3>2, <3>3, <3>4 DEF CasesAmong
    <3> QED
      BY <3>2, <3>3, <3>4, <3>5, <3>6 DEF IsCounted, CasesAmong, CasesOf
  <2> QED
    BY <2>1
<1> QED
  BY <1>1, <1>2 DEF RunsInv

(* The same for a step within the database or the process, that commits no *)
(* import: only what changes has to be typed.                              *)
LEMMA LocalStepKeeps ==
  ASSUME RunsInv, NEW r \in Requests, req[r].pc # "done", UNCHANGED store,
         DOMAIN req' = Requests, DOMAIN seen' = Requests,
         req'[r] \in {Idle, Done} \/ IsLocals(req'[r]),
         \A s \in Requests \ {r} :
           req'[s] = req[s] /\ runs'[s] = runs[s] /\ CasesOf(s)' = CasesOf(s),
         runs' = runs \/
           runs' \in [Requests -> [status : {"ABSENT", "RUNNING", "SUCCEEDED"}, counts : Counts]],
         cases' \subseteq CaseRow, CasesAreOnce',
         audited \subseteq audited',
         \A e \in audited' : \E c \in cases' : e = <<c.run, c.payment>>,
         scenarios' = scenarios \/ scenarios' \in [Scenarios -> InstanceRow],
         \A j \in Scenarios :
           \/ scenarios'[j] = scenarios[j]
           \/ IsCounted(j)' /\ (scenarios[j].status = "ABSENT" \/ scenarios[j].run = r),
         req[r].pc \in {"event", "answer"} =>
           /\ req'[r].pc \in {"event", "answer", "done"}
           /\ runs'[r] = runs[r] /\ CasesOf(r)' = CasesOf(r),
         (IsAccounted(r) /\ HasNotBegun(r) /\ IsUnderWay(r) /\ IsLinking(r)
            /\ OwnsInstance(r))'
  PROVE  RunsInv'
<1>1. /\ \A j : Captured(j)' = Captured(j)
      /\ IdsIn(store, "PAYMENT")' = IdsIn(store, "PAYMENT")
      /\ PaymentsAreOnce'
  BY SameStore DEF RunsInv
<1>2. CaseRow' = CaseRow
  BY <1>1 DEF CaseRow
<1>3. TypeOK'
  <2>1. \A s \in Requests : req'[s] \in {Idle, Done} \/ IsLocals(req'[s])
    BY DEF RunsInv, TypeOK
  <2> QED
    BY <1>2, <2>1 DEF RunsInv, TypeOK, IsLocals, InstanceRow
<1>4. /\ \A j : Captured(j) \subseteq Captured(j)'
      /\ \A j \in Scenarios :
           Captured(j)' = Captured(j) \/ (scenarios[j].run = r /\ At(r, "import"))
  BY <1>1
<1> QED
  BY <1>1, <1>3, <1>4, StepKeeps

(* And for a step that changes nothing but a request's locals.             *)
LEMMA QuietStepKeeps ==
  ASSUME RunsInv, NEW r \in Requests, req[r].pc # "done",
         UNCHANGED <<store, runs, cases, audited, scenarios>>,
         DOMAIN req' = Requests, DOMAIN seen' = Requests,
         req'[r] \in {Idle, Done} \/ IsLocals(req'[r]),
         \A s \in Requests \ {r} : req'[s] = req[s],
         req[r].pc \in {"event", "answer"} => req'[r].pc \in {"event", "answer", "done"},
         (HasNotBegun(r) /\ IsUnderWay(r) /\ IsLinking(r) /\ OwnsInstance(r))'
  PROVE  RunsInv'
<1>1. \A s : CasesOf(s)' = CasesOf(s)
  BY DEF CasesOf
<1>2. cases' \subseteq CaseRow /\ \A e \in audited' : \E c \in cases' : e = <<c.run, c.payment>>
  BY DEF RunsInv, TypeOK
<1>3. CasesAreOnce' /\ IsAccounted(r)'
  BY <1>1 DEF RunsInv, CasesAreOnce, IsAccounted
<1> QED
  BY <1>1, <1>2, <1>3, LocalStepKeeps

----------------------------------------------------------------------------
(* The actions of the route and of a scenario before its run.              *)

LEMMA ImportKeeps ==
  ASSUME RunsInv, NEW i \in Imports, Import(i)
  PROVE  RunsInv'
<1>1. /\ Commit(i) /\ i \notin Scenarios
      /\ UNCHANGED <<runs, cases, audited, scenarios, req>>
  BY DEF Import
<1>2. /\ PaymentsAreOnce'
      /\ \A j : Captured(j) \subseteq Captured(j)'
      /\ \A j \in Scenarios : Captured(j)' = Captured(j)
      /\ IdsIn(store, "PAYMENT") \subseteq IdsIn(store, "PAYMENT")'
  BY <1>1, CommitFacts, RunsAssumption
<1>3. TypeOK'
  <2>1. DOMAIN seen' = Requests
    BY <1>1 DEF Commit
  <2>2. cases' \subseteq CaseRow'
    BY <1>1, <1>2 DEF RunsInv, TypeOK, CaseRow
  <2> QED
    BY <1>1, <2>1, <2>2 DEF RunsInv, TypeOK, IsLocals, InstanceRow
<1>4. CasesAreOnce'
  BY <1>1 DEF RunsInv, CasesAreOnce
<1>5. ASSUME NEW s \in Requests
      PROVE  (IsAccounted(s) /\ HasNotBegun(s) /\ IsUnderWay(s) /\ IsLinking(s)
                /\ OwnsInstance(s))'
  <2>1. ASSUME req[s].pc \notin {"idle", "done"}, req[s].scenario
        PROVE  Captured(req[s].import)' = Captured(req[s].import)
    <3>1. PICK j \in Scenarios : j = req[s].import
      BY <2>1 DEF RunsInv, OwnsInstance
    <3>2. req'[s].import = j /\ Captured(j)' = Captured(j)
      BY <1>1, <1>2, <3>1
    <3> QED
      BY <3>1, <3>2 DEF Captured
  <2> QED
    BY <1>1, <1>2, <2>1, OthersKeep DEF CasesOf
<1>6. ASSUME NEW j \in Scenarios
      PROVE  IsCounted(j)'
  BY <1>1, <1>2 DEF RunsInv, IsCounted, Quota, CasesAmong, CasesOf
<1> QED
  BY <1>2, <1>3, <1>4, <1>5, <1>6 DEF RunsInv

LEMMA StartRunKeeps ==
  ASSUME RunsInv, NEW r \in Requests, NEW i \in Imports \cup {AllImports}, StartRun(r, i)
  PROVE  RunsInv'
<1>1. /\ req[r].pc = "idle" /\ CasesOf(r) = {}
      /\ UNCHANGED <<store, cases, audited, scenarios, seen>>
  BY DEF StartRun, At, RunsInv, HasNotBegun
<1>2. /\ runs'[r] = [runs[r] EXCEPT !.status = "RUNNING"]
      /\ runs'[r].status = "RUNNING"
      /\ runs' \in [Requests -> [status : {"ABSENT", "RUNNING", "SUCCEEDED"}, counts : Counts]]
      /\ \A s \in Requests \ {r} : runs'[s] = runs[s]
  BY DEF StartRun, RunsInv, TypeOK
<1>3. /\ req'[r] = Locals("list", i, FALSE)
      /\ \A s \in Requests \ {r} : req'[s] = req[s]
      /\ DOMAIN req' = Requests
  BY DEF StartRun, RunsInv, TypeOK
<1>4. /\ IsLocals(req'[r]) /\ req'[r].pc = "list" /\ ~req'[r].scenario
      /\ req'[r].counts = NoCounts
  BY <1>3 DEF Locals, IsLocals, NoCounts, Counts
<1>5. \A s : CasesOf(s)' = CasesOf(s)
  BY <1>1 DEF CasesOf
<1>6. /\ cases' \subseteq CaseRow /\ DOMAIN seen' = Requests
      /\ \A e \in audited' : \E c \in cases' : e = <<c.run, c.payment>>
  BY <1>1 DEF RunsInv, TypeOK
<1>7. CasesAreOnce'
  BY <1>1 DEF RunsInv, CasesAreOnce
<1>8. (IsAccounted(r) /\ HasNotBegun(r) /\ IsUnderWay(r) /\ IsLinking(r) /\ OwnsInstance(r))'
  BY <1>1, <1>2, <1>4, <1>5
  DEF IsAccounted, HasNotBegun, IsUnderWay, IsLinking, OwnsInstance, At
<1> QED
  BY <1>1, <1>2, <1>3, <1>4, <1>5, <1>6, <1>7, <1>8, LocalStepKeeps

LEMMA InstantiateKeeps ==
  ASSUME RunsInv, NEW r \in Requests, NEW i \in Scenarios, Instantiate(r, i)
  PROVE  RunsInv'
<1>1. /\ req[r].pc = "idle" /\ CasesOf(r) = {} /\ runs[r] = NoRun
      /\ scenarios[i].status = "ABSENT"
      /\ UNCHANGED <<store, runs, cases, audited, seen>>
  BY DEF Instantiate, At, RunsInv, HasNotBegun, NoInstance
<1>2. /\ scenarios'[i].status = "RUNNING" /\ scenarios'[i].run = r
      /\ scenarios' \in [Scenarios -> InstanceRow]
      /\ \A j \in Scenarios : j # i => scenarios'[j] = scenarios[j]
  BY DEF Instantiate, RunsInv, TypeOK, InstanceRow
<1>3. /\ req'[r] = Locals("import", i, TRUE)
      /\ \A s \in Requests \ {r} : req'[s] = req[s]
      /\ DOMAIN req' = Requests
  BY DEF Instantiate, RunsInv, TypeOK
<1>4. /\ IsLocals(req'[r]) /\ req'[r].pc = "import" /\ req'[r].scenario
      /\ req'[r].import = i /\ req'[r].counts = NoCounts
  BY <1>3, RunsAssumption DEF Locals, IsLocals, NoCounts, Counts
<1>5. \A s : CasesOf(s)' = CasesOf(s)
  BY <1>1 DEF CasesOf
<1>6. /\ cases' \subseteq CaseRow /\ DOMAIN seen' = Requests
      /\ \A e \in audited' : \E c \in cases' : e = <<c.run, c.payment>>
  BY <1>1 DEF RunsInv, TypeOK
<1>7. CasesAreOnce'
  BY <1>1 DEF RunsInv, CasesAreOnce
<1>8. (IsAccounted(r) /\ HasNotBegun(r) /\ IsUnderWay(r) /\ IsLinking(r) /\ OwnsInstance(r))'
  BY <1>1, <1>2, <1>4, <1>5
  DEF IsAccounted, HasNotBegun, IsUnderWay, IsLinking, OwnsInstance, At, NoRun
<1>9. IsCounted(i)'
  BY <1>2 DEF IsCounted
<1> QED
  BY <1>1, <1>2, <1>3, <1>4, <1>5, <1>6, <1>7, <1>8, <1>9, LocalStepKeeps

LEMMA ImportOwnKeeps ==
  ASSUME RunsInv, NEW r \in Requests, ImportOwn(r)
  PROVE  RunsInv'
<1>1. /\ req[r].pc = "import" /\ IsLocals(req[r])
      /\ UNCHANGED <<runs, cases, audited, scenarios>>
  BY AtIsTyped DEF ImportOwn, At
<1>2. /\ CasesOf(r) = {} /\ runs[r] = NoRun /\ req[r].scenario
      /\ req[r].import \in Scenarios /\ scenarios[req[r].import].run = r
      /\ scenarios[req[r].import].status = "RUNNING" /\ req[r].counts = NoCounts
  BY <1>1 DEF RunsInv, HasNotBegun, OwnsInstance
<1>3. PICK i \in Scenarios : i = req[r].import /\ Commit(i)
  BY <1>2 DEF ImportOwn, Commit
<1>4. /\ PaymentsAreOnce'
      /\ \A j : Captured(j) \subseteq Captured(j)'
      /\ \A j \in Scenarios \ {i} : Captured(j)' = Captured(j)
      /\ IdsIn(store, "PAYMENT") \subseteq IdsIn(store, "PAYMENT")'
  BY <1>3, CommitFacts, RunsAssumption
<1>5. /\ req'[r] = [req[r] EXCEPT !.pc = "start"]
      /\ \A s \in Requests \ {r} : req'[s] = req[s]
      /\ DOMAIN req' = Requests
  BY DEF ImportOwn, Goto, RunsInv, TypeOK
<1>6. /\ IsLocals(req'[r]) /\ req'[r].pc = "start" /\ req'[r].scenario
      /\ req'[r].import = i /\ req'[r].counts = NoCounts
  BY <1>1, <1>2, <1>3, <1>5 DEF IsLocals
<1>7. \A s : CasesOf(s)' = CasesOf(s)
  BY <1>1 DEF CasesOf
<1>8. TypeOK'
  <2>1. DOMAIN seen' = Requests
    BY <1>3 DEF Commit
  <2>2. cases' \subseteq CaseRow'
    BY <1>1, <1>4 DEF RunsInv, TypeOK, CaseRow
  <2> QED
    BY <1>1, <1>5, <1>6, <2>1, <2>2 DEF RunsInv, TypeOK, IsLocals, InstanceRow
<1>9. CasesAreOnce'
  BY <1>1 DEF RunsInv, CasesAreOnce
<1>10. (IsAccounted(r) /\ HasNotBegun(r) /\ IsUnderWay(r) /\ IsLinking(r) /\ OwnsInstance(r))'
  BY <1>1, <1>2, <1>3, <1>6, <1>7
  DEF IsAccounted, HasNotBegun, IsUnderWay, IsLinking, OwnsInstance, At, NoRun
<1> QED
  BY <1>1, <1>2, <1>3, <1>4, <1>5, <1>7, <1>8, <1>9, <1>10, StepKeeps DEF At

LEMMA StartOwnKeeps ==
  ASSUME RunsInv, NEW r \in Requests, StartOwn(r)
  PROVE  RunsInv'
<1>1. /\ req[r].pc = "start" /\ IsLocals(req[r])
      /\ UNCHANGED <<store, cases, audited, scenarios, seen>>
  BY AtIsTyped DEF StartOwn, At
<1>2. /\ CasesOf(r) = {} /\ OwnsInstance(r) /\ req[r].scenario
      /\ req[r].counts = NoCounts
  BY <1>1 DEF RunsInv, HasNotBegun, OwnsInstance
<1>3. /\ runs'[r].status = "RUNNING"
      /\ runs' \in [Requests -> [status : {"ABSENT", "RUNNING", "SUCCEEDED"}, counts : Counts]]
      /\ \A s \in Requests \ {r} : runs'[s] = runs[s]
  BY DEF StartOwn, RunsInv, TypeOK
<1>4. /\ req'[r] = [req[r] EXCEPT !.pc = "list"]
      /\ \A s \in Requests \ {r} : req'[s] = req[s]
      /\ DOMAIN req' = Requests
  BY DEF StartOwn, Goto, RunsInv, TypeOK
<1>5. /\ IsLocals(req'[r]) /\ req'[r].pc = "list" /\ req'[r].scenario
      /\ req'[r].import = req[r].import /\ req'[r].counts = req[r].counts
  <2>1. PICK q : q = req[r]
    OBVIOUS
  <2>2. req'[r] = [q EXCEPT !.pc = "list"] /\ IsLocals(q)
    BY <1>1, <1>4, <2>1
  <2>3. /\ IsLocals(req'[r]) /\ req'[r].pc = "list" /\ req'[r].scenario = q.scenario
        /\ req'[r].import = q.import /\ req'[r].counts = q.counts
    BY <2>2 DEF IsLocals
  <2> QED
    BY <1>2, <2>1, <2>3
<1>6. \A s : CasesOf(s)' = CasesOf(s)
  BY <1>1 DEF CasesOf
<1>7. /\ cases' \subseteq CaseRow /\ DOMAIN seen' = Requests
      /\ \A e \in audited' : \E c \in cases' : e = <<c.run, c.payment>>
  BY <1>1 DEF RunsInv, TypeOK
<1>8. CasesAreOnce'
  BY <1>1 DEF RunsInv, CasesAreOnce
<1>9. (IsAccounted(r) /\ HasNotBegun(r) /\ IsUnderWay(r) /\ IsLinking(r) /\ OwnsInstance(r))'
  BY <1>1, <1>2, <1>3, <1>5, <1>6
  DEF IsAccounted, HasNotBegun, IsUnderWay, IsLinking, OwnsInstance, At
<1> QED
  BY <1>1, <1>3, <1>4, <1>5, <1>6, <1>7, <1>8, <1>9, LocalStepKeeps

----------------------------------------------------------------------------
(* The actions of a run.                                                   *)

(* The captured payments are finitely many rows, each with an id of its    *)
(* own.                                                                    *)
LEMMA CapturedAreOnce ==
  ASSUME RunsInv, NEW i
  PROVE  /\ IsFiniteSet(Captured(i)) /\ Cardinality(Captured(i)) \in Nat
         /\ \A x \in Captured(i) : x.id \in IdsIn(store, "PAYMENT")
         /\ \A x, y \in Captured(i) : x.id = y.id => x = y
<1>1. Captured(i) \subseteq OfKind(store, "PAYMENT")
  BY DEF Captured
<1>2. IsFiniteSet(Captured(i))
  BY <1>1, FS_Subset DEF RunsInv, PaymentsAreOnce
<1> QED
  BY <1>1, <1>2, FS_CardinalityType DEF RunsInv, PaymentsAreOnce, IdsIn

LEMMA ListKeeps ==
  ASSUME RunsInv, NEW r \in Requests, List(r)
  PROVE  RunsInv'
<1>1. PICK q : q = req[r]
  OBVIOUS
<1>2. /\ q.pc = "list" /\ IsLocals(q)
      /\ UNCHANGED <<store, runs, cases, audited, scenarios, seen>>
  BY <1>1, AtIsTyped DEF List, At
<1>3. /\ CasesOf(r) = {} /\ runs[r].status = "RUNNING" /\ q.counts = NoCounts
  BY <1>1, <1>2 DEF RunsInv, HasNotBegun, At
<1>4. PICK todo \in Selected(q.import) :
        req' = [req EXCEPT ![r] = [q EXCEPT !.todo = todo, !.pc = "next"]]
  BY <1>1 DEF List
<1>5. /\ req'[r] = [q EXCEPT !.todo = todo, !.pc = "next"]
      /\ \A s \in Requests \ {r} : req'[s] = req[s]
      /\ DOMAIN req' = Requests /\ DOMAIN seen' = Requests
  BY <1>2, <1>4 DEF RunsInv, TypeOK
<1>6. /\ IsLocals(req'[r]) /\ req'[r].pc = "next" /\ req'[r].todo = todo
      /\ req'[r].import = q.import /\ req'[r].scenario = q.scenario
      /\ req'[r].counts = q.counts
  BY <1>2, <1>5 DEF IsLocals
<1>7. \A s : CasesOf(s)' = CasesOf(s)
  BY <1>2 DEF CasesOf
<1>8. Captured(q.import)' = Captured(q.import) /\ Quota(q.import)' = Quota(q.import)
  BY <1>2 DEF Captured, OfKind, Quota
<1>9. /\ IsFiniteSet(todo) /\ todo \subseteq Captured(q.import)
      /\ Cardinality(todo) = Quota(q.import)
      /\ Quota(q.import) <= MaxPayments /\ Quota(q.import) \in Nat
  <2>1. todo \subseteq Captured(q.import) /\ Cardinality(todo) = Quota(q.import)
    BY DEF Selected, Quota
  <2>2. IsFiniteSet(Captured(q.import)) /\ Cardinality(Captured(q.import)) \in Nat
    BY CapturedAreOnce
  <2> QED
    BY <2>1, <2>2, FS_Subset, RunsAssumption DEF Quota, Smaller
<1>10. Pending(r)' = todo
  BY <1>6 DEF Pending, At
<1>11. IsUnderWay(r)'
  <2>1. Cardinality({}) = 0
    BY FS_EmptySet
  <2>2. req'[r].counts.evaluated = 0 /\ req'[r].counts.reconciled = 0 /\ req'[r].counts.residual = 0
    BY <1>3, <1>6 DEF NoCounts
  <2>3. Captured(req[r].import)' = Captured(q.import) /\ Quota(req[r].import)' = Quota(q.import)
    BY <1>6, <1>8 DEF Captured, Quota
  <2>4. CasesOf(r)' = {} /\ runs'[r].status = "RUNNING"
    BY <1>2, <1>3, <1>7
  <2>5. req'[r].counts.evaluated + Cardinality(Pending(r)') = Quota(q.import)
    BY <1>9, <1>10, <2>2
  <2>6. (~At(r, "query") /\ ~At(r, "audit"))'
    BY <1>6 DEF At
  <2> QED
    BY <1>9, <1>10, <2>1, <2>2, <2>3, <2>4, <2>5, <2>6 DEF IsUnderWay, CasesAmong
<1>12. (HasNotBegun(r) /\ IsLinking(r) /\ OwnsInstance(r))'
  <2>1. q.scenario => q.import \in Scenarios /\ scenarios[q.import].run = r
                       /\ scenarios[q.import].status = "RUNNING"
    BY <1>1, <1>2 DEF RunsInv, OwnsInstance
  <2> QED
    BY <1>2, <1>6, <2>1 DEF HasNotBegun, IsLinking, OwnsInstance, At
<1> QED
  BY <1>1, <1>2, <1>5, <1>6, <1>11, <1>12, QuietStepKeeps

(* What a run under way relies on, with its locals named.                  *)
LEMMA UnderWayFacts ==
  ASSUME RunsInv, NEW r \in Requests, req[r].pc \in {"next", "query", "audit"},
         NEW q, q = req[r], NEW i, i = q.import,
         NEW captured, captured = Captured(i),
         NEW pending, pending = Pending(r), NEW n, n = Cardinality(pending)
  PROVE  /\ IsLocals(q) /\ q.counts \in Counts /\ n \in Nat
         /\ runs[r].status = "RUNNING"
         /\ q.counts.evaluated = q.counts.reconciled + q.counts.residual
         /\ q.counts.residual = Cardinality(CasesOf(r))
         /\ q.counts.evaluated + n <= MaxPayments
         /\ q.scenario => q.counts.evaluated + n = Quota(i)
         /\ IsFiniteSet(pending) /\ pending \subseteq captured
         /\ \A c \in CasesOf(r) : \E x \in captured : x.id = c.payment
         /\ \A c \in CasesOf(r) : \A x \in pending : c.payment # x.id
         /\ \A c \in CasesOf(r) :
              \/ <<r, c.payment>> \in audited
              \/ q.pc = "audit" /\ c.payment = q.unit.payment.id
         /\ q.pc = "query" =>
              DOMAIN q.unit = {"payment", "rows"} /\ q.unit.payment \notin q.todo
         /\ q.pc = "audit" => \E c \in CasesOf(r) : c.payment = q.unit.payment.id
         /\ q.scenario =>
              i \in Scenarios /\ scenarios[i].run = r /\ scenarios[i].status = "RUNNING"
<1>1. IsUnderWay(r) /\ OwnsInstance(r) /\ IsLocals(q)
  BY AtIsTyped DEF RunsInv
<1>2. q.counts \in Counts /\ n \in Nat
  BY <1>1, FS_CardinalityType DEF IsLocals, IsUnderWay
<1>3. /\ runs[r].status = "RUNNING"
      /\ q.counts.evaluated = q.counts.reconciled + q.counts.residual
      /\ q.counts.residual = Cardinality(CasesOf(r))
      /\ q.counts.evaluated + n <= MaxPayments
      /\ q.scenario => q.counts.evaluated + n = Quota(i)
      /\ IsFiniteSet(pending) /\ pending \subseteq captured
  BY <1>1 DEF IsUnderWay
<1>4. /\ \A c \in CasesOf(r) : \E x \in captured : x.id = c.payment
      /\ \A c \in CasesOf(r) : \A x \in pending : c.payment # x.id
  BY <1>1 DEF IsUnderWay, CasesAmong
<1>5. /\ \A c \in CasesOf(r) :
           \/ <<r, c.payment>> \in audited
           \/ q.pc = "audit" /\ c.payment = q.unit.payment.id
      /\ q.pc = "query" =>
           DOMAIN q.unit = {"payment", "rows"} /\ q.unit.payment \notin q.todo
      /\ q.pc = "audit" => \E c \in CasesOf(r) : c.payment = q.unit.payment.id
  BY <1>1 DEF IsUnderWay, At
<1>6. q.scenario =>
        i \in Scenarios /\ scenarios[i].run = r /\ scenarios[i].status = "RUNNING"
  BY <1>1 DEF OwnsInstance
<1> QED
  BY <1>1, <1>2, <1>3, <1>4, <1>5, <1>6

(* A step that leaves a run under way what it is over, and the tables,     *)
(* keeps what it relies on if its counts and what is pending add up.       *)
LEMMA StaysUnderWay ==
  ASSUME RunsInv, NEW r \in Requests, req[r].pc \in {"next", "query", "audit"},
         UNCHANGED <<store, scenarios>>, runs'[r] = runs[r],
         req'[r].pc \in {"next", "query", "audit"},
         req'[r].import = req[r].import, req'[r].scenario = req[r].scenario,
         NEW k, k = req'[r].counts,
         NEW pending, pending = Pending(r)', pending \subseteq Pending(r),
         NEW old, old = CasesOf(r), NEW new, new = CasesOf(r)',
         k.evaluated = k.reconciled + k.residual,
         k.residual = Cardinality(new),
         k.evaluated + Cardinality(pending) =
           req[r].counts.evaluated + Cardinality(Pending(r)),
         \A c \in new : \/ c \in old
                        \/ \E x \in Pending(r) : x.id = c.payment,
         \A c \in new : \A x \in pending : c.payment # x.id,
         \A c \in new : \/ <<r, c.payment>> \in audited'
                        \/ req'[r].pc = "audit" /\ c.payment = req'[r].unit.payment.id,
         req'[r].pc = "query" =>
           /\ DOMAIN req'[r].unit = {"payment", "rows"}
           /\ req'[r].unit.payment \notin req'[r].todo,
         req'[r].pc = "audit" => \E c \in new : c.payment = req'[r].unit.payment.id
  PROVE  (HasNotBegun(r) /\ IsUnderWay(r) /\ IsLinking(r) /\ OwnsInstance(r))'
<1>1. PICK q, i : q = req[r] /\ i = q.import
  OBVIOUS
<1>2. /\ Captured(i)' = Captured(i) /\ Quota(i)' = Quota(i)
  BY DEF Captured, OfKind, Quota
<1>3. Captured(req[r].import)' = Captured(i) /\ Quota(req[r].import)' = Quota(i)
  BY <1>1, <1>2 DEF Captured, Quota
<1>4. /\ IsUnderWay(r) /\ OwnsInstance(r)
      /\ Pending(r) \subseteq Captured(i)
      /\ CasesAmong(r, Captured(i))
      /\ runs[r].status = "RUNNING" /\ IsFiniteSet(Pending(r))
  BY <1>1 DEF RunsInv, IsUnderWay
<1>5. IsFiniteSet(pending) /\ pending \subseteq Captured(i)
  BY <1>4, FS_Subset
<1>6. \A c \in new : \E x \in Captured(i) : x.id = c.payment
  BY <1>4 DEF CasesAmong
<1>7. k.evaluated + Cardinality(pending) <= MaxPayments
  BY <1>4 DEF IsUnderWay
<1>8. req[r].scenario => k.evaluated + Cardinality(pending) = Quota(i)
  BY <1>1, <1>4 DEF IsUnderWay
<1>9. IsUnderWay(r)'
  BY <1>3, <1>4, <1>5, <1>6, <1>7, <1>8 DEF IsUnderWay, CasesAmong, At
<1>10. (HasNotBegun(r) /\ IsLinking(r))'
  BY DEF HasNotBegun, IsLinking, At
<1>11. OwnsInstance(r)'
  BY <1>4 DEF OwnsInstance
<1> QED
  BY <1>9, <1>10, <1>11

LEMMA LoadUnitKeeps ==
  ASSUME RunsInv, NEW r \in Requests, NEW p, LoadUnit(r, p)
  PROVE  RunsInv'
<1>1. PICK q : q = req[r]
  OBVIOUS
<1>2. /\ q.pc = "next" /\ IsLocals(q) /\ p \in q.todo
      /\ UNCHANGED <<store, runs, cases, audited, scenarios>>
  BY <1>1, AtIsTyped DEF LoadUnit, At
<1>3. PICK unit, seen1 :
        /\ unit = [payment |-> p, rows |-> [k \in Queries |-> {}]]
        /\ req' = [req EXCEPT ![r] = [q EXCEPT !.pc = "query", !.todo = @ \ {p},
                                               !.left = Queries, !.unit = unit]]
        /\ seen' = [seen EXCEPT ![r] = seen1]
  BY <1>1 DEF LoadUnit
<1>4. /\ req'[r] = [q EXCEPT !.pc = "query", !.todo = @ \ {p}, !.left = Queries, !.unit = unit]
      /\ \A s \in Requests \ {r} : req'[s] = req[s]
      /\ DOMAIN req' = Requests /\ DOMAIN seen' = Requests
  BY <1>3 DEF RunsInv, TypeOK
<1>5. /\ IsLocals(req'[r]) /\ req'[r].pc = "query" /\ req'[r].todo = q.todo \ {p}
      /\ req'[r].import = q.import /\ req'[r].scenario = q.scenario
      /\ req'[r].counts = q.counts /\ req'[r].unit = unit
  BY <1>2, <1>4 DEF IsLocals
<1>6. unit.payment = p /\ DOMAIN unit = {"payment", "rows"}
  BY <1>3
<1>7. \A s : CasesOf(s)' = CasesOf(s)
  BY <1>2 DEF CasesOf
<1>8. Pending(r) = q.todo /\ Pending(r)' = q.todo
  BY <1>1, <1>2, <1>5, <1>6 DEF Pending, At
<1>9. IsUnderWay(r)
  BY DEF RunsInv
<1>10. (HasNotBegun(r) /\ IsUnderWay(r) /\ IsLinking(r) /\ OwnsInstance(r))'
  <2>1. /\ q.counts.evaluated = q.counts.reconciled + q.counts.residual
        /\ q.counts.residual = Cardinality(CasesOf(r))
        /\ \A c \in CasesOf(r) : \A x \in q.todo : c.payment # x.id
        /\ \A c \in CasesOf(r) : <<r, c.payment>> \in audited
    BY <1>1, <1>2, <1>8, <1>9 DEF IsUnderWay, At
  <2> QED
    BY <1>1, <1>2, <1>5, <1>6, <1>7, <1>8, <2>1, StaysUnderWay
<1> QED
  BY <1>1, <1>2, <1>4, <1>5, <1>10, QuietStepKeeps

LEMMA QueryKeeps ==
  ASSUME RunsInv, NEW r \in Requests, NEW k \in Queries, Query(r, k)
  PROVE  RunsInv'
<1>1. PICK q : q = req[r]
  OBVIOUS
<1>2. /\ q.pc = "query" /\ IsLocals(q)
      /\ UNCHANGED <<store, runs, cases, audited, scenarios, seen>>
  BY <1>1, AtIsTyped DEF Query, At
<1>3. PICK rows, unit :
        /\ unit = [q.unit EXCEPT !.rows = rows]
        /\ req' = [req EXCEPT ![r] = [q EXCEPT !.left = @ \ {k}, !.unit = unit]]
  BY <1>1 DEF Query
<1>4. /\ req'[r] = [q EXCEPT !.left = @ \ {k}, !.unit = unit]
      /\ \A s \in Requests \ {r} : req'[s] = req[s]
      /\ DOMAIN req' = Requests /\ DOMAIN seen' = Requests
  BY <1>2, <1>3 DEF RunsInv, TypeOK
<1>5. /\ IsLocals(req'[r]) /\ req'[r].pc = "query" /\ req'[r].todo = q.todo
      /\ req'[r].import = q.import /\ req'[r].scenario = q.scenario
      /\ req'[r].counts = q.counts /\ req'[r].unit = unit
  BY <1>2, <1>4 DEF IsLocals
<1>6. IsUnderWay(r)
  BY DEF RunsInv
<1>7. /\ DOMAIN q.unit = {"payment", "rows"} /\ q.unit.payment \notin q.todo
      /\ q.counts.evaluated = q.counts.reconciled + q.counts.residual
      /\ q.counts.residual = Cardinality(CasesOf(r))
      /\ \A c \in CasesOf(r) : \A x \in Pending(r) : c.payment # x.id
      /\ \A c \in CasesOf(r) : <<r, c.payment>> \in audited
  BY <1>1, <1>2, <1>6 DEF IsUnderWay, At
<1>8. unit.payment = q.unit.payment /\ DOMAIN unit = {"payment", "rows"}
  BY <1>3, <1>7
<1>9. \A s : CasesOf(s)' = CasesOf(s)
  BY <1>2 DEF CasesOf
<1>10. Pending(r)' = Pending(r)
  BY <1>1, <1>2, <1>5, <1>8 DEF Pending, At
<1>11. (HasNotBegun(r) /\ IsUnderWay(r) /\ IsLinking(r) /\ OwnsInstance(r))'
  BY <1>1, <1>2, <1>5, <1>7, <1>8, <1>9, <1>10, StaysUnderWay
<1> QED
  BY <1>1, <1>2, <1>4, <1>5, <1>11, QuietStepKeeps

(* The payment of the loaded unit is one less to evaluate.                 *)
LEMMA OneLess ==
  ASSUME RunsInv, NEW r \in Requests, req[r].pc = "query"
  PROVE  /\ req[r].todo \subseteq Pending(r) /\ req[r].unit.payment \in Pending(r)
         /\ Cardinality(req[r].todo) \in Nat
         /\ Cardinality(Pending(r)) = Cardinality(req[r].todo) + 1
<1>1. /\ IsFiniteSet(Pending(r))
      /\ req[r].unit.payment \notin req[r].todo
      /\ Pending(r) = req[r].todo \cup {req[r].unit.payment}
  BY DEF RunsInv, IsUnderWay, Pending, At
<1>2. IsFiniteSet(req[r].todo)
  BY <1>1, FS_Subset
<1> QED
  BY <1>1, <1>2, FS_AddElement, FS_CardinalityType

(* Counting a payment.                                                     *)
LEMMA CountedOnce ==
  ASSUME NEW k \in Counts, NEW field \in {"reconciled", "residual"}
  PROVE  /\ Evaluated(k, field) \in Counts
         /\ Evaluated(k, field).evaluated = k.evaluated + 1
         /\ Evaluated(k, field)[field] = k[field] + 1
         /\ \A other \in {"reconciled", "residual"} \ {field} :
              Evaluated(k, field)[other] = k[other]
<1> DEFINE one == [k EXCEPT !.evaluated = @ + 1]
           two == [one EXCEPT ![field] = @ + 1]
<1>1. /\ one \in Counts /\ one.evaluated = k.evaluated + 1
      /\ one.reconciled = k.reconciled /\ one.residual = k.residual
  BY DEF Counts
<1>2. /\ two \in Counts /\ two.evaluated = one.evaluated
      /\ two[field] = one[field] + 1
      /\ \A other \in {"reconciled", "residual"} \ {field} : two[other] = one[other]
  <2> HIDE DEF one
  <2>1. CASE field = "reconciled"
    BY <1>1, <2>1 DEF Counts
  <2>2. CASE field = "residual"
    BY <1>1, <2>2 DEF Counts
  <2> QED
    BY <2>1, <2>2
<1>3. Evaluated(k, field) = two
  BY DEF Evaluated
<1> QED
  BY <1>1, <1>2, <1>3

LEMMA CleanKeeps ==
  ASSUME RunsInv, NEW r \in Requests, Clean(r)
  PROVE  RunsInv'
<1>1. PICK q : q = req[r]
  OBVIOUS
<1>2. /\ q.pc = "query" /\ IsLocals(q) /\ q.counts \in Counts
      /\ UNCHANGED <<store, runs, cases, audited, scenarios, seen>>
  BY <1>1, AtIsTyped DEF Clean, Loaded, At, IsLocals
<1>3. PICK counts :
        /\ counts = Evaluated(q.counts, "reconciled")
        /\ req' = [req EXCEPT ![r] = [q EXCEPT !.pc = "next", !.counts = counts]]
  BY <1>1, <1>2 DEF Clean, IsLocals
<1>4. /\ req'[r] = [q EXCEPT !.pc = "next", !.counts = counts]
      /\ \A s \in Requests \ {r} : req'[s] = req[s]
      /\ DOMAIN req' = Requests /\ DOMAIN seen' = Requests
  BY <1>2, <1>3 DEF RunsInv, TypeOK
<1>5. /\ counts \in Counts
      /\ counts.evaluated = q.counts.evaluated + 1
      /\ counts.reconciled = q.counts.reconciled + 1
      /\ counts.residual = q.counts.residual
  BY <1>2, <1>3, CountedOnce
<1>6. /\ IsLocals(req'[r]) /\ req'[r].pc = "next" /\ req'[r].todo = q.todo
      /\ req'[r].import = q.import /\ req'[r].scenario = q.scenario
      /\ req'[r].counts = counts
  BY <1>2, <1>4, <1>5 DEF IsLocals
<1>7. \A s : CasesOf(s)' = CasesOf(s)
  BY <1>2 DEF CasesOf
<1>8. Pending(r)' = q.todo
  BY <1>6 DEF Pending, At
<1>9. /\ q.counts.evaluated = q.counts.reconciled + q.counts.residual
      /\ q.counts.residual = Cardinality(CasesOf(r))
      /\ \A c \in CasesOf(r) : \A x \in Pending(r) : c.payment # x.id
      /\ \A c \in CasesOf(r) : <<r, c.payment>> \in audited
  BY <1>1, <1>2 DEF RunsInv, IsUnderWay, At
<1>10. /\ q.todo \subseteq Pending(r) /\ Cardinality(q.todo) \in Nat
       /\ Cardinality(Pending(r)) = Cardinality(q.todo) + 1
  BY <1>1, <1>2, OneLess
<1>11. /\ counts.evaluated = counts.reconciled + counts.residual
       /\ counts.evaluated + Cardinality(q.todo) = q.counts.evaluated + Cardinality(Pending(r))
  BY <1>2, <1>5, <1>9, <1>10 DEF Counts
<1>12. (HasNotBegun(r) /\ IsUnderWay(r) /\ IsLinking(r) /\ OwnsInstance(r))'
  BY <1>1, <1>2, <1>5, <1>6, <1>7, <1>8, <1>9, <1>10, <1>11, StaysUnderWay
<1> QED
  BY <1>1, <1>2, <1>4, <1>6, <1>12, QuietStepKeeps

LEMMA CreateCaseKeeps ==
  ASSUME RunsInv, NEW r \in Requests, CreateCase(r)
  PROVE  RunsInv'
<1>1. PICK q : q = req[r]
  OBVIOUS
<1>2. /\ q.pc = "query" /\ IsLocals(q) /\ q.counts \in Counts
      /\ UNCHANGED <<store, runs, audited, scenarios, seen>>
  BY <1>1, AtIsTyped DEF CreateCase, Loaded, At, IsLocals
<1>3. PICK counts, p, case :
        /\ counts = Evaluated(q.counts, "residual")
        /\ p = q.unit.payment
        /\ case = [run |-> r, payment |-> p.id, scenario |-> FALSE]
        /\ cases' = cases \cup {case}
        /\ req' = [req EXCEPT ![r] = [q EXCEPT !.pc = "audit", !.counts = counts]]
  BY <1>1, <1>2 DEF CreateCase, CaseOf, IsLocals
<1>4. /\ req'[r] = [q EXCEPT !.pc = "audit", !.counts = counts]
      /\ \A s \in Requests \ {r} : req'[s] = req[s]
      /\ DOMAIN req' = Requests /\ DOMAIN seen' = Requests
  BY <1>2, <1>3 DEF RunsInv, TypeOK
<1>5. /\ counts \in Counts
      /\ counts.evaluated = q.counts.evaluated + 1
      /\ counts.residual = q.counts.residual + 1
      /\ counts.reconciled = q.counts.reconciled
  BY <1>2, <1>3, CountedOnce
<1>6. /\ IsLocals(req'[r]) /\ req'[r].pc = "audit" /\ req'[r].todo = q.todo
      /\ req'[r].import = q.import /\ req'[r].scenario = q.scenario
      /\ req'[r].counts = counts /\ req'[r].unit = q.unit
  BY <1>2, <1>4, <1>5 DEF IsLocals
<1>7. Pending(r)' = q.todo
  BY <1>6 DEF Pending, At
<1>8. PICK pending, old, new :
        pending = Pending(r) /\ old = CasesOf(r) /\ new = CasesOf(r)'
  OBVIOUS
<1>9. /\ q.counts.evaluated = q.counts.reconciled + q.counts.residual
      /\ q.counts.residual = Cardinality(old)
      /\ p \notin q.todo /\ pending \subseteq Captured(q.import)
      /\ \A c \in old : \A x \in pending : c.payment # x.id
      /\ \A c \in old : <<r, c.payment>> \in audited
      /\ runs[r].status = "RUNNING"
  BY <1>1, <1>2, <1>3, <1>8 DEF RunsInv, IsUnderWay, At
<1>10. /\ q.todo \subseteq pending /\ p \in pending /\ Cardinality(q.todo) \in Nat
       /\ Cardinality(pending) = Cardinality(q.todo) + 1
  BY <1>1, <1>2, <1>3, <1>8, OneLess
<1>11. /\ p.id \in IdsIn(store, "PAYMENT")
       /\ \A x \in q.todo : x.id # p.id
  BY <1>9, <1>10, CapturedAreOnce
<1>12. case \in CaseRow /\ case.run = r /\ case.payment = p.id
  BY <1>3, <1>11 DEF CaseRow
<1>13. case \notin old /\ new = old \cup {case}
  BY <1>3, <1>8, <1>9, <1>10, <1>12 DEF CasesOf
<1>14. IsFiniteSet(old) /\ Cardinality(old) \in Nat /\ Cardinality(new) = Cardinality(old) + 1
  <2>1. IsFiniteSet(old)
    BY <1>8, FS_Subset DEF CasesOf, RunsInv, CasesAreOnce
  <2> QED
    BY <1>13, <2>1, FS_AddElement, FS_CardinalityType
<1>15. \A s \in Requests \ {r} : CasesOf(s)' = CasesOf(s)
  BY <1>3, <1>12 DEF CasesOf
<1>16. cases' \subseteq CaseRow /\ \A e \in audited' : \E c \in cases' : e = <<c.run, c.payment>>
  BY <1>2, <1>3, <1>12 DEF RunsInv, TypeOK
<1>17. CasesAreOnce'
  <2>1. IsFiniteSet(cases')
    BY <1>3, FS_AddElement DEF RunsInv, CasesAreOnce
  <2>2. \A c \in cases : c.run = r => c.payment # p.id
    BY <1>8, <1>9, <1>10 DEF CasesOf
  <2>3. \A c, d \in cases : c.run = d.run /\ c.payment = d.payment => c = d
    BY DEF RunsInv, CasesAreOnce
  <2>4. ASSUME NEW c \in cases', NEW d \in cases', c.run = d.run, c.payment = d.payment
        PROVE  c = d
    <3>1. (c \in cases \/ c = case) /\ (d \in cases \/ d = case)
      BY <1>3
    <3>2. CASE c \in cases /\ d \in cases
      BY <2>3, <2>4, <3>2
    <3>3. CASE c = case \/ d = case
      BY <1>12, <2>2, <2>4, <3>1, <3>3
    <3> QED
      BY <3>1, <3>2, <3>3
  <2> QED
    BY <2>1, <2>4 DEF CasesAreOnce
<1>18. /\ counts.evaluated = counts.reconciled + counts.residual
       /\ counts.residual = Cardinality(new)
       /\ counts.evaluated + Cardinality(q.todo) = q.counts.evaluated + Cardinality(pending)
  BY <1>2, <1>5, <1>9, <1>10, <1>14 DEF Counts
<1>19. /\ \A c \in new : c \in old \/ \E x \in pending : x.id = c.payment
       /\ \A c \in new : \A x \in q.todo : c.payment # x.id
       /\ \A c \in new : <<r, c.payment>> \in audited' \/ c.payment = q.unit.payment.id
       /\ \E c \in new : c.payment = q.unit.payment.id
  BY <1>2, <1>3, <1>9, <1>10, <1>11, <1>12, <1>13
<1>20. (HasNotBegun(r) /\ IsUnderWay(r) /\ IsLinking(r) /\ OwnsInstance(r))'
  <2>1. runs'[r] = runs[r] /\ UNCHANGED <<store, scenarios>>
    BY <1>2
  <2> QED
    BY <1>1, <1>2, <1>6, <1>7, <1>8, <1>10, <1>18, <1>19, <2>1, StaysUnderWay
<1>21. IsAccounted(r)'
  BY <1>2, <1>9 DEF IsAccounted
<1> QED
  BY <1>1, <1>2, <1>4, <1>6, <1>15, <1>16, <1>17, <1>20, <1>21, LocalStepKeeps

LEMMA AuditCaseKeeps ==
  ASSUME RunsInv, NEW r \in Requests, AuditCase(r)
  PROVE  RunsInv'
<1>1. PICK q : q = req[r]
  OBVIOUS
<1>2. /\ q.pc = "audit" /\ IsLocals(q)
      /\ UNCHANGED <<store, runs, cases, scenarios, seen>>
  BY <1>1, AtIsTyped DEF AuditCase, At
<1>3. /\ audited' = audited \cup {<<r, q.unit.payment.id>>}
      /\ req' = [req EXCEPT ![r] = [q EXCEPT !.pc = "next"]]
  BY <1>1 DEF AuditCase, Goto
<1>4. /\ req'[r] = [q EXCEPT !.pc = "next"]
      /\ \A s \in Requests \ {r} : req'[s] = req[s]
      /\ DOMAIN req' = Requests /\ DOMAIN seen' = Requests
  BY <1>2, <1>3 DEF RunsInv, TypeOK
<1>5. /\ IsLocals(req'[r]) /\ req'[r].pc = "next" /\ req'[r].todo = q.todo
      /\ req'[r].import = q.import /\ req'[r].scenario = q.scenario
      /\ req'[r].counts = q.counts
  BY <1>2, <1>4 DEF IsLocals
<1>6. \A s : CasesOf(s)' = CasesOf(s)
  BY <1>2 DEF CasesOf
<1>7. Pending(r) = q.todo /\ Pending(r)' = q.todo
  BY <1>1, <1>2, <1>5 DEF Pending, At
<1>8. /\ q.counts.evaluated = q.counts.reconciled + q.counts.residual
      /\ q.counts.residual = Cardinality(CasesOf(r))
      /\ \A c \in CasesOf(r) : \A x \in Pending(r) : c.payment # x.id
      /\ \A c \in CasesOf(r) : <<r, c.payment>> \in audited \/ c.payment = q.unit.payment.id
      /\ runs[r].status = "RUNNING"
  BY <1>1, <1>2 DEF RunsInv, IsUnderWay, At
<1>9. PICK c \in CasesOf(r) : c.payment = q.unit.payment.id
  BY <1>1, <1>2 DEF RunsInv, IsUnderWay, At
<1>10. c.run = r /\ c \in cases
  BY <1>9 DEF CasesOf
<1>11. cases' \subseteq CaseRow /\ \A e \in audited' : \E d \in cases' : e = <<d.run, d.payment>>
  BY <1>2, <1>3, <1>9, <1>10 DEF RunsInv, TypeOK
<1>12. CasesAreOnce'
  BY <1>2 DEF RunsInv, CasesAreOnce
<1>13. (HasNotBegun(r) /\ IsUnderWay(r) /\ IsLinking(r) /\ OwnsInstance(r))'
  <2>1. /\ runs'[r] = runs[r] /\ UNCHANGED <<store, scenarios>>
        /\ \A d \in CasesOf(r) : <<r, d.payment>> \in audited'
    BY <1>2, <1>3, <1>8
  <2> QED
    BY <1>1, <1>2, <1>5, <1>6, <1>7, <1>8, <2>1, StaysUnderWay
<1>14. IsAccounted(r)'
  BY <1>2, <1>8 DEF IsAccounted
<1> QED
  BY <1>1, <1>2, <1>3, <1>4, <1>5, <1>6, <1>11, <1>12, <1>13, <1>14, LocalStepKeeps

LEMMA CompleteRunKeeps ==
  ASSUME RunsInv, NEW r \in Requests, CompleteRun(r)
  PROVE  RunsInv'
<1>1. PICK q : q = req[r]
  OBVIOUS
<1>2. /\ q.pc = "next" /\ IsLocals(q) /\ q.todo = {} /\ q.counts \in Counts
      /\ q.scenario \in BOOLEAN
      /\ UNCHANGED <<store, cases, audited, scenarios, seen>>
  BY <1>1, AtIsTyped DEF CompleteRun, At, IsLocals
<1>3. /\ runs'[r] = [status |-> "SUCCEEDED", counts |-> q.counts]
      /\ runs' \in [Requests -> [status : {"ABSENT", "RUNNING", "SUCCEEDED"}, counts : Counts]]
      /\ \A s \in Requests \ {r} : runs'[s] = runs[s]
  BY <1>1, <1>2 DEF CompleteRun, RunsInv, TypeOK
<1>4. /\ req'[r] = IF q.scenario THEN [q EXCEPT !.pc = "link"] ELSE Done
      /\ \A s \in Requests \ {r} : req'[s] = req[s]
      /\ DOMAIN req' = Requests /\ DOMAIN seen' = Requests
  BY <1>1, <1>2 DEF CompleteRun, Goto, RunsInv, TypeOK
<1>5. \A s : CasesOf(s)' = CasesOf(s)
  BY <1>2 DEF CasesOf
<1>6. /\ cases' \subseteq CaseRow
      /\ \A e \in audited' : \E c \in cases' : e = <<c.run, c.payment>>
      /\ CasesAreOnce'
  BY <1>2 DEF RunsInv, TypeOK, CasesAreOnce
<1>7. Cardinality(Pending(r)) = 0
  <2>1. Pending(r) = {}
    BY <1>1, <1>2 DEF Pending, At
  <2> QED
    BY <2>1, FS_EmptySet
<1>8. IsUnderWay(r)
  BY DEF RunsInv
<1>9. /\ q.counts.evaluated = q.counts.reconciled + q.counts.residual
      /\ q.counts.residual = Cardinality(CasesOf(r))
      /\ q.counts.evaluated <= MaxPayments
      /\ q.scenario => q.counts.evaluated = Quota(q.import)
      /\ \A c \in CasesOf(r) : <<r, c.payment>> \in audited
      /\ CasesAmong(r, Captured(q.import))
  BY <1>1, <1>2, <1>7, <1>8 DEF IsUnderWay, At, Counts
<1>10. IsAccounted(r)'
  BY <1>2, <1>3, <1>5, <1>9 DEF IsAccounted
<1>11. CASE q.scenario
  <2>1. /\ IsLocals(req'[r]) /\ req'[r].pc = "link" /\ req'[r].scenario
        /\ req'[r].import = q.import
    BY <1>2, <1>4, <1>11 DEF IsLocals
  <2>2. Captured(req[r].import)' = Captured(q.import) /\ Quota(req[r].import)' = Quota(q.import)
    BY <1>2, <2>1 DEF Captured, OfKind, Quota
  <2>3. IsLinking(r)'
    BY <1>3, <1>5, <1>9, <1>11, <2>1, <2>2 DEF IsLinking, CasesAmong, At
  <2>4. OwnsInstance(r)'
    BY <1>1, <1>2, <1>11, <2>1 DEF RunsInv, OwnsInstance
  <2>5. (HasNotBegun(r) /\ IsUnderWay(r))'
    BY <2>1 DEF HasNotBegun, IsUnderWay, At
  <2> QED
    BY <1>1, <1>2, <1>3, <1>4, <1>5, <1>6, <1>10, <2>1, <2>3, <2>4, <2>5, LocalStepKeeps
<1>12. CASE ~q.scenario
  <2>1. req'[r] = Done /\ req'[r].pc = "done"
    BY <1>4, <1>12 DEF Done
  <2>2. (HasNotBegun(r) /\ IsUnderWay(r) /\ IsLinking(r) /\ OwnsInstance(r))'
    BY <2>1 DEF HasNotBegun, IsUnderWay, IsLinking, OwnsInstance, At
  <2> QED
    BY <1>1, <1>2, <1>3, <1>4, <1>5, <1>6, <1>10, <2>1, <2>2, LocalStepKeeps
<1> QED
  BY <1>2, <1>11, <1>12

----------------------------------------------------------------------------
(* The actions of a scenario after its run, and failures.                  *)

(* Linking the cases of a run to its scenario changes none of them but for *)
(* that, and loses none.                                                   *)
LEMMA LinkingKeepsCases ==
  ASSUME RunsInv, NEW r \in Requests, NEW old, old = CasesOf(r), LinkCases(r)
  PROVE  /\ cases' \subseteq CaseRow /\ CasesAreOnce'
         /\ \A s \in Requests \ {r} : CasesOf(s)' = CasesOf(s)
         /\ \A c \in CasesOf(r)' : c.scenario /\ \E d \in old : c.payment = d.payment
         /\ \A c \in cases : \E d \in cases' : d.run = c.run /\ d.payment = c.payment
         /\ IsFiniteSet(old) /\ Cardinality(CasesOf(r)') = Cardinality(old)
<1> DEFINE link(c) == [c EXCEPT !.scenario = TRUE]
           linked == {link(c) : c \in old}
           f == [c \in old |-> link(c)]
<1>0. cases' = (cases \ old) \cup linked
  BY DEF LinkCases
<1>1. /\ cases \subseteq CaseRow /\ IsFiniteSet(cases)
      /\ \A c, d \in cases : c.run = d.run /\ c.payment = d.payment => c = d
      /\ old \subseteq cases /\ \A c \in cases : c \in old <=> c.run = r
  BY DEF RunsInv, TypeOK, CasesAreOnce, CasesOf
<1>2. \A c \in cases :
        /\ link(c) \in CaseRow /\ link(c).scenario
        /\ link(c).run = c.run /\ link(c).payment = c.payment
  BY <1>1 DEF CaseRow
<1>3. \A c \in old : link(c) \in linked /\ f[c] = link(c)
  OBVIOUS
<1>4. IsFiniteSet(old)
  BY <1>1, FS_Subset
<1>5. /\ \A c \in linked : \E d \in old : c = link(d)
      /\ f = [c \in old |-> link(c)]
  OBVIOUS
<1> HIDE DEF link, linked, f
<1>6. f \in Bijection(old, linked)
  <2>1. f \in Injection(old, linked)
    BY <1>1, <1>2, <1>3, <1>5 DEF Injection, IsInjective
  <2>2. f \in Surjection(old, linked)
    BY <1>3, <1>5 DEF Surjection
  <2> QED
    BY <2>1, <2>2 DEF Bijection
<1>7. IsFiniteSet(linked) /\ Cardinality(linked) = Cardinality(old)
  BY <1>4, <1>6, FS_Bijection DEF ExistsBijection
<1>8. IsFiniteSet(cases')
  <2>1. cases \ old \subseteq cases
    OBVIOUS
  <2>2. IsFiniteSet(cases \ old)
    BY <1>1, <2>1, FS_Subset
  <2> QED
    BY <1>0, <1>7, <2>2, FS_Union
<1>9. \A c \in linked : /\ c \in CaseRow /\ c.run = r /\ c.scenario
                       /\ \E d \in old : c.payment = d.payment
  BY <1>1, <1>2, <1>5
<1>10. cases' \subseteq CaseRow
  BY <1>0, <1>1, <1>9
<1>11. \A c \in cases : \E d \in cases' : d.run = c.run /\ d.payment = c.payment
  BY <1>0, <1>2, <1>3
<1>12. ASSUME NEW c \in cases', NEW d \in cases', c.run = d.run, c.payment = d.payment
       PROVE  c = d
  <2>1. CASE c \in linked
    <3>1. d \in linked
      BY <1>0, <1>1, <1>9, <1>12, <2>1
    <3>2. PICK c1 \in old, d1 \in old : c = link(c1) /\ d = link(d1)
      BY <1>5, <2>1, <3>1
    <3>3. c1 = d1
      BY <1>1, <1>2, <1>12, <3>2
    <3> QED
      BY <3>2, <3>3
  <2>2. CASE c \notin linked
    <3>1. d \notin linked
      BY <1>0, <1>1, <1>9, <1>12, <2>2
    <3> QED
      BY <1>0, <1>1, <1>12, <2>2, <3>1
  <2> QED
    BY <2>1, <2>2
<1>13. CasesOf(r)' = linked
  BY <1>0, <1>1, <1>9 DEF CasesOf
<1>14. \A s \in Requests \ {r} : CasesOf(s)' = CasesOf(s)
  BY <1>0, <1>1, <1>9 DEF CasesOf
<1> QED
  BY <1>4, <1>7, <1>8, <1>9, <1>10, <1>11, <1>12, <1>13, <1>14 DEF CasesAreOnce

LEMMA LinkCasesKeeps ==
  ASSUME RunsInv, NEW r \in Requests, LinkCases(r)
  PROVE  RunsInv'
<1>1. PICK q, old : q = req[r] /\ old = CasesOf(r)
  OBVIOUS
<1>2. /\ q.pc = "link" /\ IsLocals(q)
      /\ UNCHANGED <<store, runs, audited, scenarios, seen>>
  BY <1>1, AtIsTyped DEF LinkCases, At
<1>3. /\ cases' \subseteq CaseRow /\ CasesAreOnce'
      /\ \A s \in Requests \ {r} : CasesOf(s)' = CasesOf(s)
      /\ \A c \in CasesOf(r)' : c.scenario /\ \E d \in old : c.payment = d.payment
      /\ \A c \in cases : \E d \in cases' : d.run = c.run /\ d.payment = c.payment
      /\ IsFiniteSet(old) /\ Cardinality(CasesOf(r)') = Cardinality(old)
  BY <1>1, LinkingKeepsCases
<1>4. PICK n \in Nat : n = Cardinality(old)
  BY <1>3, FS_CardinalityType
<1>5. /\ req'[r] = [q EXCEPT !.linked = n, !.pc = "finish"]
      /\ \A s \in Requests \ {r} : req'[s] = req[s]
      /\ DOMAIN req' = Requests /\ DOMAIN seen' = Requests
  BY <1>1, <1>2, <1>4 DEF LinkCases, RunsInv, TypeOK
<1>6. /\ IsLocals(req'[r]) /\ req'[r].pc = "finish" /\ req'[r].linked = n
      /\ req'[r].import = q.import /\ req'[r].scenario = q.scenario
  BY <1>2, <1>4, <1>5 DEF IsLocals
<1>7. \A e \in audited' : \E c \in cases' : e = <<c.run, c.payment>>
  <2>1. \A e \in audited : \E c \in cases : e = <<c.run, c.payment>>
    BY DEF RunsInv, TypeOK
  <2> QED
    BY <1>2, <1>3, <2>1
<1>8. IsLinking(r) /\ IsAccounted(r) /\ OwnsInstance(r)
  BY DEF RunsInv
<1>9. IsAccounted(r)'
  BY <1>1, <1>2, <1>3, <1>8 DEF IsAccounted
<1>10. Captured(req[r].import)' = Captured(q.import) /\ Quota(req[r].import)' = Quota(q.import)
  BY <1>2, <1>6 DEF Captured, OfKind, Quota
<1>11. IsLinking(r)'
  <2>1. /\ q.scenario /\ runs[r].status = "SUCCEEDED"
        /\ runs[r].counts.evaluated = Quota(q.import)
        /\ \A c \in old : \E x \in Captured(q.import) : x.id = c.payment
    BY <1>1, <1>2, <1>8 DEF IsLinking, CasesAmong
  <2>2. \A c \in CasesOf(r)' : \E x \in Captured(q.import) : x.id = c.payment
    BY <1>3, <2>1
  <2> QED
    BY <1>2, <1>3, <1>4, <1>6, <1>10, <2>1, <2>2 DEF IsLinking, CasesAmong
<1>12. (HasNotBegun(r) /\ IsUnderWay(r) /\ OwnsInstance(r))'
  BY <1>1, <1>2, <1>6, <1>8 DEF HasNotBegun, IsUnderWay, OwnsInstance, At
<1> QED
  BY <1>1, <1>2, <1>3, <1>5, <1>6, <1>7, <1>9, <1>11, <1>12, LocalStepKeeps

(* What a scenario whose run has succeeded relies on.                      *)
LEMMA LinkingFacts ==
  ASSUME RunsInv, NEW r \in Requests, NEW q, q = req[r],
         q.pc \in {"finish", "event", "answer"}
  PROVE  /\ IsLocals(q) /\ q.scenario /\ q.import \in Scenarios
         /\ scenarios[q.import] \in InstanceRow /\ scenarios[q.import].run = r
         /\ scenarios[q.import].status =
              IF q.pc \in {"event", "answer"} THEN "SUCCEEDED" ELSE "RUNNING"
         /\ runs[r].status = "SUCCEEDED" /\ runs[r].counts.evaluated = Quota(q.import)
         /\ q.linked = Cardinality(CasesOf(r)) /\ q.linked \in Nat
         /\ CasesAmong(r, Captured(q.import)) /\ \A c \in CasesOf(r) : c.scenario
<1>1. IsLocals(q) /\ IsLinking(r) /\ OwnsInstance(r) /\ scenarios \in [Scenarios -> InstanceRow]
  BY AtIsTyped DEF RunsInv, TypeOK
<1> QED
  BY <1>1 DEF IsLocals, IsLinking, OwnsInstance, At

(* A step of such a scenario that moves on and leaves its cases and run.   *)
LEMMA StaysLinking ==
  ASSUME RunsInv, NEW r \in Requests, req[r].pc \in {"finish", "event", "answer"},
         UNCHANGED <<store, runs, cases, audited>>,
         NEW q, q = req[r], NEW pc \in {"event", "answer"}, req'[r] = [q EXCEPT !.pc = pc],
         scenarios'[q.import].run = r, scenarios'[q.import].status = "SUCCEEDED"
  PROVE  /\ IsLocals(req'[r])
         /\ (IsAccounted(r) /\ HasNotBegun(r) /\ IsUnderWay(r) /\ IsLinking(r)
               /\ OwnsInstance(r))'
<1>1. /\ IsLocals(q) /\ q.scenario /\ q.import \in Scenarios
      /\ runs[r].status = "SUCCEEDED" /\ runs[r].counts.evaluated = Quota(q.import)
      /\ q.linked = Cardinality(CasesOf(r))
      /\ CasesAmong(r, Captured(q.import)) /\ \A c \in CasesOf(r) : c.scenario
  BY LinkingFacts
<1>2. /\ IsLocals(req'[r]) /\ req'[r].pc = pc /\ req'[r].scenario
      /\ req'[r].import = q.import /\ req'[r].linked = q.linked
  <2>1. DOMAIN q = {"pc", "import", "scenario", "todo", "left", "unit", "counts", "linked"}
    BY <1>1 DEF IsLocals
  <2>2. /\ DOMAIN req'[r] = DOMAIN q /\ req'[r].pc = pc
        /\ req'[r].import = q.import /\ req'[r].scenario = q.scenario
        /\ req'[r].counts = q.counts /\ req'[r].linked = q.linked
    BY <2>1
  <2> QED
    BY <1>1, <2>2 DEF IsLocals
<1>3. CasesOf(r)' = CasesOf(r) /\ runs'[r] = runs[r]
  BY DEF CasesOf
<1>4. Captured(req[r].import)' = Captured(q.import) /\ Quota(req[r].import)' = Quota(q.import)
  BY <1>2 DEF Captured, OfKind, Quota
<1>5. IsLinking(r)'
  BY <1>1, <1>2, <1>3, <1>4 DEF IsLinking, CasesAmong
<1>6. (HasNotBegun(r) /\ IsUnderWay(r) /\ OwnsInstance(r))'
  BY <1>1, <1>2 DEF HasNotBegun, IsUnderWay, OwnsInstance, At
<1>7. IsAccounted(r)'
  BY <1>3 DEF RunsInv, IsAccounted
<1> QED
  BY <1>2, <1>5, <1>6, <1>7

(* What a request that leaves the tables as they are need not show again.  *)
LEMMA TablesStay ==
  ASSUME RunsInv, UNCHANGED <<cases, audited>>
  PROVE  /\ cases' \subseteq CaseRow /\ CasesAreOnce'
         /\ \A e \in audited' : \E c \in cases' : e = <<c.run, c.payment>>
         /\ \A s : CasesOf(s)' = CasesOf(s)
BY DEF RunsInv, TypeOK, CasesAreOnce, CasesOf

LEMMA CompleteScenarioKeeps ==
  ASSUME RunsInv, NEW r \in Requests, CompleteScenario(r)
  PROVE  RunsInv'
<1>1. PICK q, i : q = req[r] /\ i = q.import
  OBVIOUS
<1>2. /\ q.pc = "finish" /\ UNCHANGED <<store, runs, cases, audited, seen>>
  BY <1>1 DEF CompleteScenario, At
<1>3. /\ q.scenario /\ i \in Scenarios /\ IsLocals(q)
      /\ scenarios[i] \in InstanceRow /\ scenarios[i].run = r
      /\ runs[r].status = "SUCCEEDED" /\ runs[r].counts.evaluated = Quota(i)
      /\ q.linked = Cardinality(CasesOf(r)) /\ q.linked \in Nat
      /\ CasesAmong(r, Captured(i)) /\ \A c \in CasesOf(r) : c.scenario
  BY <1>1, <1>2, LinkingFacts
<1>4. /\ scenarios'[i] = [scenarios[i] EXCEPT !.status = "SUCCEEDED", !.cases = q.linked]
      /\ scenarios'[i] \in InstanceRow /\ scenarios'[i].run = r
      /\ scenarios'[i].status = "SUCCEEDED" /\ scenarios'[i].cases = q.linked
      /\ scenarios' \in [Scenarios -> InstanceRow]
      /\ \A j \in Scenarios : j # i => scenarios'[j] = scenarios[j]
  BY <1>1, <1>3 DEF CompleteScenario, RunsInv, TypeOK, InstanceRow
<1>5. /\ req'[r] = [q EXCEPT !.pc = "event"] /\ req'[r].pc = "event"
      /\ \A s \in Requests \ {r} : req'[s] = req[s]
      /\ DOMAIN req' = Requests /\ DOMAIN seen' = Requests
  BY <1>1, <1>2, <1>3 DEF CompleteScenario, Goto, RunsInv, TypeOK, IsLocals
<1>6. /\ IsLocals(req'[r])
      /\ (IsAccounted(r) /\ HasNotBegun(r) /\ IsUnderWay(r) /\ IsLinking(r)
            /\ OwnsInstance(r))'
  BY <1>1, <1>2, <1>4, <1>5, StaysLinking
<1>7. IsCounted(i)'
  <2>1. Captured(i)' = Captured(i) /\ Quota(i)' = Quota(i)
    BY <1>2 DEF Captured, OfKind, Quota
  <2>2. CasesOf(r)' = CasesOf(r)
    BY <1>2, TablesStay
  <2>3. CasesOf(scenarios[i].run)' = CasesOf(r)
    BY <1>4, <2>2 DEF CasesOf
  <2>4. /\ CasesAmong(scenarios[i].run, Captured(i))'
        /\ \A c \in CasesOf(scenarios[i].run)' : c.scenario
    BY <1>3, <1>4, <2>1, <2>3 DEF CasesAmong
  <2> QED
    BY <1>2, <1>3, <1>4, <1>5, <2>1, <2>3, <2>4 DEF IsCounted
<1> QED
  BY <1>1, <1>2, <1>3, <1>4, <1>5, <1>6, <1>7, TablesStay, LocalStepKeeps

LEMMA AuditScenarioKeeps ==
  ASSUME RunsInv, NEW r \in Requests, AuditScenario(r)
  PROVE  RunsInv'
<1>1. PICK q, i : q = req[r] /\ i = q.import
  OBVIOUS
<1>2. /\ q.pc = "event" /\ UNCHANGED <<store, runs, cases, audited, seen>>
  BY <1>1 DEF AuditScenario, At
<1>3. /\ q.scenario /\ i \in Scenarios /\ IsLocals(q)
      /\ scenarios[i] \in InstanceRow /\ scenarios[i].run = r
      /\ scenarios[i].status = "SUCCEEDED"
  BY <1>1, <1>2, LinkingFacts
<1>4. /\ scenarios'[i] = [scenarios[i] EXCEPT !.audited = TRUE]
      /\ scenarios'[i] \in InstanceRow /\ scenarios'[i].run = r
      /\ scenarios'[i].status = "SUCCEEDED" /\ scenarios'[i].cases = scenarios[i].cases
      /\ scenarios' \in [Scenarios -> InstanceRow]
      /\ \A j \in Scenarios : j # i => scenarios'[j] = scenarios[j]
  BY <1>1, <1>3 DEF AuditScenario, RunsInv, TypeOK, InstanceRow
<1>5. /\ req'[r] = [q EXCEPT !.pc = "answer"] /\ req'[r].pc = "answer"
      /\ \A s \in Requests \ {r} : req'[s] = req[s]
      /\ DOMAIN req' = Requests /\ DOMAIN seen' = Requests
  BY <1>1, <1>2, <1>3 DEF AuditScenario, Goto, RunsInv, TypeOK, IsLocals
<1>6. /\ IsLocals(req'[r])
      /\ (IsAccounted(r) /\ HasNotBegun(r) /\ IsUnderWay(r) /\ IsLinking(r)
            /\ OwnsInstance(r))'
  BY <1>1, <1>2, <1>4, <1>5, StaysLinking
<1>7. IsCounted(i)'
  <2>1. Captured(i)' = Captured(i) /\ Quota(i)' = Quota(i)
    BY <1>2 DEF Captured, OfKind, Quota
  <2>2. CasesOf(r)' = CasesOf(r) /\ CasesOf(scenarios[i].run)' = CasesOf(r)
    BY <1>2, <1>4 DEF CasesOf
  <2>3. IsCounted(i)
    BY <1>3 DEF RunsInv
  <2>4. /\ scenarios[i].cases = Cardinality(CasesOf(r))
        /\ runs[r].status = "SUCCEEDED" /\ runs[r].counts.evaluated = Quota(i)
        /\ CasesAmong(r, Captured(i)) /\ \A c \in CasesOf(r) : c.scenario
    BY <1>3, <2>3 DEF IsCounted
  <2>5. /\ CasesAmong(scenarios[i].run, Captured(i))'
        /\ \A c \in CasesOf(scenarios[i].run)' : c.scenario
    BY <1>3, <1>4, <2>1, <2>2, <2>4 DEF CasesAmong
  <2> QED
    BY <1>2, <1>3, <1>4, <1>5, <2>1, <2>2, <2>4, <2>5 DEF IsCounted
<1>8. /\ cases' \subseteq CaseRow /\ CasesAreOnce'
      /\ \A e \in audited' : \E c \in cases' : e = <<c.run, c.payment>>
      /\ \A s : CasesOf(s)' = CasesOf(s)
  BY <1>2, TablesStay
<1>9. \A j \in Scenarios :
        \/ scenarios'[j] = scenarios[j]
        \/ IsCounted(j)' /\ (scenarios[j].status = "ABSENT" \/ scenarios[j].run = r)
  BY <1>3, <1>4, <1>7
<1> QED
  BY <1>1, <1>2, <1>4, <1>5, <1>6, <1>8, <1>9, LocalStepKeeps

(* A request that ends relies on nothing any more, and its run stays as it *)
(* is.                                                                     *)
LEMMA EndKeeps ==
  ASSUME RunsInv, NEW r \in Requests, req[r].pc # "done", req' = [req EXCEPT ![r] = Done],
         UNCHANGED <<store, runs, cases, audited, seen>>,
         \/ UNCHANGED scenarios
         \/ /\ req[r].pc # "idle" /\ req[r].scenario
            /\ scenarios' = [scenarios EXCEPT ![req[r].import].status = "FAILED"]
  PROVE  RunsInv'
<1>1. /\ req'[r] = Done /\ req'[r].pc = "done"
      /\ \A s \in Requests \ {r} : req'[s] = req[s]
      /\ DOMAIN req' = Requests /\ DOMAIN seen' = Requests
  BY DEF RunsInv, TypeOK, Done
<1>2. \A s : CasesOf(s)' = CasesOf(s)
  BY DEF CasesOf
<1>3. (IsAccounted(r) /\ HasNotBegun(r) /\ IsUnderWay(r) /\ IsLinking(r) /\ OwnsInstance(r))'
  BY <1>1, <1>2
  DEF RunsInv, IsAccounted, HasNotBegun, IsUnderWay, IsLinking, OwnsInstance, At
<1>4. CASE UNCHANGED scenarios
  BY <1>1, <1>2, <1>3, <1>4, TablesStay, LocalStepKeeps
<1>5. CASE /\ req[r].pc # "idle" /\ req[r].scenario
           /\ scenarios' = [scenarios EXCEPT ![req[r].import].status = "FAILED"]
  <2>1. PICK i \in Scenarios : i = req[r].import /\ scenarios[i].run = r
    BY <1>5 DEF RunsInv, OwnsInstance
  <2>2. /\ scenarios'[i].status = "FAILED"
        /\ scenarios' \in [Scenarios -> InstanceRow]
        /\ \A j \in Scenarios : j # i => scenarios'[j] = scenarios[j]
    BY <1>5, <2>1 DEF RunsInv, TypeOK, InstanceRow
  <2>3. IsCounted(i)'
    BY <2>2 DEF IsCounted
  <2> QED
    BY <1>1, <1>2, <1>3, <2>1, <2>2, <2>3, TablesStay, LocalStepKeeps
<1> QED
  BY <1>4, <1>5

----------------------------------------------------------------------------
(* The theorems.                                                           *)

LEMMA InitHolds == Init => RunsInv
<1> SUFFICES ASSUME Init PROVE RunsInv
  OBVIOUS
<1>1. NoRun \in [status : {"ABSENT", "RUNNING", "SUCCEEDED"}, counts : Counts]
  BY DEF NoRun, NoCounts, Counts
<1>2. NoInstance \in InstanceRow /\ NoInstance.status = "ABSENT"
  BY DEF NoInstance, InstanceRow
<1>3. TypeOK
  BY <1>1, <1>2 DEF Init, TypeOK
<1>4. PaymentsAreOnce /\ CasesAreOnce
  BY FS_EmptySet DEF Init, PaymentsAreOnce, CasesAreOnce, OfKind
<1>5. \A r \in Requests : /\ req[r].pc = "idle" /\ runs[r] = NoRun
                           /\ runs[r].status = "ABSENT" /\ CasesOf(r) = {}
  BY DEF Init, Idle, NoRun, CasesOf
<1>6. \A i \in Scenarios : IsCounted(i)
  BY <1>2 DEF Init, IsCounted
<1>7. \A r \in Requests : IsAccounted(r) /\ HasNotBegun(r) /\ IsUnderWay(r)
                             /\ IsLinking(r) /\ OwnsInstance(r)
  BY <1>5 DEF IsAccounted, HasNotBegun, IsUnderWay, IsLinking, OwnsInstance, At
<1> QED
  BY <1>3, <1>4, <1>6, <1>7 DEF RunsInv

LEMMA StutterKeeps == RunsInv /\ UNCHANGED vars => RunsInv'
<1> SUFFICES ASSUME RunsInv, UNCHANGED vars PROVE RunsInv'
  OBVIOUS
<1>1. UNCHANGED <<store, runs, cases, audited, scenarios, req, seen>>
  BY DEF vars
<1>2. /\ \A j : Captured(j)' = Captured(j)
      /\ IdsIn(store, "PAYMENT")' = IdsIn(store, "PAYMENT")
      /\ PaymentsAreOnce'
  BY <1>1, SameStore DEF RunsInv
<1>3. CasesAreOnce' /\ \A s : CasesOf(s)' = CasesOf(s)
  BY <1>1, TablesStay
<1>4. TypeOK'
  BY <1>1, <1>2 DEF RunsInv, TypeOK, CaseRow, IsLocals, InstanceRow
<1>5. ASSUME NEW s \in Requests
      PROVE  (IsAccounted(s) /\ HasNotBegun(s) /\ IsUnderWay(s) /\ IsLinking(s)
                /\ OwnsInstance(s))'
  <2>1. Captured(req[s].import)' = Captured(req[s].import)
    BY <1>1 DEF Captured
  <2> QED
    BY <1>1, <1>2, <1>3, <2>1, OthersKeep
<1>6. ASSUME NEW i \in Scenarios PROVE IsCounted(i)'
  BY <1>1 DEF RunsInv, IsCounted, Quota, CasesAmong, CasesOf, Captured
<1> QED
  BY <1>2, <1>3, <1>4, <1>5, <1>6 DEF RunsInv

LEMMA NextKeeps == RunsInv /\ [Next]_vars => RunsInv'
<1> SUFFICES ASSUME RunsInv, Next PROVE RunsInv'
  BY StutterKeeps
<1>1. ASSUME NEW i \in Imports, Import(i)
      PROVE  RunsInv'
  BY <1>1, ImportKeeps
<1>2. ASSUME NEW r \in Requests, NEW i \in Imports \cup {AllImports}, StartRun(r, i)
      PROVE  RunsInv'
  BY <1>2, StartRunKeeps
<1>3. ASSUME NEW r \in Requests, NEW i \in Scenarios, Instantiate(r, i)
      PROVE  RunsInv'
  BY <1>3, InstantiateKeeps
<1>4. ASSUME NEW r \in Requests, Continue(r)
      PROVE  RunsInv'
  <2>1. CASE ImportOwn(r)
    BY <2>1, ImportOwnKeeps
  <2>2. CASE StartOwn(r)
    BY <2>2, StartOwnKeeps
  <2>3. CASE List(r)
    BY <2>3, ListKeeps
  <2>4. CASE \E p \in OfKind(store, "PAYMENT") : LoadUnit(r, p)
    BY <2>4, LoadUnitKeeps
  <2>5. CASE \E k \in Queries : Query(r, k)
    BY <2>5, QueryKeeps
  <2>6. CASE Clean(r)
    BY <2>6, CleanKeeps
  <2>7. CASE CreateCase(r)
    BY <2>7, CreateCaseKeeps
  <2>8. CASE AuditCase(r)
    BY <2>8, AuditCaseKeeps
  <2>9. CASE CompleteRun(r)
    BY <2>9, CompleteRunKeeps
  <2>10. CASE LinkCases(r)
    BY <2>10, LinkCasesKeeps
  <2>11. CASE CompleteScenario(r)
    BY <2>11, CompleteScenarioKeeps
  <2>12. CASE AuditScenario(r)
    BY <2>12, AuditScenarioKeeps
  <2>13. CASE AnswerScenario(r)
    BY <2>13, EndKeeps DEF AnswerScenario, At
  <2> QED
    BY <1>4, <2>1, <2>2, <2>3, <2>4, <2>5, <2>6, <2>7, <2>8, <2>9, <2>10, <2>11, <2>12, <2>13
    DEF Continue
<1>5. ASSUME NEW r \in Requests, Throw(r) \/ Crash(r)
      PROVE  RunsInv'
  BY <1>5, EndKeeps DEF Throw, Crash
<1> QED
  BY <1>1, <1>2, <1>3, <1>4, <1>5 DEF Next

(* A run that succeeded is accounted for, whatever was imported while it   *)
(* went over its payments, whoever else ran, and whatever failed           *)
(* (runReconciliation); and what its requests rely on is inductive.        *)
THEOREM RunsAreAccounted == Spec => []RunsInv
BY InitHolds, NextKeeps, PTL DEF Spec

----------------------------------------------------------------------------
(* A scenario's own payments.                                              *)

Own(i) == OfKind(Batch[i], "PAYMENT")

(* From its import on, a scenario finds the payments of its batch in the   *)
(* store, as long as no other import has them.                             *)
OwnIsStored ==
  /\ \A r \in Requests : \A i \in Scenarios :
       /\ req[r].pc \notin {"idle", "import", "done"}
       /\ req[r].scenario /\ req[r].import = i
       => Own(i) \subseteq OfKind(store, "PAYMENT")
  /\ \A i \in Scenarios :
       scenarios[i].status = "SUCCEEDED" => Own(i) \subseteq OfKind(store, "PAYMENT")

(* The import of a scenario leaves all of its payments in the store: what  *)
(* is there under one of their ids is that payment.                        *)
LEMMA ImportBringsOwn ==
  ASSUME ScenariosAreApart, RunsInv, NEW i \in Scenarios, Commit(i)
  PROVE  Own(i) \subseteq OfKind(store', "PAYMENT")
<1> SUFFICES ASSUME NEW x \in Own(i)
             PROVE  x \in OfKind(store', "PAYMENT")
  OBVIOUS
<1>1. i \in Imports /\ OfKind(store', "PAYMENT") = OfKind(store, "PAYMENT") \cup Fresh(Batch[i])
  BY PaymentsAfterImport, RunsAssumption DEF Commit
<1>2. CASE x.id \notin IdsIn(store, "PAYMENT")
  BY <1>1, <1>2 DEF Fresh, Own
<1>3. CASE x.id \in IdsIn(store, "PAYMENT")
  <2>1. PICK y \in OfKind(store, "PAYMENT") : y.id = x.id
    BY <1>3 DEF IdsIn
  <2>2. y.import \in Imports /\ y \in OfKind(Batch[y.import], "PAYMENT")
    BY <2>1 DEF RunsInv, PaymentsAreOnce, OfKind
  <2>3. /\ x.id \in IdsIn(Batch[i], "PAYMENT")
        /\ x.id \in IdsIn(Batch[y.import], "PAYMENT")
    BY <2>1, <2>2 DEF IdsIn, Own
  <2>4. y.import = i
    BY <2>2, <2>3 DEF ScenariosAreApart
  <2>5. x = y
    BY <1>1, <2>1, <2>2, <2>4, BatchAssumption DEF Own
  <2> QED
    BY <1>1, <2>1, <2>5
<1> QED
  BY <1>2, <1>3

LEMMA PaymentsStay ==
  ASSUME RunsInv, [Next]_vars
  PROVE  OfKind(store, "PAYMENT") \subseteq OfKind(store', "PAYMENT")
<1>1. CASE UNCHANGED store
  BY <1>1
<1>2. ASSUME NEW i \in Imports, Commit(i)
      PROVE  OfKind(store, "PAYMENT") \subseteq OfKind(store', "PAYMENT")
  BY <1>2, PaymentsAfterImport DEF Commit
<1>3. ASSUME NEW r \in Requests, ImportOwn(r)
      PROVE  \E i \in Imports : Commit(i)
  <2>1. req[r].import \in Scenarios /\ Commit(req[r].import)
    BY <1>3 DEF ImportOwn, At, RunsInv, OwnsInstance
  <2>2. PICK i \in Scenarios : i = req[r].import
    BY <2>1
  <2> QED
    BY <2>1, <2>2, RunsAssumption DEF Commit
<1> QED
  BY <1>1, <1>2, <1>3
  DEF Next, vars, Import, StartRun, Instantiate, Continue, Throw, Crash, StartOwn, List,
      LoadUnit, Query, Clean, CreateCase, AuditCase, CompleteRun, LinkCases,
      CompleteScenario, AuditScenario, AnswerScenario

(* A step of a request that does not end it keeps what it is over, and     *)
(* leaves it loading a unit only if it has begun to or goes on.            *)
LEMMA LocalsGoOn ==
  ASSUME RunsInv, NEW r \in Requests, Continue(r), NEW q, q = req[r]
  PROVE  /\ IsLocals(q) /\ (q.pc = "import" => ImportOwn(r))
         /\ \/ req'[r] = Done
            \/ /\ req'[r].import = q.import /\ req'[r].scenario = q.scenario
               /\ \/ req'[r].pc # "query"
                  \/ \E p \in OfKind(store, "PAYMENT") : LoadUnit(r, p)
                  \/ \E k \in Queries : Query(r, k)
               /\ q.pc = "query" /\ req'[r].pc = "next" => Clean(r)
<1>1. q.pc \notin {"idle", "done"} /\ (q.pc = "import" => ImportOwn(r))
  BY DEF Continue, At, ImportOwn, StartOwn, List, LoadUnit, Query, Loaded, Clean, CreateCase,
         AuditCase, CompleteRun, LinkCases, CompleteScenario, AuditScenario, AnswerScenario
<1>2. /\ IsLocals(q) /\ DOMAIN req = Requests
      /\ DOMAIN q = {"pc", "import", "scenario", "todo", "left", "unit", "counts", "linked"}
  BY <1>1, AtIsTyped DEF IsLocals, RunsInv, TypeOK
<1>3. ASSUME NEW pc \in {"start", "list", "next", "link", "event", "answer"},
             q.pc # "query", req' = [req EXCEPT ![r] = [q EXCEPT !.pc = pc]]
      PROVE  /\ req'[r].import = q.import /\ req'[r].scenario = q.scenario
             /\ req'[r].pc # "query" /\ q.pc # "query"
  <2>1. req'[r] = [q EXCEPT !.pc = pc]
    BY <1>2, <1>3
  <2> QED
    BY <1>2, <1>3, <2>1
<1>4. CASE ImportOwn(r) \/ StartOwn(r) \/ AuditCase(r) \/ CompleteScenario(r)
             \/ AuditScenario(r)
  <2>1. \E pc \in {"start", "list", "next", "link", "event", "answer"} :
          q.pc # "query" /\ req' = [req EXCEPT ![r] = [q EXCEPT !.pc = pc]]
    BY <1>4
    DEF ImportOwn, StartOwn, AuditCase, CompleteScenario, AuditScenario, Goto, At
  <2> QED
    BY <1>1, <1>2, <1>3, <2>1
<1>5. CASE List(r)
  <2>1. PICK todo : req' = [req EXCEPT ![r] = [q EXCEPT !.todo = todo, !.pc = "next"]]
    BY <1>5 DEF List
  <2>2. req'[r] = [q EXCEPT !.todo = todo, !.pc = "next"] /\ q.pc = "list"
    BY <1>2, <1>5, <2>1 DEF List, At
  <2>3. req'[r].import = q.import /\ req'[r].scenario = q.scenario /\ req'[r].pc = "next"
    BY <1>2, <2>2
  <2> QED
    BY <1>1, <1>2, <2>2, <2>3
<1>6. ASSUME NEW p \in OfKind(store, "PAYMENT"), LoadUnit(r, p)
      PROVE  req'[r].import = q.import /\ req'[r].scenario = q.scenario /\ q.pc = "next"
  <2>1. PICK unit : req' = [req EXCEPT ![r] = [q EXCEPT !.pc = "query", !.todo = @ \ {p},
                                                        !.left = Queries, !.unit = unit]]
    BY <1>6 DEF LoadUnit
  <2>2. /\ req'[r] = [q EXCEPT !.pc = "query", !.todo = @ \ {p}, !.left = Queries, !.unit = unit]
        /\ q.pc = "next"
    BY <1>2, <1>6, <2>1 DEF LoadUnit, At
  <2> QED
    BY <1>2, <2>2
<1>7. ASSUME NEW k \in Queries, Query(r, k)
      PROVE  /\ req'[r].import = q.import /\ req'[r].scenario = q.scenario
             /\ req'[r].pc = "query"
  <2>1. PICK unit : req' = [req EXCEPT ![r] = [q EXCEPT !.left = @ \ {k}, !.unit = unit]]
    BY <1>7 DEF Query
  <2>2. req'[r] = [q EXCEPT !.left = @ \ {k}, !.unit = unit] /\ q.pc = "query"
    BY <1>2, <1>7, <2>1 DEF Query, At
  <2> QED
    BY <1>2, <2>2
<1>8. ASSUME Clean(r) \/ CreateCase(r)
      PROVE  /\ req'[r].import = q.import /\ req'[r].scenario = q.scenario
             /\ req'[r].pc # "query" /\ (req'[r].pc = "next" => Clean(r))
  <2>1. PICK counts, pc :
          /\ req' = [req EXCEPT ![r] = [q EXCEPT !.pc = pc, !.counts = counts]]
          /\ (pc = "next" /\ Clean(r)) \/ pc = "audit"
    <3>1. CASE Clean(r)
      <4>1. PICK counts : counts = Evaluated(q.counts, "reconciled")
        OBVIOUS
      <4>2. req' = [req EXCEPT ![r] = [q EXCEPT !.pc = "next", !.counts = counts]]
        BY <1>2, <3>1, <4>1 DEF Clean
      <4> QED
        BY <3>1, <4>2
    <3>2. CASE CreateCase(r)
      <4>1. PICK counts : counts = Evaluated(q.counts, "residual")
        OBVIOUS
      <4>2. req' = [req EXCEPT ![r] = [q EXCEPT !.pc = "audit", !.counts = counts]]
        BY <1>2, <3>2, <4>1 DEF CreateCase
      <4> QED
        BY <4>2
    <3> QED
      BY <1>8, <3>1, <3>2
  <2>2. req'[r] = [q EXCEPT !.pc = pc, !.counts = counts]
    BY <1>2, <2>1
  <2>3. req'[r].import = q.import /\ req'[r].scenario = q.scenario /\ req'[r].pc = pc
    BY <1>2, <2>2
  <2> QED
    BY <2>1, <2>3
<1>9. CASE CompleteRun(r)
  <2>1. CASE q.scenario
    BY <1>1, <1>2, <1>3, <1>9, <2>1 DEF CompleteRun, Goto, At
  <2>2. CASE ~q.scenario
    BY <1>1, <1>2, <1>9, <2>2 DEF CompleteRun
  <2> QED
    BY <2>1, <2>2
<1>10. CASE LinkCases(r)
  <2>1. PICK n : req' = [req EXCEPT ![r] = [q EXCEPT !.linked = n, !.pc = "finish"]]
    BY <1>10 DEF LinkCases
  <2>2. req'[r] = [q EXCEPT !.linked = n, !.pc = "finish"] /\ q.pc = "link"
    BY <1>2, <1>10, <2>1 DEF LinkCases, At
  <2>3. req'[r].import = q.import /\ req'[r].scenario = q.scenario /\ req'[r].pc = "finish"
    BY <1>2, <2>2
  <2> QED
    BY <1>1, <1>2, <2>2, <2>3
<1>11. CASE AnswerScenario(r)
  BY <1>1, <1>2, <1>11 DEF AnswerScenario
<1> QED
  BY <1>1, <1>2, <1>4, <1>5, <1>6, <1>7, <1>8, <1>9, <1>10, <1>11 DEF Continue

(* A request that is past its import was so before, for the same import,   *)
(* or has made the import now.                                             *)
LEMMA RequestsGoOn ==
  ASSUME RunsInv, [Next]_vars, NEW r \in Requests,
         req'[r].pc \notin {"idle", "import", "done"}, req'[r].scenario
  PROVE  \/ /\ req[r].pc \notin {"idle", "import", "done"}
            /\ req[r].scenario /\ req[r].import = req'[r].import
         \/ ImportOwn(r) /\ req[r].import = req'[r].import
<1>1. PICK q : q = req[r]
  OBVIOUS
<1>2. ASSUME req'[r] = q
      PROVE  /\ req[r].pc \notin {"idle", "import", "done"}
             /\ req[r].scenario /\ req[r].import = req'[r].import
  BY <1>1, <1>2
<1>3. ASSUME NEW s \in Requests, Continue(s) \/ Throw(s) \/ Crash(s), s # r
      PROVE  req'[r] = q
  BY <1>1, <1>3
  DEF Continue, Throw, Crash, Goto, ImportOwn, StartOwn, List, LoadUnit, Query, Clean,
      CreateCase, AuditCase, CompleteRun, LinkCases, CompleteScenario, AuditScenario,
      AnswerScenario, RunsInv, TypeOK
<1>4. ASSUME NEW s \in Requests,
             \/ \E i \in Imports \cup {AllImports} : StartRun(s, i)
             \/ \E i \in Scenarios : Instantiate(s, i)
      PROVE  s # r /\ req'[r] = q
  <2>1. DOMAIN req = Requests
    BY DEF RunsInv, TypeOK
  <2>2. PICK pc, i, scenario :
          /\ req' = [req EXCEPT ![s] = Locals(pc, i, scenario)]
          /\ scenario = FALSE \/ pc = "import"
    BY <1>4 DEF StartRun, Instantiate
  <2>3. s = r => req'[r].pc = pc /\ req'[r].scenario = scenario
    BY <2>1, <2>2 DEF Locals
  <2> QED
    BY <1>1, <2>1, <2>2, <2>3
<1>5. ASSUME Throw(r) \/ Crash(r)
      PROVE  FALSE
  BY <1>5 DEF Throw, Crash, Done, RunsInv, TypeOK
<1>6. ASSUME Continue(r)
      PROVE  /\ q.pc \notin {"idle", "done"} /\ (q.pc = "import" => ImportOwn(r))
             /\ req'[r].import = q.import /\ req'[r].scenario = q.scenario
  <2>1. req'[r] # Done
    BY DEF Done
  <2> QED
    BY <1>1, <1>6, <2>1, LocalsGoOn DEF IsLocals
<1>8. CASE UNCHANGED vars \/ \E i \in Imports : Import(i)
  BY <1>1, <1>2, <1>8 DEF vars, Import
<1>9. CASE \E s \in Requests : Continue(s) \/ Throw(s) \/ Crash(s)
  BY <1>1, <1>2, <1>3, <1>5, <1>6, <1>9
<1>10. CASE \E s \in Requests :
              \/ \E i \in Imports \cup {AllImports} : StartRun(s, i)
              \/ \E i \in Scenarios : Instantiate(s, i)
  BY <1>1, <1>2, <1>4, <1>10
<1> QED
  BY <1>8, <1>9, <1>10 DEF Next

(* An instance succeeds by the last step of its request but the event.     *)
LEMMA InstancesSucceed ==
  ASSUME RunsInv, [Next]_vars, NEW i \in Scenarios, scenarios'[i].status = "SUCCEEDED"
  PROVE  \/ scenarios[i].status = "SUCCEEDED"
         \/ \E r \in Requests :
              req[r].pc = "finish" /\ req[r].scenario /\ req[r].import = i
<1>1. PICK x : x = scenarios[i]
  OBVIOUS
<1>2. DOMAIN scenarios = Scenarios /\ DOMAIN x = {"status", "run", "cases", "audited"}
  BY <1>1 DEF RunsInv, TypeOK, InstanceRow
<1>3. CASE UNCHANGED scenarios
  BY <1>3
<1>4. ASSUME NEW r \in Requests, NEW j \in Scenarios, Instantiate(r, j)
      PROVE  x.status = "SUCCEEDED"
  BY <1>1, <1>2, <1>4 DEF Instantiate
<1>5. ASSUME NEW r \in Requests, AuditScenario(r)
      PROVE  x.status = "SUCCEEDED"
  BY <1>1, <1>2, <1>5 DEF AuditScenario
<1>6. ASSUME NEW r \in Requests, Throw(r)
      PROVE  x.status = "SUCCEEDED"
  BY <1>1, <1>2, <1>6 DEF Throw
<1>7. ASSUME NEW r \in Requests, CompleteScenario(r)
      PROVE  \/ x.status = "SUCCEEDED"
             \/ req[r].pc = "finish" /\ req[r].scenario /\ req[r].import = i
  BY <1>1, <1>2, <1>7 DEF CompleteScenario, RunsInv, IsLinking, At
<1> QED
  BY <1>1, <1>3, <1>4, <1>5, <1>6, <1>7
  DEF Next, vars, Import, StartRun, Continue, Crash, ImportOwn, StartOwn, List,
      LoadUnit, Query, Clean, CreateCase, AuditCase, CompleteRun, LinkCases, AnswerScenario

LEMMA OwnIsStoredStep ==
  ASSUME ScenariosAreApart, RunsInv, OwnIsStored, [Next]_vars
  PROVE  OwnIsStored'
<1>1. OfKind(store, "PAYMENT") \subseteq OfKind(store', "PAYMENT")
  BY PaymentsStay
<1>2. ASSUME NEW r \in Requests, NEW i \in Scenarios,
             req'[r].pc \notin {"idle", "import", "done"},
             req'[r].scenario, req'[r].import = i
      PROVE  Own(i) \subseteq OfKind(store', "PAYMENT")
  <2>1. CASE /\ req[r].pc \notin {"idle", "import", "done"}
             /\ req[r].scenario /\ req[r].import = i
    BY <1>1, <2>1 DEF OwnIsStored
  <2>2. CASE ImportOwn(r) /\ req[r].import = i
    <3>1. Commit(i)
      BY <2>2 DEF ImportOwn, Commit
    <3> QED
      BY <3>1, ImportBringsOwn
  <2> QED
    BY <1>2, <2>1, <2>2, RequestsGoOn
<1>3. ASSUME NEW i \in Scenarios, scenarios'[i].status = "SUCCEEDED"
      PROVE  Own(i) \subseteq OfKind(store', "PAYMENT")
  BY <1>1, <1>3, InstancesSucceed DEF OwnIsStored
<1> QED
  BY <1>2, <1>3 DEF OwnIsStored, Own

(* The captured payments of a scenario whose batch is stored are its own.  *)
LEMMA CapturedAreOwn ==
  ASSUME RunsInv, NEW i \in Scenarios, Own(i) \subseteq OfKind(store, "PAYMENT")
  PROVE  Captured(i) = {x \in Own(i) : x.status = "CAPTURED"}
<1>1. i \in Imports /\ i # AllImports
  BY RunsAssumption
<1>2. \A x \in OfKind(store, "PAYMENT") : x.import = i => x \in Own(i)
  BY DEF RunsInv, PaymentsAreOnce, OfKind, Own
<1>3. \A x \in Own(i) : x.import = i
  BY <1>1, BatchAssumption DEF Own
<1> QED
  BY <1>1, <1>2, <1>3 DEF Captured

(* A scenario that succeeded has evaluated the captured payments of its    *)
(* own batch and no other, and has all the cases of its run, if no other   *)
(* import has payments of its batch: instantiateScenario imports before it *)
(* reconciles, over its own import.                                        *)
THEOREM ScenariosAreComplete ==
  ASSUME ScenariosAreApart
  PROVE  Spec => []ScenarioIsComplete
<1>1. Init => OwnIsStored
  BY DEF Init, OwnIsStored, Idle, NoInstance
<1>2. RunsInv /\ OwnIsStored /\ [Next]_vars => OwnIsStored'
  BY OwnIsStoredStep
<1>3. RunsInv /\ OwnIsStored => ScenarioIsComplete
  <2> SUFFICES ASSUME RunsInv, OwnIsStored, NEW i \in Scenarios,
                      scenarios[i].status = "SUCCEEDED"
               PROVE  LET r   == scenarios[i].run
                          own == {x \in Own(i) : x.status = "CAPTURED"}
                      IN  /\ runs[r].status = "SUCCEEDED"
                          /\ runs[r].counts.evaluated = Smaller(MaxPayments, Cardinality(own))
                          /\ scenarios[i].cases = Cardinality(CasesOf(r))
                          /\ \A c \in CasesOf(r) :
                               c.scenario /\ \E x \in own : x.id = c.payment
    BY DEF ScenarioIsComplete, Own
  <2>1. Captured(i) = {x \in Own(i) : x.status = "CAPTURED"}
    BY CapturedAreOwn DEF OwnIsStored
  <2>2. IsCounted(i)
    BY DEF RunsInv
  <2> QED
    BY <2>1, <2>2 DEF IsCounted, Quota, CasesAmong
<1> QED
  BY <1>1, <1>2, <1>3, RunsAreAccounted, PTL DEF Spec

----------------------------------------------------------------------------
(* Units that are whole.                                                   *)

(* The unit that is loaded: its payment is the one of that id in all the   *)
(* stores since, and what was selected was selected from one of them.      *)
IsLoading(r) ==
  At(r, "query") =>
    LET unit == req[r].unit IN
    /\ store \in seen[r]
    /\ \A s \in seen[r] : PaymentIn(s, unit.payment.id) = unit.payment
    /\ unit = [payment |-> unit.payment, rows |-> unit.rows]
    /\ unit.rows = [k \in Queries |-> unit.rows[k]]
    /\ \A k \in Queries \ req[r].left :
         \E s \in seen[r] : unit.rows[k] = Select(k, s, unit.payment.id)

LEMMA PaymentIsFound ==
  ASSUME PaymentsAreOnce, NEW p \in OfKind(store, "PAYMENT")
  PROVE  PaymentIn(store, p.id) = p
BY DEF PaymentsAreOnce, PaymentIn

LEMMA LoadUnitStartsLoading ==
  ASSUME RunsInv, NEW r \in Requests, NEW p, LoadUnit(r, p)
  PROVE  IsLoading(r)'
<1>1. PICK q : q = req[r]
  OBVIOUS
<1>2. /\ q.pc = "next" /\ IsLocals(q) /\ p \in q.todo
      /\ store' = store /\ seen'[r] = {store}
  BY <1>1, AtIsTyped DEF LoadUnit, At, RunsInv, TypeOK
<1>3. PICK rows, unit :
        /\ rows = [k \in Queries |-> {}] /\ unit = [payment |-> p, rows |-> rows]
        /\ req'[r] = [q EXCEPT !.pc = "query", !.todo = @ \ {p}, !.left = Queries, !.unit = unit]
  BY <1>1 DEF LoadUnit, RunsInv, TypeOK
<1>4. req'[r].left = Queries /\ req'[r].unit = unit
  BY <1>2, <1>3 DEF IsLocals
<1>5. p \in OfKind(store, "PAYMENT")
  BY <1>1, <1>2 DEF RunsInv, IsUnderWay, Pending, Captured, At
<1>6. PaymentIn(store, p.id) = p
  BY <1>5, PaymentIsFound DEF RunsInv
<1>7. /\ unit.payment = p /\ unit.rows = rows
      /\ unit = [payment |-> unit.payment, rows |-> unit.rows]
      /\ rows = [k \in Queries |-> rows[k]]
  BY <1>3
<1> QED
  BY <1>2, <1>4, <1>6, <1>7 DEF IsLoading

LEMMA QueryGoesOnLoading ==
  ASSUME RunsInv, NEW r \in Requests, IsLoading(r), NEW k \in Queries, Query(r, k)
  PROVE  IsLoading(r)'
<1>1. PICK q, unit : q = req[r] /\ unit = q.unit
  OBVIOUS
<1>2. /\ q.pc = "query" /\ IsLocals(q) /\ store' = store /\ seen'[r] = seen[r]
  BY <1>1, AtIsTyped DEF Query, At, RunsInv, TypeOK
<1>3. PICK p, rows, found :
        /\ unit = [payment |-> p, rows |-> rows]
        /\ rows = [j \in Queries |-> rows[j]]
        /\ found = Select(k, store, p.id)
  BY <1>1, <1>2 DEF IsLoading, At
<1>4. /\ store \in seen[r]
      /\ \A s \in seen[r] : PaymentIn(s, p.id) = p
      /\ \A j \in Queries \ q.left : \E s \in seen[r] : rows[j] = Select(j, s, p.id)
  BY <1>1, <1>2, <1>3 DEF IsLoading, At
<1>5. PICK newRows, newUnit :
        /\ newRows = [rows EXCEPT ![k] = found]
        /\ newUnit = [unit EXCEPT !.rows = newRows]
  OBVIOUS
<1>6. req'[r] = [q EXCEPT !.left = @ \ {k}, !.unit = newUnit]
  <2>1. /\ DOMAIN req = Requests /\ unit.payment = p /\ unit.rows = rows
        /\ DOMAIN q = {"pc", "import", "scenario", "todo", "left", "unit", "counts", "linked"}
    BY <1>2, <1>3 DEF RunsInv, TypeOK, IsLocals
  <2>2. PICK left : left = q.left \ {k}
    OBVIOUS
  <2>3. [q EXCEPT !.left = left].unit = unit
    BY <1>1, <2>1
  <2>4. req' = [req EXCEPT ![r] = [[q EXCEPT !.left = left] EXCEPT !.unit = newUnit]]
    BY <1>1, <1>3, <1>5, <2>1, <2>2, <2>3 DEF Query
  <2> QED
    BY <2>1, <2>2, <2>4
<1>7. req'[r].left = q.left \ {k} /\ req'[r].unit = newUnit
  BY <1>2, <1>6 DEF IsLocals
<1>8. newUnit = [payment |-> p, rows |-> newRows]
  BY <1>3, <1>5
<1>9. /\ newRows = [j \in Queries |-> newRows[j]]
      /\ \A j \in Queries \ (q.left \ {k}) : \E s \in seen[r] : newRows[j] = Select(j, s, p.id)
  BY <1>3, <1>4, <1>5
<1> QED
  BY <1>2, <1>4, <1>7, <1>8, <1>9 DEF IsLoading

(* An import that commits is one more store that the queries may see.      *)
LEMMA CommitGoesOnLoading ==
  ASSUME RunsInv, RunsInv', NEW r \in Requests, IsLoading(r), NEW i \in Imports, Commit(i),
         req'[r] = req[r]
  PROVE  IsLoading(r)'
<1> SUFFICES ASSUME At(r, "query")
             PROVE  IsLoading(r)'
  BY DEF IsLoading, At
<1>1. PICK q, unit : q = req[r] /\ unit = q.unit
  OBVIOUS
<1>2. seen'[r] = seen[r] \cup {store'}
  BY DEF Commit
<1>3. unit.payment \in OfKind(store', "PAYMENT")
  <2>1. unit.payment \in OfKind(store, "PAYMENT")
    BY <1>1 DEF RunsInv, IsUnderWay, Pending, Captured, At
  <2> QED
    BY <2>1, PaymentsAfterImport DEF Commit
<1>4. PaymentIn(store', unit.payment.id) = unit.payment
  <2>1. PaymentsAreOnce'
    BY DEF RunsInv
  <2> QED
    BY <1>3, <2>1 DEF PaymentsAreOnce, PaymentIn
<1> QED
  BY <1>1, <1>2, <1>4 DEF IsLoading, At

LEMMA LoadingStep ==
  ASSUME RunsInv, RunsInv', [Next]_vars, NEW r \in Requests, IsLoading(r)
  PROVE  IsLoading(r)'
<1>1. ASSUME UNCHANGED store, seen'[r] = seen[r], req'[r] = req[r] \/ req'[r].pc # "query"
      PROVE  IsLoading(r)'
  BY <1>1 DEF IsLoading, At
<1>2. CASE UNCHANGED vars
  BY <1>1, <1>2 DEF vars
<1>3. CASE \E i \in Imports : Import(i)
  BY <1>3, CommitGoesOnLoading DEF Import
<1>4. CASE \E s \in Requests : ImportOwn(s)
  <2>1. PICK s \in Requests : ImportOwn(s)
    BY <1>4
  <2>2. PICK i \in Imports : Commit(i)
    <3>1. req[s].import \in Scenarios /\ Commit(req[s].import)
      BY <2>1 DEF ImportOwn, At, RunsInv, OwnsInstance
    <3>2. PICK j \in Scenarios : j = req[s].import
      BY <3>1
    <3> QED
      BY <3>1, <3>2, RunsAssumption DEF Commit
  <2>3. CASE s = r
    <3>1. req'[r].pc = "start"
      BY <2>1, <2>3, AtIsTyped DEF ImportOwn, Goto, At, IsLocals, RunsInv, TypeOK
    <3> QED
      BY <3>1 DEF IsLoading, At
  <2>4. CASE s # r
    <3>1. req'[r] = req[r]
      BY <2>1, <2>4 DEF ImportOwn, Goto, RunsInv, TypeOK
    <3> QED
      BY <2>2, <3>1, CommitGoesOnLoading
  <2> QED
    BY <2>3, <2>4
<1>5. CASE \E s \in Requests, p \in OfKind(store, "PAYMENT") : LoadUnit(s, p)
  <2>1. PICK s \in Requests, p \in OfKind(store, "PAYMENT") : LoadUnit(s, p)
    BY <1>5
  <2>2. CASE s = r
    BY <2>1, <2>2, LoadUnitStartsLoading
  <2>3. CASE s # r
    <3>1. UNCHANGED store /\ seen'[r] = seen[r] /\ req'[r] = req[r]
      BY <2>1, <2>3 DEF LoadUnit, RunsInv, TypeOK
    <3> QED
      BY <1>1, <3>1
  <2> QED
    BY <2>2, <2>3
<1>6. CASE \E s \in Requests, k \in Queries : Query(s, k)
  <2>1. PICK s \in Requests, k \in Queries : Query(s, k)
    BY <1>6
  <2>2. CASE s = r
    BY <2>1, <2>2, QueryGoesOnLoading
  <2>3. CASE s # r
    <3>1. UNCHANGED store /\ seen'[r] = seen[r] /\ req'[r] = req[r]
      BY <2>1, <2>3 DEF Query, RunsInv, TypeOK
    <3> QED
      BY <1>1, <3>1
  <2> QED
    BY <2>2, <2>3
<1>7. ASSUME NEW s \in Requests,
             \/ \E i \in Imports \cup {AllImports} : StartRun(s, i)
             \/ \E i \in Scenarios : Instantiate(s, i)
             \/ StartOwn(s) \/ List(s) \/ Clean(s) \/ CreateCase(s) \/ AuditCase(s)
             \/ CompleteRun(s) \/ LinkCases(s) \/ CompleteScenario(s) \/ AuditScenario(s)
             \/ AnswerScenario(s) \/ Throw(s) \/ Crash(s)
      PROVE  IsLoading(r)'
  <2>1. UNCHANGED <<store, seen>>
    BY <1>7
    DEF StartRun, Instantiate, StartOwn, List, Clean, CreateCase, AuditCase, CompleteRun,
        LinkCases, CompleteScenario, AuditScenario, AnswerScenario, Throw, Crash
  <2>2. CASE s # r
    <3>1. req'[r] = req[r]
      BY <1>7, <2>2
      DEF StartRun, Instantiate, StartOwn, List, Clean, CreateCase, AuditCase, CompleteRun,
          LinkCases, CompleteScenario, AuditScenario, AnswerScenario, Throw, Crash, Goto,
          RunsInv, TypeOK
    <3> QED
      BY <1>1, <2>1, <3>1
  <2>3. CASE s = r
    <3>1. CASE \/ \E i \in Imports \cup {AllImports} : StartRun(r, i)
               \/ \E i \in Scenarios : Instantiate(r, i)
      <4>1. req'[r].pc # "query"
        <5>1. DOMAIN req = Requests
          BY DEF RunsInv, TypeOK
        <5>2. ASSUME NEW i, req' = [req EXCEPT ![r] = Locals("list", i, FALSE)]
              PROVE  req'[r].pc # "query"
          BY <5>1, <5>2 DEF Locals
        <5>3. ASSUME NEW i, req' = [req EXCEPT ![r] = Locals("import", i, TRUE)]
              PROVE  req'[r].pc # "query"
          BY <5>1, <5>3 DEF Locals
        <5> QED
          BY <3>1, <5>2, <5>3 DEF StartRun, Instantiate
      <4> QED
        BY <1>1, <2>1, <4>1
    <3>2. CASE AnswerScenario(r) \/ Throw(r) \/ Crash(r)
      BY <1>1, <2>1, <3>2 DEF AnswerScenario, Throw, Crash, Done, RunsInv, TypeOK
    <3>3. CASE \/ StartOwn(r) \/ List(r) \/ Clean(r) \/ CreateCase(r) \/ AuditCase(r)
               \/ CompleteRun(r) \/ LinkCases(r) \/ CompleteScenario(r) \/ AuditScenario(r)
      <4>1. req'[r] # Done =>
              \/ req'[r].pc # "query"
              \/ \E p : LoadUnit(r, p)
              \/ \E k \in Queries : Query(r, k)
        BY <3>3, LocalsGoOn DEF Continue
      <4>2. CASE req'[r] = Done \/ req'[r].pc # "query"
        BY <1>1, <2>1, <4>2 DEF Done
      <4>3. CASE \E p : LoadUnit(r, p)
        BY <4>3, LoadUnitStartsLoading
      <4>4. CASE \E k \in Queries : Query(r, k)
        BY <4>4, QueryGoesOnLoading
      <4> QED
        BY <4>1, <4>2, <4>3, <4>4
    <3> QED
      BY <1>7, <2>3, <3>1, <3>2, <3>3
  <2> QED
    BY <2>2, <2>3
<1> QED
  BY <1>2, <1>3, <1>4, <1>5, <1>6, <1>7 DEF Next, Continue

(* A run goes on from a unit to the next only by closing it.               *)
LEMMA ClosingIsClean ==
  ASSUME RunsInv, [Next]_vars, NEW r \in Requests, At(r, "query"), req'[r].pc = "next"
  PROVE  Clean(r)
<1>1. PICK q : q = req[r]
  OBVIOUS
<1>2. /\ DOMAIN q = {"pc", "import", "scenario", "todo", "left", "unit", "counts", "linked"}
      /\ DOMAIN req = Requests /\ q.pc = "query"
  BY <1>1, AtIsTyped DEF At, IsLocals, RunsInv, TypeOK
<1>3. CASE \E k \in Queries : Query(r, k)
  BY <1>1, <1>2, <1>3 DEF Query
<1>4. CASE CreateCase(r)
  BY <1>1, <1>2, <1>4 DEF CreateCase
<1>5. CASE Throw(r) \/ Crash(r)
  BY <1>2, <1>5 DEF Throw, Crash, Done
<1>6. CASE UNCHANGED vars \/ \E i \in Imports : Import(i)
  BY <1>1, <1>2, <1>6 DEF vars, Import
<1>7. ASSUME NEW s \in Requests \ {r}, Continue(s) \/ Throw(s) \/ Crash(s)
      PROVE  FALSE
  BY <1>1, <1>2, <1>7
  DEF Continue, Throw, Crash, Goto, ImportOwn, StartOwn, List, LoadUnit, Query, Clean,
      CreateCase, AuditCase, CompleteRun, LinkCases, CompleteScenario, AuditScenario,
      AnswerScenario
<1>8. ASSUME NEW s \in Requests,
             \/ \E i \in Imports \cup {AllImports} : StartRun(s, i)
             \/ \E i \in Scenarios : Instantiate(s, i)
      PROVE  FALSE
  BY <1>1, <1>2, <1>8 DEF StartRun, Instantiate, At
<1>9. CASE Continue(r)
  BY <1>1, <1>2, <1>3, <1>4, <1>9
  DEF Continue, At, ImportOwn, StartOwn, List, LoadUnit, AuditCase, CompleteRun, LinkCases,
      CompleteScenario, AuditScenario, AnswerScenario
<1> QED
  BY <1>3, <1>4, <1>5, <1>6, <1>7, <1>8, <1>9 DEF Next

(* As long as no import changes what a unit's queries select while it is   *)
(* loaded, runReconciliation closes a payment only if it reconciles in the *)
(* store as it is then: loadUnit reads outside any transaction, and the    *)
(* run TornUnit shows that nothing less will do.                           *)
THEOREM WholeUnitsCloseAsStored == Spec /\ []UnitsAreWhole => ClosedAsStored
<1> DEFINE Loading == \A r \in Requests : IsLoading(r)
<1>1. Init => Loading
  BY DEF Init, IsLoading, At, Idle
<1>2. RunsInv /\ RunsInv' /\ Loading /\ [Next]_vars => Loading'
  <2> SUFFICES ASSUME RunsInv, RunsInv', Loading, [Next]_vars, NEW r \in Requests
               PROVE  IsLoading(r)'
    OBVIOUS
  <2> QED
    BY LoadingStep
<1>3. RunsInv /\ Loading /\ UnitsAreWhole /\ [Next]_vars =>
        [\A r \in Requests : At(r, "query") /\ req'[r].pc = "next" =>
           \E s \in seen[r] : LET unit == UnitOf(s, req[r].unit.payment.id) IN
             \E find \in Finds(unit) : Reconciles(unit, find)]_vars
  <2> SUFFICES ASSUME RunsInv, Loading, UnitsAreWhole, [Next]_vars, NEW r \in Requests,
                      At(r, "query"), req'[r].pc = "next"
               PROVE  \E s \in seen[r] : LET unit == UnitOf(s, req[r].unit.payment.id) IN
                        \E find \in Finds(unit) : Reconciles(unit, find)
    OBVIOUS
  <2>1. PICK p, rows : /\ req[r].unit = [payment |-> p, rows |-> rows]
                       /\ rows = [k \in Queries |-> rows[k]]
    BY DEF IsLoading
  <2>2. /\ store \in seen[r] /\ PaymentIn(store, p.id) = p
        /\ \A k \in Queries \ req[r].left : \E s \in seen[r] : rows[k] = Select(k, s, p.id)
    BY <2>1 DEF IsLoading
  <2>3. Loaded(r) /\ \E find \in Finds(req[r].unit) : Reconciles(req[r].unit, find)
    BY ClosingIsClean DEF Clean, Reconciled
  <2>4. \A k \in Queries : rows[k] = Select(k, store, p.id)
    BY <2>1, <2>2, <2>3 DEF Loaded, UnitsAreWhole
  <2>5. req[r].unit = UnitOf(store, p.id)
    BY <2>1, <2>2, <2>4 DEF UnitOf
  <2> QED
    BY <2>1, <2>2, <2>3, <2>5
<1> HIDE DEF Loading
<1> QED
  BY <1>1, <1>2, <1>3, RunsAreAccounted, PTL DEF Spec, ClosedAsStored

----------------------------------------------------------------------------
(* Batches that are apart.                                                 *)

Inserted ==
  { "PAYMENT", "SETTLEMENT", "BANK_CREDIT", "FEE_LINE", "TAX_LINE", "ADJUSTMENT",
    "REFUND", "SETTLEMENT_LINE" }

(* The row x is what the store has of the record y: a reference that found *)
(* nothing is NULL.                                                        *)
IsVersion(x, y) ==
  /\ x.kind = y.kind /\ x.id = y.id /\ y.kind \in Inserted
  /\ y.kind \in {"FEE_LINE", "SETTLEMENT_LINE"} => x.payment \in {y.payment, NoRow}
  /\ y.kind = "REFUND" => x.payment = y.payment
  /\ y.kind = "TAX_LINE" => x.fee \in {y.fee, NoRow}
  /\ y.kind = "ADJUSTMENT" => x.settlement \in {y.settlement, NoRow}
  /\ y.kind = "SETTLEMENT_LINE" => x.settlement = y.settlement
  /\ y.kind \in {"SETTLEMENT", "BANK_CREDIT"} => x.utr = y.utr

(* A refund or a line finds the row that it is not inserted without.       *)
HasParent(y, rows) ==
  /\ y.kind = "REFUND" => y.payment \in IdsIn(rows, "PAYMENT")
  /\ y.kind = "SETTLEMENT_LINE" => y.settlement \in IdsIn(rows, "SETTLEMENT")

LEMMA NullingIsVersion ==
  ASSUME NEW y, NEW ids, {"kind", "id"} \cup ForeignKeys(y.kind) \subseteq DOMAIN y
  PROVE  /\ y.kind = "FEE_LINE" => IsVersion([y EXCEPT !.payment = OrNull(@, ids)], y)
         /\ y.kind = "TAX_LINE" => IsVersion([y EXCEPT !.fee = OrNull(@, ids)], y)
         /\ y.kind = "ADJUSTMENT" => IsVersion([y EXCEPT !.settlement = OrNull(@, ids)], y)
         /\ y.kind = "SETTLEMENT_LINE" => IsVersion([y EXCEPT !.payment = OrNull(@, ids)], y)
<1>1. CASE y.kind = "FEE_LINE"
  <2>1. PICK v : v = OrNull(y.payment, ids) /\ v \in {y.payment, NoRow}
    BY DEF OrNull
  <2>2. IsVersion([y EXCEPT !.payment = v], y)
    BY <1>1, <2>1 DEF ForeignKeys, IsVersion, Inserted
  <2> QED
    BY <1>1, <2>1, <2>2
<1>2. CASE y.kind = "TAX_LINE"
  <2>1. PICK v : v = OrNull(y.fee, ids) /\ v \in {y.fee, NoRow}
    BY DEF OrNull
  <2>2. IsVersion([y EXCEPT !.fee = v], y)
    BY <1>2, <2>1 DEF ForeignKeys, IsVersion, Inserted
  <2> QED
    BY <1>2, <2>1, <2>2
<1>3. CASE y.kind = "ADJUSTMENT"
  <2>1. PICK v : v = OrNull(y.settlement, ids) /\ v \in {y.settlement, NoRow}
    BY DEF OrNull
  <2>2. IsVersion([y EXCEPT !.settlement = v], y)
    BY <1>3, <2>1 DEF ForeignKeys, IsVersion, Inserted
  <2> QED
    BY <1>3, <2>1, <2>2
<1>4. CASE y.kind = "SETTLEMENT_LINE"
  <2>1. PICK v : v = OrNull(y.payment, ids) /\ v \in {y.payment, NoRow}
    BY DEF OrNull
  <2>2. IsVersion([y EXCEPT !.payment = v], y)
    <3>1. [y EXCEPT !.payment = v].payment = v /\ [y EXCEPT !.payment = v].kind = y.kind
          /\ [y EXCEPT !.payment = v].id = y.id
      BY <1>4 DEF ForeignKeys
    <3>2. [y EXCEPT !.payment = v].settlement = y.settlement
      BY <1>4
    <3> QED
      BY <1>4, <2>1, <3>1, <3>2 DEF IsVersion, Inserted
  <2> QED
    BY <1>4, <2>1, <2>2
<1> QED
  BY <1>1, <1>2, <1>3, <1>4

(* What an import adds, kind by kind.                                      *)
LEMMA AddedRows ==
  ASSUME NEW i \in Imports
  PROVE  LET batch == Batch[i]
             new(kind) == {x \in OfKind(batch, kind) : x.id \notin IdsIn(store, kind)}
             ids(kind) == IdsIn(store, kind) \cup IdsIn(batch, kind)
             T == AfterImport(store, batch)
         IN  /\ store \subseteq T
             /\ \A x \in T : \/ x \in store
                             \/ x \in new("PAYMENT") \cup new("SETTLEMENT") \cup new("BANK_CREDIT")
                             \/ \E y \in new("FEE_LINE") :
                                  x = [y EXCEPT !.payment = OrNull(@, ids("PAYMENT"))]
                             \/ \E y \in new("TAX_LINE") :
                                  x = [y EXCEPT !.fee = OrNull(@, ids("FEE_LINE"))]
                             \/ \E y \in new("ADJUSTMENT") :
                                  x = [y EXCEPT !.settlement = OrNull(@, ids("SETTLEMENT"))]
                             \/ x \in new("REFUND") /\ x.payment \in ids("PAYMENT")
                             \/ \E y \in new("SETTLEMENT_LINE") :
                                  /\ y.settlement \in ids("SETTLEMENT")
                                  /\ x = [y EXCEPT !.payment = OrNull(@, ids("PAYMENT"))]
BY DEF AfterImport

(* What an import adds are versions of its records that were not there.    *)
LEMMA RowsAreVersions ==
  ASSUME NEW i \in Imports, NEW x \in AfterImport(store, Batch[i]), x \notin store
  PROVE  \E y \in Batch[i] :
           /\ IsVersion(x, y) /\ y.id \notin IdsIn(store, y.kind)
           /\ HasParent(y, store) \/ HasParent(y, Batch[i])
<1> DEFINE batch == Batch[i]
           new(kind) == {y \in OfKind(batch, kind) : y.id \notin IdsIn(store, kind)}
           ids(kind) == IdsIn(store, kind) \cup IdsIn(batch, kind)
<1>1. \A kind, y : y \in new(kind) =>
        /\ y \in batch /\ y.kind = kind /\ y.id \notin IdsIn(store, kind)
        /\ {"kind", "id"} \cup ForeignKeys(y.kind) \subseteq DOMAIN y
  BY BatchAssumption DEF OfKind
<1>2. CASE x \in new("PAYMENT") \cup new("SETTLEMENT") \cup new("BANK_CREDIT")
  <2>1. IsVersion(x, x) /\ HasParent(x, store)
    BY <1>1, <1>2 DEF IsVersion, Inserted, HasParent
  <2> QED
    BY <1>1, <1>2, <2>1
<1>3. ASSUME NEW y \in new("FEE_LINE"), x = [y EXCEPT !.payment = OrNull(@, ids("PAYMENT"))]
      PROVE  IsVersion(x, y) /\ HasParent(y, store)
  <2> HIDE DEF ids
  <2> QED
    BY <1>1, <1>3, NullingIsVersion DEF HasParent
<1>4. ASSUME NEW y \in new("TAX_LINE"), x = [y EXCEPT !.fee = OrNull(@, ids("FEE_LINE"))]
      PROVE  IsVersion(x, y) /\ HasParent(y, store)
  <2> HIDE DEF ids
  <2> QED
    BY <1>1, <1>4, NullingIsVersion DEF HasParent
<1>5. ASSUME NEW y \in new("ADJUSTMENT"),
             x = [y EXCEPT !.settlement = OrNull(@, ids("SETTLEMENT"))]
      PROVE  IsVersion(x, y) /\ HasParent(y, store)
  <2> HIDE DEF ids
  <2> QED
    BY <1>1, <1>5, NullingIsVersion DEF HasParent
<1>6. CASE x \in new("REFUND") /\ x.payment \in ids("PAYMENT")
  <2>1. IsVersion(x, x) /\ (HasParent(x, store) \/ HasParent(x, batch))
    BY <1>1, <1>6 DEF IsVersion, Inserted, HasParent
  <2> QED
    BY <1>1, <1>6, <2>1
<1>7. ASSUME NEW y \in new("SETTLEMENT_LINE"), y.settlement \in ids("SETTLEMENT"),
             x = [y EXCEPT !.payment = OrNull(@, ids("PAYMENT"))]
      PROVE  IsVersion(x, y) /\ (HasParent(y, store) \/ HasParent(y, batch))
  <2>1. HasParent(y, store) \/ HasParent(y, batch)
    BY <1>1, <1>7 DEF HasParent
  <2> HIDE DEF ids
  <2> QED
    BY <1>1, <1>7, <2>1, NullingIsVersion
<1>8. \/ x \in new("PAYMENT") \cup new("SETTLEMENT") \cup new("BANK_CREDIT")
      \/ \E y \in new("FEE_LINE") : x = [y EXCEPT !.payment = OrNull(@, ids("PAYMENT"))]
      \/ \E y \in new("TAX_LINE") : x = [y EXCEPT !.fee = OrNull(@, ids("FEE_LINE"))]
      \/ \E y \in new("ADJUSTMENT") : x = [y EXCEPT !.settlement = OrNull(@, ids("SETTLEMENT"))]
      \/ x \in new("REFUND") /\ x.payment \in ids("PAYMENT")
      \/ \E y \in new("SETTLEMENT_LINE") :
           /\ y.settlement \in ids("SETTLEMENT")
           /\ x = [y EXCEPT !.payment = OrNull(@, ids("PAYMENT"))]
  BY AddedRows
<1> HIDE DEF new, ids
<1> QED
  BY <1>1, <1>2, <1>3, <1>4, <1>5, <1>6, <1>7, <1>8

(* Of its records, it leaves none out but for want of a parent.            *)
LEMMA RecordsAreStored ==
  ASSUME NEW i \in Imports, NEW y \in Batch[i], y.kind \in Inserted, HasParent(y, Batch[i])
  PROVE  y.id \in IdsIn(AfterImport(store, Batch[i]), y.kind)
<1> DEFINE batch == Batch[i]
           T == AfterImport(store, batch)
           ids(kind) == IdsIn(store, kind) \cup IdsIn(batch, kind)
<1>1. CASE y.id \in IdsIn(store, y.kind)
  BY <1>1, AddedRows DEF IdsIn, OfKind
<1>2. CASE y.id \notin IdsIn(store, y.kind)
  <2>0. /\ {"kind", "id"} \cup ForeignKeys(y.kind) \subseteq DOMAIN y
        /\ y \in OfKind(batch, y.kind)
    BY BatchAssumption DEF OfKind
  <2>1. ASSUME NEW x \in T, x.kind = y.kind, x.id = y.id
        PROVE  y.id \in IdsIn(T, y.kind)
    BY <2>1 DEF IdsIn, OfKind
  <2>2. CASE y.kind \in {"PAYMENT", "SETTLEMENT", "BANK_CREDIT"}
    <3>1. y \in T
      BY <1>2, <2>0, <2>2 DEF AfterImport
    <3> QED
      BY <2>1, <3>1
  <2>3. CASE y.kind = "FEE_LINE"
    <3>1. PICK x : x = [y EXCEPT !.payment = OrNull(@, ids("PAYMENT"))]
      OBVIOUS
    <3>2. x \in T
      BY <1>2, <2>0, <2>3, <3>1 DEF AfterImport
    <3>3. IsVersion(x, y)
      BY <2>0, <2>3, <3>1, NullingIsVersion
    <3> QED
      BY <2>1, <3>2, <3>3 DEF IsVersion
  <2>4. CASE y.kind = "TAX_LINE"
    <3>1. PICK x : x = [y EXCEPT !.fee = OrNull(@, ids("FEE_LINE"))]
      OBVIOUS
    <3>2. x \in T
      BY <1>2, <2>0, <2>4, <3>1 DEF AfterImport
    <3>3. IsVersion(x, y)
      BY <2>0, <2>4, <3>1, NullingIsVersion
    <3> QED
      BY <2>1, <3>2, <3>3 DEF IsVersion
  <2>5. CASE y.kind = "ADJUSTMENT"
    <3>1. PICK x : x = [y EXCEPT !.settlement = OrNull(@, ids("SETTLEMENT"))]
      OBVIOUS
    <3>2. x \in T
      BY <1>2, <2>0, <2>5, <3>1 DEF AfterImport
    <3>3. IsVersion(x, y)
      BY <2>0, <2>5, <3>1, NullingIsVersion
    <3> QED
      BY <2>1, <3>2, <3>3 DEF IsVersion
  <2>6. CASE y.kind = "REFUND"
    <3>1. y \in T
      BY <1>2, <2>0, <2>6 DEF AfterImport, HasParent
    <3> QED
      BY <2>1, <3>1
  <2>7. CASE y.kind = "SETTLEMENT_LINE"
    <3>1. PICK x : x = [y EXCEPT !.payment = OrNull(@, ids("PAYMENT"))]
      OBVIOUS
    <3>2. y.settlement \in ids("SETTLEMENT")
      BY <2>7 DEF HasParent
    <3>3. x \in T
      BY <1>2, <2>0, <2>7, <3>1, <3>2 DEF AfterImport
    <3>4. IsVersion(x, y)
      BY <2>0, <2>7, <3>1, NullingIsVersion
    <3> QED
      BY <2>1, <3>3, <3>4 DEF IsVersion
  <2> QED
    BY <2>2, <2>3, <2>4, <2>5, <2>6, <2>7 DEF Inserted
<1> QED
  BY <1>1, <1>2

(* Every row is of some batch, and a payment came with its whole batch.    *)
RowsAreOfBatches ==
  \A x \in store :
    /\ \E i \in Imports : \E y \in Batch[i] : IsVersion(x, y)
    /\ x.kind = "SETTLEMENT_LINE" => x.settlement # NoRow

IsStored(i) ==
  \A y \in Batch[i] :
    y.kind \in Inserted /\ HasParent(y, Batch[i]) => y.id \in IdsIn(store, y.kind)

StoreIsApart ==
  /\ RowsAreOfBatches
  /\ \A p \in OfKind(store, "PAYMENT") : IsStored(p.import)

(* The parent of a record is of its own batch.                             *)
LEMMA ParentsAreOwn ==
  ASSUME BatchesAreApart, RowsAreOfBatches, NEW i \in Imports, NEW y \in Batch[i],
         HasParent(y, store)
  PROVE  HasParent(y, Batch[i])
<1>1. ASSUME y.kind = "REFUND"
      PROVE  y.payment \in IdsIn(Batch[i], "PAYMENT")
  <2>1. PICK x \in store : x.kind = "PAYMENT" /\ x.id = y.payment
    BY <1>1 DEF HasParent, IdsIn, OfKind
  <2>2. PICK j \in Imports : \E z \in Batch[j] : IsVersion(x, z)
    BY DEF RowsAreOfBatches
  <2>3. PICK z \in Batch[j] : z.kind = "PAYMENT" /\ z.id = y.payment
    BY <2>1, <2>2 DEF IsVersion
  <2>4. BearsOn(y, z)
    BY <1>1, <2>3 DEF BearsOn
  <2>5. i = j
    BY <2>3, <2>4 DEF BatchesAreApart
  <2> QED
    BY <2>3, <2>5 DEF IdsIn, OfKind
<1>2. ASSUME y.kind = "SETTLEMENT_LINE"
      PROVE  y.settlement \in IdsIn(Batch[i], "SETTLEMENT")
  <2>1. PICK x \in store : x.kind = "SETTLEMENT" /\ x.id = y.settlement
    BY <1>2 DEF HasParent, IdsIn, OfKind
  <2>2. PICK j \in Imports : \E z \in Batch[j] : IsVersion(x, z)
    BY DEF RowsAreOfBatches
  <2>3. PICK z \in Batch[j] : z.kind = "SETTLEMENT" /\ z.id = y.settlement
    BY <2>1, <2>2 DEF IsVersion
  <2>4. BearsOn(y, z)
    BY <1>2, <2>3 DEF BearsOn
  <2>5. i = j
    BY <2>3, <2>4 DEF BatchesAreApart
  <2> QED
    BY <2>3, <2>5 DEF IdsIn, OfKind
<1> QED
  BY <1>1, <1>2 DEF HasParent

(* An import that is made again adds nothing.                              *)
LEMMA AgainAddsNothing ==
  ASSUME BatchesAreApart, RowsAreOfBatches, NEW i \in Imports, IsStored(i)
  PROVE  AfterImport(store, Batch[i]) = store
<1>1. store \subseteq AfterImport(store, Batch[i])
  BY AddedRows
<1>2. ASSUME NEW x \in AfterImport(store, Batch[i]), x \notin store
      PROVE  FALSE
  <2>1. PICK y \in Batch[i] :
          /\ IsVersion(x, y) /\ y.id \notin IdsIn(store, y.kind)
          /\ HasParent(y, store) \/ HasParent(y, Batch[i])
    BY <1>2, RowsAreVersions
  <2>2. y.kind \in Inserted /\ HasParent(y, Batch[i])
    BY <2>1, ParentsAreOwn DEF IsVersion
  <2> QED
    BY <2>1, <2>2 DEF IsStored
<1> QED
  BY <1>1, <1>2

LEMMA CommitKeepsApart ==
  ASSUME RunsInv, StoreIsApart, NEW i \in Imports, Commit(i)
  PROVE  StoreIsApart'
<1>1. store' = AfterImport(store, Batch[i]) /\ store \subseteq store'
  BY AddedRows DEF Commit
<1>2. RowsAreOfBatches'
  <2> SUFFICES ASSUME NEW x \in store'
               PROVE  /\ \E j \in Imports : \E y \in Batch[j] : IsVersion(x, y)
                      /\ x.kind = "SETTLEMENT_LINE" => x.settlement # NoRow
    BY DEF RowsAreOfBatches
  <2>1. CASE x \in store
    BY <2>1 DEF StoreIsApart, RowsAreOfBatches
  <2>2. CASE x \notin store
    <3>1. PICK y \in Batch[i] :
            IsVersion(x, y) /\ (HasParent(y, store) \/ HasParent(y, Batch[i]))
      BY <1>1, <2>2, RowsAreVersions
    <3>2. /\ \A z \in store : z.id # NoRow
          /\ \A z \in Batch[i] : z.id # NoRow
      BY BatchAssumption DEF StoreIsApart, RowsAreOfBatches, IsVersion
    <3>3. x.kind = "SETTLEMENT_LINE" => x.settlement # NoRow
      BY <3>1, <3>2 DEF IsVersion, HasParent, IdsIn, OfKind
    <3> QED
      BY <3>1, <3>3
  <2> QED
    BY <2>1, <2>2
<1>3. \A kind : IdsIn(store, kind) \subseteq IdsIn(store', kind)
  BY <1>1 DEF IdsIn, OfKind
<1>4. IsStored(i)'
  BY <1>1, RecordsAreStored DEF IsStored
<1>5. ASSUME NEW p \in OfKind(store', "PAYMENT")
      PROVE  IsStored(p.import)'
  <2>1. CASE p \in OfKind(store, "PAYMENT")
    BY <1>3, <2>1 DEF StoreIsApart, IsStored
  <2>2. CASE p \notin OfKind(store, "PAYMENT")
    <3>1. p \in Fresh(Batch[i])
      BY <1>1, <2>2, PaymentsAfterImport
    <3>2. p.import = i
      BY <3>1, BatchAssumption DEF Fresh
    <3> QED
      BY <1>4, <3>2
  <2> QED
    BY <2>1, <2>2
<1> QED
  BY <1>2, <1>5 DEF StoreIsApart

(* What the rows of a unit say of the batch that they come from.           *)
LEMMA UnitIsOfBatch ==
  ASSUME BatchesAreApart, RowsAreOfBatches, NEW i \in Imports,
         NEW p \in OfKind(Batch[i], "PAYMENT")
  PROVE  /\ \A f \in FeesOf(store, p.id) : \E y \in Batch[i] : IsVersion(f, y)
         /\ \A l \in LinesOf(store, p.id) : \E y \in Batch[i] : IsVersion(l, y)
         /\ \A s \in SettlementsOf(store, p.id) : \E y \in Batch[i] : IsVersion(s, y)
<1>1. p \in Batch[i] /\ p.kind = "PAYMENT" /\ p.id # NoRow
  BY BatchAssumption DEF OfKind
<1>2. ASSUME NEW f \in FeesOf(store, p.id)
      PROVE  \E y \in Batch[i] : IsVersion(f, y)
  <2>1. f \in store /\ f.kind = "FEE_LINE" /\ f.payment = p.id
    BY DEF FeesOf, OfKind
  <2>2. PICK j \in Imports : \E y \in Batch[j] : IsVersion(f, y)
    BY <2>1 DEF RowsAreOfBatches
  <2>3. PICK y \in Batch[j] : IsVersion(f, y)
    BY <2>2
  <2>4. BearsOn(y, p)
    BY <1>1, <2>1, <2>3 DEF BearsOn, IsVersion
  <2> QED
    BY <1>1, <2>3, <2>4 DEF BatchesAreApart
<1>3. ASSUME NEW l \in LinesOf(store, p.id)
      PROVE  \E y \in Batch[i] : IsVersion(l, y)
  <2>1. l \in store /\ l.kind = "SETTLEMENT_LINE" /\ l.payment = p.id
    BY DEF LinesOf, OfKind
  <2>2. PICK j \in Imports : \E y \in Batch[j] : IsVersion(l, y)
    BY <2>1 DEF RowsAreOfBatches
  <2>3. PICK y \in Batch[j] : IsVersion(l, y)
    BY <2>2
  <2>4. BearsOn(y, p)
    BY <1>1, <2>1, <2>3 DEF BearsOn, IsVersion
  <2> QED
    BY <1>1, <2>3, <2>4 DEF BatchesAreApart
<1>4. ASSUME NEW s \in SettlementsOf(store, p.id)
      PROVE  \E y \in Batch[i] : IsVersion(s, y)
  <2>1. PICK l \in LinesOf(store, p.id) : l.settlement = s.id
    BY DEF SettlementsOf
  <2>2. s \in store /\ s.kind = "SETTLEMENT" /\ l.kind = "SETTLEMENT_LINE"
    BY DEF SettlementsOf, LinesOf, OfKind
  <2>3. PICK x \in Batch[i] : IsVersion(l, x)
    BY <1>3
  <2>4. PICK j \in Imports : \E y \in Batch[j] : IsVersion(s, y)
    BY <2>2 DEF RowsAreOfBatches
  <2>5. PICK y \in Batch[j] : IsVersion(s, y)
    BY <2>4
  <2>6. BearsOn(y, x)
    BY <2>1, <2>2, <2>3, <2>5 DEF BearsOn, IsVersion
  <2> QED
    BY <2>3, <2>5, <2>6 DEF BatchesAreApart
<1> QED
  BY <1>2, <1>3, <1>4

(* The import of another batch adds nothing to a unit.                     *)
LEMMA OthersAddNothing ==
  ASSUME BatchesAreApart, RowsAreOfBatches, NEW i \in Imports, NEW j \in Imports \ {i},
         NEW p \in OfKind(Batch[i], "PAYMENT"), NEW q \in Queries
  PROVE  Select(q, AfterImport(store, Batch[j]), p.id) = Select(q, store, p.id)
<1> DEFINE T == AfterImport(store, Batch[j])
<1>1. p \in Batch[i] /\ p.kind = "PAYMENT" /\ p.id # NoRow
  BY BatchAssumption DEF OfKind
<1>2. /\ store \subseteq T
      /\ \A x \in T \ store : \E y \in Batch[j] : IsVersion(x, y)
  BY AddedRows, RowsAreVersions
<1> HIDE DEF T
<1>3. /\ FeesOf(T, p.id) = FeesOf(store, p.id)
      /\ LinesOf(T, p.id) = LinesOf(store, p.id)
      /\ RefundsOf(T, p.id) = RefundsOf(store, p.id)
  <2>1. ASSUME NEW x \in T \ store, x.kind \in {"FEE_LINE", "REFUND", "SETTLEMENT_LINE"}
        PROVE  x.payment # p.id
    <3>1. PICK y \in Batch[j] : IsVersion(x, y)
      BY <1>2
    <3>2. x.payment \in {y.payment, NoRow} /\ y.kind \in {"FEE_LINE", "REFUND", "SETTLEMENT_LINE"}
      BY <2>1, <3>1 DEF IsVersion
    <3>3. y.payment # p.id
      BY <1>1, <3>2 DEF BatchesAreApart, BearsOn
    <3> QED
      BY <1>1, <3>2, <3>3
  <2> QED
    BY <1>2, <2>1 DEF FeesOf, LinesOf, RefundsOf, OfKind
<1>4. TaxesOf(T, p.id) = TaxesOf(store, p.id)
  <2>1. ASSUME NEW x \in T \ store, x.kind = "TAX_LINE", NEW f \in FeesOf(store, p.id)
        PROVE  f.id # x.fee
    <3>1. PICK y \in Batch[j] : IsVersion(x, y)
      BY <1>2
    <3>2. PICK z \in Batch[i] : IsVersion(f, z)
      BY UnitIsOfBatch
    <3>3. /\ x.fee \in {y.fee, NoRow} /\ y.kind = "TAX_LINE"
          /\ z.id = f.id /\ z.kind = "FEE_LINE" /\ z.id # NoRow
      BY <2>1, <3>1, <3>2, BatchAssumption DEF IsVersion, FeesOf, OfKind
    <3>4. y.fee # z.id
      BY <3>3 DEF BatchesAreApart, BearsOn
    <3> QED
      BY <3>3, <3>4
  <2> QED
    BY <1>2, <1>3, <2>1 DEF TaxesOf, OfKind
<1>5. SettlementsOf(T, p.id) = SettlementsOf(store, p.id)
  <2>1. ASSUME NEW x \in T \ store, x.kind = "SETTLEMENT", NEW l \in LinesOf(store, p.id)
        PROVE  l.settlement # x.id
    <3>1. PICK y \in Batch[j] : IsVersion(x, y)
      BY <1>2
    <3>2. PICK z \in Batch[i] : IsVersion(l, z)
      BY UnitIsOfBatch
    <3>3. /\ x.id = y.id /\ y.kind = "SETTLEMENT"
          /\ z.settlement = l.settlement /\ z.kind = "SETTLEMENT_LINE"
      BY <2>1, <3>1, <3>2 DEF IsVersion, LinesOf, OfKind
    <3> QED
      BY <3>3 DEF BatchesAreApart, BearsOn
  <2> QED
    BY <1>2, <1>3, <2>1 DEF SettlementsOf, OfKind
<1>6. AdjustmentsOf(T, p.id) = AdjustmentsOf(store, p.id)
  <2>1. ASSUME NEW x \in T \ store, x.kind = "ADJUSTMENT", NEW l \in LinesOf(store, p.id)
        PROVE  x.settlement # l.settlement
    <3>1. PICK y \in Batch[j] : IsVersion(x, y)
      BY <1>2
    <3>2. PICK z \in Batch[i] : IsVersion(l, z)
      BY UnitIsOfBatch
    <3>3. /\ x.settlement \in {y.settlement, NoRow} /\ y.kind = "ADJUSTMENT"
          /\ z.settlement = l.settlement /\ z.kind = "SETTLEMENT_LINE" /\ l.settlement # NoRow
      BY <2>1, <3>1, <3>2 DEF IsVersion, LinesOf, OfKind, RowsAreOfBatches
    <3>4. y.settlement # z.settlement
      BY <3>3 DEF BatchesAreApart, BearsOn
    <3> QED
      BY <3>3, <3>4
  <2> QED
    BY <1>2, <1>3, <2>1 DEF AdjustmentsOf, OfKind
<1>7. CreditsOf(T, p.id) = CreditsOf(store, p.id)
  <2>1. ASSUME NEW x \in T \ store, x.kind = "BANK_CREDIT", NEW s \in SettlementsOf(store, p.id)
        PROVE  s.utr # x.utr
    <3>1. PICK y \in Batch[j] : IsVersion(x, y)
      BY <1>2
    <3>2. PICK z \in Batch[i] : IsVersion(s, z)
      BY UnitIsOfBatch
    <3>3. /\ x.utr = y.utr /\ y.kind = "BANK_CREDIT"
          /\ z.utr = s.utr /\ z.kind = "SETTLEMENT"
      BY <2>1, <3>1, <3>2 DEF IsVersion, SettlementsOf, OfKind
    <3> QED
      BY <3>3 DEF BatchesAreApart, BearsOn
  <2> QED
    BY <1>2, <1>5, <2>1 DEF CreditsOf, OfKind
<1> QED
  BY <1>3, <1>4, <1>5, <1>6, <1>7 DEF Select, T, Queries

(* The stores that a unit was loaded from all have the same for it.        *)
SeesAlike(r) ==
  At(r, "query") =>
    \A s \in seen[r], q \in Queries :
      Select(q, s, req[r].unit.payment.id) = Select(q, store, req[r].unit.payment.id)

(* While a unit is loaded, the stores it sees change by commits only.      *)
LEMMA SeenStep ==
  ASSUME RunsInv, [Next]_vars, NEW r \in Requests, req'[r].pc = "query"
  PROVE  \/ seen'[r] = {store} /\ store' = store
         \/ /\ At(r, "query") /\ req'[r].unit.payment = req[r].unit.payment
            /\ \/ seen'[r] = seen[r] /\ store' = store
               \/ seen'[r] = seen[r] \cup {store'} /\ \E i \in Imports : Commit(i)
<1>1. /\ DOMAIN req = Requests /\ DOMAIN seen = Requests
  BY DEF RunsInv, TypeOK
<1>2. CASE UNCHANGED vars
  BY <1>2 DEF vars, At
<1>3. CASE \E i \in Imports : Import(i)
  BY <1>3 DEF Import, Commit, At
<1>4. ASSUME NEW s \in Requests, ImportOwn(s)
      PROVE  /\ At(r, "query") /\ req'[r] = req[r]
             /\ seen'[r] = seen[r] \cup {store'} /\ \E i \in Imports : Commit(i)
  <2>1. req[s].import \in Scenarios /\ Commit(req[s].import)
    BY <1>4 DEF ImportOwn, At, RunsInv, OwnsInstance
  <2>2. PICK j \in Imports : j = req[s].import
    BY <2>1, RunsAssumption
  <2>3. Commit(j)
    BY <2>1, <2>2 DEF Commit
  <2>4. s # r
    BY <1>4, AtIsTyped DEF ImportOwn, Goto, At, IsLocals, RunsInv, TypeOK
  <2>5. req'[r] = req[r]
    BY <1>1, <1>4, <2>4 DEF ImportOwn, Goto
  <2> QED
    BY <2>3, <2>5 DEF Commit, At
<1>5. ASSUME NEW s \in Requests, NEW p, LoadUnit(s, p)
      PROVE  \/ seen'[r] = {store} /\ store' = store
             \/ req'[r] = req[r] /\ seen'[r] = seen[r] /\ store' = store
  BY <1>1, <1>5 DEF LoadUnit
<1>6. ASSUME NEW s \in Requests, NEW k \in Queries, Query(s, k)
      PROVE  /\ At(r, "query") /\ req'[r].unit.payment = req[r].unit.payment
             /\ seen'[r] = seen[r] /\ store' = store
  <2>1. CASE s # r
    BY <1>1, <1>6, <2>1 DEF Query, At
  <2>2. CASE s = r
    <3>1. PICK q, unit : q = req[r] /\ unit = q.unit
      OBVIOUS
    <3>2. q.pc = "query" /\ IsLocals(q)
      BY <1>6, <2>2, <3>1, AtIsTyped DEF Query, At, RunsInv, TypeOK
    <3>3. DOMAIN unit = {"payment", "rows"}
      BY <3>1, <3>2 DEF RunsInv, IsUnderWay, At
    <3>4. PICK left, found : left = q.left \ {k} /\ found = Select(k, store, unit.payment.id)
      OBVIOUS
    <3>5. PICK new : new = [unit EXCEPT !.rows = [@ EXCEPT ![k] = found]]
      OBVIOUS
    <3>6. [q EXCEPT !.left = left].unit = unit
      BY <3>1, <3>2 DEF IsLocals
    <3>7. req' = [req EXCEPT ![r] = [[q EXCEPT !.left = left] EXCEPT !.unit = new]]
      BY <1>1, <1>6, <2>2, <3>1, <3>4, <3>5, <3>6 DEF Query
    <3>8. req'[r].unit = new
      BY <1>1, <3>2, <3>7 DEF IsLocals
    <3>9. new.payment = unit.payment
      BY <3>3, <3>5
    <3> QED
      BY <1>6, <2>2, <3>1, <3>8, <3>9 DEF Query
  <2> QED
    BY <2>1, <2>2
<1>7. ASSUME NEW s \in Requests,
             \/ \E i \in Imports \cup {AllImports} : StartRun(s, i)
             \/ \E i \in Scenarios : Instantiate(s, i)
             \/ StartOwn(s) \/ List(s) \/ Clean(s) \/ CreateCase(s) \/ AuditCase(s)
             \/ CompleteRun(s) \/ LinkCases(s) \/ CompleteScenario(s) \/ AuditScenario(s)
             \/ AnswerScenario(s) \/ Throw(s) \/ Crash(s)
      PROVE  /\ At(r, "query") /\ req'[r] = req[r] /\ seen'[r] = seen[r] /\ store' = store
  <2>1. UNCHANGED <<store, seen>>
    BY <1>7
    DEF StartRun, Instantiate, StartOwn, List, Clean, CreateCase, AuditCase, CompleteRun,
        LinkCases, CompleteScenario, AuditScenario, AnswerScenario, Throw, Crash
  <2>2. CASE s # r
    <3>1. req'[r] = req[r]
      BY <1>1, <1>7, <2>2
      DEF StartRun, Instantiate, StartOwn, List, Clean, CreateCase, AuditCase, CompleteRun,
          LinkCases, CompleteScenario, AuditScenario, AnswerScenario, Throw, Crash, Goto
    <3> QED
      BY <2>1, <3>1 DEF At
  <2>3. s # r
    <3> SUFFICES ASSUME s = r
                 PROVE  FALSE
      OBVIOUS
    <3>1. ASSUME NEW i, req' = [req EXCEPT ![r] = Locals("list", i, FALSE)]
          PROVE  FALSE
      BY <1>1, <3>1 DEF Locals
    <3>2. ASSUME NEW i, req' = [req EXCEPT ![r] = Locals("import", i, TRUE)]
          PROVE  FALSE
      BY <1>1, <3>2 DEF Locals
    <3>3. CASE AnswerScenario(r) \/ Throw(r) \/ Crash(r)
      BY <1>1, <3>3 DEF AnswerScenario, Throw, Crash, Done
    <3>4. CASE \/ StartOwn(r) \/ List(r) \/ Clean(r) \/ CreateCase(r) \/ AuditCase(r)
               \/ CompleteRun(r) \/ LinkCases(r) \/ CompleteScenario(r) \/ AuditScenario(r)
      <4>1. PICK q : q = req[r]
        OBVIOUS
      <4>2. IsLocals(q)
        BY <3>4, <4>1, AtIsTyped
        DEF StartOwn, List, Clean, CreateCase, AuditCase, CompleteRun, LinkCases,
            CompleteScenario, AuditScenario, Loaded, At, RunsInv, TypeOK
      <4>3. ASSUME NEW pc, req' = [req EXCEPT ![r] = [q EXCEPT !.pc = pc]], pc # "query"
            PROVE  FALSE
        BY <1>1, <4>2, <4>3 DEF IsLocals
      <4>4. CASE \/ StartOwn(r) \/ AuditCase(r) \/ CompleteRun(r)
                 \/ CompleteScenario(r) \/ AuditScenario(r)
        BY <1>1, <4>1, <4>3, <4>4
        DEF StartOwn, AuditCase, CompleteRun, CompleteScenario, AuditScenario, Goto, Done
      <4>5. CASE List(r)
        BY <1>1, <4>1, <4>2, <4>5 DEF List, IsLocals
      <4>6. CASE Clean(r) \/ CreateCase(r)
        BY <1>1, <4>1, <4>2, <4>6 DEF Clean, CreateCase, IsLocals
      <4>7. CASE LinkCases(r)
        BY <1>1, <4>1, <4>2, <4>7 DEF LinkCases, IsLocals
      <4> QED
        BY <3>4, <4>4, <4>5, <4>6, <4>7
    <3> QED
      BY <1>7, <3>1, <3>2, <3>3, <3>4 DEF StartRun, Instantiate
  <2> QED
    BY <2>2, <2>3
<1> QED
  BY <1>2, <1>3, <1>4, <1>5, <1>6, <1>7 DEF Next, Continue, At

(* No commit changes what the store has for a payment that is in it.       *)
LEMMA CommitKeepsUnits ==
  ASSUME BatchesAreApart, RunsInv, StoreIsApart, NEW j \in Imports, Commit(j),
         NEW p \in OfKind(store, "PAYMENT"), NEW q \in Queries
  PROVE  Select(q, store', p.id) = Select(q, store, p.id)
<1>1. PICK i \in Imports : i = p.import /\ p \in Batch[i]
  BY DEF RunsInv, PaymentsAreOnce
<1>2. p \in OfKind(Batch[i], "PAYMENT")
  BY <1>1 DEF OfKind
<1>3. CASE j = i
  <2>1. IsStored(j)
    BY <1>1, <1>3 DEF StoreIsApart
  <2>2. store' = store
    BY <2>1, AgainAddsNothing DEF StoreIsApart, Commit
  <2> QED
    BY <2>2
<1>4. CASE j # i
  BY <1>2, <1>4, OthersAddNothing DEF StoreIsApart, Commit
<1> QED
  BY <1>3, <1>4

(* When every import brings all that its payments are reconciled with,     *)
(* loadUnit need not read in a transaction: what its queries are answered, *)
(* one after the other, is the unit as it is in the store, whatever else   *)
(* is imported between them.                                               *)
THEOREM ApartBatchesLeaveUnitsWhole ==
  ASSUME BatchesAreApart
  PROVE  Spec => []UnitsAreWhole
<1> DEFINE Alike == \A r \in Requests : SeesAlike(r)
<1>1. Init => StoreIsApart /\ Alike
  BY DEF Init, StoreIsApart, RowsAreOfBatches, SeesAlike, OfKind, At, Idle
<1>2. RunsInv /\ StoreIsApart /\ Alike /\ [Next]_vars => StoreIsApart' /\ Alike'
  <2> SUFFICES ASSUME RunsInv, StoreIsApart, Alike, [Next]_vars
               PROVE  StoreIsApart' /\ Alike'
    OBVIOUS
  <2>1. store' = store \/ \E i \in Imports : Commit(i)
    <3>1. ASSUME NEW s \in Requests, ImportOwn(s)
          PROVE  \E i \in Imports : Commit(i)
      <4>1. req[s].import \in Scenarios /\ Commit(req[s].import)
        BY <3>1 DEF ImportOwn, At, RunsInv, OwnsInstance
      <4>2. PICK i \in Imports : i = req[s].import
        BY <4>1, RunsAssumption
      <4> QED
        BY <4>1, <4>2 DEF Commit
    <3> QED
      BY <3>1
      DEF Next, vars, Import, StartRun, Instantiate, Continue, StartOwn, List, LoadUnit, Query,
          Clean, CreateCase, AuditCase, CompleteRun, LinkCases, CompleteScenario,
          AuditScenario, AnswerScenario, Throw, Crash
  <2>2. StoreIsApart'
    BY <2>1, CommitKeepsApart DEF StoreIsApart, RowsAreOfBatches, IsStored
  <2>3. ASSUME NEW r \in Requests
        PROVE  SeesAlike(r)'
    <3> SUFFICES ASSUME req'[r].pc = "query", NEW s \in seen'[r], NEW q \in Queries
                 PROVE  LET p == req'[r].unit.payment IN
                        Select(q, s, p.id) = Select(q, store', p.id)
      BY DEF SeesAlike, At
    <3>1. CASE seen'[r] = {store} /\ store' = store
      BY <3>1
    <3>2. CASE /\ At(r, "query") /\ req'[r].unit.payment = req[r].unit.payment
               /\ seen'[r] = seen[r] /\ store' = store
      BY <3>2 DEF SeesAlike
    <3>3. ASSUME At(r, "query"), req'[r].unit.payment = req[r].unit.payment,
                 seen'[r] = seen[r] \cup {store'}, NEW i \in Imports, Commit(i)
          PROVE  LET p == req'[r].unit.payment IN
                 Select(q, s, p.id) = Select(q, store', p.id)
      <4>1. PICK p : p = req[r].unit.payment
        OBVIOUS
      <4>2. p \in OfKind(store, "PAYMENT")
        BY <3>3, <4>1 DEF RunsInv, IsUnderWay, Pending, Captured, At
      <4>3. Select(q, store', p.id) = Select(q, store, p.id)
        BY <3>3, <4>2, CommitKeepsUnits
      <4>4. \A t \in seen[r] : Select(q, t, p.id) = Select(q, store, p.id)
        BY <3>3, <4>1 DEF SeesAlike
      <4> QED
        BY <3>3, <4>1, <4>3, <4>4
    <3> QED
      BY <3>1, <3>2, <3>3, SeenStep
  <2> QED
    BY <2>2, <2>3
<1>3. Alike => UnitsAreWhole
  BY DEF SeesAlike, UnitsAreWhole
<1> HIDE DEF Alike
<1> QED
  BY <1>1, <1>2, <1>3, RunsAreAccounted, PTL DEF Spec

(* So runReconciliation closes a payment only if it reconciles in the      *)
(* store, when every import brings all that its payments are reconciled    *)
(* with: as whole lifecycles do.                                           *)
THEOREM ApartBatchesCloseAsStored ==
  ASSUME BatchesAreApart
  PROVE  Spec => ClosedAsStored
BY ApartBatchesLeaveUnitsWhole, WholeUnitsCloseAsStored, PTL
================================================================================
