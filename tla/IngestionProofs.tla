---------------------------- MODULE IngestionProofs ----------------------------
(***************************************************************************)
(* Ingestion keeps IngestionInv for every set of records, batches, keys    *)
(* and requests, with or without crashes; its counts are honest, rows are  *)
(* final, a whole lifecycle is stored whole, and it implements the atomic  *)
(* import.                                                                 *)
(***************************************************************************)
EXTENDS Ingestion, FiniteSetTheorems, TLAPS

----------------------------------------------------------------------------
(* The order of insertion.                                                 *)

(* A kind has one place in the order.                                      *)
LEMMA RankIsPlace ==
  ASSUME NEW x \in Records
  PROVE  /\ Rank(x) \in 1..10
         /\ INSERT_ORDER[Rank(x)] = Kind[x]
<1>1. Kind[x] \in RecordKind
  BY IngestionAssumption
<1>2. DOMAIN INSERT_ORDER = 1..10
  BY DEF INSERT_ORDER
<1>3. \E n \in 1..10 : INSERT_ORDER[n] = Kind[x]
  BY <1>1, <1>2 DEF RecordKind
<1> QED
  BY <1>2, <1>3 DEF Rank

(* A record's parents come before it.                                      *)
LEMMA ParentsRankLower ==
  ASSUME NEW x \in Records, NEW p \in Refers[x]
  PROVE  p \in Records /\ Rank(p) < Rank(x)
<1>1. p \in Records /\ <<Kind[x], Kind[p]>> \in Reference
  BY IngestionAssumption
<1>2. /\ Rank(x) \in 1..10 /\ INSERT_ORDER[Rank(x)] = Kind[x]
      /\ Rank(p) \in 1..10 /\ INSERT_ORDER[Rank(p)] = Kind[p]
  BY <1>1, RankIsPlace
<1>3. ASSUME NEW m \in 1..10, NEW n \in 1..10,
             <<INSERT_ORDER[m], INSERT_ORDER[n]>> \in Reference
      PROVE  n < m
  BY <1>3 DEF INSERT_ORDER, Reference
<1> QED
  BY <1>1, <1>2, <1>3

----------------------------------------------------------------------------
(* Counting a batch.                                                       *)

(* No more records come out of a batch than it has positions, normalized   *)
(* or not.                                                                 *)
LEMMA BatchIsCounted ==
  ASSUME NEW batch \in Seq(Records), NEW S,
         S \subseteq {batch[i] : i \in Normalized(batch)}
  PROVE  /\ Cardinality(S) \in Nat
         /\ Cardinality(Normalized(batch)) - Cardinality(S) \in Nat
         /\ Len(batch) - Cardinality(Normalized(batch)) \in Nat
<1> DEFINE N == Normalized(batch)
           T == {batch[i] : i \in N}
           f == [i \in N |-> batch[i]]
<1>1. N \subseteq 1..Len(batch) /\ Len(batch) \in Nat
  BY DEF Normalized
<1>2. IsFiniteSet(1..Len(batch)) /\ Cardinality(1..Len(batch)) = Len(batch)
  <2> DEFINE n == Len(batch)
  <2>1. 1 \in Int /\ n \in Int
    BY <1>1
  <2> HIDE DEF n
  <2>2. IsFiniteSet(1..n) /\ Cardinality(1..n) = IF 1 > n THEN 0 ELSE n - 1 + 1
    BY <2>1, FS_Interval
  <2>3. n \in Nat
    BY <1>1 DEF n
  <2>4. Cardinality(1..n) = n
    BY <2>2, <2>3
  <2> QED
    BY <2>2, <2>4 DEF n
<1>3. IsFiniteSet(N) /\ Cardinality(N) <= Len(batch)
  BY <1>1, <1>2, FS_Subset
<1>4. f \in Surjection(N, T)
  BY DEF Surjection
<1>5. IsFiniteSet(T) /\ Cardinality(T) <= Cardinality(N)
  BY <1>3, <1>4, FS_Surjection
<1>6. IsFiniteSet(S) /\ Cardinality(S) <= Cardinality(T)
  BY <1>5, FS_Subset
<1>7. Cardinality(N) \in Nat /\ Cardinality(T) \in Nat /\ Cardinality(S) \in Nat
  BY <1>3, <1>5, <1>6, FS_CardinalityType
<1> QED
  BY <1>1, <1>3, <1>5, <1>6, <1>7

----------------------------------------------------------------------------
(* What the invariant says of one request.                                 *)

LEMMA BusyIsTyped ==
  ASSUME TypeOK, NEW r \in Requests, req[r] # Idle
  PROVE  /\ req[r] \in RequestState
         /\ req[r].key \in Keys /\ req[r].batch \in Seq(Records)
         /\ req[r].mine \subseteq Records
         /\ req[r].pc \in {"insert", "complete", "audit"}
BY DEF TypeOK, RequestState

LEMMA CountsAreTyped ==
  ASSUME IngestionInv, NEW r \in Requests, req[r] # Idle
  PROVE  Counts(r) \in ImportRow
<1>1. req[r].batch \in Seq(Records)
  BY BusyIsTyped DEF IngestionInv
<1>2. req[r].mine \subseteq {req[r].batch[i] : i \in Normalized(req[r].batch)}
  BY DEF IngestionInv, OwnsImport, Carried
<1>3. /\ Cardinality(req[r].mine) \in Nat
      /\ Cardinality(Normalized(req[r].batch)) - Cardinality(req[r].mine) \in Nat
      /\ Len(req[r].batch) - Cardinality(Normalized(req[r].batch)) \in Nat
  BY <1>1, <1>2, BatchIsCounted
<1> QED
  BY <1>3 DEF Counts, Duplicates, ImportRow

(* A request that ends leaves no trace in what the others know.            *)
LEMMA IdleKeeps ==
  ASSUME IngestionInv, NEW r \in Requests, Answer(r), UNCHANGED <<imports, rows, audit>>
  PROVE  IngestionInv'
<1>1. req'[r] = Idle /\ \A s \in Requests : s # r => req'[s] = req[s]
  BY DEF IngestionInv, TypeOK, Answer
<1>2. TypeOK'
  BY DEF IngestionInv, TypeOK, Answer
<1>3. CountsAreHonest'
  BY DEF IngestionInv, CountsAreHonest, StoredBy
<1>4. \A k \in Keys : imports'[k].status = "ABSENT" => StoredBy(k)' = {}
  BY DEF IngestionInv, StoredBy
<1>5. ASSUME NEW s \in Requests
      PROVE  (OwnsImport(s) /\ InsertsAlone(s) /\ IsInOrder(s))'
  <2>1. CASE s = r
    BY <1>1, <2>1 DEF OwnsImport, InsertsAlone, IsInOrder, At, Idle
  <2>2. CASE s # r
    <3>1. req'[s] = req[s]
      BY <1>1, <2>2
    <3>2. OwnsImport(s)'
      BY <1>1, <3>1 DEF IngestionInv, OwnsImport, StoredBy, Carried, Counts, Duplicates
    <3>3. InsertsAlone(s)'
      BY <1>1, <3>1 DEF IngestionInv, InsertsAlone, At, Stored, HeldByOther, Holds, Idle
    <3>4. IsInOrder(s)'
      BY <3>1 DEF IngestionInv, IsInOrder, At, Visible, Stored, Carried
    <3> QED
      BY <3>2, <3>3, <3>4
  <2> QED
    BY <2>1, <2>2
<1> QED
  BY <1>2, <1>3, <1>4, <1>5 DEF IngestionInv

(* A request's knowledge of its import outlives what others do, as long as *)
(* they leave its import, its rows and its key alone.                      *)
LEMMA OthersOwn ==
  ASSUME IngestionInv, NEW s \in Requests, req'[s] = req[s],
         req[s] # Idle =>
           /\ imports'[req[s].key] = imports[req[s].key]
           /\ \A x \in Records :
                rows'[x].import = req[s].key <=> rows[x].import = req[s].key
           /\ \A t \in Requests \ {s} : req'[t] # Idle => req'[t].key # req[s].key
  PROVE  OwnsImport(s)'
<1> SUFFICES ASSUME req[s] # Idle PROVE OwnsImport(s)'
  BY DEF OwnsImport
<1>1. OwnsImport(s)
  BY DEF IngestionInv
<1>2. Carried(s)' = Carried(s) /\ Counts(s)' = Counts(s)
  BY DEF Carried, Counts, Duplicates
<1>3. {x \in Records : rows'[x].import = req[s].key} = StoredBy(req[s].key)
  BY DEF StoredBy
<1> QED
  BY <1>1, <1>2, <1>3 DEF OwnsImport, StoredBy

(* When a record's turn comes, those of its parents that come in the same  *)
(* batch are there: they were dealt with before it, and they are of kinds  *)
(* that are never skipped for want of a parent.                            *)
LEMMA ParentsAreVisible ==
  ASSUME IngestionInv, NEW r \in Requests, At(r, "insert"), NEW i \in Todo(r),
         Turn(r, i), Refers[req[r].batch[i]] \subseteq Carried(r)
  PROVE  \A p \in Refers[req[r].batch[i]] : Visible(r, p)
<1>1. PICK q \in RequestState : q = req[r]
  BY BusyIsTyped DEF At, IngestionInv, Idle
<1>2. i \in DOMAIN q.batch /\ i \in Nat /\ q.batch \in Seq(Records)
  BY <1>1 DEF Todo, Normalized, RequestState
<1>3. PICK x \in Records : x = q.batch[i]
  BY <1>2
<1> SUFFICES ASSUME NEW p \in Refers[x] PROVE Visible(r, p)
  BY <1>1, <1>3
<1>4. PICK j \in Normalized(q.batch) : q.batch[j] = p
  BY <1>1, <1>3 DEF Carried
<1>5. p \in Records /\ Rank(p) < Rank(x) /\ Rank(p) \in Nat /\ Rank(x) \in Nat
  BY ParentsRankLower, RankIsPlace
<1>6. j # i /\ ~Before(q.batch, i, j)
  BY <1>3, <1>4, <1>5 DEF Before
<1>7. j \in q.done
  BY <1>1, <1>4, <1>6 DEF Turn, Todo
<1>8. \A k \in RecordKind : <<Kind[p], k>> \notin Mandatory
  BY <1>5, IngestionAssumption DEF Reference, Mandatory
<1> QED
  BY <1>1, <1>4, <1>7, <1>8 DEF IngestionInv, IsInOrder

----------------------------------------------------------------------------
(* The actions.                                                            *)

LEMMA SubmitKeeps ==
  ASSUME IngestionInv, NEW r \in Requests, NEW k \in Keys, NEW batch \in Batches,
         Submit(r, k, batch)
  PROVE  IngestionInv'
<1>1. /\ req[r] = Idle /\ imports[k].status = "ABSENT"
      /\ imports' = [imports EXCEPT ![k].status = "RUNNING"]
      /\ UNCHANGED <<rows, audit>>
  BY DEF Submit, Absent
<1>2. /\ req'[r] = [ pc |-> "insert", key |-> k, batch |-> batch,
                     done |-> {}, mine |-> {}, loose |-> {} ]
      /\ \A s \in Requests : s # r => req'[s] = req[s]
      /\ req'[r] # Idle
      /\ req'[r].pc = "insert" /\ req'[r].key = k /\ req'[r].mine = {}
  BY DEF IngestionInv, TypeOK, Submit, Idle
<1>3. /\ imports'[k] = [imports[k] EXCEPT !.status = "RUNNING"]
      /\ imports'[k] \in ImportRow /\ imports'[k].status = "RUNNING"
      /\ \A j \in Keys : j # k => imports'[j] = imports[j]
  BY <1>1 DEF IngestionInv, TypeOK, ImportRow
<1>4. TypeOK'
  <2>1. batch \in Seq(Records)
    BY IngestionAssumption
  <2>2. req'[r] \in RequestState
    BY <1>2, <2>1 DEF RequestState
  <2> QED
    BY <1>1, <1>2, <1>3, <2>2 DEF IngestionInv, TypeOK, Submit
<1>5. /\ CountsAreHonest'
      /\ \A j \in Keys : imports'[j].status = "ABSENT" => StoredBy(j)' = {}
      /\ \A e \in audit' : imports'[e.import].status = "SUCCEEDED"
  <2>1. \A e \in audit : e.import # k /\ e.import \in Keys
    BY <1>1 DEF IngestionInv, TypeOK
  <2> QED
    BY <1>1, <1>3, <2>1 DEF IngestionInv, CountsAreHonest, StoredBy
<1>6. ASSUME NEW s \in Requests, s # r, req[s] # Idle
      PROVE  req[s].key \in Keys /\ req[s].key # k
  BY <1>1, <1>6, BusyIsTyped DEF IngestionInv, OwnsImport
<1>7. ASSUME NEW s \in Requests
      PROVE  (OwnsImport(s) /\ InsertsAlone(s) /\ IsInOrder(s))'
  <2>1. CASE s = r
    <3>1. StoredBy(k)' = {}
      BY <1>1 DEF IngestionInv, StoredBy
    <3>2. StoredBy(req[r].key)' = {}
      BY <1>2, <3>1 DEF StoredBy
    <3>3. \A t \in Requests \ {r} : req'[t] # Idle => req'[t].key # req'[r].key
      BY <1>2, <1>6
    <3>4. OwnsImport(r)'
      BY <1>2, <1>3, <3>2, <3>3 DEF OwnsImport
    <3> QED
      BY <1>2, <2>1, <3>4 DEF InsertsAlone, IsInOrder
  <2>2. CASE s # r
    <3>1. req'[s] = req[s]
      BY <1>2, <2>2
    <3>2. ASSUME req[s] # Idle, NEW t \in Requests \ {s}, req'[t] # Idle
          PROVE  req'[t].key # req[s].key
      BY <1>2, <1>6, <2>2, <3>2 DEF IngestionInv, OwnsImport
    <3>3. OwnsImport(s)'
      BY <1>1, <1>3, <1>6, <2>2, <3>1, <3>2, OthersOwn
    <3>4. InsertsAlone(s)'
      BY <1>1, <1>2, <3>1 DEF IngestionInv, InsertsAlone, At, Stored, HeldByOther, Holds
    <3>5. IsInOrder(s)'
      BY <1>1, <3>1 DEF IngestionInv, IsInOrder, At, Visible, Stored, Carried
    <3> QED
      BY <3>3, <3>4, <3>5
  <2> QED
    BY <2>1, <2>2
<1> QED
  BY <1>4, <1>5, <1>7 DEF IngestionInv

(* An INSERT sets three of a request's locals.                             *)
LEMMA ThreeLocals ==
  ASSUME NEW q \in RequestState, NEW d, NEW m, NEW l
  PROVE  [q EXCEPT !.done = d, !.mine = m, !.loose = l] =
           [ pc |-> q.pc, key |-> q.key, batch |-> q.batch,
             done |-> d, mine |-> m, loose |-> l ]
<1> DEFINE one == [q EXCEPT !.done = d]
           two == [one EXCEPT !.mine = m]
           three == [two EXCEPT !.loose = l]
<1>1. one = [ pc |-> q.pc, key |-> q.key, batch |-> q.batch,
              done |-> d, mine |-> q.mine, loose |-> q.loose ]
  BY DEF RequestState
<1>2. two = [ pc |-> q.pc, key |-> q.key, batch |-> q.batch,
              done |-> d, mine |-> m, loose |-> q.loose ]
  <2> HIDE DEF one
  <2> QED
    BY <1>1
<1>3. three = [ pc |-> q.pc, key |-> q.key, batch |-> q.batch,
                done |-> d, mine |-> m, loose |-> l ]
  <2> HIDE DEF two
  <2> QED
    BY <1>2
<1> QED
  BY <1>3

LEMMA InsertRecordKeeps ==
  ASSUME IngestionInv, NEW r \in Requests, NEW i \in Todo(r), InsertRecord(r, i)
  PROVE  IngestionInv'
<1>1. req[r] \in RequestState /\ req[r] # Idle /\ req[r].pc = "insert"
  BY BusyIsTyped DEF InsertRecord, At, IngestionInv, Idle
<1>2. PICK q \in RequestState : q = req[r]
  BY <1>1
<1>3. q # Idle /\ q.pc = "insert" /\ q.key \in Keys /\ q.batch \in Seq(Records)
  BY <1>1, <1>2 DEF RequestState
<1>4. i \in Normalized(q.batch) /\ i \in DOMAIN q.batch
  BY <1>2 DEF Todo, Normalized
<1>5. PICK x \in Records : x = q.batch[i]
  BY <1>3, <1>4
<1>6. x \in Carried(r) /\ i \in Nat
  BY <1>2, <1>3, <1>4, <1>5 DEF Carried
<1> DEFINE skipped == LacksParent(r, x) \/ Visible(r, x)
           linked == \A p \in Refers[x] : Visible(r, p)
           done == q.done \cup {i}
           mine == IF skipped THEN q.mine ELSE q.mine \cup {x}
           loose == IF skipped \/ linked THEN q.loose ELSE q.loose \cup {x}
<1>7. /\ UNCHANGED <<imports, rows, audit>>
      /\ skipped \/ ~HeldByOther(r, x)
  BY <1>2, <1>5 DEF InsertRecord
<1>8. /\ req' = [req EXCEPT ![r] = [q EXCEPT !.done = done, !.mine = mine, !.loose = loose]]
      /\ req'[r] = [q EXCEPT !.done = done, !.mine = mine, !.loose = loose]
      /\ \A s \in Requests : s # r => req'[s] = req[s]
  BY <1>2, <1>5 DEF InsertRecord, IngestionInv, TypeOK
<1>9. /\ req'[r] \in RequestState /\ req'[r] # Idle
      /\ req'[r].pc = "insert" /\ req'[r].key = q.key /\ req'[r].batch = q.batch
      /\ req'[r].done = done /\ req'[r].mine = mine /\ req'[r].loose = loose
  <2>1. done \in SUBSET Nat /\ mine \in SUBSET Records /\ loose \in SUBSET Records
    BY <1>6 DEF RequestState
  <2>2. req'[r] = [ pc |-> q.pc, key |-> q.key, batch |-> q.batch,
                    done |-> done, mine |-> mine, loose |-> loose ]
    <3> HIDE DEF done, mine, loose
    <3>1. [q EXCEPT !.done = done, !.mine = mine, !.loose = loose] =
            [ pc |-> q.pc, key |-> q.key, batch |-> q.batch,
              done |-> done, mine |-> mine, loose |-> loose ]
      BY ThreeLocals, Zenon
    <3> QED
      BY <1>8, <3>1, Zenon
  <2> HIDE DEF done, mine, loose
  <2> QED
    BY <1>3, <2>1, <2>2 DEF RequestState, Idle
<1>10. TypeOK'
  BY <1>7, <1>8, <1>9 DEF IngestionInv, TypeOK
<1>11. /\ CountsAreHonest'
       /\ \A k \in Keys : imports'[k].status = "ABSENT" => StoredBy(k)' = {}
       /\ \A e \in audit' : imports'[e.import].status = "SUCCEEDED"
  BY <1>7 DEF IngestionInv, CountsAreHonest, StoredBy
<1>12. Carried(r)' = Carried(r)
  BY <1>2, <1>9 DEF Carried
<1>13. \A y : Visible(r, y) => Visible(r, y)'
  BY <1>2, <1>7, <1>9 DEF Visible, Stored
<1>14. OwnsImport(r)'
  <2>1. /\ imports[q.key].status = "RUNNING" /\ StoredBy(q.key) = {}
        /\ q.mine \subseteq Carried(r)
        /\ \A s \in Requests \ {r} : req[s] # Idle => req[s].key # q.key
    BY <1>2, <1>3 DEF IngestionInv, OwnsImport
  <2>2. StoredBy(q.key)' = {}
    BY <1>7, <2>1 DEF StoredBy
  <2>3. mine \subseteq Carried(r)'
    BY <1>6, <1>12, <2>1
  <2>4. \A s \in Requests \ {r} : req'[s] # Idle => req'[s].key # q.key
    BY <1>8, <2>1
  <2>5. StoredBy(req[r].key)' = {}
    BY <1>9, <2>2 DEF StoredBy
  <2> HIDE DEF mine, loose, done
  <2> QED
    BY <1>7, <1>9, <2>1, <2>3, <2>4, <2>5 DEF OwnsImport
<1>15. InsertsAlone(r)'
  <2>1. \A y \in q.mine : ~Stored(y) /\ ~HeldByOther(r, y)
    BY <1>2, <1>3 DEF IngestionInv, InsertsAlone, At
  <2>2. ~skipped => ~Stored(x) /\ ~HeldByOther(r, x)
    BY <1>7 DEF Visible
  <2>3. \A y \in mine : ~Stored(y) /\ ~HeldByOther(r, y)
    BY <2>1, <2>2
  <2>4. \A y : ~Stored(y) /\ ~HeldByOther(r, y) => (~Stored(y) /\ ~HeldByOther(r, y))'
    BY <1>7, <1>8 DEF Stored, HeldByOther, Holds, At
  <2> HIDE DEF mine
  <2> QED
    BY <1>9, <2>3, <2>4 DEF InsertsAlone
<1>16. IsInOrder(r)'
  <2>1. /\ \A j \in q.done :
             \/ Visible(r, q.batch[j])
             \/ \E p \in RecordKind : <<Kind[q.batch[j]], p>> \in Mandatory
        /\ \A y \in q.loose : ~(Refers[y] \subseteq Carried(r))
    BY <1>2, <1>3 DEF IngestionInv, IsInOrder, At
  <2>2. \/ Visible(r, x)'
        \/ \E p \in RecordKind : <<Kind[x], p>> \in Mandatory
    <3>1. CASE LacksParent(r, x)
      BY <3>1, IngestionAssumption DEF LacksParent
    <3>2. CASE ~LacksParent(r, x) /\ Visible(r, x)
      BY <1>13, <3>2
    <3>3. CASE ~skipped
      BY <1>9, <3>3 DEF Visible
    <3> QED
      BY <3>1, <3>2, <3>3
  <2>3. ~skipped /\ ~linked => ~(Refers[x] \subseteq Carried(r))
    BY <1>2, <1>5, ParentsAreVisible DEF InsertRecord
  <2> HIDE DEF skipped, linked
  <2>4. \A j \in done :
          \/ Visible(r, q.batch[j])'
          \/ \E p \in RecordKind : <<Kind[q.batch[j]], p>> \in Mandatory
    BY <1>5, <1>13, <2>1, <2>2
  <2>5. \A y \in loose : ~(Refers[y] \subseteq Carried(r))
    BY <2>1, <2>3
  <2> HIDE DEF done, loose, mine
  <2>6. \A j \in req'[r].done :
          \/ Visible(r, req[r].batch[j])'
          \/ \E p \in RecordKind : <<Kind[req'[r].batch[j]], p>> \in Mandatory
    BY <1>9, <2>4 DEF Visible, Stored
  <2>7. req'[r].done \subseteq Normalized(req'[r].batch)
    <3>1. q.done \subseteq Normalized(q.batch)
      BY <1>2, <1>3 DEF IngestionInv, IsInOrder, At
    <3> QED
      BY <1>4, <1>9, <3>1 DEF done
  <2> QED
    BY <1>9, <1>12, <2>5, <2>6, <2>7 DEF IsInOrder
<1> HIDE DEF mine, loose, done
<1>17. ASSUME NEW s \in Requests, s # r
       PROVE  (OwnsImport(s) /\ InsertsAlone(s) /\ IsInOrder(s))'
  <2>1. req'[s] = req[s]
    BY <1>8, <1>17
  <2>2. ASSUME req[s] # Idle, NEW t \in Requests \ {s}, req'[t] # Idle
        PROVE  req'[t].key # req[s].key
    BY <1>2, <1>3, <1>8, <1>9, <2>2 DEF IngestionInv, OwnsImport
  <2>3. OwnsImport(s)'
    BY <1>7, <2>1, <2>2, OthersOwn
  <2>4. InsertsAlone(s)'
    <3> SUFFICES ASSUME At(s, "insert"), NEW y \in req[s].mine
                 PROVE  ~Stored(y)' /\ ~HeldByOther(s, y)'
      BY <2>1 DEF InsertsAlone, At
    <3>1. ~Stored(y) /\ ~HeldByOther(s, y)
      BY DEF IngestionInv, InsertsAlone
    <3>2. y \notin mine
      <4>1. HeldByOther(r, y)
        BY <1>17 DEF Holds, HeldByOther
      <4>2. y \notin q.mine
        BY <1>2, <1>3, <1>17, <3>1 DEF HeldByOther, Holds, At
      <4> QED
        BY <1>7, <4>1, <4>2 DEF mine
    <3> QED
      BY <1>7, <1>8, <1>9, <3>1, <3>2 DEF Stored, HeldByOther, Holds, At
  <2>5. IsInOrder(s)'
    BY <1>7, <2>1 DEF IngestionInv, IsInOrder, At, Visible, Stored, Carried
  <2> QED
    BY <2>3, <2>4, <2>5
<1> QED
  BY <1>10, <1>11, <1>14, <1>15, <1>16, <1>17 DEF IngestionInv

LEMMA CommitKeeps ==
  ASSUME IngestionInv, NEW r \in Requests, Commit(r)
  PROVE  IngestionInv'
<1>1. req[r] \in RequestState /\ req[r] # Idle /\ req[r].pc = "insert"
  BY BusyIsTyped DEF Commit, At, IngestionInv, Idle
<1>2. PICK q \in RequestState : q = req[r]
  BY <1>1
<1>3. /\ q # Idle /\ q.pc = "insert" /\ q.key \in Keys /\ q.batch \in Seq(Records)
      /\ q.mine \subseteq Records
  BY <1>1, <1>2 DEF RequestState
<1>4. /\ UNCHANGED <<imports, audit>>
      /\ \A x \in Records :
           rows'[x] = IF x \in q.mine
                      THEN [import |-> q.key, linked |-> x \notin q.loose]
                      ELSE rows[x]
      /\ rows' \in [Records -> [import : Keys, linked : BOOLEAN] \cup {NoRow}]
  BY <1>2, <1>3 DEF Commit, IngestionInv, TypeOK
<1>5. /\ req' = [req EXCEPT ![r] = [q EXCEPT !.pc = "complete"]]
      /\ req'[r] = [q EXCEPT !.pc = "complete"]
      /\ \A s \in Requests : s # r => req'[s] = req[s]
  BY <1>2 DEF Commit, IngestionInv, TypeOK
<1>6. /\ req'[r] \in RequestState /\ req'[r] # Idle
      /\ req'[r].pc = "complete" /\ req'[r].key = q.key /\ req'[r].batch = q.batch
      /\ req'[r].mine = q.mine
  BY <1>5 DEF RequestState, Idle
<1>7. /\ imports[q.key].status = "RUNNING" /\ StoredBy(q.key) = {}
      /\ q.mine \subseteq Carried(r)
      /\ \A s \in Requests \ {r} : req[s] # Idle => req[s].key # q.key
  BY <1>2, <1>3 DEF IngestionInv, OwnsImport
<1>8. \A x \in q.mine : rows[x] = NoRow /\ rows[x].import = NoKey
  <2>1. InsertsAlone(r) /\ At(r, "insert")
    BY <1>1 DEF IngestionInv, At
  <2>2. \A x \in q.mine : rows[x] = NoRow
    BY <1>2, <2>1 DEF InsertsAlone, Stored
  <2>3. NoRow.import = NoKey
    BY DEF NoRow
  <2> QED
    BY <2>2, <2>3
<1>9. \A k \in Keys, x \in Records :
        k # q.key => (rows'[x].import = k <=> rows[x].import = k)
  BY <1>4, <1>8, KeysAssumption
<1>10. \A k \in Keys : k # q.key => StoredBy(k)' = StoredBy(k)
  BY <1>9 DEF StoredBy
<1>11. StoredBy(q.key)' = q.mine
  BY <1>3, <1>4, <1>7 DEF StoredBy
<1>12. TypeOK'
  BY <1>4, <1>5, <1>6 DEF IngestionInv, TypeOK
<1>13. /\ CountsAreHonest'
       /\ \A k \in Keys : imports'[k].status = "ABSENT" => StoredBy(k)' = {}
       /\ \A e \in audit' : imports'[e.import].status = "SUCCEEDED"
  BY <1>4, <1>7, <1>10 DEF IngestionInv, CountsAreHonest
<1>14. Carried(r)' = Carried(r)
  BY <1>2, <1>6 DEF Carried
<1>15. (OwnsImport(r) /\ InsertsAlone(r) /\ IsInOrder(r))'
  <2>1. \A s \in Requests \ {r} : req'[s] # Idle => req'[s].key # q.key
    BY <1>5, <1>7
  <2>2. StoredBy(req[r].key)' = q.mine
    BY <1>6, <1>11 DEF StoredBy
  <2> QED
    BY <1>4, <1>6, <1>7, <1>14, <2>1, <2>2 DEF OwnsImport, InsertsAlone, IsInOrder, At
<1>16. ASSUME NEW s \in Requests, s # r
       PROVE  (OwnsImport(s) /\ InsertsAlone(s) /\ IsInOrder(s))'
  <2>1. req'[s] = req[s]
    BY <1>5, <1>16
  <2>2. req[s] # Idle => req[s].key \in Keys /\ req[s].key # q.key
    BY <1>7, <1>16, BusyIsTyped DEF IngestionInv
  <2>3. ASSUME req[s] # Idle, NEW t \in Requests \ {s}, req'[t] # Idle
        PROVE  req'[t].key # req[s].key
    BY <1>5, <1>6, <2>2, <2>3 DEF IngestionInv, OwnsImport
  <2>4. OwnsImport(s)'
    BY <1>4, <1>9, <2>1, <2>2, <2>3, OthersOwn
  <2>5. InsertsAlone(s)'
    <3> SUFFICES ASSUME At(s, "insert"), NEW y \in req[s].mine
                 PROVE  ~Stored(y)' /\ ~HeldByOther(s, y)'
      BY <2>1 DEF InsertsAlone, At
    <3>1. ~Stored(y) /\ ~HeldByOther(s, y)
      BY DEF IngestionInv, InsertsAlone
    <3>2. y \notin q.mine /\ y \in Records
      <4>1. req[s] # Idle
        BY DEF At, Idle
      <4> QED
        BY <1>2, <1>3, <1>16, <3>1, <4>1, BusyIsTyped
        DEF HeldByOther, Holds, At, IngestionInv
    <3> QED
      BY <1>4, <1>5, <1>6, <3>1, <3>2 DEF Stored, HeldByOther, Holds, At
  <2>6. IsInOrder(s)'
    <3> SUFFICES ASSUME At(s, "insert") PROVE IsInOrder(s)'
      BY <2>1 DEF IsInOrder, At
    <3>1. /\ req[s].done \subseteq Normalized(req[s].batch)
          /\ \A i \in req[s].done :
               \/ Visible(s, req[s].batch[i])
               \/ \E p \in RecordKind : <<Kind[req[s].batch[i]], p>> \in Mandatory
          /\ \A x \in req[s].loose : ~(Refers[x] \subseteq Carried(s))
      BY DEF IngestionInv, IsInOrder
    <3>2. Carried(s)' = Carried(s)
      BY <2>1 DEF Carried
    <3>3. ASSUME NEW x \in Records, Visible(s, x) PROVE Visible(s, x)'
      <4>1. CASE x \in req[s].mine
        BY <2>1, <4>1 DEF Visible
      <4>2. CASE x \notin req[s].mine
        BY <3>3, <4>2, <1>4, <1>8 DEF Visible, Stored
      <4> QED
        BY <4>1, <4>2
    <3>4. \A i \in req'[s].done :
            \/ Visible(s, req[s].batch[i])'
            \/ \E p \in RecordKind : <<Kind[req'[s].batch[i]], p>> \in Mandatory
      <4>1. req[s].batch \in Seq(Records)
        BY BusyIsTyped DEF IngestionInv, At, Idle
      <4>2. \A i \in req[s].done : req[s].batch[i] \in Records
        BY <3>1, <4>1 DEF Normalized
      <4> QED
        BY <2>1, <3>1, <3>3, <4>2 DEF Visible, Stored
    <3> QED
      BY <2>1, <3>1, <3>2, <3>4 DEF IsInOrder
  <2> QED
    BY <2>4, <2>5, <2>6
<1> QED
  BY <1>12, <1>13, <1>15, <1>16 DEF IngestionInv

LEMMA CompleteKeeps ==
  ASSUME IngestionInv, NEW r \in Requests, Complete(r)
  PROVE  IngestionInv'
<1>1. req[r] \in RequestState /\ req[r] # Idle /\ req[r].pc = "complete"
  BY BusyIsTyped DEF Complete, At, IngestionInv, Idle
<1>2. PICK q \in RequestState : q = req[r]
  BY <1>1
<1>3. q # Idle /\ q.pc = "complete" /\ q.key \in Keys
  BY <1>1, <1>2 DEF RequestState
<1>4. PICK c \in ImportRow : c = Counts(r)
  BY <1>1, CountsAreTyped
<1>5. c.status = "SUCCEEDED" /\ c.accepted = Cardinality(q.mine)
  BY <1>2, <1>4 DEF Counts
<1>6. /\ UNCHANGED <<rows, audit>>
      /\ imports' = [imports EXCEPT ![q.key] = c]
      /\ imports'[q.key] = c
      /\ \A k \in Keys : k # q.key => imports'[k] = imports[k]
  BY <1>2, <1>3, <1>4 DEF Complete, IngestionInv, TypeOK
<1>7. /\ req' = [req EXCEPT ![r] = [q EXCEPT !.pc = "audit"]]
      /\ req'[r] = [q EXCEPT !.pc = "audit"]
      /\ \A s \in Requests : s # r => req'[s] = req[s]
  BY <1>2 DEF Complete, IngestionInv, TypeOK
<1>8. /\ req'[r] \in RequestState /\ req'[r] # Idle
      /\ req'[r].pc = "audit" /\ req'[r].key = q.key /\ req'[r].batch = q.batch
      /\ req'[r].mine = q.mine
  BY <1>7 DEF RequestState, Idle
<1>9. /\ imports[q.key].status = "RUNNING" /\ StoredBy(q.key) = q.mine
      /\ q.mine \subseteq Carried(r)
      /\ \A s \in Requests \ {r} : req[s] # Idle => req[s].key # q.key
  BY <1>2, <1>3 DEF IngestionInv, OwnsImport
<1>10. \A k : StoredBy(k)' = StoredBy(k)
  BY <1>6 DEF StoredBy
<1>11. TypeOK'
  BY <1>6, <1>7, <1>8 DEF IngestionInv, TypeOK
<1>12. /\ CountsAreHonest'
       /\ \A k \in Keys : imports'[k].status = "ABSENT" => StoredBy(k)' = {}
       /\ \A e \in audit' : imports'[e.import].status = "SUCCEEDED"
  <2>1. \A e \in audit : e.import \in Keys /\ e.import # q.key
    BY <1>9 DEF IngestionInv, TypeOK
  <2> QED
    BY <1>3, <1>5, <1>6, <1>9, <1>10, <2>1 DEF IngestionInv, CountsAreHonest
<1>13. Carried(r)' = Carried(r) /\ Counts(r)' = c
  BY <1>2, <1>4, <1>8 DEF Carried, Counts, Duplicates
<1>14. (OwnsImport(r) /\ InsertsAlone(r) /\ IsInOrder(r))'
  <2>1. \A s \in Requests \ {r} : req'[s] # Idle => req'[s].key # q.key
    BY <1>7, <1>9
  <2>2. StoredBy(req[r].key)' = q.mine
    BY <1>6, <1>8, <1>9 DEF StoredBy
  <2> QED
    BY <1>5, <1>6, <1>8, <1>9, <1>13, <2>1, <2>2
    DEF OwnsImport, InsertsAlone, IsInOrder, At
<1>15. ASSUME NEW s \in Requests, s # r
       PROVE  (OwnsImport(s) /\ InsertsAlone(s) /\ IsInOrder(s))'
  <2>1. req'[s] = req[s]
    BY <1>7, <1>15
  <2>2. req[s] # Idle => req[s].key \in Keys /\ req[s].key # q.key
    BY <1>9, <1>15, BusyIsTyped DEF IngestionInv
  <2>3. ASSUME req[s] # Idle, NEW t \in Requests \ {s}, req'[t] # Idle
        PROVE  req'[t].key # req[s].key
    BY <1>7, <1>8, <2>2, <2>3 DEF IngestionInv, OwnsImport
  <2>4. OwnsImport(s)'
    BY <1>6, <2>1, <2>2, <2>3, OthersOwn
  <2>5. InsertsAlone(s)'
    BY <1>6, <1>7, <1>8, <2>1
    DEF IngestionInv, InsertsAlone, At, Stored, HeldByOther, Holds
  <2>6. IsInOrder(s)'
    BY <1>6, <2>1 DEF IngestionInv, IsInOrder, At, Visible, Stored, Carried
  <2> QED
    BY <2>4, <2>5, <2>6
<1> QED
  BY <1>11, <1>12, <1>14, <1>15 DEF IngestionInv

LEMMA AppendAuditKeeps ==
  ASSUME IngestionInv, NEW r \in Requests, AppendAudit(r)
  PROVE  IngestionInv'
<1>1. req[r] \in RequestState /\ req[r] # Idle /\ req[r].pc = "audit"
  BY BusyIsTyped DEF AppendAudit, At, IngestionInv, Idle
<1>2. PICK q \in RequestState : q = req[r]
  BY <1>1
<1>3. PICK c \in ImportRow : c = Counts(r)
  BY <1>1, CountsAreTyped
<1>4. q.key \in Keys /\ imports[q.key] = c /\ c.status = "SUCCEEDED"
  BY <1>1, <1>2, <1>3 DEF IngestionInv, OwnsImport, RequestState, Counts
<1> DEFINE event == [import |-> q.key, row |-> c]
<1>5. /\ UNCHANGED <<imports, rows>>
      /\ audit' = audit \cup {event}
      /\ req' = [req EXCEPT ![r] = Idle]
  BY <1>2, <1>3 DEF AppendAudit, Answer
<1>6. /\ req'[r] = Idle
      /\ \A s \in Requests : s # r => req'[s] = req[s]
  BY <1>5 DEF IngestionInv, TypeOK
<1>7. TypeOK'
  BY <1>4, <1>5 DEF IngestionInv, TypeOK
<1>8. \A k : StoredBy(k)' = StoredBy(k)
  BY <1>5 DEF StoredBy
<1>9. /\ CountsAreHonest'
      /\ \A k \in Keys : imports'[k].status = "ABSENT" => StoredBy(k)' = {}
      /\ \A e \in audit' : imports'[e.import].status = "SUCCEEDED"
  BY <1>4, <1>5, <1>8 DEF IngestionInv, CountsAreHonest
<1>10. ASSUME NEW s \in Requests
       PROVE  (OwnsImport(s) /\ InsertsAlone(s) /\ IsInOrder(s))'
  <2>1. CASE s = r
    BY <1>6, <2>1 DEF OwnsImport, InsertsAlone, IsInOrder, At, Idle
  <2>2. CASE s # r
    <3>1. req'[s] = req[s]
      BY <1>6, <2>2
    <3>2. \A t \in Requests : req'[t] # Idle => req'[t] = req[t]
      BY <1>6
    <3>3. ASSUME req[s] # Idle, NEW t \in Requests \ {s}, req'[t] # Idle
          PROVE  req'[t].key # req[s].key
      BY <3>2, <3>3 DEF IngestionInv, OwnsImport
    <3>4. OwnsImport(s)'
      BY <1>5, <3>1, <3>3, OthersOwn
    <3>5. InsertsAlone(s)'
      BY <1>5, <1>6, <3>1
      DEF IngestionInv, InsertsAlone, At, Stored, HeldByOther, Holds, Idle
    <3>6. IsInOrder(s)'
      <4>1. /\ IsInOrder(s) /\ Carried(s)' = Carried(s)
            /\ \A x : Visible(s, x)' <=> Visible(s, x)
        BY <1>5, <3>1 DEF IngestionInv, Carried, Visible, Stored
      <4> QED
        BY <3>1, <4>1 DEF IsInOrder, At, Visible, Stored
    <3> QED
      BY <3>4, <3>5, <3>6
  <2> QED
    BY <2>1, <2>2
<1> QED
  BY <1>7, <1>9, <1>10 DEF IngestionInv

----------------------------------------------------------------------------
(* The theorems.                                                           *)

LEMMA InitHolds == Init => IngestionInv
<1> SUFFICES ASSUME Init PROVE IngestionInv
  OBVIOUS
<1>1. TypeOK
  BY DEF Init, TypeOK, ImportRow, Absent
<1>2. \A k \in Keys : StoredBy(k) = {} /\ imports[k].status = "ABSENT"
  BY KeysAssumption DEF Init, StoredBy, NoRow, Absent
<1>3. CountsAreHonest /\ \A e \in audit : imports[e.import].status = "SUCCEEDED"
  BY <1>2 DEF Init, CountsAreHonest
<1>4. \A r \in Requests : req[r] = Idle /\ ~At(r, "insert")
  BY DEF Init, At, Idle
<1> QED
  BY <1>1, <1>2, <1>3, <1>4 DEF IngestionInv, OwnsImport, InsertsAlone, IsInOrder

LEMMA NextKeeps == IngestionInv /\ [Next]_vars => IngestionInv'
<1> SUFFICES ASSUME IngestionInv, [Next]_vars PROVE IngestionInv'
  OBVIOUS
<1>1. ASSUME NEW r \in Requests, NEW k \in Keys, NEW batch \in Batches,
             Submit(r, k, batch)
      PROVE  IngestionInv'
  BY <1>1, SubmitKeeps
<1>2. ASSUME NEW r \in Requests, Handle(r)
      PROVE  IngestionInv'
  <2>1. CASE \E i \in Todo(r) : InsertRecord(r, i)
    BY <2>1, InsertRecordKeeps
  <2>2. CASE Commit(r)
    BY <2>2, CommitKeeps
  <2>3. CASE Complete(r)
    BY <2>3, CompleteKeeps
  <2>4. CASE AppendAudit(r)
    BY <2>4, AppendAuditKeeps
  <2>5. CASE AbortDeadlock(r)
    BY <2>5, IdleKeeps DEF AbortDeadlock
  <2> QED
    BY <1>2, <2>1, <2>2, <2>3, <2>4, <2>5 DEF Handle
<1>3. ASSUME NEW r \in Requests, Crash(r)
      PROVE  IngestionInv'
  BY <1>3, IdleKeeps DEF Crash
<1>4. CASE UNCHANGED vars
  BY <1>4
  DEF vars, IngestionInv, TypeOK, CountsAreHonest, StoredBy, OwnsImport, InsertsAlone,
      IsInOrder, At, Stored, HeldByOther, Holds, Visible, Carried, Counts, Duplicates
<1> QED
  BY <1>1, <1>2, <1>3, <1>4 DEF Next

(* Whoever races, and whatever is rolled back (submitImport,               *)
(* insertMany, complete): the tables and the requests in flight agree at   *)
(* every step.                                                             *)
THEOREM Invariance == Spec => []IngestionInv
BY InitHolds, NextKeeps, PTL DEF Spec

(* An import that SUCCEEDED reports exactly the rows that carry its id,    *)
(* and so does its audit event (complete, computed from what insertMany    *)
(* returns).                                                               *)
THEOREM HonestCounts == Spec => []CountsAreHonest
<1>1. IngestionInv => CountsAreHonest
  BY DEF IngestionInv
<1> QED
  BY <1>1, Invariance, PTL

----------------------------------------------------------------------------
(* A whole lifecycle.                                                      *)

(* A row stays as it was stored: an open transaction has inserted only     *)
(* what is in no table, so that no COMMIT touches a row that is.           *)
LEMMA RowStays ==
  ASSUME IngestionInv, [Next]_vars, NEW x \in Records, Stored(x)
  PROVE  rows'[x] = rows[x]
<1>1. ASSUME NEW r \in Requests, Commit(r)
      PROVE  rows'[x] = rows[x]
  <2>1. x \notin req[r].mine
    BY <1>1 DEF IngestionInv, InsertsAlone, Commit
  <2> QED
    BY <1>1, <2>1 DEF Commit
<1>2. UNCHANGED rows \/ \E r \in Requests : Commit(r)
  BY DEF Next, vars, Submit, Handle, InsertRecord, Complete, AppendAudit, AbortDeadlock,
         Crash
<1> QED
  BY <1>1, <1>2

(* No import rewrites what another has stored, or links it afterwards: a   *)
(* record that is inserted again conflicts, and nothing is done            *)
(* (INSERTERS, ON CONFLICT DO NOTHING), however the transactions race.     *)
THEOREM RowsStay == Spec => RowsAreFinal
<1>1. IngestionInv /\ [Next]_vars =>
        [\A x \in Records : Stored(x) => rows'[x] = rows[x]]_vars
  BY RowStays
<1> QED
  BY <1>1, Invariance, PTL DEF Spec, RowsAreFinal

(* What an INSERT does to the locals of its request.                       *)
LEMMA InsertSets ==
  ASSUME IngestionInv, NEW r \in Requests, NEW i \in Todo(r), InsertRecord(r, i),
         NEW y, y = req[r].batch[i]
  PROVE  LET skipped == LacksParent(r, y) \/ Visible(r, y)
             linked == \A p \in Refers[y] : Visible(r, p)
         IN  /\ At(r, "insert") /\ Turn(r, i)
             /\ UNCHANGED rows
             /\ req'[r].batch = req[r].batch
             /\ req'[r].done = req[r].done \cup {i}
             /\ req'[r].mine = IF skipped THEN req[r].mine ELSE req[r].mine \cup {y}
             /\ req'[r].loose =
                  IF skipped \/ linked THEN req[r].loose ELSE req[r].loose \cup {y}
<1>1. PICK q \in RequestState : q = req[r]
  BY BusyIsTyped DEF IngestionInv, InsertRecord, At, Idle
<1> DEFINE skipped == LacksParent(r, y) \/ Visible(r, y)
           linked == \A p \in Refers[y] : Visible(r, p)
           done == q.done \cup {i}
           mine == IF skipped THEN q.mine ELSE q.mine \cup {y}
           loose == IF skipped \/ linked THEN q.loose ELSE q.loose \cup {y}
<1>2. req'[r] = [q EXCEPT !.done = done, !.mine = mine, !.loose = loose]
  BY <1>1 DEF InsertRecord, IngestionInv, TypeOK
<1>3. /\ req'[r].batch = q.batch /\ req'[r].done = done
      /\ req'[r].mine = mine /\ req'[r].loose = loose
  <2> HIDE DEF done, mine, loose
  <2>1. [q EXCEPT !.done = done, !.mine = mine, !.loose = loose] =
          [ pc |-> q.pc, key |-> q.key, batch |-> q.batch,
            done |-> done, mine |-> mine, loose |-> loose ]
    BY ThreeLocals, Zenon
  <2> QED
    BY <1>2, <2>1
<1> QED
  BY <1>1, <1>3 DEF InsertRecord

(* What a step can do to a request that is busy after it.                  *)
LEMMA BusySteps ==
  ASSUME IngestionInv, [Next]_vars, NEW r \in Requests, req'[r] # Idle
  PROVE  \/ req'[r] = req[r]
         \/ At(r, "insert")' /\ req'[r].done = {} /\ req'[r].mine = {}
         \/ \E i \in Todo(r) : InsertRecord(r, i)
         \/ Commit(r)
         \/ Complete(r)
<1>1. ASSUME NEW s \in Requests, Next,
             \/ \E k \in Keys, batch \in Batches : Submit(s, k, batch)
             \/ Handle(s)
             \/ Crash(s)
      PROVE  \/ req'[r] = req[r]
             \/ At(r, "insert")' /\ req'[r].done = {} /\ req'[r].mine = {}
             \/ \E i \in Todo(r) : InsertRecord(r, i)
             \/ Commit(r)
             \/ Complete(r)
  <2>1. CASE s # r
    BY <1>1, <2>1
    DEF IngestionInv, TypeOK, Submit, Handle, InsertRecord, Commit, Complete, AppendAudit,
        AbortDeadlock, Crash, Answer
  <2>2. CASE s = r
    <3>1. CASE \E k \in Keys, batch \in Batches : Submit(r, k, batch)
      BY <3>1 DEF Submit, IngestionInv, TypeOK, At
    <3>2. CASE AppendAudit(r) \/ AbortDeadlock(r) \/ Crash(r)
      BY <3>2 DEF AppendAudit, AbortDeadlock, Crash, Answer, IngestionInv, TypeOK
    <3> QED
      BY <1>1, <2>2, <3>1, <3>2 DEF Handle
  <2> QED
    BY <2>1, <2>2
<1> QED
  BY <1>1 DEF Next, vars

(* What an open transaction has inserted with all its links has its        *)
(* parents before its eyes.                                                *)
SeesParents(r) ==
  At(r, "insert") =>
    \A x \in req[r].mine \ req[r].loose : \A p \in Refers[x] : Visible(r, p)

LifecycleInv == WholeLifecycle /\ \A r \in Requests : SeesParents(r)

LEMMA SeesParentsStep ==
  ASSUME IngestionInv, LifecycleInv, [Next]_vars, NEW r \in Requests
  PROVE  SeesParents(r)'
<1> SUFFICES ASSUME At(r, "insert")'
             PROVE  (\A x \in req[r].mine \ req[r].loose :
                       \A p \in Refers[x] : Visible(r, p))'
  BY DEF SeesParents
<1>1. \A x \in Records : Stored(x) => Stored(x)'
  BY RowStays DEF Stored
<1>2. \A x \in Records : Refers[x] \subseteq Records
  BY IngestionAssumption
<1>3. CASE req'[r] = req[r]
  <2>1. req[r].mine \subseteq Records /\ At(r, "insert")
    BY <1>3, BusyIsTyped DEF At, Idle, IngestionInv
  <2> QED
    BY <1>1, <1>2, <1>3, <2>1 DEF LifecycleInv, SeesParents, Visible, Stored
<1>4. ASSUME NEW i \in Todo(r), InsertRecord(r, i)
      PROVE  (\A x \in req[r].mine \ req[r].loose :
                \A p \in Refers[x] : Visible(r, p))'
  <2>1. PICK y : y = req[r].batch[i]
    OBVIOUS
  <2> DEFINE skipped == LacksParent(r, y) \/ Visible(r, y)
             linked == \A p \in Refers[y] : Visible(r, p)
  <2>2. /\ At(r, "insert") /\ UNCHANGED rows
        /\ req'[r].mine = IF skipped THEN req[r].mine ELSE req[r].mine \cup {y}
        /\ req'[r].loose = IF skipped \/ linked THEN req[r].loose ELSE req[r].loose \cup {y}
    BY <1>4, <2>1, InsertSets
  <2>3. \A p : Visible(r, p) => Visible(r, p)'
    BY <2>2 DEF Visible, Stored
  <2>4. \A x \in req[r].mine \ req[r].loose : \A p \in Refers[x] : Visible(r, p)
    BY <2>2 DEF LifecycleInv, SeesParents
  <2>5. \A x \in req'[r].mine \ req'[r].loose : \A p \in Refers[x] : Visible(r, p)
    BY <2>2, <2>4
  <2> QED
    BY <2>3, <2>5
<1>5. req'[r] # Idle
  BY DEF At, Idle
<1>6. ASSUME Commit(r) \/ Complete(r)  PROVE FALSE
  <2>1. req[r] \in RequestState
    BY <1>6, BusyIsTyped DEF Commit, Complete, At, IngestionInv, Idle
  <2> QED
    BY <1>6, <2>1 DEF Commit, Complete, IngestionInv, TypeOK, RequestState, At
<1>7. CASE req'[r].mine = {}
  BY <1>7
<1> QED
  BY <1>3, <1>4, <1>5, <1>6, <1>7, BusySteps

(* A COMMIT keeps the links, and makes those of its transaction.           *)
LEMMA LinksLeadStep ==
  ASSUME IngestionInv, LifecycleInv, [Next]_vars
  PROVE  LinksLead'
<1> SUFFICES ASSUME NEW x \in Records, rows'[x].linked, NEW p \in Refers[x]
             PROVE  Stored(p)'
  BY DEF LinksLead
<1>1. p \in Records
  BY IngestionAssumption
<1>2. CASE rows'[x] = rows[x]
  <2>1. Stored(p)
    BY <1>2 DEF LifecycleInv, WholeLifecycle, LinksLead
  <2> QED
    BY <1>1, <2>1, RowStays DEF Stored
<1>3. CASE rows'[x] # rows[x]
  <2>1. UNCHANGED rows \/ \E r \in Requests : Commit(r)
    BY DEF Next, vars, Submit, Handle, InsertRecord, Complete, AppendAudit, AbortDeadlock,
           Crash
  <2>2. PICK r \in Requests : Commit(r)
    BY <1>3, <2>1
  <2>3. At(r, "insert") /\ x \in req[r].mine /\ x \notin req[r].loose
    BY <1>3, <2>2 DEF Commit
  <2>4. Visible(r, p)
    BY <2>3 DEF LifecycleInv, SeesParents
  <2>5. CASE Stored(p)
    BY <1>1, <2>5, RowStays DEF Stored
  <2>6. CASE p \in req[r].mine
    <3>1. rows'[p] = [import |-> req[r].key, linked |-> p \notin req[r].loose]
      BY <1>1, <2>2, <2>6 DEF Commit
    <3>2. req[r].key \in Keys
      BY <2>3, BusyIsTyped DEF IngestionInv, At, Idle
    <3> QED
      BY <3>1, <3>2, KeysAssumption DEF Stored, NoRow
  <2> QED
    BY <2>4, <2>5, <2>6 DEF Visible
<1> QED
  BY <1>2, <1>3

(* The request itself, one step of it at a time.                           *)
LEMMA WholeAtInsert ==
  ASSUME IngestionInv, LifecycleInv, [Next]_vars, NEW r \in Requests,
         NEW i \in Todo(r), InsertRecord(r, i)
  PROVE  CarriesWhole(r)'
<1>1. PICK y : y = req[r].batch[i]
  OBVIOUS
<1> DEFINE skipped == LacksParent(r, y) \/ Visible(r, y)
           linked == \A p \in Refers[y] : Visible(r, p)
<1>2. /\ At(r, "insert") /\ Turn(r, i) /\ UNCHANGED rows
      /\ req'[r].batch = req[r].batch
      /\ req'[r].done = req[r].done \cup {i}
  <2>1. At(r, "insert") /\ Turn(r, i) /\ UNCHANGED rows
    BY DEF InsertRecord
  <2>2. req'[r].batch = req[r].batch
    BY InsertSets
  <2>3. req'[r].done = req[r].done \cup {i}
    BY InsertSets
  <2> QED
    BY <2>1, <2>2, <2>3
<1>3. /\ req'[r].mine = IF skipped THEN req[r].mine ELSE req[r].mine \cup {y}
      /\ req'[r].loose = IF skipped \/ linked THEN req[r].loose ELSE req[r].loose \cup {y}
  BY <1>1, InsertSets, Z3
<1>4. req[r] # Idle /\ Carried(r)' = Carried(r)
  BY <1>2 DEF Carried, At, Idle
<1>5. At(r, "insert")'
  BY <1>2 DEF InsertRecord, IngestionInv, TypeOK, At
<1> SUFFICES ASSUME NEW j \in req'[r].done, NEW x, x = req[r].batch[j],
                    Refers[x] \subseteq Carried(r)
             PROVE  Visible(r, x)' /\ x \notin req'[r].loose
  BY <1>2, <1>4, <1>5 DEF CarriesWhole, Dealt, LinksOwn
<1>6. x \notin req'[r].loose
  BY <1>4, <1>5, InsertRecordKeeps DEF IngestionInv, IsInOrder
<1>7. \A z : Visible(r, z) => Visible(r, z)'
  BY <1>2, <1>3 DEF Visible, Stored
<1>8. CASE j \in req[r].done
  <2>1. x \in Dealt(r)
    BY <1>2, <1>8 DEF Dealt
  <2> QED
    BY <1>4, <1>6, <1>7, <2>1 DEF LifecycleInv, WholeLifecycle, CarriesWhole
<1>9. CASE j = i
  <2>1. \A p \in Refers[y] : Visible(r, p)
    BY <1>1, <1>2, <1>9, ParentsAreVisible
  <2>2. Visible(r, y) \/ y \in req'[r].mine
    BY <1>3, <2>1 DEF LacksParent
  <2> QED
    BY <1>1, <1>6, <1>7, <1>9, <2>2 DEF Visible
<1> QED
  BY <1>2, <1>8, <1>9

LEMMA WholeAtCommit ==
  ASSUME IngestionInv, LifecycleInv, [Next]_vars, NEW r \in Requests, Commit(r)
  PROVE  CarriesWhole(r)'
<1>1. PICK q \in RequestState : q = req[r]
  BY BusyIsTyped DEF Commit, At, IngestionInv, Idle
<1>2. /\ q # Idle /\ q.pc = "insert" /\ q.key \in Keys /\ q.mine \subseteq Records
      /\ q.batch \in Seq(Records) /\ At(r, "insert")
  BY <1>1 DEF Commit, At, RequestState, Idle
<1>3. /\ req'[r].pc = "complete" /\ req'[r].batch = q.batch /\ req'[r].mine = q.mine
  BY <1>1 DEF Commit, IngestionInv, TypeOK, RequestState
<1>4. Carried(r)' = Carried(r)
  BY <1>1, <1>3 DEF Carried
<1>5. Carried(r) \subseteq Dealt(r) /\ Carried(r) \subseteq Records
  <2>1. Normalized(q.batch) \subseteq q.done
    BY <1>1 DEF Commit, Todo
  <2>2. \A i \in Normalized(q.batch) : q.batch[i] \in Records
    BY <1>2 DEF Normalized
  <2> QED
    BY <1>1, <1>2, <2>1, <2>2 DEF Carried, Dealt
<1> SUFFICES ASSUME NEW x \in Carried(r), Refers[x] \subseteq Carried(r)
             PROVE  Visible(r, x)' /\ (x \in q.mine => rows'[x].linked)
  BY <1>3, <1>4 DEF CarriesWhole, Dealt, LinksOwn, At
<1>6. Visible(r, x) /\ x \notin q.loose
  BY <1>1, <1>2, <1>5 DEF LifecycleInv, WholeLifecycle, CarriesWhole, LinksOwn,
                          IngestionInv, IsInOrder
<1>7. CASE x \in q.mine
  <2>1. rows'[x].linked
    BY <1>1, <1>5, <1>6, <1>7 DEF Commit
  <2> QED
    BY <1>3, <1>7, <2>1 DEF Visible
<1>8. CASE x \notin q.mine
  BY <1>1, <1>5, <1>6, <1>8, RowStays DEF Visible, Stored
<1> QED
  BY <1>7, <1>8

(* A request that a step leaves in the same place, or moves on after its   *)
(* commit: what it sees it goes on seeing.                                 *)
LEMMA WholeStays ==
  ASSUME IngestionInv, LifecycleInv, [Next]_vars, NEW r \in Requests, req[r] # Idle,
         At(r, "insert")' <=> At(r, "insert"),
         req'[r].batch = req[r].batch, req'[r].done = req[r].done,
         req'[r].mine = req[r].mine, req'[r].loose = req[r].loose
  PROVE  CarriesWhole(r)'
<1>1. Carried(r)' = Carried(r) /\ Dealt(r)' = Dealt(r)
  BY DEF Carried, Dealt
<1> SUFFICES ASSUME NEW x \in Dealt(r), Refers[x] \subseteq Carried(r)
             PROVE  Visible(r, x)' /\ (x \in req[r].mine => LinksOwn(r, x)')
  BY <1>1 DEF CarriesWhole
<1>2. Visible(r, x) /\ (x \in req[r].mine => LinksOwn(r, x))
  BY DEF LifecycleInv, WholeLifecycle, CarriesWhole
<1>3. x \in Records
  <2>1. req[r].batch \in Seq(Records)
    BY BusyIsTyped DEF IngestionInv
  <2>2. At(r, "insert") => req[r].done \subseteq Normalized(req[r].batch)
    BY DEF IngestionInv, IsInOrder
  <2>3. \A i \in Normalized(req[r].batch) : req[r].batch[i] \in Records
    BY <2>1 DEF Normalized
  <2> QED
    BY <2>2, <2>3 DEF Dealt, Carried
<1>4. Visible(r, x)'
  BY <1>2, <1>3, RowStays DEF Visible, Stored
<1>5. ASSUME x \in req[r].mine, ~At(r, "insert")  PROVE rows'[x] = rows[x]
  <2>1. rows[x].import = req[r].key /\ req[r].key \in Keys
    BY <1>3, <1>5, BusyIsTyped DEF IngestionInv, OwnsImport, StoredBy, At
  <2> QED
    BY <1>3, <2>1, RowStays, KeysAssumption DEF Stored, NoRow
<1> QED
  BY <1>2, <1>4, <1>5 DEF LinksOwn

LEMMA LifecycleStep ==
  ASSUME IngestionInv, IngestionInv', LifecycleInv, [Next]_vars
  PROVE  LifecycleInv'
<1>1. ASSUME NEW r \in Requests, req'[r] # Idle
      PROVE  CarriesWhole(r)'
  <2>1. CASE req'[r] = req[r]
    BY <1>1, <2>1, WholeStays DEF At
  <2>2. CASE At(r, "insert")' /\ req'[r].done = {}
    BY <2>2 DEF CarriesWhole, Dealt
  <2>3. CASE Complete(r)
    <3>1. req[r] \in RequestState /\ req[r] # Idle
      BY <2>3, BusyIsTyped DEF Complete, At, IngestionInv, Idle
    <3>2. /\ req'[r].batch = req[r].batch /\ req'[r].done = req[r].done
          /\ req'[r].mine = req[r].mine /\ req'[r].loose = req[r].loose
          /\ req'[r].pc = "audit" /\ req[r].pc = "complete"
      BY <2>3, <3>1 DEF Complete, At, IngestionInv, TypeOK, RequestState
    <3> QED
      BY <3>1, <3>2, WholeStays DEF At
  <2> QED
    BY <1>1, <2>1, <2>2, <2>3, BusySteps, WholeAtInsert, WholeAtCommit
<1>2. \A r \in Requests : CarriesWhole(r)'
  BY <1>1 DEF CarriesWhole
<1> QED
  BY <1>2, LinksLeadStep, SeesParentsStep DEF LifecycleInv, WholeLifecycle

(* A batch can carry a whole lifecycle, in any order: insertRecords takes  *)
(* the kinds so that a record whose parents all come with it finds them    *)
(* and is stored, although another import may have stored some of them, be *)
(* storing them, or have given up; what this import inserts of them is     *)
(* linked in the tables, and a link leads to a row.                        *)
THEOREM LifecycleIsWhole == Spec => []WholeLifecycle
<1>1. Init => LifecycleInv
  BY DEF Init, LifecycleInv, WholeLifecycle, LinksLead, CarriesWhole, SeesParents, At,
         Idle, NoRow
<1>2. IngestionInv /\ IngestionInv' /\ LifecycleInv /\ [Next]_vars => LifecycleInv'
  BY LifecycleStep
<1>3. LifecycleInv => WholeLifecycle
  BY DEF LifecycleInv
<1> QED
  BY <1>1, <1>2, <1>3, Invariance, PTL DEF Spec

----------------------------------------------------------------------------
(* The atomic import.                                                      *)

(* A row is its import's in both views.                                    *)
LEMMA SameRows ==
  ASSUME TypeOK, NEW k \in Keys
  PROVE  Atomic!StoredBy(k) = StoredBy(k)
BY KeysAssumption DEF Atomic!StoredBy, StoredBy, TypeOK, Stored, NoRow

(* Both views count alike.                                                 *)
LEMMA SameCount == \A S : Atomic!Cardinality(S) = Cardinality(S)
BY DEF Atomic!Cardinality, Cardinality

LEMMA CommitIsStore ==
  ASSUME IngestionInv, NEW r \in Requests, Commit(r)
  PROVE  Atomic!Next
<1>1. PICK q \in RequestState : q = req[r]
  BY BusyIsTyped DEF Commit, At, IngestionInv, Idle
<1>2. q.pc = "insert" /\ q.key \in Keys /\ q.mine \subseteq Records
  BY <1>1 DEF Commit, At, RequestState
<1>3. imports[q.key].status = "RUNNING" /\ StoredBy(q.key) = {}
  BY <1>1, <1>2 DEF IngestionInv, OwnsImport, Idle
<1>4. \A x \in q.mine : ~Stored(x)
  BY <1>1, <1>2 DEF IngestionInv, InsertsAlone, At
<1>5. /\ imports' = imports
      /\ \A x \in Records :
           rows'[x] = IF x \in q.mine
                      THEN [import |-> q.key, linked |-> x \notin q.loose]
                      ELSE rows[x]
  BY <1>1 DEF Commit
<1>6. \A x \in Records :
        (IF Stored(x)' THEN rows'[x].import ELSE Nobody) =
          IF x \in q.mine THEN q.key ELSE IF Stored(x) THEN rows[x].import ELSE Nobody
  <2>1. ASSUME NEW x \in q.mine
        PROVE  rows'[x] # NoRow /\ rows'[x].import = q.key
    <3>1. rows'[x] = [import |-> q.key, linked |-> x \notin q.loose]
      BY <1>2, <1>5
    <3>2. rows'[x].import = q.key
      BY <3>1
    <3> QED
      BY <1>2, <3>2, KeysAssumption DEF NoRow
  <2> QED
    BY <1>5, <2>1 DEF Stored
<1>7. Atomic!StoredBy(q.key) = {}
  BY <1>2, <1>3, SameRows DEF IngestionInv
<1>8. Atomic!Store(q.key, q.mine)
  BY <1>2, <1>3, <1>4, <1>5, <1>6, <1>7 DEF Atomic!Store, Atomic!Nobody, Nobody, Stored
<1> QED
  BY <1>2, <1>8 DEF Atomic!Next

LEMMA CompleteIsClose ==
  ASSUME IngestionInv, NEW r \in Requests, Complete(r)
  PROVE  Atomic!Next
<1>1. PICK q \in RequestState : q = req[r]
  BY BusyIsTyped DEF Complete, At, IngestionInv, Idle
<1>2. q.pc = "complete" /\ q.key \in Keys
  BY <1>1 DEF Complete, At, RequestState
<1>3. imports[q.key].status = "RUNNING" /\ StoredBy(q.key) = q.mine
  BY <1>1, <1>2 DEF IngestionInv, OwnsImport, Idle
<1>4. PICK c \in ImportRow : c = Counts(r)
  BY CountsAreTyped DEF Complete, At, Idle
<1>5. c.status = "SUCCEEDED" /\ c.accepted = Cardinality(q.mine)
  BY <1>1, <1>4 DEF Counts
<1>6. /\ rows' = rows
      /\ imports'[q.key] = c
      /\ \A k \in Keys : k # q.key => imports'[k] = imports[k]
  BY <1>1, <1>2, <1>4 DEF Complete, IngestionInv, TypeOK
<1>7. Atomic!StoredBy(q.key) = q.mine
  BY <1>2, <1>3, SameRows DEF IngestionInv
<1>8. /\ \A k \in Keys : imports'[k].status =
           IF k = q.key THEN "SUCCEEDED" ELSE imports[k].status
      /\ \A k \in Keys : imports'[k].accepted =
           IF k = q.key THEN Cardinality(q.mine) ELSE imports[k].accepted
  BY <1>5, <1>6
<1> DEFINE status == [k \in Keys |-> imports[k].status]
           status1 == [k \in Keys |-> imports'[k].status]
           counted == [k \in Keys |-> imports[k].accepted]
           counted1 == [k \in Keys |-> imports'[k].accepted]
           n == Cardinality(q.mine)
<1>9. status1 = [status EXCEPT ![q.key] = "SUCCEEDED"]
  BY <1>8
<1>10. counted1 = [counted EXCEPT ![q.key] = n]
  <2>1. counted1 = [k \in Keys |-> IF k = q.key THEN n ELSE counted[k]]
    BY <1>8
  <2> HIDE DEF n, counted1
  <2> QED
    BY <2>1
<1>11. Atomic!Close(q.key)
  BY <1>2, <1>3, <1>6, <1>7, <1>9, <1>10, SameCount DEF Atomic!Close, Stored
<1> QED
  BY <1>2, <1>11 DEF Atomic!Next

(* Every step of a request is a step of the atomic import or none: opening *)
(* it (createOrGet), the COMMIT of its rows, and its completion.           *)
LEMMA StepsAreAtomic ==
  ASSUME IngestionInv, [Next]_vars
  PROVE  [Atomic!Next]_(Atomic!vars)
<1>1. ASSUME NEW r \in Requests, NEW k \in Keys, NEW batch \in Batches,
             Submit(r, k, batch)
      PROVE  Atomic!Next
  <2>1. /\ imports[k].status = "ABSENT" /\ rows' = rows
        /\ imports'[k].status = "RUNNING" /\ imports'[k].accepted = imports[k].accepted
        /\ \A j \in Keys : j # k => imports'[j] = imports[j]
    BY <1>1 DEF Submit, Absent, IngestionInv, TypeOK, ImportRow
  <2>2. Atomic!Open(k)
    BY <2>1 DEF Atomic!Open, Stored
  <2> QED
    BY <2>2 DEF Atomic!Next
<1>2. CASE imports' = imports /\ rows' = rows
  BY <1>2 DEF Atomic!vars, Stored
<1>3. \/ \E r \in Requests, k \in Keys, batch \in Batches : Submit(r, k, batch)
      \/ \E r \in Requests : Commit(r) \/ Complete(r)
      \/ imports' = imports /\ rows' = rows
  BY DEF Next, vars, Handle, InsertRecord, AppendAudit, AbortDeadlock, Crash
<1> QED
  BY <1>1, <1>2, <1>3, CommitIsStore, CompleteIsClose

(* Ingestion implements AtomicImport: whoever races, the rows of an import *)
(* appear all at once, no record is stored twice, and the count is of what *)
(* was stored.                                                             *)
THEOREM ImportsAreAtomic == Spec => ImplementsAtomicImport
<1>1. Init => Atomic!Init
  BY DEF Init, Atomic!Init, Absent, Stored, Nobody, Atomic!Nobody
<1>2. IngestionInv /\ [Next]_vars => [Atomic!Next]_(Atomic!vars)
  BY StepsAreAtomic
<1> QED
  BY <1>1, <1>2, Invariance, PTL DEF Spec, ImplementsAtomicImport, Atomic!Spec
================================================================================
