------------------------------ MODULE Ingestion ------------------------------
(***************************************************************************)
(* The import of batches of financial records (submitImport), by requests  *)
(* that race: an idempotency key names an import, the records of its batch *)
(* are inserted in one transaction, one INSERT ... ON CONFLICT DO NOTHING  *)
(* at a time, and the import is completed and audited by statements of     *)
(* their own.  A row that another transaction is inserting makes an INSERT *)
(* wait for the end of that transaction; PostgreSQL ends a cycle of such   *)
(* waits by aborting one of them.                                          *)
(***************************************************************************)
EXTENDS Naturals, Sequences, FiniteSets

CONSTANTS
  Records,    \* source records: (source system, source record id)
  Kind,       \* [Records -> RecordKind]
  Refers,     \* [Records -> SUBSET Records]: the records its foreign keys name
  Malformed,  \* records that normalization refuses
  Keys,       \* idempotency keys
  Batches,    \* the batches clients send: sequences of records
  Requests,   \* import requests that can be in flight at the same time
  MayCrash    \* whether a process may die, or a statement throw

(* The order in which insertRecords takes the kinds of record.             *)
INSERT_ORDER ==
  << "ORDER", "PAYMENT", "SETTLEMENT", "FEE_LINE", "TAX_LINE", "REFUND",
     "ADJUSTMENT", "SETTLEMENT_LINE", "BANK_CREDIT", "LEDGER_ENTRY" >>

RecordKind == {INSERT_ORDER[n] : n \in DOMAIN INSERT_ORDER}

(* The references between the kinds, and those without which the INSERT    *)
(* selects no row at all.                                                  *)
Reference ==
  { <<"PAYMENT", "ORDER">>, <<"FEE_LINE", "PAYMENT">>, <<"TAX_LINE", "FEE_LINE">>,
    <<"REFUND", "PAYMENT">>, <<"ADJUSTMENT", "SETTLEMENT">>,
    <<"SETTLEMENT_LINE", "SETTLEMENT">>, <<"SETTLEMENT_LINE", "PAYMENT">> }

Mandatory == { <<"REFUND", "PAYMENT">>, <<"SETTLEMENT_LINE", "SETTLEMENT">> }

ASSUME IngestionAssumption ==
  /\ Kind \in [Records -> RecordKind]
  /\ Refers \in [Records -> SUBSET Records]
  /\ \A x \in Records : \A p \in Refers[x] : <<Kind[x], Kind[p]>> \in Reference
  /\ Batches \subseteq Seq(Records)
  /\ MayCrash \in BOOLEAN

(* What stands for no import is not the key of one.                        *)
NoKey == "no key"

Nobody == "nobody"

ASSUME KeysAssumption == NoKey \notin Keys /\ Nobody \notin Keys

VARIABLES
  imports,  \* [Keys -> row of the imports table]
  rows,     \* [Records -> its row in the table of its kind, or NoRow]
  audit,    \* the audit events of imports
  req       \* where each request is in submitImport, and its locals

vars == <<imports, rows, audit, req>>

----------------------------------------------------------------------------
NoRow == [import |-> NoKey, linked |-> FALSE]

Absent == [status |-> "ABSENT", accepted |-> 0, duplicates |-> 0, rejected |-> 0]

Idle == [pc |-> "idle"]

ImportRow == [ status : {"ABSENT", "RUNNING", "SUCCEEDED"},
               accepted : Nat, duplicates : Nat, rejected : Nat ]

(* A request's locals: the key it was sent, the batch, the positions of    *)
(* the batch it has dealt with, the records its transaction has inserted   *)
(* (mine) and those of them whose foreign keys it had to leave NULL.       *)
RequestState ==
  [ pc : {"insert", "complete", "audit"}, key : Keys, batch : Seq(Records),
    done : SUBSET Nat, mine : SUBSET Records, loose : SUBSET Records ]

TypeOK ==
  /\ imports \in [Keys -> ImportRow]
  /\ rows \in [Records -> [import : Keys, linked : BOOLEAN] \cup {NoRow}]
  /\ audit \subseteq [import : Keys, row : ImportRow]
  /\ req \in [Requests -> RequestState \cup {Idle}]

At(r, pc) == req[r].pc = pc

Answer(r) == req' = [req EXCEPT ![r] = Idle]

Stored(x) == rows[x] # NoRow

StoredBy(k) == {x \in Records : rows[x].import = k}

(* The positions of a batch that hold a normalized record.                 *)
Normalized(batch) == {i \in DOMAIN batch : batch[i] \notin Malformed}

Todo(r) == Normalized(req[r].batch) \ req[r].done

Init ==
  /\ imports = [k \in Keys |-> Absent]
  /\ rows = [x \in Records |-> NoRow]
  /\ audit = {}
  /\ req = [r \in Requests |-> Idle]

(* createOrGet: the unique index on the key lets one request create the    *)
(* import.  Any other is answered with the import as it stands and writes  *)
(* nothing (a step that changes nothing here).                             *)
Submit(r, k, batch) ==
  /\ req[r] = Idle
  /\ imports[k] = Absent
  /\ imports' = [imports EXCEPT ![k].status = "RUNNING"]
  /\ req' = [req EXCEPT ![r] =
       [ pc |-> "insert", key |-> k, batch |-> batch,
         done |-> {}, mine |-> {}, loose |-> {} ]]
  /\ UNCHANGED <<rows, audit>>

----------------------------------------------------------------------------
(* insertRecords: kind by kind, and within a kind in the batch's order.    *)
(* A bug: records are inserted in the batch's order.                       *)
Rank_AsSent(x) == 1

Rank(x) == CHOOSE n \in DOMAIN INSERT_ORDER : INSERT_ORDER[n] = Kind[x]

Before(batch, i, j) ==
  \/ Rank(batch[i]) < Rank(batch[j])
  \/ Rank(batch[i]) = Rank(batch[j]) /\ i < j

Turn(r, i) ==
  /\ i \in Todo(r)
  /\ \A j \in Todo(r) \ {i} : Before(req[r].batch, i, j)

(* What the transaction of request r sees: committed rows and its own.     *)
Visible(r, x) == Stored(x) \/ x \in req[r].mine

(* A row in the way of the unique index, of another open transaction.      *)
Holds(s, x) == At(s, "insert") /\ x \in req[s].mine

(* A bug: duplicates are looked up before the insert.                      *)
HeldByOther_Unseen(r, x) == FALSE

HeldByOther(r, x) == \E s \in Requests \ {r} : Holds(s, x)

(* Some record the INSERT selects from is not there: no row, no conflict.  *)
LacksParent(r, x) ==
  \E p \in Refers[x] : <<Kind[x], Kind[p]>> \in Mandatory /\ ~Visible(r, p)

InsertRecord(r, i) ==
  /\ At(r, "insert")
  /\ Turn(r, i)
  /\ LET x == req[r].batch[i]
         skipped == LacksParent(r, x) \/ Visible(r, x)
         linked == \A p \in Refers[x] : Visible(r, p)
     IN  /\ skipped \/ ~HeldByOther(r, x)
         /\ req' = [req EXCEPT ![r].done = @ \cup {i},
                               ![r].mine = IF skipped THEN @ ELSE @ \cup {x},
                               ![r].loose = IF skipped \/ linked THEN @ ELSE @ \cup {x}]
  /\ UNCHANGED <<imports, rows, audit>>

(* COMMIT of insertMany.                                                   *)
Commit(r) ==
  /\ At(r, "insert")
  /\ Todo(r) = {}
  /\ rows' = [x \in Records |->
       IF x \in req[r].mine
       THEN [import |-> req[r].key, linked |-> x \notin req[r].loose]
       ELSE rows[x]]
  /\ req' = [req EXCEPT ![r].pc = "complete"]
  /\ UNCHANGED <<imports, audit>>

(* The counts of the batch: whatever was not inserted is a duplicate.      *)
Duplicates(r) == Cardinality(Normalized(req[r].batch)) - Cardinality(req[r].mine)

Counts(r) ==
  [ status     |-> "SUCCEEDED",
    accepted   |-> Cardinality(req[r].mine),
    duplicates |-> Duplicates(r),
    rejected   |-> Len(req[r].batch) - Cardinality(Normalized(req[r].batch)) ]

Complete(r) ==
  /\ At(r, "complete")
  /\ imports' = [imports EXCEPT ![req[r].key] = Counts(r)]
  /\ req' = [req EXCEPT ![r].pc = "audit"]
  /\ UNCHANGED <<rows, audit>>

AppendAudit(r) ==
  /\ At(r, "audit")
  /\ audit' = audit \cup {[import |-> req[r].key, row |-> Counts(r)]}
  /\ Answer(r)
  /\ UNCHANGED <<imports, rows>>

(* PostgreSQL aborts a transaction that waits in a cycle: it is rolled     *)
(* back, the statement throws, and the request fails.                      *)
Waits(r, s) ==
  /\ At(r, "insert")
  /\ \E i \in Todo(r) :
       /\ Turn(r, i)
       /\ ~LacksParent(r, req[r].batch[i])
       /\ ~Visible(r, req[r].batch[i])
       /\ Holds(s, req[r].batch[i])

Deadlocked(r) ==
  \E ring \in SUBSET Requests :
    r \in ring /\ \A s \in ring : \E t \in ring \ {s} : Waits(s, t)

AbortDeadlock(r) ==
  /\ Deadlocked(r)
  /\ Answer(r)
  /\ UNCHANGED <<imports, rows, audit>>

(* The process dies, or a statement throws: an open transaction is rolled  *)
(* back, and what was committed stays.                                     *)
Crash(r) ==
  /\ MayCrash
  /\ req[r] # Idle
  /\ Answer(r)
  /\ UNCHANGED <<imports, rows, audit>>

----------------------------------------------------------------------------
Handle(r) ==
  \/ \E i \in Todo(r) : InsertRecord(r, i)
  \/ Commit(r)
  \/ Complete(r)
  \/ AppendAudit(r)
  \/ AbortDeadlock(r)

Next ==
  \E r \in Requests :
    \/ \E k \in Keys, batch \in Batches : Submit(r, k, batch)
    \/ req[r] # Idle /\ Handle(r)
    \/ Crash(r)

Spec == Init /\ [][Next]_vars

(* Node goes on when a statement returns, PostgreSQL lets a waiting INSERT *)
(* proceed when the row it waits for is decided, and breaks deadlocks.     *)
FairSpec == Spec /\ \A r \in Requests : WF_vars(req[r] # Idle /\ Handle(r))

----------------------------------------------------------------------------
(* Whoever races, and whatever is rolled back: an import that SUCCEEDED    *)
(* reports exactly the rows that carry its id, and so does its audit       *)
(* event.  No row is counted by two imports, and none is lost.             *)
CountsAreHonest ==
  /\ \A k \in Keys : imports[k].status = "SUCCEEDED" =>
       imports[k].accepted = Cardinality(StoredBy(k))
  /\ \A e \in audit : e.row = imports[e.import]

(* The records a batch brings, but for those that normalization refuses.   *)
Carried(r) == {req[r].batch[i] : i \in Normalized(req[r].batch)}

(* A request in the middle of submitImport is the only one of its import,  *)
(* and knows what the tables say of it: nothing is stored by the import    *)
(* before the commit, and what the request has inserted is, after it.      *)
OwnsImport(r) ==
  req[r] # Idle =>
    LET q == req[r] IN
    /\ imports[q.key].status = IF q.pc = "audit" THEN "SUCCEEDED" ELSE "RUNNING"
    /\ q.pc = "audit" => imports[q.key] = Counts(r)
    /\ StoredBy(q.key) = IF q.pc = "insert" THEN {} ELSE q.mine
    /\ q.mine \subseteq Carried(r)
    /\ \A s \in Requests \ {r} : req[s] # Idle => req[s].key # q.key

(* What an open transaction has inserted is in no table, and in no other   *)
(* transaction.                                                            *)
InsertsAlone(r) ==
  At(r, "insert") => \A x \in req[r].mine : ~Stored(x) /\ ~HeldByOther(r, x)

(* What an open transaction has dealt with is there, but for the kinds     *)
(* that may be skipped for want of a parent, and it is loose only if the   *)
(* batch does not bring all its parents.                                   *)
IsInOrder(r) ==
  At(r, "insert") =>
    /\ req[r].done \subseteq Normalized(req[r].batch)
    /\ \A i \in req[r].done :
         \/ Visible(r, req[r].batch[i])
         \/ \E p \in RecordKind : <<Kind[req[r].batch[i]], p>> \in Mandatory
    /\ \A x \in req[r].loose : ~(Refers[x] \subseteq Carried(r))

(* Rows of their types, honest counts, and what the requests rely on.      *)
IngestionInv ==
  /\ TypeOK
  /\ CountsAreHonest
  /\ \A k \in Keys : imports[k].status = "ABSENT" => StoredBy(k) = {}
  /\ \A e \in audit : imports[e.import].status = "SUCCEEDED"
  /\ \A r \in Requests : OwnsImport(r) /\ InsertsAlone(r) /\ IsInOrder(r)

(* What a request has dealt with, and whether a record that it inserted    *)
(* has all its foreign keys.                                               *)
Dealt(r) ==
  IF At(r, "insert") THEN {req[r].batch[i] : i \in req[r].done} ELSE Carried(r)

LinksOwn(r, x) == IF At(r, "insert") THEN x \notin req[r].loose ELSE rows[x].linked

(* A record whose parents all come with it is stored, and linked if this   *)
(* request is the one that inserts it.                                     *)
CarriesWhole(r) ==
  req[r] # Idle =>
    \A x \in Dealt(r) :
      Refers[x] \subseteq Carried(r) =>
        Visible(r, x) /\ (x \in req[r].mine => LinksOwn(r, x))

(* A foreign key leads to a row.                                           *)
LinksLead == \A x \in Records : rows[x].linked => \A p \in Refers[x] : Stored(p)

(* A batch can carry a whole lifecycle, in any order: a record whose       *)
(* parents all come with it is stored, although another import may have    *)
(* stored some of them, be storing them, or have given up, and the links   *)
(* of what this import inserts are complete.  A record that an earlier     *)
(* import stored without a parent is not linked here: see RowsAreFinal.    *)
WholeLifecycle == LinksLead /\ \A r \in Requests : CarriesWhole(r)

(* A row stays as it was first stored: no import that races for a record   *)
(* takes it over or looks its links up again, so that a link which was     *)
(* missing then is missing for good (ON CONFLICT DO NOTHING).              *)
RowsAreFinal == [][\A x \in Records : Stored(x) => rows'[x] = rows[x]]_vars

(* The imports are atomic: AtomicImport, seen from its rows.               *)
Atomic == INSTANCE AtomicImport WITH
  status  <- [k \in Keys |-> imports[k].status],
  stored  <- [x \in Records |-> IF Stored(x) THEN rows[x].import ELSE Nobody],
  counted <- [k \in Keys |-> imports[k].accepted]

ImplementsAtomicImport == Atomic!Spec

(* An import that began ends, when nothing fails and no two batches list   *)
(* records of one kind in opposite orders.                                 *)
ImportsComplete ==
  \A k \in Keys : imports[k].status = "RUNNING" ~> imports[k].status = "SUCCEEDED"

----------------------------------------------------------------------------
(* What comments and tests say and the code does not do.                   *)

(* A record that is counted as a duplicate is in the store.                *)
DuplicatesAreStored ==
  \A r \in Requests : At(r, "complete") => \A x \in Carried(r) : Stored(x)

(* A batch that carries a whole lifecycle leaves it linked.                *)
LifecycleIsLinked ==
  \A r \in Requests : At(r, "complete") =>
    \A x \in Carried(r) : Refers[x] \subseteq Carried(r) => rows[x].linked
=============================================================================
