---------------------------- MODULE AtomicImport ----------------------------
(***************************************************************************)
(* What the import API promises, whatever batches race and whatever fails: *)
(* the records of an import appear all at once or not at all, no record is *)
(* ever stored twice, and an import that says it succeeded says how many   *)
(* records it stored.  There are no transactions, locks or rollbacks here; *)
(* Ingestion is shown to implement this.                                   *)
(***************************************************************************)
EXTENDS Naturals, FiniteSets

CONSTANTS Records, \* source records: a source system and an id within it
          Keys     \* idempotency keys, each of which names one import

VARIABLES status,  \* [Keys -> "ABSENT", "RUNNING" or "SUCCEEDED"]
          stored,  \* [Records -> the import that stored it, or Nobody]
          counted  \* [Keys -> how many records the import says it stored]

vars == <<status, stored, counted>>

Nobody == "nobody"

StoredBy(k) == {x \in Records : stored[x] = k}

Init ==
  /\ status = [k \in Keys |-> "ABSENT"]
  /\ stored = [x \in Records |-> Nobody]
  /\ counted = [k \in Keys |-> 0]

Open(k) ==
  /\ status[k] = "ABSENT"
  /\ status' = [status EXCEPT ![k] = "RUNNING"]
  /\ UNCHANGED <<stored, counted>>

Store(k, batch) ==
  /\ status[k] = "RUNNING"
  /\ StoredBy(k) = {}
  /\ \A x \in batch : stored[x] = Nobody
  /\ stored' = [x \in Records |-> IF x \in batch THEN k ELSE stored[x]]
  /\ UNCHANGED <<status, counted>>

Close(k) ==
  /\ status[k] = "RUNNING"
  /\ status' = [status EXCEPT ![k] = "SUCCEEDED"]
  /\ counted' = [counted EXCEPT ![k] = Cardinality(StoredBy(k))]
  /\ UNCHANGED stored

Next == \E k \in Keys :
  Open(k) \/ Close(k) \/ \E batch \in SUBSET Records : Store(k, batch)

Spec == Init /\ [][Next]_vars
=============================================================================
