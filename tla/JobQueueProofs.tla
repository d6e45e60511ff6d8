--------------------------- MODULE JobQueueProofs ---------------------------
(***************************************************************************)
(* JobQueue keeps QueueInv for any number of workers and jobs and any      *)
(* attempt ceiling.                                                        *)
(***************************************************************************)
EXTENDS JobQueue, FiniteSetTheorems, TLAPS

(* A set of outstanding claims below the ceiling has a size, and losing    *)
(* claims does not make it larger.                                         *)
LEMMA OutstandingIsFinite ==
  ASSUME NEW S, S \subseteq 1..(MAX_ATTEMPTS - 1)
  PROVE  /\ IsFiniteSet(S)
         /\ Cardinality(S) \in Nat
         /\ Cardinality(S) <= MAX_ATTEMPTS - 1
         /\ \A T : T \subseteq S => Cardinality(T) \in Nat /\ Cardinality(T) <= Cardinality(S)
<1>1. MAX_ATTEMPTS - 1 \in Int /\ 1 \in Int /\ MAX_ATTEMPTS >= 1
  BY QueueAssumption
<1>2. /\ IsFiniteSet(1..(MAX_ATTEMPTS - 1))
      /\ Cardinality(1..(MAX_ATTEMPTS - 1)) = MAX_ATTEMPTS - 1
  <2> DEFINE m == MAX_ATTEMPTS - 1
  <2>1. m \in Int /\ m >= 0
    BY <1>1, QueueAssumption
  <2> HIDE DEF m
  <2>2. IsFiniteSet(1..m) /\ Cardinality(1..m) = IF 1 > m THEN 0 ELSE m - 1 + 1
    BY <2>1, FS_Interval
  <2>3. Cardinality(1..m) = m
    BY <2>1, <2>2
  <2> QED
    BY <2>2, <2>3 DEF m
<1>3. IsFiniteSet(S) /\ Cardinality(S) <= MAX_ATTEMPTS - 1
  BY <1>2, FS_Subset
<1>4. \A T : T \subseteq S => IsFiniteSet(T) /\ Cardinality(T) <= Cardinality(S)
  BY <1>3, FS_Subset
<1> QED
  BY <1>3, <1>4, FS_CardinalityType

(* A step that makes no claim and puts no job beyond the ceiling back in   *)
(* the queue.                                                              *)
LEMMA CalmStep ==
  ASSUME QueueInv, TypeOK',
         \A w \in Workers : holds'[w] \in {holds[w], Nothing},
         \A j \in Jobs :
           /\ jobs'[j].attempts = jobs[j].attempts
           /\ jobs'[j].status = "PENDING" =>
                Is(j, "PENDING") \/ jobs[j].attempts < MAX_ATTEMPTS
           /\ jobs'[j].status = "UNSENT" => Is(j, "UNSENT")
           /\ jobs'[j].status = "ABANDONED" => jobs'[j].failure # NoCode
  PROVE  QueueInv'
<1>1. ClaimsAreDistinct'
  <2>1. \A w \in Workers : holds[w] # Nothing => holds[w].job \in Jobs
    BY DEF QueueInv, TypeOK, Claim
  <2> QED
    BY <2>1 DEF QueueInv, ClaimsAreDistinct
<1>2. ReasonIsKept'
  BY DEF ReasonIsKept, Is
<1>3. (\A j \in Jobs : Is(j, "UNSENT") => jobs[j].attempts = 0)'
  BY DEF QueueInv, Is
<1>4. ASSUME NEW j \in Jobs, jobs'[j].attempts >= MAX_ATTEMPTS
      PROVE  jobs'[j].attempts + Cardinality(Outstanding(j)') + Queued(j)'
               <= 2 * MAX_ATTEMPTS - 1
  <2>1. Outstanding(j)' \subseteq Outstanding(j)
    BY DEF Outstanding, Nothing
  <2>2. /\ Cardinality(Outstanding(j)) \in Nat /\ Cardinality(Outstanding(j)') \in Nat
        /\ Cardinality(Outstanding(j)') <= Cardinality(Outstanding(j))
    BY <2>1, OutstandingIsFinite DEF Outstanding
  <2>3. Queued(j) \in Nat /\ Queued(j)' \in Nat /\ Queued(j)' <= Queued(j)
    BY <1>4, QueueAssumption DEF Queued, Is, QueueInv, TypeOK, Row
  <2>4. jobs[j].attempts + Cardinality(Outstanding(j)) + Queued(j) <= 2 * MAX_ATTEMPTS - 1
    BY <1>4 DEF QueueInv
  <2> QED
    BY <2>2, <2>3, <2>4, QueueAssumption DEF QueueInv, TypeOK, Row
<1> QED
  BY <1>1, <1>2, <1>3, <1>4 DEF QueueInv

LEMMA EnqueueKeeps ==
  ASSUME QueueInv, NEW j \in Jobs, enqueueJob(j)
  PROVE  QueueInv'
<1>1. Cardinality({k \in Jobs : ~Is(k, "UNSENT")}) \in Nat
  BY QueueAssumption, FS_Subset, FS_CardinalityType
<1> DEFINE n == Cardinality({k \in Jobs : ~Is(k, "UNSENT")})
<1>2. /\ jobs' = [jobs EXCEPT ![j].status = "PENDING", ![j].created = n]
      /\ holds' = holds /\ sweep' = sweep
  BY DEF enqueueJob
<1> HIDE DEF n
<1>3. TypeOK'
  BY <1>1, <1>2 DEF QueueInv, TypeOK, Row, n
<1>4. jobs[j].attempts = 0
  BY DEF enqueueJob, QueueInv
<1>5. \A k \in Jobs :
        /\ jobs'[k].attempts = jobs[k].attempts
        /\ jobs'[k].failure = jobs[k].failure
        /\ k # j => jobs'[k].status = jobs[k].status
        /\ k = j => jobs'[k].status = "PENDING"
  BY <1>2 DEF QueueInv, TypeOK, Row
<1> QED
  <2>1. \A k \in Jobs :
          /\ jobs'[k].status = "PENDING" => Is(k, "PENDING") \/ jobs[k].attempts < MAX_ATTEMPTS
          /\ jobs'[k].status = "UNSENT" => Is(k, "UNSENT")
          /\ jobs'[k].status = "ABANDONED" => jobs'[k].failure # NoCode
    BY <1>4, <1>5, QueueAssumption DEF QueueInv, ReasonIsKept, Is
  <2> QED
    BY <1>2, <1>3, <1>5, <2>1, CalmStep

LEMMA HeartbeatKeeps ==
  ASSUME QueueInv, NEW w \in Workers, heartbeat(w)
  PROVE  QueueInv'
<1>1. holds[w].job \in Jobs
  BY DEF heartbeat, QueueInv, TypeOK, Claim
<1>2. /\ jobs' = [jobs EXCEPT ![holds[w].job].stale = FALSE]
      /\ holds' = holds /\ sweep' = sweep
  BY DEF heartbeat
<1>3. TypeOK'
  BY <1>1, <1>2 DEF QueueInv, TypeOK, Row
<1>4. \A k \in Jobs : /\ jobs'[k].attempts = jobs[k].attempts
                      /\ jobs'[k].failure = jobs[k].failure
                      /\ jobs'[k].status = jobs[k].status
  BY <1>1, <1>2 DEF QueueInv, TypeOK, Row
<1> QED
  BY <1>2, <1>3, <1>4, CalmStep DEF QueueInv, ReasonIsKept, Is

LEMMA TimeKeeps ==
  ASSUME QueueInv, NEW j \in Jobs, Elapse(j) \/ GoStale(j)
  PROVE  QueueInv'
<1>1. TypeOK'
  BY DEF QueueInv, TypeOK, Row, Elapse, GoStale
<1>2. \A k \in Jobs : /\ jobs'[k].attempts = jobs[k].attempts
                      /\ jobs'[k].failure = jobs[k].failure
                      /\ jobs'[k].status = jobs[k].status
  BY DEF QueueInv, TypeOK, Row, Elapse, GoStale
<1>3. holds' = holds
  BY DEF Elapse, GoStale
<1> QED
  BY <1>1, <1>2, <1>3, CalmStep DEF QueueInv, ReasonIsKept, Is

LEMMA CompleteKeeps ==
  ASSUME QueueInv, NEW w \in Workers, completeJob(w)
  PROVE  QueueInv'
<1>1. holds[w].job \in Jobs
  BY DEF completeJob, QueueInv, TypeOK, Claim
<1>2. /\ jobs' = [jobs EXCEPT ![holds[w].job].status = "SUCCEEDED"]
      /\ holds' = [holds EXCEPT ![w] = Nothing] /\ sweep' = sweep
  BY DEF completeJob, LetGo
<1>3. TypeOK'
  BY <1>1, <1>2 DEF QueueInv, TypeOK, Row
<1>4. \A k \in Jobs :
        /\ jobs'[k].attempts = jobs[k].attempts
        /\ jobs'[k].failure = jobs[k].failure
        /\ jobs'[k].status \in {jobs[k].status, "SUCCEEDED"}
  BY <1>1, <1>2 DEF QueueInv, TypeOK, Row
<1>5. \A x \in Workers : holds'[x] \in {holds[x], Nothing}
  BY <1>2 DEF QueueInv, TypeOK
<1> QED
  BY <1>3, <1>4, <1>5, CalmStep DEF QueueInv, ReasonIsKept, Is

LEMMA DieKeeps ==
  ASSUME QueueInv, NEW w \in Workers, Die(w)
  PROVE  QueueInv'
<1>1. jobs' = jobs /\ sweep' = sweep /\ holds' = [holds EXCEPT ![w] = Nothing]
  BY DEF Die, LetGo
<1>2. TypeOK' /\ \A x \in Workers : holds'[x] \in {holds[x], Nothing}
  BY <1>1 DEF QueueInv, TypeOK
<1> QED
  BY <1>1, <1>2, CalmStep DEF QueueInv, ReasonIsKept, Is

LEMMA SweepKeeps ==
  ASSUME QueueInv, RequeueLost \/ AbandonLost \/ SweepDies
  PROVE  QueueInv'
<1>1. holds' = holds /\ sweep' \in {"requeue", "abandon"}
  BY DEF RequeueLost, AbandonLost, SweepDies
<1>2. ASSUME NEW j \in Jobs
      PROVE  /\ jobs'[j] \in Row
             /\ jobs'[j].attempts = jobs[j].attempts
             /\ jobs'[j].status = "PENDING" =>
                  Is(j, "PENDING") \/ jobs[j].attempts < MAX_ATTEMPTS
             /\ jobs'[j].status = "UNSENT" => Is(j, "UNSENT")
             /\ jobs'[j].status = "ABANDONED" => jobs'[j].failure # NoCode
  <2>1. jobs[j] \in Row /\ (Is(j, "ABANDONED") => jobs[j].failure # NoCode)
    BY DEF QueueInv, TypeOK, ReasonIsKept
  <2>2. CASE jobs'[j] = jobs[j]
    BY <2>1, <2>2 DEF Is
  <2>3. CASE /\ jobs'[j] = [jobs[j] EXCEPT !.status = "PENDING", !.due = FALSE]
             /\ ~OutOfAttempts(jobs[j].attempts)
    <3>1. jobs[j].attempts < MAX_ATTEMPTS
      BY <2>1, <2>3, QueueAssumption DEF Row, OutOfAttempts
    <3> QED
      BY <2>1, <2>3, <3>1 DEF Row
  <2>4. CASE jobs'[j] = [jobs[j] EXCEPT !.status = "ABANDONED", !.failure = Reason(@)]
    <3> DEFINE why == Reason(jobs[j].failure)
    <3>1. why \in {"REPORTED", "WORKER_LOST_AFTER_MAX_ATTEMPTS"}
      BY <2>1 DEF Row, Reason
    <3> HIDE DEF why
    <3>2. jobs'[j] = [jobs[j] EXCEPT !.status = "ABANDONED", !.failure = why]
      BY <2>4 DEF why
    <3> QED
      BY <2>1, <3>1, <3>2 DEF Row, NoCode
  <2> QED
    BY <2>2, <2>3, <2>4 DEF RequeueLost, Requeued, AbandonLost, SweepDies
<1>3. jobs' = [j \in Jobs |-> jobs'[j]]
  BY DEF RequeueLost, AbandonLost, SweepDies, QueueInv, TypeOK
<1>4. TypeOK'
  BY <1>1, <1>2, <1>3 DEF QueueInv, TypeOK
<1> QED
  BY <1>1, <1>2, <1>4, CalmStep

(* A claim takes a number no claim of the job has had.                     *)
LEMMA ClaimKeeps ==
  ASSUME QueueInv, NEW w \in Workers, NEW j \in Jobs, claimJob(w, j)
  PROVE  QueueInv'
<1> DEFINE n == jobs[j].attempts
<1>1. /\ jobs[j] \in Row /\ n \in Nat /\ Is(j, "PENDING") /\ holds[w] = Nothing
      /\ MAX_ATTEMPTS \in Nat \ {0}
  BY QueueAssumption DEF claimJob, Claimable, QueueInv, TypeOK, Row
<1>2. /\ jobs' = [jobs EXCEPT ![j].status = "CLAIMED", ![j].attempts = n + 1, ![j].stale = FALSE]
      /\ holds' = [holds EXCEPT ![w] = [job |-> j, attempts |-> n + 1]]
      /\ sweep' = sweep
  BY DEF claimJob
<1>3. /\ jobs'[j].status = "CLAIMED" /\ jobs'[j].attempts = n + 1
      /\ \A k \in Jobs : k # j => jobs'[k] = jobs[k]
      /\ holds'[w] = [job |-> j, attempts |-> n + 1]
      /\ \A x \in Workers : x # w => holds'[x] = holds[x]
  BY <1>1, <1>2 DEF QueueInv, TypeOK, Row
<1>4. TypeOK'
  BY <1>1, <1>2 DEF QueueInv, TypeOK, Row, Claim
<1>5. ASSUME NEW x \in Workers, holds[x] # Nothing
      PROVE  /\ holds[x] \in Claim
             /\ holds[x].attempts \in 1..jobs[holds[x].job].attempts
             /\ holds[x].job = j => holds[x].attempts <= n
  BY <1>1, <1>5 DEF QueueInv, ClaimsAreDistinct, TypeOK, Claim
<1>6. ClaimsAreDistinct'
  <2>1. ASSUME NEW x \in Workers, holds'[x] # Nothing
        PROVE  holds'[x].attempts \in 1..jobs'[holds'[x].job].attempts
    <3>1. CASE x = w
      BY <1>1, <1>3, <3>1
    <3>2. CASE x # w
      <4>1. holds'[x] = holds[x] /\ holds[x] # Nothing
        BY <1>3, <2>1, <3>2
      <4>2. CASE holds[x].job = j
        BY <1>1, <1>3, <1>5, <4>1, <4>2
      <4>3. CASE holds[x].job # j
        BY <1>3, <1>5, <4>1, <4>3 DEF Claim
      <4> QED
        BY <4>2, <4>3
    <3> QED
      BY <3>1, <3>2
  <2>2. ASSUME NEW x \in Workers, x # w
        PROVE  holds'[x] # holds'[w]
    <3>1. holds'[w].job = j /\ holds'[w].attempts = n + 1
      BY <1>3
    <3>2. CASE holds[x] = Nothing
      <4>1. holds'[w] # Nothing
        BY <1>3 DEF Nothing
      <4> QED
        BY <1>3, <2>2, <3>2, <4>1
    <3>3. CASE holds[x] # Nothing
      BY <1>1, <1>3, <1>5, <2>2, <3>1, <3>3 DEF Claim
    <3> QED
      BY <3>2, <3>3
  <2> QED
    BY <1>3, <2>1, <2>2 DEF QueueInv, ClaimsAreDistinct
<1>7. ReasonIsKept' /\ (\A k \in Jobs : Is(k, "UNSENT") => jobs[k].attempts = 0)'
  BY <1>3 DEF QueueInv, ReasonIsKept, Is
<1>8. ASSUME NEW k \in Jobs, jobs'[k].attempts >= MAX_ATTEMPTS
      PROVE  jobs'[k].attempts + Cardinality(Outstanding(k)') + Queued(k)'
               <= 2 * MAX_ATTEMPTS - 1
  <2>1. Cardinality(Outstanding(k)) \in Nat /\ Cardinality(Outstanding(k)') \in Nat
    BY OutstandingIsFinite DEF Outstanding
  <2>2. CASE k = j /\ n + 1 = MAX_ATTEMPTS
    <3>1. Cardinality(Outstanding(k)') <= MAX_ATTEMPTS - 1
      BY OutstandingIsFinite DEF Outstanding
    <3>2. Queued(k)' = 0
      BY <1>3, <2>2 DEF Queued, Is
    <3> QED
      BY <1>1, <1>3, <2>1, <2>2, <3>1, <3>2
  <2>3. CASE k = j /\ n >= MAX_ATTEMPTS
    <3>1. Outstanding(k)' \subseteq Outstanding(k)
      <4> SUFFICES ASSUME NEW i \in 1..(MAX_ATTEMPTS - 1), NEW x \in Workers,
                          holds'[x] = [job |-> k, attempts |-> i]
                   PROVE  holds[x] = [job |-> k, attempts |-> i]
        BY DEF Outstanding
      <4>1. x # w
        BY <1>1, <1>3, <2>3
      <4> QED
        BY <1>3, <4>1
    <3>2. Cardinality(Outstanding(k)') <= Cardinality(Outstanding(k))
      BY <3>1, OutstandingIsFinite DEF Outstanding
    <3>3. Queued(k)' = 0 /\ Queued(k) = 1
      BY <1>1, <1>3, <2>3 DEF Queued, Is
    <3>4. n + Cardinality(Outstanding(k)) + Queued(k) <= 2 * MAX_ATTEMPTS - 1
      BY <2>3 DEF QueueInv
    <3> QED
      BY <1>1, <1>3, <2>1, <2>3, <3>2, <3>3, <3>4
  <2>4. CASE k # j
    <3>1. Outstanding(k)' \subseteq Outstanding(k)
      BY <1>3, <2>4 DEF Outstanding
    <3>2. Cardinality(Outstanding(k)') <= Cardinality(Outstanding(k))
      BY <3>1, OutstandingIsFinite DEF Outstanding
    <3>3. jobs'[k] = jobs[k] /\ Queued(k)' = Queued(k) /\ Queued(k) \in Nat
      BY <1>3, <2>4 DEF Queued, Is
    <3>4. jobs[k].attempts + Cardinality(Outstanding(k)) + Queued(k) <= 2 * MAX_ATTEMPTS - 1
      BY <1>8, <3>3 DEF QueueInv
    <3>5. jobs[k].attempts \in Nat
      BY DEF QueueInv, TypeOK, Row
    <3> QED
      BY <1>1, <2>1, <3>2, <3>3, <3>4, <3>5
  <2> QED
    BY <1>1, <1>3, <1>8, <2>2, <2>3, <2>4
<1> QED
  BY <1>4, <1>6, <1>7, <1>8 DEF QueueInv

(* A failure report brings a job back from beyond the ceiling only if its  *)
(* claim was made below it, and that claim is then spent.                  *)
LEMMA FailKeeps ==
  ASSUME QueueInv, NEW w \in Workers, failJob(w)
  PROVE  QueueInv'
<1> DEFINE j == holds[w].job
           n == holds[w].attempts
           status == FailedStatus(n)
           due == IF OutOfAttempts(n) THEN jobs[j].due ELSE FALSE
<1>1. /\ holds[w] \in Claim /\ holds[w] # Nothing /\ j \in Jobs
      /\ n \in 1..jobs[j].attempts /\ jobs[j] \in Row /\ MAX_ATTEMPTS \in Nat \ {0}
      /\ holds[w] = [job |-> j, attempts |-> n]
  BY QueueAssumption DEF failJob, QueueInv, TypeOK, ClaimsAreDistinct, Claim
<1>2. /\ jobs' = [jobs EXCEPT ![j] =
                    [@ EXCEPT !.status = status, !.failure = "REPORTED", !.due = due]]
      /\ holds' = [holds EXCEPT ![w] = Nothing] /\ sweep' = sweep
  BY DEF failJob, LetGo, Failed
<1>3. /\ status \in {"ABANDONED", "PENDING"} /\ due \in BOOLEAN
      /\ status = "PENDING" => n < MAX_ATTEMPTS
  <2>1. status \in {"ABANDONED", "PENDING"}
    BY DEF FailedStatus
  <2>2. due \in BOOLEAN
    <3>1. jobs[j].due \in BOOLEAN
      BY <1>1 DEF Row
    <3> QED
      BY <3>1
  <2>3. status = "PENDING" => ~OutOfAttempts(n)
    BY DEF FailedStatus
  <2>4. n \in Nat /\ (~OutOfAttempts(n) => n < MAX_ATTEMPTS)
    <3> HIDE DEF n
    <3>1. n \in Nat
      BY <1>1 DEF Row
    <3> QED
      BY <1>1, <3>1 DEF OutOfAttempts
  <2> QED
    BY <2>1, <2>2, <2>3, <2>4
<1> HIDE DEF j, n, status, due
<1>4. /\ jobs'[j] = [jobs[j] EXCEPT !.status = status, !.failure = "REPORTED", !.due = due]
      /\ \A k \in Jobs : k # j => jobs'[k] = jobs[k]
      /\ holds'[w] = Nothing /\ \A x \in Workers : x # w => holds'[x] = holds[x]
  BY <1>1, <1>2 DEF QueueInv, TypeOK
<1>5. /\ jobs'[j] \in Row /\ jobs'[j].status = status
      /\ jobs'[j].attempts = jobs[j].attempts /\ jobs'[j].failure = "REPORTED"
  BY <1>1, <1>3, <1>4 DEF Row
<1>6. TypeOK'
  BY <1>2, <1>5, <1>4 DEF QueueInv, TypeOK
<1>7. CASE status = "ABANDONED" \/ jobs[j].attempts < MAX_ATTEMPTS
  <2>1. \A k \in Jobs :
          /\ jobs'[k].attempts = jobs[k].attempts
          /\ jobs'[k].status = "PENDING" =>
               Is(k, "PENDING") \/ jobs[k].attempts < MAX_ATTEMPTS
          /\ jobs'[k].status = "UNSENT" => Is(k, "UNSENT")
          /\ jobs'[k].status = "ABANDONED" => jobs'[k].failure # NoCode
    BY <1>3, <1>4, <1>5, <1>7 DEF QueueInv, ReasonIsKept, Is, NoCode
  <2> QED
    BY <1>4, <1>6, <2>1, CalmStep
<1>8. CASE status = "PENDING" /\ ~(jobs[j].attempts < MAX_ATTEMPTS)
  <2>1. ClaimsAreDistinct'
    <3>1. \A x \in Workers : holds[x] # Nothing => holds[x].job \in Jobs
      BY DEF QueueInv, TypeOK, Claim
    <3>2. \A k \in Jobs : jobs'[k].attempts = jobs[k].attempts
      BY <1>4, <1>5
    <3> QED
      BY <1>4, <3>1, <3>2 DEF QueueInv, ClaimsAreDistinct
  <2>2. ReasonIsKept' /\ (\A k \in Jobs : Is(k, "UNSENT") => jobs[k].attempts = 0)'
    BY <1>4, <1>5, <1>8 DEF QueueInv, ReasonIsKept, Is
  <2>3. ASSUME NEW k \in Jobs, jobs'[k].attempts >= MAX_ATTEMPTS
        PROVE  jobs'[k].attempts + Cardinality(Outstanding(k)') + Queued(k)'
                 <= 2 * MAX_ATTEMPTS - 1
    <3>1. jobs'[k].attempts = jobs[k].attempts /\ jobs[k].attempts \in Nat
      BY <1>4, <1>5 DEF QueueInv, TypeOK, Row
    <3>2. jobs[k].attempts + Cardinality(Outstanding(k)) + Queued(k) <= 2 * MAX_ATTEMPTS - 1
      BY <2>3, <3>1 DEF QueueInv
    <3>3. Cardinality(Outstanding(k)) \in Nat /\ Cardinality(Outstanding(k)') \in Nat
      BY OutstandingIsFinite DEF Outstanding
    <3>4. CASE k = j
      <4>1. n \in Outstanding(k)
        BY <1>1, <1>3, <1>8, <3>4 DEF Outstanding
      <4>2. Outstanding(k)' \subseteq Outstanding(k) \ {n}
        <5> SUFFICES ASSUME NEW i \in 1..(MAX_ATTEMPTS - 1), NEW x \in Workers,
                            holds'[x] = [job |-> k, attempts |-> i]
                     PROVE  holds[x] = [job |-> k, attempts |-> i] /\ i # n
          BY DEF Outstanding
        <5>1. x # w
          BY <1>4 DEF Nothing
        <5>2. holds[x] = [job |-> k, attempts |-> i] /\ holds[x] # Nothing
          BY <1>4, <5>1 DEF Nothing
        <5>3. holds[x] # holds[w]
          BY <5>1, <5>2 DEF QueueInv, ClaimsAreDistinct
        <5> QED
          BY <1>1, <3>4, <5>2, <5>3
      <4>3. Cardinality(Outstanding(k)') <= Cardinality(Outstanding(k)) - 1
        <5>1. Outstanding(k) \subseteq 1..(MAX_ATTEMPTS - 1)
          BY DEF Outstanding
        <5>2. /\ IsFiniteSet(Outstanding(k) \ {n})
              /\ Cardinality(Outstanding(k) \ {n}) = Cardinality(Outstanding(k)) - 1
          BY <4>1, <5>1, OutstandingIsFinite, FS_RemoveElement
        <5> QED
          BY <4>2, <5>2, FS_Subset
      <4>4. Queued(k)' = 1 /\ Queued(k) \in Nat
        BY <1>5, <1>8, <3>4 DEF Queued, Is
      <4> QED
        BY <1>1, <3>1, <3>2, <3>3, <3>4, <4>3, <4>4
    <3>5. CASE k # j
      <4>1. Outstanding(k)' \subseteq Outstanding(k)
        BY <1>4 DEF Outstanding, Nothing
      <4>2. Cardinality(Outstanding(k)') <= Cardinality(Outstanding(k))
        BY <4>1, OutstandingIsFinite DEF Outstanding
      <4>3. Queued(k)' = Queued(k) /\ Queued(k) \in Nat
        BY <1>4, <3>5 DEF Queued, Is
      <4> QED
        BY <1>1, <3>1, <3>2, <3>3, <4>2, <4>3
    <3> QED
      BY <3>4, <3>5
  <2> QED
    BY <1>6, <2>1, <2>2, <2>3 DEF QueueInv
<1> QED
  BY <1>3, <1>7, <1>8

----------------------------------------------------------------------------
LEMMA InitHolds == Init => QueueInv
<1> SUFFICES ASSUME Init PROVE QueueInv
  OBVIOUS
<1>1. /\ \A j \in Jobs : jobs[j] = Unsent
      /\ \A w \in Workers : holds[w] = Nothing
  BY DEF Init
<1>2. TypeOK
  BY DEF Init, TypeOK, Unsent, Row, NoCode
<1> QED
  BY <1>1, <1>2, QueueAssumption DEF QueueInv, ClaimsAreDistinct, ReasonIsKept, Is, Unsent

LEMMA NextKeeps ==
  ASSUME QueueInv, [Next]_vars
  PROVE  QueueInv'
<1>1. CASE UNCHANGED vars
  <2>1. jobs' = jobs /\ holds' = holds /\ sweep' = sweep
    BY <1>1 DEF vars
  <2>2. TypeOK'
    BY <2>1 DEF QueueInv, TypeOK
  <2> QED
    BY <2>1, <2>2, CalmStep DEF QueueInv, ReasonIsKept, Is
<1>2. CASE Next
  BY <1>2, EnqueueKeeps, TimeKeeps, ClaimKeeps, HeartbeatKeeps, CompleteKeeps, FailKeeps,
     DieKeeps, SweepKeeps DEF Next, Finish
<1> QED
  BY <1>1, <1>2

(* QueueInv holds of every state of every instance (job-runner.ts).        *)
THEOREM Invariance == Spec => []QueueInv
<1>1. Init => QueueInv
  BY InitHolds
<1>2. QueueInv /\ [Next]_vars => QueueInv'
  BY NextKeeps
<1> QED
  BY <1>1, <1>2, PTL DEF Spec

(* Type correctness.                                                       *)
THEOREM TypeCorrect == Spec => []TypeOK
<1>1. QueueInv => TypeOK
  BY DEF QueueInv
<1> QED
  BY <1>1, Invariance, PTL

(* The attempts that claimJob returns would do as a fencing token: no two  *)
(* claims of a job ever have the same.                                     *)
THEOREM ClaimsStayDistinct == Spec => []ClaimsAreDistinct
<1>1. QueueInv => ClaimsAreDistinct
  BY DEF QueueInv
<1> QED
  BY <1>1, Invariance, PTL

(* What the unguarded failJob leaves of the attempt ceiling: a job is      *)
(* claimed at most 2 * MAX_ATTEMPTS - 1 times, however many workers there  *)
(* are and however late they report.                                       *)
THEOREM TriesStayBounded == Spec => []TriesAreBounded
<1>1. QueueInv => TriesAreBounded
  <2> SUFFICES ASSUME QueueInv, NEW j \in Jobs
               PROVE  jobs[j].attempts <= 2 * MAX_ATTEMPTS - 1
    BY DEF TriesAreBounded
  <2>1. jobs[j].attempts \in Nat /\ MAX_ATTEMPTS \in Nat \ {0}
    BY QueueAssumption DEF QueueInv, TypeOK, Row
  <2>2. Cardinality(Outstanding(j)) \in Nat /\ Queued(j) \in Nat
    BY OutstandingIsFinite DEF Outstanding, Queued
  <2>3. CASE jobs[j].attempts >= MAX_ATTEMPTS
    BY <2>1, <2>2, <2>3 DEF QueueInv
  <2>4. CASE jobs[j].attempts < MAX_ATTEMPTS
    BY <2>1, <2>4
  <2> QED
    BY <2>1, <2>3, <2>4
<1> QED
  BY <1>1, Invariance, PTL
=============================================================================
