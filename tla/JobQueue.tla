------------------------------ MODULE JobQueue ------------------------------
(***************************************************************************)
(* The durable job queue of apps/worker: workers claim rows of the jobs    *)
(* table, work on them outside the database, and report back with UPDATEs  *)
(* that name the job and nothing else - not the worker, not the claim, not *)
(* the status.  A sweep takes jobs back from workers whose heartbeat is    *)
(* too old, which need not mean that they are dead.                        *)
(*                                                                         *)
(* Time is abstract: a backoff elapses, and a heartbeat goes stale, at any *)
(* moment after it was set.  A worker here does with a job what the        *)
(* operations let it: it heartbeats, completes or fails the job it         *)
(* claimed, passing failJob the attempts its claim returned.               *)
(***************************************************************************)
EXTENDS Naturals, FiniteSets

CONSTANTS
  Jobs,         \* job ids
  Workers,      \* worker processes
  Handles,      \* [Workers -> SUBSET Jobs]: the jobs of a type a worker asks for
  MAX_ATTEMPTS  \* the attempt ceiling

ASSUME QueueAssumption ==
  /\ IsFiniteSet(Jobs)
  /\ Handles \in [Workers -> SUBSET Jobs]
  /\ MAX_ATTEMPTS \in Nat \ {0}

VARIABLES
  jobs,    \* [Jobs -> row of the jobs table]
  holds,   \* [Workers -> what claimJob returned to the worker, or Nothing]
  sweep    \* the statement of reclaimAbandoned that comes next

vars == <<jobs, holds, sweep>>

NoCode == "none"

Row == [ status   : {"UNSENT", "PENDING", "CLAIMED", "SUCCEEDED", "ABANDONED"},
         attempts : Nat,
         failure  : {NoCode, "REPORTED", "WORKER_LOST_AFTER_MAX_ATTEMPTS"},
         created  : Nat,        \* created_at
         due      : BOOLEAN,    \* available_at <= now()
         stale    : BOOLEAN ]   \* heartbeat_at < now() - staleSeconds

Nothing == [job |-> "nothing"]

Claim == [job : Jobs, attempts : Nat]

TypeOK ==
  /\ jobs \in [Jobs -> Row]
  /\ holds \in [Workers -> Claim \cup {Nothing}]
  /\ sweep \in {"requeue", "abandon"}

Is(j, status) == jobs[j].status = status

Terminal(j) == jobs[j].status \in {"SUCCEEDED", "ABANDONED"}

Holding(w, j) == holds[w] # Nothing /\ holds[w].job = j

----------------------------------------------------------------------------
Unsent == [ status |-> "UNSENT", attempts |-> 0, failure |-> NoCode,
            created |-> 0, due |-> TRUE, stale |-> FALSE ]

Init ==
  /\ jobs = [j \in Jobs |-> Unsent]
  /\ holds = [w \in Workers |-> Nothing]
  /\ sweep = "requeue"

enqueueJob(j) ==
  /\ Is(j, "UNSENT")
  /\ jobs' = [jobs EXCEPT ![j].status = "PENDING",
                          ![j].created = Cardinality({k \in Jobs : ~Is(k, "UNSENT")})]
  /\ UNCHANGED <<holds, sweep>>

(* claimJob: one UPDATE of the oldest row that is due, PENDING and of a    *)
(* type the worker asks for; FOR UPDATE SKIP LOCKED makes it atomic.       *)
Claimable(w) == {j \in Handles[w] : Is(j, "PENDING") /\ jobs[j].due}

claimJob(w, j) ==
  /\ holds[w] = Nothing
  /\ j \in Claimable(w)
  /\ \A k \in Claimable(w) : jobs[j].created <= jobs[k].created
  /\ jobs' = [jobs EXCEPT ![j].status = "CLAIMED", ![j].attempts = jobs[j].attempts + 1,
                          ![j].stale = FALSE]
  /\ holds' = [holds EXCEPT ![w] = [job |-> j, attempts |-> jobs[j].attempts + 1]]
  /\ UNCHANGED sweep

(* heartbeat, by job id: whoever holds the claim now, it looks alive.      *)
heartbeat(w) ==
  /\ holds[w] # Nothing
  /\ jobs' = [jobs EXCEPT ![holds[w].job].stale = FALSE]
  /\ UNCHANGED <<holds, sweep>>

LetGo(w) == holds' = [holds EXCEPT ![w] = Nothing]

(* completeJob, by job id, whatever the status is by then.                 *)
completeJob(w) ==
  /\ holds[w] # Nothing
  /\ jobs' = [jobs EXCEPT ![holds[w].job].status = "SUCCEEDED"]
  /\ LetGo(w)
  /\ UNCHANGED sweep

(* failJob, by job id: the ceiling is compared with the attempts of the    *)
(* claim the worker made, not with those of the row.                       *)
(* A bug: off by one.                                                      *)
OutOfAttempts_Exceeded(attempts) == attempts > MAX_ATTEMPTS

OutOfAttempts(attempts) == attempts >= MAX_ATTEMPTS

FailedStatus(attempts) ==
  IF OutOfAttempts(attempts) THEN "ABANDONED" ELSE "PENDING"

Failed(row, attempts) ==
  [row EXCEPT !.status = FailedStatus(attempts),
              !.failure = "REPORTED",
              !.due = IF OutOfAttempts(attempts) THEN row.due ELSE FALSE]

failJob(w) ==
  /\ holds[w] # Nothing
  /\ jobs' = [jobs EXCEPT ![holds[w].job] = Failed(@, holds[w].attempts)]
  /\ LetGo(w)
  /\ UNCHANGED sweep

(* The worker dies: it forgets its claim, and the row knows nothing of it. *)
Die(w) ==
  /\ holds[w] # Nothing
  /\ LetGo(w)
  /\ UNCHANGED <<jobs, sweep>>

(* reclaimAbandoned, first statement: stale jobs below the ceiling go back *)
(* to the queue.                                                           *)
Lost(j) == Is(j, "CLAIMED") /\ jobs[j].stale

(* A bug: attempts start again at zero.                                    *)
Requeued_FromScratch(row) ==
  [row EXCEPT !.status = "PENDING", !.due = FALSE, !.attempts = 0]

Requeued(row) == [row EXCEPT !.status = "PENDING", !.due = FALSE]

RequeueLost ==
  /\ sweep = "requeue"
  /\ jobs' = [j \in Jobs |->
       IF Lost(j) /\ ~OutOfAttempts(jobs[j].attempts)
       THEN Requeued(jobs[j]) ELSE jobs[j]]
  /\ sweep' = "abandon"
  /\ UNCHANGED holds

(* Its second statement: the others are abandoned, with a failure code.    *)
(* A bug: the second statement is forgotten.                               *)
LostForGood_None(j) == FALSE

LostForGood(j) == Lost(j) /\ OutOfAttempts(jobs[j].attempts)

Reason(failure) ==
  IF failure = NoCode THEN "WORKER_LOST_AFTER_MAX_ATTEMPTS" ELSE failure

AbandonLost ==
  /\ sweep = "abandon"
  /\ jobs' = [j \in Jobs |->
       IF LostForGood(j)
       THEN [jobs[j] EXCEPT !.status = "ABANDONED", !.failure = Reason(@)]
       ELSE jobs[j]]
  /\ sweep' = "requeue"
  /\ UNCHANGED holds

(* The process that sweeps dies between the two statements.                *)
SweepDies ==
  /\ sweep = "abandon"
  /\ sweep' = "requeue"
  /\ UNCHANGED <<jobs, holds>>

(* Time passes: a backoff elapses, a heartbeat gets too old.               *)
Elapse(j) ==
  /\ ~jobs[j].due
  /\ jobs' = [jobs EXCEPT ![j].due = TRUE]
  /\ UNCHANGED <<holds, sweep>>

GoStale(j) ==
  /\ Is(j, "CLAIMED")
  /\ ~jobs[j].stale
  /\ jobs' = [jobs EXCEPT ![j].stale = TRUE]
  /\ UNCHANGED <<holds, sweep>>

Finish(w) == completeJob(w) \/ failJob(w) \/ Die(w)

Next ==
  \/ \E j \in Jobs : enqueueJob(j) \/ Elapse(j) \/ GoStale(j)
  \/ \E w \in Workers :
       \/ \E j \in Jobs : claimJob(w, j)
       \/ heartbeat(w)
       \/ Finish(w)
  \/ RequeueLost
  \/ AbandonLost
  \/ SweepDies

Spec == Init /\ [][Next]_vars

(* Workers that keep polling, end each job they take, or die; a sweep that *)
(* keeps being made and, now and then, gets to its second statement.       *)
FairSpec ==
  /\ Spec
  /\ \A w \in Workers : WF_vars(\E j \in Jobs : claimJob(w, j)) /\ WF_vars(Finish(w))
  /\ \A j \in Jobs : WF_vars(Elapse(j)) /\ WF_vars(GoStale(j))
  /\ WF_vars(RequeueLost)
  /\ SF_vars(AbandonLost)

----------------------------------------------------------------------------
(* Two workers may come to hold the same job, but never the same claim:    *)
(* (job, attempts) names a claim once and for all, however often the job   *)
(* is taken back, failed late and claimed again.                           *)
ClaimsAreDistinct ==
  /\ \A w \in Workers : holds[w] # Nothing =>
       holds[w].attempts \in 1..jobs[holds[w].job].attempts
  /\ \A w, x \in Workers : w # x /\ holds[w] # Nothing => holds[w] # holds[x]

(* An abandoned job says why it stopped, whoever abandoned it.             *)
ReasonIsKept == \A j \in Jobs : Is(j, "ABANDONED") => jobs[j].failure # NoCode

(* A job is claimed at most 2 * MAX_ATTEMPTS - 1 times: a late failJob can *)
(* bring a job back from beyond the ceiling, but only once for each claim  *)
(* below the ceiling.                                                      *)
TriesAreBounded == \A j \in Jobs : jobs[j].attempts <= 2 * MAX_ATTEMPTS - 1

(* No job disappears: in the end every job that was sent has succeeded or  *)
(* is abandoned, for good, although workers die, stall and report late.    *)
EveryJobSettles == <>[](\A j \in Jobs : Is(j, "UNSENT") \/ Terminal(j))

(* Why the bound holds, inductively: from the ceiling on, every further    *)
(* claim of a job uses up the return of one outstanding claim made below   *)
(* the ceiling, or the place in the queue such a return has given it.      *)
Outstanding(j) ==
  {n \in 1..(MAX_ATTEMPTS - 1) :
     \E w \in Workers : holds[w] = [job |-> j, attempts |-> n]}

Queued(j) == IF Is(j, "PENDING") THEN 1 ELSE 0

QueueInv ==
  /\ TypeOK
  /\ ClaimsAreDistinct
  /\ ReasonIsKept
  /\ \A j \in Jobs : Is(j, "UNSENT") => jobs[j].attempts = 0
  /\ \A j \in Jobs : jobs[j].attempts >= MAX_ATTEMPTS =>
       jobs[j].attempts + Cardinality(Outstanding(j)) + Queued(j) <= 2 * MAX_ATTEMPTS - 1

----------------------------------------------------------------------------
(* What comments and tests say and the code does not do.                   *)

(* Live work is not stolen: a claim whose heartbeat is fresh ends only by  *)
(* the hand of the worker that made it.                                    *)
LiveWorkIsKept ==
  [][\A w \in Workers, j \in Jobs :
       /\ Is(j, "CLAIMED") /\ ~jobs[j].stale
       /\ holds[w] = [job |-> j, attempts |-> jobs[j].attempts]
       /\ holds'[w] = holds[w]
       => jobs'[j].status = "CLAIMED"]_vars
=============================================================================
