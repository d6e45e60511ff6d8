-------------------------- MODULE CaseWorkflowProofs --------------------------
(***************************************************************************)
(* CaseWorkflow keeps IInv for every set of cases, requests and versions,  *)
(* with or without crashes; its safety properties follow, and so does that *)
(* it implements the atomic lifecycle of CaseLifecycle.                    *)
(***************************************************************************)
EXTENDS CaseWorkflowInvariant, TLAPS

(* What the proofs need of the transition table.                           *)
LEMMA TableFacts ==
  /\ \A from, to : canTransition(from, to) => from \in CaseState /\ to \in CaseState
  /\ \A to : canTransition("INVESTIGATING", to)
       => to \in {"ACTION_PROPOSED", "REQUESTING_EVIDENCE", "ESCALATED"}
  /\ \A actor : isActorPermitted("INVESTIGATING", "REQUESTING_EVIDENCE", actor)
       => actor = "SYSTEM"
  /\ \A to : canTransition("ESCALATED", to) => to \in {"REOPENED", "CLOSED"}
  /\ \A from : canTransition(from, "ACTION_PROPOSED") => from = "INVESTIGATING"
  /\ \A from : canTransition(from, "APPROVED")
       => from \in {"ACTION_PROPOSED", "APPROVAL_PENDING"}
  /\ \A from : canTransition(from, "REJECTED") => from = "APPROVAL_PENDING"
  /\ \A from : canTransition(from, "STAGED") => from = "APPROVED"
<1> USE DEF canTransition, RulesFor, Transitions, rule, closing, SystemOnly,
            SysOp, OpApprover
<1>1. \A from, to : canTransition(from, to) => from \in CaseState /\ to \in CaseState
  BY DEF CaseState
<1>2. \A to : canTransition("INVESTIGATING", to)
       => to \in {"ACTION_PROPOSED", "REQUESTING_EVIDENCE", "ESCALATED"}
  OBVIOUS
<1>3. \A actor : isActorPermitted("INVESTIGATING", "REQUESTING_EVIDENCE", actor)
       => actor = "SYSTEM"
  BY DEF isActorPermitted, Human
<1>4. \A to : canTransition("ESCALATED", to) => to \in {"REOPENED", "CLOSED"}
  OBVIOUS
<1>5. \A from : canTransition(from, "ACTION_PROPOSED") => from = "INVESTIGATING"
  OBVIOUS
<1>6. \A from : canTransition(from, "APPROVED")
       => from \in {"ACTION_PROPOSED", "APPROVAL_PENDING"}
  OBVIOUS
<1>7. \A from : canTransition(from, "REJECTED") => from = "APPROVAL_PENDING"
  OBVIOUS
<1>8. \A from : canTransition(from, "STAGED") => from = "APPROVED"
  OBVIOUS
<1> QED
  BY <1>1, <1>2, <1>3, <1>4, <1>5, <1>6, <1>7, <1>8

----------------------------------------------------------------------------
(* A step of request r that leaves the cases and the investigations alone  *)
(* and records nothing new keeps the invariant, if what r knows after it   *)
(* is right.                                                               *)
LEMMA LocalStep ==
  ASSUME IInv, TypeOK', NEW r \in Requests,
         UNCHANGED <<cases, investigations>>,
         \A s \in Requests : s # r => req'[s] = req[s],
         Recorded' \subseteq Recorded,
         AsksFor(r)', OwnsRow(r)',
         Written(r)' => /\ Written(r)
                        /\ req'[r].case = req[r].case
                        /\ req'[r].ver = req[r].ver
                        /\ req'[r].exp = req[r].exp
  PROVE  IInv'
<1>1. IsAPath(Recorded)'
  BY DEF IInv, IsAPath
<1>2. (\A c \in Cases : cases[c].state \in Reached)'
  BY DEF IInv
<1>3. RowsAreDistinct' /\ RunningIsCurrent' /\ ProposalIsVerified'
  BY DEF IInv, RowsAreDistinct, RunningIsCurrent, ProposalIsVerified, StandsAt
<1>4. ASSUME NEW s \in Requests
      PROVE  (AsksFor(s) /\ OwnsVersion(s) /\ OwnsRow(s))'
  <2>1. CASE s = r
    <3>1. OwnsVersion(r)'
      BY DEF IInv, OwnsVersion, Written
    <3> QED
      BY <2>1, <3>1
  <2>2. CASE s # r
    <3>1. AsksFor(s)'
      BY <2>2 DEF IInv, AsksFor
    <3>2. OwnsRow(s)'
      BY <2>2 DEF IInv, OwnsRow, RowIs, StandsAt, FinishedAs
    <3>3. OwnsVersion(s)'
      BY <2>2 DEF IInv, OwnsVersion, Written
    <3> QED
      BY <3>1, <3>2, <3>3
  <2> QED
    BY <2>1, <2>2
<1> QED
  BY <1>1, <1>2, <1>3, <1>4 DEF IInv

----------------------------------------------------------------------------
(* The steps that leave the cases and the investigations alone.            *)

(* A request that is somewhere in its handler has all its locals.          *)
LEMMA BusyIsTyped ==
  ASSUME TypeOK, NEW r \in Requests, NEW pc \in Pc, At(r, pc)
  PROVE  req[r] \in RequestState /\ req[r] # Idle
BY DEF TypeOK, At, Idle, Pc

(* A request that answers, or dies, without a last write.                  *)
LEMMA IdleStep ==
  ASSUME IInv, NEW r \in Requests,
         req' = [req EXCEPT ![r] = Idle], UNCHANGED rows
  PROVE  IInv'
<1>1. TypeOK'
  BY DEF IInv, TypeOK, rows
<1>2. req'[r] = Idle /\ \A s \in Requests : s # r => req'[s] = req[s]
  BY DEF IInv, TypeOK
<1>3. ~Written(r)' /\ AsksFor(r)' /\ OwnsRow(r)'
  BY <1>2 DEF Written, AsksFor, OwnsRow
<1>4. Recorded' \subseteq Recorded
  BY <1>2, <1>3 DEF Recorded, Pending, Written, Event, rows
<1> QED
  BY <1>1, <1>2, <1>3, <1>4, LocalStep DEF rows

LEMMA BeginKeeps ==
  ASSUME IInv, NEW r \in Requests, NEW op \in DOMAIN Operation,
         NEW role \in Human, NEW c \in Cases, NEW version \in ClientVersions,
         Begin(r, op, role, c, version)
  PROVE  IInv'
<1>1. TypeOK'
  BY WorkflowAssumption DEF IInv, TypeOK, Begin, rows, Idle, Operation, ActorFor, HumanActor, RequestState, Pc, Ops, CaseState, TransitionActor, Human, NoState
<1>2. \A s \in Requests : s # r => req'[s] = req[s]
  BY DEF IInv, TypeOK, Begin, rows, Idle, Operation, ActorFor, HumanActor
<1>3. UNCHANGED <<cases, investigations>>
  BY DEF rows, Begin, rows, Idle, Operation, ActorFor, HumanActor
<1>4. Written(r)' => /\ Written(r)
                    /\ req'[r].case = req[r].case
                    /\ req'[r].ver = req[r].ver
                    /\ req'[r].exp = req[r].exp
  BY DEF IInv, TypeOK, Written, Begin, rows, Idle, Operation, ActorFor, HumanActor
<1>5. Recorded' \subseteq Recorded
  BY <1>2 DEF IInv, TypeOK, Recorded, Pending, Written, Event, rows, Begin, rows, Idle, Operation, ActorFor, HumanActor
<1>6. AsksFor(r)'
  BY DEF IInv, TypeOK, AsksFor, Begin, rows, Idle, Operation, ActorFor, HumanActor
<1>7. OwnsRow(r)'
  BY DEF IInv, TypeOK, AsksFor, OwnsRow, RowIs, StandsAt, FinishedAs, rows, Begin, rows, Idle, Operation, ActorFor, HumanActor
<1> QED
  BY <1>1, <1>2, <1>3, <1>4, <1>5, <1>6, <1>7, LocalStep

LEMMA NothingToLoadKeeps ==
  ASSUME IInv, NEW r \in Requests, NothingToLoad(r)
  PROVE  IInv'
BY IdleStep DEF NothingToLoad, Answer

LEMMA CrashKeeps ==
  ASSUME IInv, NEW r \in Requests, Crash(r)
  PROVE  IInv'
BY IdleStep DEF Crash, Answer

LEMMA OpenEvidenceKeeps ==
  ASSUME IInv, NEW r \in Requests, OpenEvidence(r)
  PROVE  IInv'
<1>1. TypeOK'
  BY DEF IInv, TypeOK, OpenEvidence, Answer, At, Idle, RequestState, EvidenceRow
<1>2. \A s \in Requests : s # r => req'[s] = req[s]
  BY DEF IInv, TypeOK, OpenEvidence, Answer, At, Idle
<1>3. UNCHANGED <<cases, investigations>>
  BY DEF rows, OpenEvidence, Answer, At, Idle
<1>4. Written(r)' => /\ Written(r)
                    /\ req'[r].case = req[r].case
                    /\ req'[r].ver = req[r].ver
                    /\ req'[r].exp = req[r].exp
  BY DEF IInv, TypeOK, Written, OpenEvidence, Answer, At, Idle
<1>5. Recorded' \subseteq Recorded
  BY <1>2 DEF IInv, TypeOK, Recorded, Pending, Written, Event, rows, OpenEvidence, Answer, At, Idle
<1>6. AsksFor(r)'
  BY DEF IInv, TypeOK, AsksFor, OpenEvidence, Answer, At, Idle
<1>7. OwnsRow(r)'
  BY DEF IInv, TypeOK, AsksFor, OwnsRow, RowIs, StandsAt, FinishedAs, rows, OpenEvidence, Answer, At, Idle
<1> QED
  BY <1>1, <1>2, <1>3, <1>4, <1>5, <1>6, <1>7, LocalStep

LEMMA ReadCaseKeeps ==
  ASSUME IInv, NEW r \in Requests, ReadCase(r)
  PROVE  IInv'
<1>1. req[r] \in RequestState /\ req[r] # Idle /\ req[r].pc = "read"
  BY BusyIsTyped DEF IInv, ReadCase, Pc, At
<1>2. CASE Accepts(r)
  <2>1. /\ req' = [req EXCEPT ![r].pc = "write", ![r].from = cases[req[r].case].state]
        /\ UNCHANGED rows
        /\ Legal(cases[req[r].case].state, req[r].to, req[r].actor, FALSE)
        /\ cases[req[r].case].state \in CaseState
    BY <1>1, <1>2 DEF IInv, TypeOK, ReadCase, Accepts, RequestState
  <2>2. /\ req'[r] \in RequestState
        /\ req'[r] = [req[r] EXCEPT !.pc = "write", !.from = cases[req[r].case].state]
        /\ \A s \in Requests : s # r => req'[s] = req[s]
    BY <1>1, <2>1 DEF IInv, TypeOK, RequestState, Pc
  <2>3. /\ req'[r] # Idle /\ req'[r].pc = "write"
        /\ req'[r].op = req[r].op /\ req'[r].case = req[r].case
        /\ req'[r].to = req[r].to /\ req'[r].actor = req[r].actor
        /\ req'[r].from = cases[req[r].case].state
        /\ req'[r].exp = req[r].exp /\ req'[r].inv = req[r].inv
    BY <1>1, <2>2 DEF RequestState, Idle
  <2>4. TypeOK'
    BY <2>1, <2>2 DEF IInv, TypeOK, rows
  <2>5. ~Written(r)' /\ ~Written(r)
    BY <1>1, <2>3 DEF Written
  <2>6. Recorded' \subseteq Recorded
    BY <2>1, <2>2, <2>5 DEF Recorded, Pending, Written, Event, rows
  <2>7. AsksFor(r)'
    BY <1>1, <2>1, <2>3 DEF IInv, AsksFor
  <2>8. OwnsRow(r)'
    BY <1>1, <2>1, <2>3 DEF IInv, OwnsRow, RowIs, FinishedAs, rows
  <2> QED
    BY <2>1, <2>2, <2>4, <2>5, <2>6, <2>7, <2>8, LocalStep DEF rows
<1>3. CASE ~Accepts(r)
  <2>1. req' = [req EXCEPT ![r] = Idle] /\ UNCHANGED rows
    BY <1>3 DEF ReadCase, Answer
  <2> QED
    BY <2>1, IdleStep
<1> QED
  BY <1>2, <1>3

LEMMA AppendAuditKeeps ==
  ASSUME IInv, NEW r \in Requests, AppendAudit(r)
  PROVE  IInv'
<1>1. req[r] \in RequestState /\ req[r] # Idle /\ req[r].pc = "audit"
  BY BusyIsTyped DEF IInv, AppendAudit, Pc, At
<1>2. /\ req' = [req EXCEPT ![r] = AfterAudit(r)]
      /\ audit' = audit \cup {Event(r)}
      /\ UNCHANGED <<cases, investigations, evidence>>
  BY DEF AppendAudit
<1>3. req'[r] = AfterAudit(r) /\ \A s \in Requests : s # r => req'[s] = req[s]
  BY <1>2 DEF IInv, TypeOK
<1>4. Event(r) \in AuditEvent
  BY <1>1 DEF IInv, AsksFor, Event, AuditEvent, RequestState
<1>5. Written(r) /\ r \in Pending
  BY <1>1 DEF Written, Pending
<1>6. audit' \subseteq Recorded
  BY <1>2, <1>5 DEF Recorded
<1>7. CASE AfterAudit(r) = Idle
  <2>1. ~Written(r)' /\ AsksFor(r)' /\ OwnsRow(r)'
    BY <1>3, <1>7 DEF Written, AsksFor, OwnsRow
  <2>2. TypeOK'
    BY <1>2, <1>4, <1>7 DEF IInv, TypeOK
  <2>3. Recorded' \subseteq Recorded
    BY <1>3, <1>6, <2>1 DEF Recorded, Pending, Written, Event
  <2> QED
    BY <1>2, <1>3, <2>1, <2>2, <2>3, LocalStep
<1>8. CASE AfterAudit(r) # Idle
  <2>1. PICK pc \in {"dispatch", "open"} :
             /\ AfterAudit(r) = [req[r] EXCEPT !.pc = pc]
             /\ pc = "dispatch" => req[r].op = "investigate"
    BY <1>8 DEF AfterAudit
  <2>2. req'[r] \in RequestState
    BY <1>1, <1>3, <2>1 DEF RequestState, Pc
  <2>3. /\ req'[r] # Idle /\ req'[r].pc = pc
        /\ req'[r].op = req[r].op /\ req'[r].case = req[r].case
        /\ req'[r].to = req[r].to /\ req'[r].actor = req[r].actor
        /\ req'[r].from = req[r].from /\ req'[r].ver = req[r].ver
        /\ req'[r].exp = req[r].exp /\ req'[r].inv = req[r].inv
    BY <1>1, <1>3, <2>1 DEF RequestState, Idle
  <2>4. TypeOK'
    BY <1>2, <1>3, <1>4, <2>2 DEF IInv, TypeOK
  <2>5. r \notin Pending'
    BY <2>3 DEF Pending
  <2>6. Recorded' \subseteq Recorded
    BY <1>3, <1>6, <2>5 DEF Recorded, Pending, Written, Event
  <2>7. AsksFor(r)'
    <3>1. req[r].op # "conclude"
      BY <2>1 DEF AfterAudit, Idle, IInv
    <3> QED
      BY <1>1, <2>1, <2>3, <3>1 DEF IInv, AsksFor
  <2>8. OwnsRow(r)'
    BY <1>1, <1>2, <2>1, <2>3 DEF IInv, OwnsRow, RowIs, AsksFor
  <2> QED
    BY <1>2, <1>3, <1>5, <2>3, <2>4, <2>6, <2>7, <2>8, LocalStep
<1> QED
  BY <1>7, <1>8

(* The agent's verdict, and the kill switch, only choose where the         *)
(* investigation heads.                                                    *)
LEMMA HeadsKeeps ==
  ASSUME IInv, NEW r \in Requests, At(r, "dispatch"),
         NEW to \in {"ACTION_PROPOSED", "ESCALATED"}, Heads(r, to)
  PROVE  IInv'
<1>1. req[r] \in RequestState /\ req[r] # Idle /\ req[r].pc = "dispatch"
  BY BusyIsTyped DEF IInv, Pc, At
<1>2. req' = [req EXCEPT ![r].pc = "finish", ![r].to = to] /\ UNCHANGED rows
  BY DEF Heads
<1>3. /\ req'[r] = [req[r] EXCEPT !.pc = "finish", !.to = to]
      /\ \A s \in Requests : s # r => req'[s] = req[s]
  BY <1>2 DEF IInv, TypeOK
<1>4. req'[r] \in RequestState
  BY <1>1, <1>3 DEF RequestState, Pc, CaseState
<1>5. /\ req'[r] # Idle /\ req'[r].pc = "finish" /\ req'[r].to = to
      /\ req'[r].op = req[r].op /\ req'[r].case = req[r].case
      /\ req'[r].actor = req[r].actor /\ req'[r].from = req[r].from
      /\ req'[r].ver = req[r].ver /\ req'[r].exp = req[r].exp
      /\ req'[r].inv = req[r].inv
  BY <1>1, <1>3 DEF RequestState, Idle
<1>6. TypeOK'
  BY <1>2, <1>3, <1>4 DEF IInv, TypeOK, rows
<1>7. Written(r) /\ r \notin Pending'
  BY <1>1, <1>5 DEF Written, Pending
<1>8. Recorded' \subseteq Recorded
  <2>1. ASSUME NEW s \in Pending' PROVE s \in Pending /\ Event(s)' = Event(s)
    <3>1. s # r /\ s \in Requests
      BY <1>7 DEF Pending
    <3> QED
      BY <1>3, <3>1 DEF Pending, Written, Event
  <2> QED
    BY <1>2, <2>1 DEF Recorded, rows
<1>9. AsksFor(r)'
  BY <1>1, <1>5 DEF IInv, AsksFor
<1>10. OwnsRow(r)'
  BY <1>1, <1>2, <1>5 DEF IInv, OwnsRow, RowIs, AsksFor, rows
<1> QED
  BY <1>2, <1>3, <1>5, <1>6, <1>7, <1>8, <1>9, <1>10, LocalStep DEF rows

----------------------------------------------------------------------------
(* The guarded UPDATE.                                                     *)

(* What a request about to write may do: no move the API knows leaves      *)
(* ESCALATED, and INVESTIGATING is left for ESCALATED, or for              *)
(* ACTION_PROPOSED by the one request whose investigation succeeded from   *)
(* the version the case is still at.                                       *)
LEMMA WriterMoves ==
  ASSUME IInv, NEW r \in Requests, At(r, "write"), UpdateMatches(r)
  PROVE  LET q == req[r] IN
         /\ q \in RequestState /\ q # Idle
         /\ q.from = cases[q.case].state /\ q.exp = cases[q.case].version
         /\ canTransition(q.from, q.to) /\ q.from # "ESCALATED"
         /\ q.to \in Reached
         /\ q.op = "investigate" => q.to = "INVESTIGATING"
         /\ q.to = "ACTION_PROPOSED" =>
              RowIs(r, "SUCCEEDED", q.exp) /\ q.from = "INVESTIGATING"
         /\ q.from = "INVESTIGATING" => q.to \in {"ACTION_PROPOSED", "ESCALATED"}
<1> DEFINE q == req[r]
<1>1. q \in RequestState /\ q # Idle /\ q.pc = "write"
  BY BusyIsTyped DEF IInv, Pc, At
<1>2. q.from = cases[q.case].state /\ q.exp = cases[q.case].version
  BY DEF UpdateMatches
<1>3. /\ canTransition(q.from, q.to) /\ isActorPermitted(q.from, q.to, q.actor)
      /\ q.from \in Reached
  BY <1>1, <1>2 DEF IInv, AsksFor, Legal, RequestState
<1>4. /\ q.op # "conclude" => q.to = Operation[q.op].to
      /\ q.op = "conclude" => q.to \in {"ACTION_PROPOSED", "ESCALATED"}
      /\ q.op = "request_evidence" => q.actor # "SYSTEM"
      /\ q.op \in Ops
  BY <1>1 DEF IInv, AsksFor, RequestState
<1>5. /\ q.to \in {"ACTION_PROPOSED", "ESCALATED", "REQUESTING_EVIDENCE",
                   "INVESTIGATING", "APPROVED", "REJECTED", "STAGED"}
      /\ q.to = "ACTION_PROPOSED" => q.op = "conclude"
      /\ q.to = "REQUESTING_EVIDENCE" => q.op = "request_evidence"
      /\ q.op = "investigate" => q.to = "INVESTIGATING"
  BY <1>4 DEF Ops, Operation
<1>6. q.from # "ESCALATED" /\ q.to # "REJECTED"
  BY <1>3, <1>5, TableFacts DEF Reached
<1>7. q.to = "ACTION_PROPOSED" => RowIs(r, "SUCCEEDED", q.exp) /\ q.from = "INVESTIGATING"
  BY <1>1, <1>3, <1>5, TableFacts DEF IInv, OwnsRow, FinishedAs
<1>8. q.from = "INVESTIGATING" => q.to \in {"ACTION_PROPOSED", "ESCALATED"}
  BY <1>3, <1>4, <1>5, TableFacts
<1> QED
  BY <1>1, <1>2, <1>3, <1>5, <1>6, <1>7, <1>8 DEF Reached

LEMMA WriteCaseKeeps ==
  ASSUME IInv, NEW r \in Requests, WriteCase(r)
  PROVE  IInv'
<1>1. CASE ~UpdateMatches(r)
  BY <1>1, IdleStep DEF WriteCase, Answer, rows
<1>2. CASE UpdateMatches(r)
  <2> DEFINE q == req[r]
             c == req[r].case
             v == cases[c].version
  <2>1. /\ q \in RequestState /\ q # Idle /\ q.pc = "write"
        /\ q.from = cases[c].state /\ q.exp = v
        /\ canTransition(q.from, q.to) /\ q.from # "ESCALATED"
        /\ q.to \in Reached
        /\ q.op = "investigate" => q.to = "INVESTIGATING"
        /\ q.to = "ACTION_PROPOSED" =>
             RowIs(r, "SUCCEEDED", v) /\ q.from = "INVESTIGATING"
        /\ q.from = "INVESTIGATING" => q.to \in {"ACTION_PROPOSED", "ESCALATED"}
    BY <1>2, WriterMoves DEF WriteCase, At
  <2>2. c \in Cases /\ v \in Nat /\ q.to \in CaseState /\ q.from \in CaseState
    BY <2>1 DEF IInv, TypeOK, RequestState, Reached, CaseState
  <2>3. /\ cases' = [cases EXCEPT ![c] = [state |-> q.to, version |-> v + 1]]
        /\ req' = [req EXCEPT ![r].pc = AfterWrite(r), ![r].ver = v + 1]
        /\ UNCHANGED <<investigations, evidence, audit>>
    BY <1>2, <2>2 DEF WriteCase, IInv, TypeOK
  <2>4. /\ cases'[c] = [state |-> q.to, version |-> v + 1]
        /\ \A d \in Cases : d # c => cases'[d] = cases[d]
        /\ req'[r] = [q EXCEPT !.pc = AfterWrite(r), !.ver = v + 1]
        /\ \A s \in Requests : s # r => req'[s] = req[s]
    BY <2>2, <2>3 DEF IInv, TypeOK
  <2>5. /\ req'[r] \in RequestState /\ req'[r] # Idle
        /\ req'[r].pc = AfterWrite(r) /\ req'[r].ver = v + 1
        /\ req'[r].op = q.op /\ req'[r].case = c
        /\ req'[r].to = q.to /\ req'[r].actor = q.actor
        /\ req'[r].from = q.from /\ req'[r].exp = q.exp /\ req'[r].inv = q.inv
    <3> DEFINE pc == AfterWrite(r)
               n == v + 1
    <3>1. pc \in Pc /\ n \in Nat
      BY <2>2 DEF AfterWrite, Pc
    <3>2. req'[r] = [q EXCEPT !.pc = pc, !.ver = n] /\ q \in RequestState
      BY <2>1, <2>4
    <3> HIDE DEF pc, n, q
    <3>3. /\ req'[r] \in RequestState /\ req'[r] # Idle
          /\ req'[r].pc = pc /\ req'[r].ver = n
          /\ req'[r].op = q.op /\ req'[r].case = q.case
          /\ req'[r].to = q.to /\ req'[r].actor = q.actor
          /\ req'[r].from = q.from /\ req'[r].exp = q.exp /\ req'[r].inv = q.inv
      BY <3>1, <3>2 DEF RequestState, Idle
    <3> QED
      BY <3>3 DEF pc, n, q
  <2>6. TypeOK'
    BY <2>2, <2>3, <2>5 DEF IInv, TypeOK
  <2>7. \A d \in Cases : cases[d].version \in Nat /\ cases'[d].version \in Nat
                         /\ cases[d].version <= cases'[d].version
    BY <2>2, <2>4 DEF IInv, TypeOK
  <2>8. (\A d \in Cases : cases[d].state \in Reached)'
    BY <2>1, <2>4 DEF IInv
  <2>9. \A i \in DOMAIN investigations : investigations[i] \in InvestigationRow
    BY DEF IInv, TypeOK
  <2>10. RowsAreDistinct'
    BY <2>3, <2>7, <2>9 DEF IInv, RowsAreDistinct, InvestigationRow
  <2>11. RunningIsCurrent'
    <3> SUFFICES ASSUME NEW i \in DOMAIN investigations,
                        investigations[i].status = "RUNNING"
                 PROVE  StandsAt(investigations[i].case, investigations[i].atVersion)'
      BY <2>3 DEF RunningIsCurrent
    <3>1. StandsAt(investigations[i].case, investigations[i].atVersion)
      BY DEF IInv, RunningIsCurrent
    <3>2. CASE investigations[i].case # c
      BY <2>3, <2>4, <2>9, <3>1, <3>2 DEF StandsAt, InvestigationRow
    <3>3. CASE investigations[i].case = c
      <4>1. q.from = "INVESTIGATING" /\ investigations[i].atVersion = v
        BY <2>1, <3>1, <3>3 DEF StandsAt
      <4>2. q.to # "ACTION_PROPOSED"
        BY <2>1, <3>3, <4>1 DEF RowIs, IInv, RowsAreDistinct
      <4> QED
        BY <2>1, <2>3, <2>4, <3>3, <4>1, <4>2 DEF StandsAt
    <3> QED
      BY <3>2, <3>3
  <2>12. ProposalIsVerified'
    <3> SUFFICES ASSUME NEW d \in Cases,
                        cases'[d].state \in DOMAIN VersionsSinceStart
                 PROVE  \E i \in DOMAIN investigations :
                          /\ investigations[i].case = d
                          /\ investigations[i].status = "SUCCEEDED"
                          /\ cases'[d].version = investigations[i].atVersion
                               + VersionsSinceStart[cases'[d].state]
      BY <2>3 DEF ProposalIsVerified
    <3>1. CASE d # c
      BY <2>4, <3>1 DEF IInv, ProposalIsVerified
    <3>2. CASE d = c /\ q.to = "ACTION_PROPOSED"
      BY <2>1, <2>4, <3>2 DEF RowIs, VersionsSinceStart
    <3>3. CASE d = c /\ q.to \in {"APPROVED", "STAGED"}
      <4>1. \/ q.to = "APPROVED" /\ q.from = "ACTION_PROPOSED"
            \/ q.to = "STAGED" /\ q.from = "APPROVED"
        <5>1. q.from \in Reached
          BY <2>1, <2>2 DEF IInv
        <5> QED
          BY <2>1, <3>3, <5>1, TableFacts DEF Reached
      <4>2. PICK i \in DOMAIN investigations :
               /\ investigations[i].case = c
               /\ investigations[i].status = "SUCCEEDED"
               /\ v = investigations[i].atVersion + VersionsSinceStart[q.from]
        BY <2>1, <2>2, <4>1 DEF IInv, ProposalIsVerified, VersionsSinceStart
      <4> QED
        BY <2>4, <2>9, <3>3, <4>1, <4>2 DEF VersionsSinceStart, InvestigationRow
    <3> QED
      BY <2>4, <3>1, <3>2, <3>3 DEF VersionsSinceStart
  <2>13. IsAPath(Recorded)'
    <3> DEFINE e == [case |-> c, previous |-> q.from, next |-> q.to, version |-> v + 1]
    <3>1. Recorded' \subseteq Recorded \cup {e}
      <4>1. ASSUME NEW s \in Pending' PROVE Event(s)' \in Recorded \cup {e}
        <5>1. CASE s = r
          BY <2>5, <5>1 DEF Event
        <5>2. CASE s # r
          <6>1. s \in Requests /\ req'[s] = req[s]
            BY <2>4, <5>2 DEF Pending
          <6>2. s \in Pending /\ Event(s)' = Event(s)
            BY <6>1 DEF Pending, Written, Event
          <6> QED
            BY <6>2 DEF Recorded
        <5> QED
          BY <5>1, <5>2
      <4> QED
        BY <2>3, <4>1 DEF Recorded
    <3>2. \A f \in Recorded : f.case \in Cases /\ f.version \in Nat
      BY DEF IInv, TypeOK, AuditEvent, Recorded, Pending, Written, Event, RequestState
    <3>3. \A f \in Recorded :
            /\ canTransition(f.previous, f.next)
            /\ f.version <= cases'[f.case].version
            /\ f.version = cases'[f.case].version => f.next = cases'[f.case].state
            /\ f.case = c => f.version < e.version
            /\ f.case = c /\ e.version = f.version + 1 => f.next = e.previous
      BY <2>1, <2>2, <2>4, <2>7, <3>2 DEF IInv, IsAPath
    <3>4. /\ canTransition(e.previous, e.next)
          /\ e.version <= cases'[e.case].version
          /\ e.version = cases'[e.case].version => e.next = cases'[e.case].state
      BY <2>1, <2>2, <2>4
    <3>5. \A f, g \in Recorded : f.case = g.case =>
            /\ f.version = g.version => f = g
            /\ g.version = f.version + 1 => g.previous = f.next
      BY DEF IInv, IsAPath
    <3>6. e.case = c /\ e.version \in Nat
      BY <2>2
    <3> HIDE DEF e
    <3>7. \A f, g \in Recorded \cup {e} : f.case = g.case =>
            /\ f.version = g.version => f = g
            /\ g.version = f.version + 1 => g.previous = f.next
      BY <3>2, <3>3, <3>5, <3>6
    <3> QED
      BY <3>1, <3>3, <3>4, <3>7 DEF IsAPath
  <2>14. ASSUME NEW s \in Requests
         PROVE  (AsksFor(s) /\ OwnsVersion(s) /\ OwnsRow(s))'
    <3>1. CASE s = r
      <4>1. AsksFor(r)'
        BY <2>1, <2>2, <2>5 DEF AsksFor, AfterWrite, IInv
      <4>2. OwnsVersion(r)'
        <5>1. ASSUME NEW t \in Requests, Written(t)', t # r, req'[t].case = c
              PROVE  req'[t].ver # v + 1
          <6>1. Written(t) /\ req[t].case = c /\ req'[t].ver = req[t].ver
            BY <2>4, <5>1 DEF Written
          <6>2. req[t].ver <= v /\ req[t].ver \in Nat
            BY <6>1 DEF IInv, OwnsVersion, TypeOK, RequestState, Written
          <6> QED
            BY <2>2, <6>1, <6>2
        <5> QED
          BY <2>1, <2>2, <2>4, <2>5, <5>1 DEF OwnsVersion
      <4>3. OwnsRow(r)'
        <5>1. CASE q.op = "investigate"
          <6>1. cases'[c] = [state |-> "INVESTIGATING", version |-> v + 1]
            BY <2>1, <2>4, <5>1
          <6>2. \A i \in DOMAIN investigations : investigations[i].case = c
                  => investigations[i].atVersion # v + 1
            BY <2>2, <2>9 DEF IInv, RowsAreDistinct, InvestigationRow
          <6>3. /\ req'[r].pc = "start" /\ req'[r].op = "investigate"
                /\ req'[r].case = c /\ req'[r].ver = v + 1
            BY <2>5, <5>1 DEF AfterWrite
          <6>4. investigations' = investigations
            BY <2>3
          <6> HIDE DEF c, v
          <6> QED
            BY <6>1, <6>2, <6>3, <6>4 DEF OwnsRow, StandsAt
        <5>2. CASE q.op # "investigate"
          BY <2>5, <5>2 DEF OwnsRow, AfterWrite
        <5> QED
          BY <5>1, <5>2
      <4> QED
        BY <3>1, <4>1, <4>2, <4>3
    <3>2. CASE s # r
      <4>1. req'[s] = req[s]
        BY <2>4, <3>2
      <4>2. AsksFor(s)'
        BY <4>1 DEF IInv, AsksFor
      <4>3. OwnsVersion(s)'
        <5>1. SUFFICES ASSUME Written(s)
                       PROVE  OwnsVersion(s)'
          BY <4>1 DEF OwnsVersion, Written
        <5>2. /\ req[s].ver = req[s].exp + 1
              /\ req[s].case \in Cases /\ req[s].ver \in Nat
              /\ req[s].ver <= cases[req[s].case].version
              /\ \A t \in Requests : Written(t) /\ t # s /\ req[t].case = req[s].case
                   => req[t].ver # req[s].ver
          BY <5>1 DEF IInv, OwnsVersion, TypeOK, RequestState, Written
        <5>3. req[s].ver <= cases'[req[s].case].version
          BY <2>7, <5>2
        <5>4. ASSUME NEW t \in Requests, Written(t)', t # s, req'[t].case = req[s].case
              PROVE  req'[t].ver # req[s].ver
          <6>1. CASE t = r
            BY <2>2, <2>5, <5>2, <5>4, <6>1
          <6>2. CASE t # r
            BY <2>4, <5>2, <5>4, <6>2 DEF Written
          <6> QED
            BY <6>1, <6>2
        <5> QED
          BY <4>1, <5>2, <5>3, <5>4 DEF OwnsVersion
      <4>4. OwnsRow(s)'
        <5>1. ASSUME req[s] # Idle, req[s].pc = "start"
              PROVE  StandsAt(req[s].case, req[s].ver)'
          <6>1. /\ StandsAt(req[s].case, req[s].ver)
                /\ req[s].case \in Cases
                /\ \A i \in DOMAIN investigations :
                     investigations[i].case = req[s].case
                       => investigations[i].atVersion # req[s].ver
            BY <5>1 DEF IInv, OwnsRow, TypeOK, RequestState
          <6>2. CASE req[s].case # c
            BY <2>4, <4>1, <6>1, <6>2 DEF StandsAt
          <6>3. CASE req[s].case = c
            <7>1. q.from = "INVESTIGATING" /\ req[s].ver = v
              BY <2>1, <6>1, <6>3 DEF StandsAt
            <7>2. q.to # "ACTION_PROPOSED"
              BY <2>1, <6>1, <6>3, <7>1 DEF RowIs
            <7> QED
              BY <2>1, <2>4, <4>1, <6>3, <7>1, <7>2 DEF StandsAt
          <6> QED
            BY <6>2, <6>3
        <5> QED
          BY <2>3, <4>1, <5>1 DEF IInv, OwnsRow, RowIs, FinishedAs, StandsAt
      <4> QED
        BY <4>2, <4>3, <4>4
    <3> QED
      BY <3>1, <3>2
  <2> QED
    BY <2>6, <2>8, <2>10, <2>11, <2>12, <2>13, <2>14 DEF IInv
<1> QED
  BY <1>1, <1>2
----------------------------------------------------------------------------
(* The investigation's row.                                                *)

(* A request about to insert a row is the only one with a claim to the     *)
(* case as it stands, so no RUNNING row is in its way.                     *)
LEMMA NoRowInTheWay ==
  ASSUME IInv, NEW r \in Requests, At(r, "start")
  PROVE  Running(req[r].case) = {}
<1>1. req[r] \in RequestState /\ req[r] # Idle /\ req[r].pc = "start"
  BY BusyIsTyped DEF IInv, Pc, At
<1>2. /\ StandsAt(req[r].case, req[r].ver)
      /\ \A i \in DOMAIN investigations : investigations[i].case = req[r].case
           => investigations[i].atVersion # req[r].ver
  BY <1>1 DEF IInv, OwnsRow
<1>3. ASSUME NEW i \in DOMAIN investigations,
             investigations[i].case = req[r].case,
             investigations[i].status = "RUNNING"
      PROVE  FALSE
  <2>1. investigations[i] \in InvestigationRow
    BY DEF IInv, TypeOK
  <2>2. StandsAt(req[r].case, investigations[i].atVersion)
    BY <1>3 DEF IInv, RunningIsCurrent
  <2>3. req[r].ver \in Nat /\ investigations[i].atVersion \in Nat
    BY <1>1, <2>1 DEF RequestState, InvestigationRow
  <2> QED
    BY <1>2, <1>3, <2>2, <2>3 DEF StandsAt
<1> QED
  BY <1>3 DEF Running

LEMMA InsertInvestigationKeeps ==
  ASSUME IInv, NEW r \in Requests, InsertInvestigation(r)
  PROVE  IInv'
<1> DEFINE n == Len(investigations) + 1
           row == [case |-> req[r].case, status |-> "RUNNING", atVersion |-> req[r].ver]
<1>1. req[r] \in RequestState /\ req[r] # Idle /\ req[r].pc = "start"
  BY BusyIsTyped DEF IInv, InsertInvestigation, Pc, At
<1>2. /\ investigations' = Append(investigations, row)
      /\ req' = [req EXCEPT ![r].pc = "audit", ![r].inv = n]
      /\ UNCHANGED <<cases, evidence, audit>>
  BY NoRowInTheWay DEF InsertInvestigation
<1>3. row \in InvestigationRow /\ n \in Nat /\ investigations \in Seq(InvestigationRow)
  BY <1>1 DEF InvestigationRow, RequestState, IInv, TypeOK
<1>4. /\ investigations' \in Seq(InvestigationRow)
      /\ DOMAIN investigations' = DOMAIN investigations \cup {n}
      /\ n \notin DOMAIN investigations
      /\ investigations'[n] = row
      /\ \A i \in DOMAIN investigations : investigations'[i] = investigations[i]
  <2> HIDE DEF row
  <2> QED
    BY <1>2, <1>3
<1>5. /\ req'[r] = [req[r] EXCEPT !.pc = "audit", !.inv = n]
      /\ \A s \in Requests : s # r => req'[s] = req[s]
  BY <1>2 DEF IInv, TypeOK
<1>6. /\ req'[r] \in RequestState /\ req'[r] # Idle
      /\ req'[r].pc = "audit" /\ req'[r].inv = n
      /\ req'[r].op = req[r].op /\ req'[r].case = req[r].case
      /\ req'[r].to = req[r].to /\ req'[r].actor = req[r].actor
      /\ req'[r].from = req[r].from /\ req'[r].ver = req[r].ver
      /\ req'[r].exp = req[r].exp
  <2> HIDE DEF n
  <2> QED
    BY <1>1, <1>3, <1>5 DEF RequestState, Idle, Pc
<1>7. /\ StandsAt(req[r].case, req[r].ver)
      /\ \A i \in DOMAIN investigations : investigations[i].case = req[r].case
           => investigations[i].atVersion # req[r].ver
      /\ req[r].op = "investigate"
  BY <1>1 DEF IInv, OwnsRow, AsksFor
<1>8. Written(r) /\ Written(r)'
  BY <1>1, <1>6 DEF Written
<1>9. row.case = req[r].case /\ row.status = "RUNNING" /\ row.atVersion = req[r].ver
  OBVIOUS
<1> HIDE DEF row, n
<1>10. TypeOK'
  BY <1>2, <1>4, <1>5, <1>6 DEF IInv, TypeOK
<1>11. (\A c \in Cases : cases[c].state \in Reached)'
  BY <1>2 DEF IInv
<1>12. IsAPath(Recorded)'
  <2>1. ASSUME NEW s \in Pending' PROVE s \in Pending /\ Event(s)' = Event(s)
    <3>1. CASE s = r
      BY <1>1, <1>6, <1>8, <3>1 DEF Pending, Event
    <3>2. CASE s # r
      <4>1. s \in Requests /\ req'[s] = req[s]
        BY <1>5, <3>2 DEF Pending
      <4> QED
        BY <4>1 DEF Pending, Written, Event
    <3> QED
      BY <3>1, <3>2
  <2>2. Recorded' \subseteq Recorded
    BY <1>2, <2>1 DEF Recorded
  <2> QED
    BY <1>2, <2>2 DEF IInv, IsAPath
<1>13. RowsAreDistinct'
  <2>1. req[r].ver <= cases[req[r].case].version
    BY <1>8 DEF IInv, OwnsVersion
  <2> QED
    BY <1>2, <1>4, <1>7, <1>9, <2>1 DEF IInv, RowsAreDistinct
<1>14. RunningIsCurrent'
  BY <1>2, <1>4, <1>7, <1>9 DEF IInv, RunningIsCurrent, StandsAt
<1>15. ProposalIsVerified'
  BY <1>2, <1>4 DEF IInv, ProposalIsVerified
<1>16. \A t \in Requests : Written(t)' =>
         /\ Written(t)
         /\ req'[t].case = req[t].case
         /\ req'[t].ver = req[t].ver
         /\ req'[t].exp = req[t].exp
  BY <1>5, <1>6, <1>8 DEF Written
<1>17. ASSUME NEW s \in Requests
       PROVE  (AsksFor(s) /\ OwnsVersion(s) /\ OwnsRow(s))'
  <2>1. CASE s = r
    <3>1. AsksFor(r)'
      BY <1>1, <1>6, <1>7 DEF IInv, AsksFor
    <3>2. OwnsVersion(r)'
      <4>1. OwnsVersion(r)
        BY DEF IInv
      <4> QED
        BY <1>2, <1>16, <4>1 DEF OwnsVersion
    <3>3. OwnsRow(r)'
      <4>1. RowIs(r, "RUNNING", req[r].ver)'
        BY <1>4, <1>6 DEF RowIs, row
      <4> QED
        BY <1>6, <1>7, <4>1 DEF OwnsRow, RowIs
    <3> QED
      BY <2>1, <3>1, <3>2, <3>3
  <2>2. CASE s # r
    <3>1. req'[s] = req[s]
      BY <1>5, <2>2
    <3>2. AsksFor(s)'
      BY <3>1 DEF IInv, AsksFor
    <3>3. OwnsVersion(s)'
      <4>1. OwnsVersion(s)
        BY DEF IInv
      <4> QED
        BY <1>2, <1>16, <3>1, <4>1 DEF OwnsVersion
    <3>4. OwnsRow(s)'
      <4>1. OwnsRow(s)
        BY DEF IInv
      <4>2. req[s] # Idle /\ req[s].pc = "start" /\ req[s].case = req[r].case
              => req[s].ver # req[r].ver
        BY <1>8, <2>2 DEF IInv, OwnsVersion, Written
      <4>3. ASSUME req[s] # Idle, req[s].pc = "start"
            PROVE  /\ StandsAt(req[s].case, req[s].ver)'
                   /\ \A i \in DOMAIN investigations' :
                        investigations'[i].case = req[s].case
                          => investigations'[i].atVersion # req[s].ver
        <5>1. StandsAt(req[s].case, req[s].ver)'
          BY <1>2, <3>1, <4>1, <4>3 DEF OwnsRow, StandsAt
        <5> QED
          BY <1>4, <1>9, <4>1, <4>2, <4>3, <5>1 DEF OwnsRow
      <4>4. \A status, version : RowIs(s, status, version) =>
              /\ req[s].inv \in DOMAIN investigations'
              /\ investigations'[req[s].inv] =
                   [case |-> req[s].case, status |-> status, atVersion |-> version]
        BY <1>4 DEF RowIs
      <4> QED
        BY <3>1, <4>1, <4>3, <4>4 DEF OwnsRow, RowIs, StandsAt, FinishedAs
    <3> QED
      BY <3>2, <3>3, <3>4
  <2> QED
    BY <2>1, <2>2
<1> QED
  BY <1>10, <1>11, <1>12, <1>13, <1>14, <1>15, <1>17 DEF IInv

LEMMA FinishInvestigationKeeps ==
  ASSUME IInv, NEW r \in Requests, FinishInvestigation(r)
  PROVE  IInv'
<1> DEFINE k == req[r].inv
           status == FinishedAs(r)
           v == req[r].ver
<1>1. req[r] \in RequestState /\ req[r] # Idle /\ req[r].pc = "finish"
  BY BusyIsTyped DEF IInv, FinishInvestigation, Pc, At
<1>2. /\ req[r].op = "investigate" /\ RowIs(r, "RUNNING", v)
      /\ req[r].to \in {"ACTION_PROPOSED", "ESCALATED"}
  BY <1>1 DEF IInv, AsksFor, OwnsRow
<1>3. /\ investigations' = [investigations EXCEPT ![k].status = status]
      /\ req' = [req EXCEPT ![r].pc = "read", ![r].op = "conclude",
                            ![r].actor = "SYSTEM", ![r].exp = v]
      /\ UNCHANGED <<cases, evidence, audit>>
  BY DEF FinishInvestigation, StartedAt
<1>4. status \in {"SUCCEEDED", "FAILED"}
  BY DEF FinishedAs
<1>5. /\ investigations \in Seq(InvestigationRow)
      /\ k \in DOMAIN investigations
      /\ investigations[k] = [case |-> req[r].case, status |-> "RUNNING", atVersion |-> v]
      /\ v \in Nat /\ req[r].case \in Cases
  BY <1>1, <1>2 DEF IInv, TypeOK, RowIs, RequestState
<1>6. /\ req'[r] = [req[r] EXCEPT !.pc = "read", !.op = "conclude",
                                  !.actor = "SYSTEM", !.exp = v]
      /\ \A s \in Requests : s # r => req'[s] = req[s]
  BY <1>3 DEF IInv, TypeOK
<1>7. /\ req'[r] \in RequestState /\ req'[r] # Idle
      /\ req'[r].pc = "read" /\ req'[r].op = "conclude"
      /\ req'[r].case = req[r].case /\ req'[r].to = req[r].to
      /\ req'[r].exp = v /\ req'[r].inv = k
  <2> HIDE DEF v
  <2> QED
    BY <1>1, <1>5, <1>6 DEF RequestState, Idle, Pc, Ops, TransitionActor
<1>8. FinishedAs(r)' = status
  BY <1>7 DEF FinishedAs
<1> HIDE DEF k, status, v
<1>9. /\ investigations' \in Seq(InvestigationRow)
      /\ DOMAIN investigations' = DOMAIN investigations
      /\ investigations'[k] = [case |-> req[r].case, status |-> status, atVersion |-> v]
      /\ \A i \in DOMAIN investigations : i # k => investigations'[i] = investigations[i]
  <2>1. [case |-> req[r].case, status |-> status, atVersion |-> v] \in InvestigationRow
    BY <1>4, <1>5 DEF InvestigationRow
  <2>2. investigations' = [investigations EXCEPT ![k] =
                             [case |-> req[r].case, status |-> status, atVersion |-> v]]
    <3>1. [investigations[k] EXCEPT !.status = status]
            = [case |-> req[r].case, status |-> status, atVersion |-> v]
      BY <1>5
    <3> QED
      BY <1>3, <3>1
  <2> QED
    BY <1>5, <2>1, <2>2
<1>10. \A i \in DOMAIN investigations :
         /\ investigations'[i].case = investigations[i].case
         /\ investigations'[i].atVersion = investigations[i].atVersion
         /\ investigations'[i].status = "RUNNING" => investigations[i].status = "RUNNING"
  BY <1>4, <1>5, <1>9
<1>11. TypeOK'
  BY <1>3, <1>6, <1>7, <1>9 DEF IInv, TypeOK
<1>12. (\A c \in Cases : cases[c].state \in Reached)'
  BY <1>3 DEF IInv
<1>13. IsAPath(Recorded)'
  <2>1. ASSUME NEW s \in Pending' PROVE s \in Pending /\ Event(s)' = Event(s)
    <3>1. s # r
      BY <1>7 DEF Pending
    <3>2. s \in Requests /\ req'[s] = req[s]
      BY <1>6, <3>1 DEF Pending
    <3> QED
      BY <3>2 DEF Pending, Written, Event
  <2>2. Recorded' \subseteq Recorded
    BY <1>3, <2>1 DEF Recorded
  <2> QED
    BY <1>3, <2>2 DEF IInv, IsAPath
<1>14. RowsAreDistinct'
  BY <1>3, <1>9, <1>10 DEF IInv, RowsAreDistinct
<1>15. RunningIsCurrent'
  BY <1>3, <1>9, <1>10 DEF IInv, RunningIsCurrent, StandsAt
<1>16. ProposalIsVerified'
  <2>1. investigations[k].status # "SUCCEEDED"
    BY <1>5
  <2> QED
    BY <1>3, <1>9, <2>1 DEF IInv, ProposalIsVerified
<1>17. ASSUME NEW s \in Requests
       PROVE  (AsksFor(s) /\ OwnsVersion(s) /\ OwnsRow(s))'
  <2>1. CASE s = r
    <3>1. AsksFor(r)' /\ OwnsVersion(r)'
      BY <1>2, <1>7 DEF AsksFor, OwnsVersion, Written
    <3>2. RowIs(r, FinishedAs(r), req[r].exp)'
      BY <1>5, <1>7, <1>8, <1>9 DEF RowIs
    <3>3. OwnsRow(r)'
      BY <1>7, <3>2 DEF OwnsRow
    <3> QED
      BY <2>1, <3>1, <3>3
  <2>2. CASE s # r
    <3>1. req'[s] = req[s]
      BY <1>6, <2>2
    <3>2. AsksFor(s)'
      BY <3>1 DEF IInv, AsksFor
    <3>3. OwnsVersion(s)'
      <4>1. \A t \in Requests : Written(t)' =>
              Written(t) /\ req'[t] = req[t]
        BY <1>6, <1>7 DEF Written
      <4>2. OwnsVersion(s)
        BY DEF IInv
      <4> QED
        BY <1>3, <3>1, <4>1, <4>2 DEF OwnsVersion
    <3>4. OwnsRow(s)'
      <4>1. OwnsRow(s)
        BY DEF IInv
      <4>2. ASSUME req[s] # Idle, req[s].op = "investigate",
                   req[s].pc \in {"audit", "dispatch", "finish"}
            PROVE  req[s].inv # k
        <5>1. Written(r) /\ Written(s)
          BY <1>1, <4>2 DEF Written
        <5>2. req[s].case = req[r].case => req[s].ver # v
          BY <2>2, <5>1 DEF IInv, OwnsVersion, v
        <5> QED
          BY <1>5, <4>1, <4>2, <5>2 DEF OwnsRow, RowIs
      <4>3. ASSUME req[s] # Idle, req[s].op = "conclude", req[s].pc \in {"read", "write"}
            PROVE  req[s].inv # k
        BY <1>5, <4>1, <4>3 DEF OwnsRow, RowIs, FinishedAs
      <4>4. ASSUME req[s] # Idle, req[s].pc = "start"
            PROVE  /\ StandsAt(req[s].case, req[s].ver)'
                   /\ \A i \in DOMAIN investigations :
                        investigations'[i].case = req[s].case
                          => investigations'[i].atVersion # req[s].ver
        BY <1>3, <1>10, <3>1, <4>1, <4>4 DEF OwnsRow, StandsAt
      <4> QED
        BY <1>9, <3>1, <4>1, <4>2, <4>3, <4>4 DEF OwnsRow, RowIs, StandsAt, FinishedAs
    <3> QED
      BY <3>2, <3>3, <3>4
  <2> QED
    BY <2>1, <2>2
<1> QED
  BY <1>11, <1>12, <1>13, <1>14, <1>15, <1>16, <1>17 DEF IInv
----------------------------------------------------------------------------
(* The invariant, and what follows from it.                                *)

LEMMA InitHolds == Init => IInv
<1> SUFFICES ASSUME Init PROVE IInv
  OBVIOUS
<1>1. /\ cases = [c \in Cases |-> [state |-> "EXCEPTION", version |-> 1]]
      /\ investigations = <<>> /\ DOMAIN investigations = {}
      /\ evidence = {} /\ audit = {}
      /\ \A r \in Requests : req[r] = Idle
  BY DEF Init
<1>2. TypeOK
  BY <1>1 DEF Init, TypeOK, CaseState
<1>3. \A r \in Requests : ~Written(r) /\ AsksFor(r) /\ OwnsVersion(r) /\ OwnsRow(r)
  BY <1>1 DEF Written, AsksFor, OwnsVersion, OwnsRow
<1>4. Recorded = {}
  BY <1>1, <1>3 DEF Recorded, Pending
<1>5. \A c \in Cases : cases[c].state \in Reached
  BY <1>1 DEF Reached
<1>6. RowsAreDistinct /\ RunningIsCurrent
  BY <1>1 DEF RowsAreDistinct, RunningIsCurrent
<1>7. ProposalIsVerified
  BY <1>1 DEF ProposalIsVerified, VersionsSinceStart
<1> QED
  BY <1>2, <1>3, <1>4, <1>5, <1>6, <1>7 DEF IInv, IsAPath

LEMMA NextKeeps ==
  ASSUME IInv, [Next]_vars
  PROVE  IInv'
<1>1. CASE UNCHANGED vars
  <2>1. /\ cases' = cases /\ investigations' = investigations /\ evidence' = evidence
        /\ audit' = audit /\ req' = req
    BY <1>1 DEF vars, rows
  <2>2. TypeOK' /\ (\A c \in Cases : cases[c].state \in Reached)'
    BY <2>1 DEF IInv, TypeOK
  <2>3. Recorded' = Recorded
    BY <2>1 DEF Recorded, Pending, Written, Event
  <2>4. IsAPath(Recorded)'
    BY <2>1, <2>3 DEF IInv, IsAPath
  <2>5. RowsAreDistinct' /\ RunningIsCurrent' /\ ProposalIsVerified'
    BY <2>1 DEF IInv, RowsAreDistinct, RunningIsCurrent, StandsAt, ProposalIsVerified
  <2>6. \A r \in Requests : (AsksFor(r) /\ OwnsVersion(r) /\ OwnsRow(r))'
    BY <2>1 DEF IInv, AsksFor, OwnsVersion, Written, OwnsRow, RowIs, StandsAt, FinishedAs
  <2> QED
    BY <2>2, <2>4, <2>5, <2>6 DEF IInv
<1>2. CASE Next
  <2>1. PICK r \in Requests :
          \/ \E op \in DOMAIN Operation, role \in Human, c \in Cases,
                version \in ClientVersions : Begin(r, op, role, c, version)
          \/ Handle(r)
          \/ Crash(r)
    BY <1>2 DEF Next
  <2>2. ASSUME NEW op \in DOMAIN Operation, NEW role \in Human, NEW c \in Cases,
               NEW version \in ClientVersions, Begin(r, op, role, c, version)
        PROVE  IInv'
    BY <2>2, BeginKeeps
  <2>3. CASE ReadCase(r)
    BY <2>3, ReadCaseKeeps
  <2>4. CASE WriteCase(r)
    BY <2>4, WriteCaseKeeps
  <2>5. CASE AppendAudit(r)
    BY <2>5, AppendAuditKeeps
  <2>6. CASE InsertInvestigation(r)
    BY <2>6, InsertInvestigationKeeps
  <2>7. CASE DisableAgent(r)
    BY <2>7, HeadsKeeps DEF DisableAgent
  <2>8. CASE NothingToLoad(r)
    BY <2>8, NothingToLoadKeeps
  <2>9. ASSUME NEW to \in {"ACTION_PROPOSED", "ESCALATED"}, RunAgent(r, to)
        PROVE  IInv'
    BY <2>9, HeadsKeeps DEF RunAgent
  <2>10. CASE FinishInvestigation(r)
    BY <2>10, FinishInvestigationKeeps
  <2>11. CASE OpenEvidence(r)
    BY <2>11, OpenEvidenceKeeps
  <2>12. CASE Crash(r)
    BY <2>12, CrashKeeps
  <2> QED
    BY <2>1, <2>2, <2>3, <2>4, <2>5, <2>6, <2>7, <2>8, <2>9, <2>10, <2>11, <2>12
    DEF Handle
<1> QED
  BY <1>1, <1>2

(* IInv holds of every state of every instance.                            *)
THEOREM Invariance == Spec => []IInv
<1>1. Init => IInv
  BY InitHolds
<1>2. IInv /\ [Next]_vars => IInv'
  BY NextKeeps
<1> QED
  BY <1>1, <1>2, PTL DEF Spec

(* Type correctness.                                                       *)
THEOREM TypeCorrect == Spec => []TypeOK
<1>1. IInv => TypeOK
  BY DEF IInv
<1> QED
  BY <1>1, Invariance, PTL

(* However requests interleave, and wherever they die, the audit events of *)
(* a case form a path through the transition table (auditTransition and    *)
(* the audit.append calls of startInvestigation, approve and stage).       *)
THEOREM AuditTrailIsAPath == Spec => []AuditIsAPath
<1>1. IInv => AuditIsAPath
  BY DEF IInv, AuditIsAPath, IsAPath, Recorded
<1> QED
  BY <1>1, Invariance, PTL

(* A RUNNING investigation is never left behind by its case.               *)
THEOREM RunningStaysCurrent == Spec => []RunningIsCurrent
<1>1. IInv => RunningIsCurrent
  BY DEF IInv
<1> QED
  BY <1>1, Invariance, PTL

(* The guarded UPDATE alone keeps RUNNING rows apart: investigations.start *)
(* never meets the unique index.                                           *)
THEOREM StartsNeverCollide == Spec => []StartNeverCollides
<1>1. IInv => StartNeverCollides
  BY NoRowInTheWay DEF StartNeverCollides
<1> QED
  BY <1>1, Invariance, PTL

(* What is proposed, approved or staged was resolved by an investigation   *)
(* of that very version of the case.                                       *)
THEOREM ProposalsAreVerified == Spec => []ProposalIsVerified
<1>1. IInv => ProposalIsVerified
  BY DEF IInv
<1> QED
  BY <1>1, Invariance, PTL

(* Every write replaces the version its author had seen.                   *)
THEOREM DecisionsAreInformed == Spec => []DecidedOnWhatWasSeen
<1>1. IInv => DecidedOnWhatWasSeen
  BY DEF IInv, DecidedOnWhatWasSeen, OwnsVersion
<1> QED
  BY <1>1, Invariance, PTL

----------------------------------------------------------------------------
(* What a step may do to the cases.                                        *)

(* Only WriteCase changes a case, and what it does is one legal move.      *)
LEMMA StepMoves ==
  ASSUME IInv, Next
  PROVE  \/ UNCHANGED cases
         \/ \E c \in Cases, to \in CaseState, actor \in TransitionActor :
              /\ cases' = [cases EXCEPT ![c] = [state |-> to, version |-> @.version + 1]]
              /\ Legal(cases[c].state, to, actor, FALSE)
              /\ cases[c].state # "ESCALATED"
<1>1. PICK r \in Requests :
        \/ \E op \in DOMAIN Operation, role \in Human, c \in Cases,
              version \in ClientVersions : Begin(r, op, role, c, version)
        \/ Handle(r)
        \/ Crash(r)
  BY DEF Next
<1>2. CASE WriteCase(r) /\ UpdateMatches(r)
  <2>1. At(r, "write")
    BY <1>2 DEF WriteCase
  <2>2. /\ req[r] \in RequestState /\ req[r] # Idle /\ req[r].pc = "write"
        /\ cases[req[r].case].state = req[r].from /\ req[r].from # "ESCALATED"
    BY <1>2, <2>1, WriterMoves DEF At
  <2>3. Legal(req[r].from, req[r].to, req[r].actor, FALSE)
    BY <2>2 DEF IInv, AsksFor
  <2>4. req[r].case \in Cases /\ req[r].to \in CaseState /\ req[r].actor \in TransitionActor
    BY <2>2 DEF RequestState
  <2>5. cases' = [cases EXCEPT ![req[r].case] =
                    [state |-> req[r].to, version |-> @.version + 1]]
    BY <1>2 DEF WriteCase
  <2> QED
    BY <2>2, <2>3, <2>4, <2>5
<1>3. CASE ~(WriteCase(r) /\ UpdateMatches(r))
  BY <1>1, <1>3
  DEF Handle, Begin, ReadCase, WriteCase, AppendAudit, InsertInvestigation, DisableAgent,
      NothingToLoad, RunAgent, Heads, FinishInvestigation, OpenEvidence, Crash, Answer, rows
<1> QED
  BY <1>2, <1>3

(* No request, and no investigation that ends late, takes an escalated     *)
(* case back from the human it was handed to.                              *)
THEOREM EscalationIsFinal == Spec => EscalatedIsFinal
<1>1. IInv /\ [Next]_vars
        => [\A c \in Cases : cases[c].state = "ESCALATED" => cases'[c] = cases[c]]_vars
  <2> SUFFICES ASSUME IInv, Next, NEW c \in Cases, cases[c].state = "ESCALATED"
               PROVE  cases'[c] = cases[c]
    OBVIOUS
  <2> QED
    BY StepMoves DEF IInv, TypeOK
<1> QED
  BY <1>1, Invariance, PTL DEF Spec, EscalatedIsFinal

(* CaseLifecycle reads the same table.                                     *)
LEMMA SameTable ==
  ASSUME NEW from, NEW to, NEW actor, Legal(from, to, actor, FALSE)
  PROVE  Lifecycle!Legal(from, to, actor, FALSE)
<1>1. Lifecycle!Human = Human /\ Lifecycle!HumanRank = HumanRank
  BY DEF Lifecycle!Human, Human, Lifecycle!HumanRank, HumanRank
<1>2. Lifecycle!Transitions = Transitions
  BY DEF Lifecycle!Transitions, Transitions, Lifecycle!rule, rule, Lifecycle!closing, closing,
         Lifecycle!SystemOnly, SystemOnly, Lifecycle!SysOp, SysOp,
         Lifecycle!OpApprover, OpApprover, Lifecycle!Human, Human
<1>3. Lifecycle!RulesFor(from, to) = RulesFor(from, to)
  BY <1>2 DEF Lifecycle!RulesFor, RulesFor
<1> QED
  BY <1>1, <1>3
  DEF Lifecycle!Legal, Legal, Lifecycle!canTransition, canTransition,
      Lifecycle!isActorPermitted, isActorPermitted,
      Lifecycle!requiresOutcomeRecord, requiresOutcomeRecord

(* The workflow implements the atomic, versioned lifecycle.                *)
THEOREM Refinement == Spec => ImplementsLifecycle
<1>1. Init => Lifecycle!Init
  BY DEF Init, Lifecycle!Init, Lifecycle!Residual
<1>2. IInv /\ [Next]_vars => [Lifecycle!Next]_cases
  <2>1. CASE IInv /\ Next
    <3>1. Lifecycle!CaseState = CaseState /\ Lifecycle!TransitionActor = TransitionActor
      BY DEF Lifecycle!CaseState, CaseState, Lifecycle!TransitionActor, TransitionActor,
             Lifecycle!Human, Human
    <3> QED
      BY <2>1, <3>1, StepMoves, SameTable DEF Lifecycle!Next, Lifecycle!Move
  <2>2. CASE UNCHANGED vars
    BY <2>2 DEF vars, rows
  <2> QED
    BY <2>1, <2>2
<1> QED
  BY <1>1, <1>2, Invariance, PTL DEF Spec, ImplementsLifecycle, Lifecycle!Spec

----------------------------------------------------------------------------
(* What every request promises once it reaches its end.                    *)

(* Events and evidence requests stay, and only the request whose turn it   *)
(* is changes.                                                             *)
LEMMA StepOfOne ==
  ASSUME IInv, NEW r \in Requests, Handle(r)
  PROVE  /\ audit \subseteq audit' /\ evidence \subseteq evidence'
         /\ \A s \in Requests : s # r => req'[s] = req[s]
<1> USE DEF IInv, TypeOK, Handle, rows, Answer
<1>1. audit \subseteq audit' /\ evidence \subseteq evidence'
  BY DEF ReadCase, WriteCase, AppendAudit, InsertInvestigation, DisableAgent,
         NothingToLoad, RunAgent, Heads, FinishInvestigation, OpenEvidence
<1>2. \A s \in Requests : s # r => req'[s] = req[s]
  BY DEF ReadCase, WriteCase, AppendAudit, InsertInvestigation, DisableAgent,
         NothingToLoad, RunAgent, Heads, FinishInvestigation, OpenEvidence
<1> QED
  BY <1>1, <1>2

(* A request that asked for evidence, on its way to open the request.      *)
Asking(s, c) ==
  /\ req[s] # Idle
  /\ req[s].op = "request_evidence"
  /\ req[s].pc \in {"audit", "open"}
  /\ req[s].case = c

(* A request that owes an audit event appends it, or owes it still.        *)
LEMMA AuditIsOwed ==
  ASSUME IInv, NEW r \in Requests, Handle(r),
         NEW s \in Requests, NEW c, NEW v, Auditing(s, c, v)
  PROVE  \/ Auditing(s, c, v)'
         \/ \E e \in audit' : e.case = c /\ e.version = v
<1>1. CASE s # r
  BY <1>1, StepOfOne DEF Auditing
<1>2. CASE s = r /\ At(r, "start")
  <2>1. InsertInvestigation(r)
    BY <1>2 DEF Handle, At, ReadCase, WriteCase, AppendAudit, DisableAgent,
                NothingToLoad, RunAgent, FinishInvestigation, OpenEvidence
  <2>2. req' = [req EXCEPT ![r].pc = "audit", ![r].inv = Len(investigations) + 1]
    BY <1>2, <2>1, NoRowInTheWay DEF InsertInvestigation
  <2>3. req[r] \in RequestState
    BY <1>2, BusyIsTyped DEF IInv, Pc
  <2>4. req'[r] = [req[r] EXCEPT !.pc = "audit", !.inv = Len(investigations) + 1]
    BY <2>2 DEF IInv, TypeOK
  <2>5. /\ req'[r].pc = "audit" /\ req'[r].case = req[r].case
        /\ req'[r].ver = req[r].ver /\ req'[r] # Idle
    BY <2>3, <2>4 DEF RequestState, Idle
  <2> QED
    BY <1>2, <2>5 DEF Auditing
<1>3. CASE s = r /\ At(r, "audit")
  <2>1. audit' = audit \cup {Event(r)}
    BY <1>3 DEF Handle, At, ReadCase, WriteCase, AppendAudit, InsertInvestigation,
                DisableAgent, NothingToLoad, RunAgent, FinishInvestigation, OpenEvidence
  <2>2. Event(r).case = c /\ Event(r).version = v
    BY <1>3 DEF Auditing, Event
  <2> QED
    BY <2>1, <2>2
<1> QED
  BY <1>1, <1>2, <1>3 DEF Auditing, At

(* The write that makes a version is by a request that then owes its event *)
(* and, if it asked for evidence, the request.                             *)
LEMMA WriterOwes ==
  ASSUME IInv, NEW r \in Requests, WriteCase(r), UpdateMatches(r)
  PROVE  \E c \in Cases, n \in Nat :
           /\ n = cases[c].version + 1
           /\ cases'[c] = [state |-> req[r].to, version |-> n]
           /\ \A d \in Cases : d # c => cases'[d] = cases[d]
           /\ Auditing(r, c, n)'
           /\ req[r].to = "REQUESTING_EVIDENCE" => Asking(r, c)'
<1> DEFINE q == req[r]
           pc == AfterWrite(r)
<1>1. q \in RequestState /\ q # Idle /\ q.pc = "write"
  BY BusyIsTyped DEF IInv, WriteCase, Pc, At
<1>2. PICK c \in Cases, n \in Nat : c = q.case /\ n = cases[c].version + 1
  BY <1>1 DEF IInv, TypeOK, RequestState
<1>3. /\ cases' = [cases EXCEPT ![c] = [state |-> q.to, version |-> n]]
      /\ req' = [req EXCEPT ![r].pc = AfterWrite(r), ![r].ver = n]
  BY <1>2 DEF WriteCase, IInv, TypeOK
<1>4. req'[r] = [q EXCEPT !.pc = pc, !.ver = n]
  BY <1>3 DEF IInv, TypeOK
<1>5. pc \in {"start", "audit"} /\ (q.op # "investigate" => pc = "audit")
  BY DEF AfterWrite
<1>6. q.to = "REQUESTING_EVIDENCE" => q.op = "request_evidence"
  <2>1. q.op \in Ops /\ (q.op # "conclude" => q.to = Operation[q.op].to)
    BY <1>1 DEF IInv, AsksFor, RequestState
  <2>2. q.op = "conclude" => q.to \in {"ACTION_PROPOSED", "ESCALATED"}
    BY <1>1 DEF IInv, AsksFor
  <2> QED
    BY <2>1, <2>2 DEF Ops, Operation
<1>7. /\ req'[r] # Idle /\ req'[r].pc = pc /\ req'[r].ver = n
      /\ req'[r].case = q.case /\ req'[r].op = q.op
  <2> HIDE DEF pc, q
  <2> QED
    BY <1>1, <1>4, <1>5 DEF RequestState, Idle
<1>8. Auditing(r, c, n)'
  BY <1>2, <1>5, <1>7 DEF Auditing
<1>9. q.to = "REQUESTING_EVIDENCE" => Asking(r, c)'
  BY <1>2, <1>5, <1>6, <1>7 DEF Asking
<1>10. /\ cases'[c] = [state |-> q.to, version |-> n]
       /\ \A d \in Cases : d # c => cases'[d] = cases[d]
  BY <1>3 DEF IInv, TypeOK
<1> QED
  BY <1>2, <1>8, <1>9, <1>10

(* Without crashes the audit trail has no gaps.                            *)
LEMMA NoGapsStep ==
  ASSUME IInv, AuditHasNoGaps, MayCrash = FALSE, Next
  PROVE  AuditHasNoGaps'
<1> SUFFICES ASSUME NEW d \in Cases, NEW w \in 2..cases'[d].version
             PROVE  \/ \E e \in audit' : e.case = d /\ e.version = w
                    \/ \E s \in Requests : Auditing(s, d, w)'
  BY DEF AuditHasNoGaps
<1>1. PICK r \in Requests :
        \/ \E op \in DOMAIN Operation, role \in Human, c \in Cases,
              version \in ClientVersions : Begin(r, op, role, c, version)
        \/ Handle(r)
  BY DEF Next, Crash
<1>2. CASE \E op \in DOMAIN Operation, role \in Human, c \in Cases,
              version \in ClientVersions : Begin(r, op, role, c, version)
  <2>1. UNCHANGED <<cases, audit>> /\ req[r] = Idle
        /\ \A s \in Requests : s # r => req'[s] = req[s]
    BY <1>2 DEF Begin, rows, IInv, TypeOK
  <2> QED
    BY <2>1 DEF AuditHasNoGaps, Auditing
<1>3. CASE Handle(r) /\ w \in 2..cases[d].version
  BY <1>3, AuditIsOwed, StepOfOne DEF AuditHasNoGaps
<1>4. CASE Handle(r) /\ w \notin 2..cases[d].version
  <2>1. cases' # cases
    BY <1>4
  <2>2. WriteCase(r) /\ UpdateMatches(r)
    BY <1>4, <2>1 DEF Handle, ReadCase, WriteCase, AppendAudit, InsertInvestigation,
         DisableAgent, NothingToLoad, RunAgent, Heads, FinishInvestigation,
         OpenEvidence, rows
  <2>3. PICK c \in Cases, n \in Nat :
               /\ n = cases[c].version + 1
               /\ cases'[c] = [state |-> req[r].to, version |-> n]
               /\ \A e \in Cases : e # c => cases'[e] = cases[e]
               /\ Auditing(r, c, n)'
    BY <2>2, WriterOwes
  <2>4. d = c /\ w = n
    BY <1>4, <2>3 DEF IInv, TypeOK
  <2> QED
    BY <2>3, <2>4
<1> QED
  BY <1>1, <1>2, <1>3, <1>4

(* When no process dies and no statement throws, every version of a case   *)
(* but the first has its audit event or a request that is about to append  *)
(* it: no early return loses one (auditTransition after each transition).  *)
THEOREM AuditTrailHasNoGaps ==
  ASSUME MayCrash = FALSE
  PROVE  Spec => []AuditHasNoGaps
<1>1. Init => AuditHasNoGaps
  BY DEF Init, AuditHasNoGaps
<1>2. IInv /\ AuditHasNoGaps /\ [Next]_vars => AuditHasNoGaps'
  <2>1. ASSUME AuditHasNoGaps, UNCHANGED vars PROVE AuditHasNoGaps'
    BY <2>1 DEF vars, rows, AuditHasNoGaps, Auditing
  <2> QED
    BY <2>1, NoGapsStep
<1> QED
  BY <1>1, <1>2, Invariance, PTL DEF Spec

(* It opens the evidence request, or is on its way still.                 *)
LEMMA EvidenceIsOwed ==
  ASSUME IInv, NEW r \in Requests, Handle(r),
         NEW s \in Requests, NEW c, Asking(s, c)
  PROVE  Asking(s, c)' \/ OpenRequests(c)' # {}
<1>1. CASE s # r
  BY <1>1, StepOfOne DEF Asking
<1>2. CASE s = r /\ At(r, "audit")
  <2>1. req' = [req EXCEPT ![r] = AfterAudit(r)]
    BY <1>2 DEF Handle, At, ReadCase, WriteCase, AppendAudit, InsertInvestigation,
                DisableAgent, NothingToLoad, RunAgent, FinishInvestigation, OpenEvidence
  <2>2. req[r] \in RequestState
    BY <1>2, BusyIsTyped DEF IInv, Pc
  <2>3. req'[r] = [req[r] EXCEPT !.pc = "open"]
    BY <1>2, <2>1 DEF IInv, TypeOK, AfterAudit, Asking
  <2> QED
    BY <1>2, <2>2, <2>3 DEF Asking, RequestState, Idle
<1>3. CASE s = r /\ At(r, "open")
  <2>1. OpenEvidence(r)
    BY <1>3 DEF Handle, At, ReadCase, WriteCase, AppendAudit, InsertInvestigation,
                DisableAgent, NothingToLoad, RunAgent, FinishInvestigation, OpenEvidence
  <2>2. req[r].case = c
    BY <1>3 DEF Asking
  <2>3. CASE OpenRequests(c) = {}
    <3>1. [case |-> c, asked |-> req[r].ver] \in evidence'
      BY <2>1, <2>2, <2>3 DEF OpenEvidence
    <3> QED
      BY <3>1 DEF OpenRequests
  <2>4. CASE OpenRequests(c) # {}
    BY <2>1, <2>4 DEF OpenEvidence, OpenRequests
  <2> QED
    BY <2>3, <2>4
<1> QED
  BY <1>1, <1>2, <1>3 DEF Asking, At

LEMMA EvidenceStep ==
  ASSUME IInv, EvidenceIsAsked, MayCrash = FALSE, Next
  PROVE  EvidenceIsAsked'
<1> SUFFICES ASSUME NEW d \in Cases, cases'[d].state = "REQUESTING_EVIDENCE"
             PROVE  OpenRequests(d)' # {} \/ \E s \in Requests : Asking(s, d)'
  BY DEF EvidenceIsAsked, Asking
<1>1. PICK r \in Requests :
        \/ \E op \in DOMAIN Operation, role \in Human, c \in Cases,
              version \in ClientVersions : Begin(r, op, role, c, version)
        \/ Handle(r)
  BY DEF Next, Crash
<1>2. CASE \E op \in DOMAIN Operation, role \in Human, c \in Cases,
              version \in ClientVersions : Begin(r, op, role, c, version)
  <2>1. UNCHANGED <<cases, evidence>> /\ req[r] = Idle
        /\ \A s \in Requests : s # r => req'[s] = req[s]
    BY <1>2 DEF Begin, rows, IInv, TypeOK
  <2> QED
    BY <2>1 DEF EvidenceIsAsked, OpenRequests, Asking
<1>3. CASE Handle(r) /\ cases[d].state = "REQUESTING_EVIDENCE"
  <2>1. OpenRequests(d) \subseteq OpenRequests(d)'
    BY <1>3, StepOfOne DEF OpenRequests
  <2> QED
    BY <1>3, <2>1, EvidenceIsOwed DEF EvidenceIsAsked, Asking
<1>4. CASE Handle(r) /\ cases[d].state # "REQUESTING_EVIDENCE"
  <2>1. cases' # cases
    BY <1>4
  <2>2. WriteCase(r) /\ UpdateMatches(r)
    BY <1>4, <2>1 DEF Handle, ReadCase, WriteCase, AppendAudit, InsertInvestigation,
         DisableAgent, NothingToLoad, RunAgent, Heads, FinishInvestigation,
         OpenEvidence, rows
  <2>3. PICK c \in Cases, n \in Nat :
               /\ cases'[c] = [state |-> req[r].to, version |-> n]
               /\ \A e \in Cases : e # c => cases'[e] = cases[e]
               /\ req[r].to = "REQUESTING_EVIDENCE" => Asking(r, c)'
    BY <2>2, WriterOwes
  <2>4. d = c /\ req[r].to = "REQUESTING_EVIDENCE"
    BY <1>4, <2>3
  <2> QED
    BY <2>3, <2>4
<1> QED
  BY <1>1, <1>2, <1>3, <1>4

(* When no process dies and no statement throws, a case that waits for     *)
(* evidence has an open evidence request, or the requester is about to     *)
(* make one, whoever else moves the case meanwhile (requestEvidence).      *)
THEOREM EvidenceGetsAsked ==
  ASSUME MayCrash = FALSE
  PROVE  Spec => []EvidenceIsAsked
<1>1. Init => EvidenceIsAsked
  BY DEF Init, EvidenceIsAsked
<1>2. IInv /\ EvidenceIsAsked /\ [Next]_vars => EvidenceIsAsked'
  <2>1. ASSUME EvidenceIsAsked, UNCHANGED vars PROVE EvidenceIsAsked'
    BY <2>1 DEF vars, rows, EvidenceIsAsked, OpenRequests
  <2> QED
    BY <2>1, EvidenceStep
<1> QED
  BY <1>1, <1>2, Invariance, PTL DEF Spec
=============================================================================
