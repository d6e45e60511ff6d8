---------------------------- MODULE CaseWorkflow ----------------------------
(***************************************************************************)
(* The life of a residual case under concurrent API requests.              *)
(*                                                                         *)
(* Every request runs a use case of packages/application or                *)
(* packages/workflow: it reads the case, writes it with a guarded UPDATE,  *)
(* then writes the rows that go with the move (audit event, investigation, *)
(* evidence request).  Each SQL statement commits on its own, so requests  *)
(* interleave between any two of them, and a process that dies leaves what *)
(* it has already written.                                                 *)
(***************************************************************************)
EXTENDS CaseOperations, Sequences

CONSTANTS
  Cases,           \* residual cases
  Requests,        \* API requests that can be in flight at the same time
  ClientVersions,  \* the case versions clients send (bounds the model)
  AiSettings,      \* settings of the AI kill switch among the API processes
  Unloadable,      \* cases whose payment unit the agent cannot load
  MayCrash         \* whether a process may die, or a statement throw

ASSUME WorkflowAssumption ==
  /\ ClientVersions \subseteq Nat
  /\ AiSettings \subseteq BOOLEAN
  /\ Unloadable \subseteq Cases
  /\ MayCrash \in BOOLEAN

VARIABLES
  cases,           \* reconciliation_cases: [Cases -> [state, version]]
  investigations,  \* investigations: rows in the order they were inserted
  evidence,        \* evidence_requests: the rows, every one of them OPEN
  audit,           \* audit_events that record a transition
  req              \* where each request is in its handler, and its locals

rows == <<cases, investigations, evidence, audit>>
vars == <<cases, investigations, evidence, audit, req>>

----------------------------------------------------------------------------
(* What a request goes on to do once it has finished an investigation.     *)
Ops == DOMAIN Operation \cup {"conclude"}

(* A request's locals: the case and version it was sent (case, exp), the   *)
(* move it makes (to, actor), the state it read (from), the version its    *)
(* last write produced (ver) and the investigation it runs (inv).          *)
NoState == "none"

Idle == [pc |-> "idle"]

Pc == { "read", "write", "start", "audit", "open", "dispatch", "finish" }

RequestState ==
  [ pc : Pc, op : Ops, case : Cases, exp : Nat, to : CaseState,
    actor : TransitionActor, from : CaseState \cup {NoState},
    ver : Nat, inv : Nat ]

InvestigationRow ==
  [case : Cases, status : {"RUNNING", "SUCCEEDED", "FAILED"}, atVersion : Nat]

EvidenceRow == [case : Cases, asked : Nat]

AuditEvent ==
  [case : Cases, previous : CaseState, next : CaseState, version : Nat]

TypeOK ==
  /\ cases \in [Cases -> [state : CaseState, version : Nat]]
  /\ investigations \in Seq(InvestigationRow)
  /\ evidence \subseteq EvidenceRow
  /\ audit \subseteq AuditEvent
  /\ req \in [Requests -> RequestState \cup {Idle}]

Running(c) ==
  {i \in DOMAIN investigations :
     investigations[i].case = c /\ investigations[i].status = "RUNNING"}

OpenRequests(c) == {e \in evidence : e.case = c}

At(r, pc) == req[r].pc = pc

Answer(r) == req' = [req EXCEPT ![r] = Idle]

----------------------------------------------------------------------------
(* createResidual has inserted the cases: EXCEPTION, version 1.            *)
Init ==
  /\ cases = [c \in Cases |-> [state |-> "EXCEPTION", version |-> 1]]
  /\ investigations = <<>>
  /\ evidence = {}
  /\ audit = {}
  /\ req = [r \in Requests |-> Idle]

(* A request arrives.  The version it carries is the one its client last   *)
(* saw: it may be stale, and nothing in the handler looks the case up      *)
(* before transition does.  A role below the operation's least changes     *)
(* nothing (FORBIDDEN), and so does a body that fails validation.          *)
Begin(r, op, role, c, version) ==
  /\ req[r] = Idle
  /\ hasAtLeast(role, Operation[op].least)
  /\ req' = [req EXCEPT ![r] =
       [ pc |-> "read", op |-> op, case |-> c, exp |-> version,
         to |-> Operation[op].to, actor |-> ActorFor(op, role),
         from |-> NoState, ver |-> 0, inv |-> 0 ]]
  /\ UNCHANGED rows

(* transition, first statement: SELECT state, case_version, and the checks *)
(* on what it returned.  No caller of transition records an outcome.       *)
Accepts(r) ==
  LET c == cases[req[r].case]
  IN  /\ c.version = req[r].exp
      /\ Legal(c.state, req[r].to, req[r].actor, FALSE)

ReadCase(r) ==
  /\ At(r, "read")
  /\ IF Accepts(r)
     THEN req' = [req EXCEPT ![r].pc = "write",
                             ![r].from = cases[req[r].case].state]
     ELSE Answer(r)  \* VERSION_CONFLICT, ILLEGAL_TRANSITION, ...
  /\ UNCHANGED rows

(* transition, second statement: the UPDATE repeats the state and version  *)
(* it read in its WHERE clause.  When it matches no row the request is     *)
(* answered with VERSION_CONFLICT.                                         *)
(* A bug: the UPDATE names the case and nothing else.                      *)
UpdateMatches_ById(r) == cases[req[r].case].version > 0

(* A bug: the UPDATE repeats the state only.                               *)
UpdateMatches_ByState(r) == cases[req[r].case].state = req[r].from

UpdateMatches(r) ==
  /\ cases[req[r].case].state = req[r].from
  /\ cases[req[r].case].version = req[r].exp

(* The row that comes after the case: the investigation an operator asked  *)
(* for, and otherwise the audit event.                                     *)
AfterWrite(r) == IF req[r].op = "investigate" THEN "start" ELSE "audit"

WriteCase(r) ==
  /\ At(r, "write")
  /\ LET c == req[r].case IN
       IF UpdateMatches(r)
       THEN /\ cases' = [cases EXCEPT ![c] =
                 [state |-> req[r].to, version |-> @.version + 1]]
            /\ req' = [req EXCEPT ![r].pc = AfterWrite(r),
                                  ![r].ver = cases[c].version + 1]
       ELSE /\ Answer(r)
            /\ UNCHANGED cases
  /\ UNCHANGED <<investigations, evidence, audit>>

(* audit.append for the move just made.                                    *)
(* A bug: the event carries the version that was read.                     *)
Event_AtReadVersion(r) ==
  [ case |-> req[r].case, previous |-> req[r].from,
    next |-> req[r].to, version |-> req[r].exp ]

Event(r) == [ case |-> req[r].case, previous |-> req[r].from,
              next |-> req[r].to, version |-> req[r].ver ]

(* A bug: no evidence request follows the move.                            *)
AfterAudit_NoEvidence(r) ==
  IF req[r].op = "investigate" THEN [req[r] EXCEPT !.pc = "dispatch"] ELSE Idle

AfterAudit(r) ==
  CASE req[r].op = "investigate"      -> [req[r] EXCEPT !.pc = "dispatch"]
    [] req[r].op = "request_evidence" -> [req[r] EXCEPT !.pc = "open"]
    [] OTHER                          -> Idle

AppendAudit(r) ==
  /\ At(r, "audit")
  /\ audit' = audit \cup {Event(r)}
  /\ req' = [req EXCEPT ![r] = AfterAudit(r)]
  /\ UNCHANGED <<cases, investigations, evidence>>

----------------------------------------------------------------------------
(* investigations.start: the partial unique index refuses a second RUNNING *)
(* row for the case, and the request then answers ALREADY_RUNNING.         *)
InsertInvestigation(r) ==
  /\ At(r, "start")
  /\ IF Running(req[r].case) = {}
     THEN /\ investigations' = Append(investigations,
               [ case |-> req[r].case, status |-> "RUNNING",
                 atVersion |-> req[r].ver ])
          /\ req' = [req EXCEPT ![r].pc = "audit",
                                ![r].inv = Len(investigations) + 1]
     ELSE /\ Answer(r)
          /\ UNCHANGED investigations
  /\ UNCHANGED <<cases, evidence, audit>>

(* The request decides where its investigation ends.                       *)
Heads(r, to) ==
  /\ req' = [req EXCEPT ![r].pc = "finish", ![r].to = to]
  /\ UNCHANGED rows

(* Kill switch off: MODEL_DISABLED, and the case goes to a human.          *)
DisableAgent(r) ==
  /\ At(r, "dispatch")
  /\ FALSE \in AiSettings
  /\ Heads(r, "ESCALATED")

(* dispatchAgent finds no unit to investigate and answers.                 *)
NothingToLoad(r) ==
  /\ At(r, "dispatch")
  /\ TRUE \in AiSettings
  /\ req[r].case \in Unloadable
  /\ Answer(r)
  /\ UNCHANGED rows

(* The agent loop and the terminal verifier run to an end: a verified      *)
(* RESOLVE heads for ACTION_PROPOSED, everything else for ESCALATED.       *)
RunAgent(r, to) ==
  /\ At(r, "dispatch")
  /\ TRUE \in AiSettings
  /\ req[r].case \notin Unloadable
  /\ Heads(r, to)

(* investigations.finish, by id and unconditional; then the transition, by *)
(* SYSTEM, against the version the investigation started from.             *)
(* A bug: an investigation that resolves is not finished.                  *)
FinishedAs_OnlyFailures(r) ==
  IF req[r].to = "ACTION_PROPOSED" THEN "RUNNING" ELSE "FAILED"

FinishedAs(r) ==
  IF req[r].to = "ACTION_PROPOSED" THEN "SUCCEEDED" ELSE "FAILED"

(* A bug: the client's version is used to conclude.                        *)
StartedAt_AsRequested(r) == req[r].exp

StartedAt(r) == req[r].ver

FinishInvestigation(r) ==
  /\ At(r, "finish")
  /\ investigations' = [investigations EXCEPT ![req[r].inv].status = FinishedAs(r)]
  /\ req' = [req EXCEPT ![r].pc = "read", ![r].op = "conclude",
                        ![r].actor = "SYSTEM", ![r].exp = StartedAt(r)]
  /\ UNCHANGED <<cases, evidence, audit>>

(* evidence.open: an OPEN request for the case, whenever it was made,      *)
(* absorbs the new one.  Nothing ever moves a request out of OPEN.         *)
OpenEvidence(r) ==
  /\ At(r, "open")
  /\ evidence' = IF OpenRequests(req[r].case) = {}
                 THEN evidence \cup {[case |-> req[r].case, asked |-> req[r].ver]}
                 ELSE evidence
  /\ Answer(r)
  /\ UNCHANGED <<cases, investigations, audit>>

(* The process dies, or a statement throws: the locals are gone.           *)
Crash(r) ==
  /\ MayCrash
  /\ req[r] # Idle
  /\ Answer(r)
  /\ UNCHANGED rows

----------------------------------------------------------------------------
Handle(r) ==
  \/ ReadCase(r)
  \/ WriteCase(r)
  \/ AppendAudit(r)
  \/ InsertInvestigation(r)
  \/ DisableAgent(r)
  \/ NothingToLoad(r)
  \/ \E to \in {"ACTION_PROPOSED", "ESCALATED"} : RunAgent(r, to)
  \/ FinishInvestigation(r)
  \/ OpenEvidence(r)

Next ==
  \E r \in Requests :
    \/ \E op \in DOMAIN Operation, role \in Human, c \in Cases,
          version \in ClientVersions : Begin(r, op, role, c, version)
    \/ Handle(r)
    \/ Crash(r)

(* Node runs a handler's continuation as soon as its statement, or the     *)
(* bounded agent loop, returns.  Nobody is obliged to send a request.      *)
Spec == Init /\ [][Next]_vars

FairSpec == Spec /\ \A r \in Requests : WF_vars(Handle(r))

----------------------------------------------------------------------------
(* Safety.                                                                 *)

(* The audit trail of a case is a path through the transition table: no    *)
(* two events claim the same version, consecutive versions join up, the    *)
(* event of the current version agrees with the case, and none is ahead of *)
(* it - although events are appended after, and apart from, the write they *)
(* record, and racing requests append in any order.                        *)
IsAPath(events) ==
  /\ \A e \in events :
       /\ canTransition(e.previous, e.next)
       /\ e.version <= cases[e.case].version
       /\ e.version = cases[e.case].version => e.next = cases[e.case].state
  /\ \A e, f \in events : e.case = f.case =>
       /\ e.version = f.version => e = f
       /\ f.version = e.version + 1 => f.previous = e.next

AuditIsAPath == IsAPath(audit)

(* The case has not moved since version v made it INVESTIGATING, except to *)
(* be escalated.                                                           *)
StandsAt(c, v) ==
  \/ cases[c] = [state |-> "INVESTIGATING", version |-> v]
  \/ cases[c] = [state |-> "ESCALATED", version |-> v + 1]

(* A RUNNING investigation is about the case as it stands, or about one a  *)
(* human has since escalated: no request moves a case on under an agent    *)
(* and leaves the agent's row behind for a later investigation to meet.    *)
RunningIsCurrent ==
  \A i \in DOMAIN investigations :
    LET run == investigations[i] IN
    run.status = "RUNNING" => StandsAt(run.case, run.atVersion)

(* The unique index on RUNNING rows never has to refuse one: startInvesti- *)
(* gation's ALREADY_RUNNING answer, which leaves a transition without its  *)
(* audit event, cannot happen.                                             *)
StartNeverCollides ==
  \A r \in Requests : At(r, "start") => Running(req[r].case) = {}

(* A proposal, its approval and its staging all rest on an investigation   *)
(* that SUCCEEDED from exactly one, two or three versions before: nothing  *)
(* can come between the verified resolution and the staged action.         *)
VersionsSinceStart == [ACTION_PROPOSED |-> 1, APPROVED |-> 2, STAGED |-> 3]

ProposalIsVerified ==
  \A c \in Cases : cases[c].state \in DOMAIN VersionsSinceStart =>
    \E i \in DOMAIN investigations :
      /\ investigations[i].case = c
      /\ investigations[i].status = "SUCCEEDED"
      /\ cases[c].version =
           investigations[i].atVersion + VersionsSinceStart[cases[c].state]

(* A write that took effect replaced the very version its author had seen: *)
(* an approval never lands on a later proposal than the one it was sent    *)
(* for, though the case may pass through ACTION_PROPOSED again meanwhile.  *)
Written(r) ==
  req[r] # Idle /\ req[r].pc \in {"start", "audit", "open", "dispatch", "finish"}

DecidedOnWhatWasSeen ==
  \A r \in Requests : Written(r) => req[r].ver = req[r].exp + 1

(* What the API can do to an escalated case is nothing: a late agent, or a *)
(* request that raced the escalation, never takes it back from the human.  *)
EscalatedIsFinal ==
  [][\A c \in Cases : cases[c].state = "ESCALATED" => cases'[c] = cases[c]]_vars

(* The workflow implements the atomic, versioned lifecycle.                *)
Lifecycle == INSTANCE CaseLifecycle

ImplementsLifecycle == Lifecycle!Spec

----------------------------------------------------------------------------
(* Promises that need every request to reach its end.                      *)

Auditing(r, c, v) ==
  /\ req[r] # Idle
  /\ req[r].pc \in {"start", "audit"}
  /\ req[r].case = c
  /\ req[r].ver = v

(* Every version of a case but the first has an audit event, or a request  *)
(* on its way to append it.                                                *)
AuditHasNoGaps ==
  \A c \in Cases : \A v \in 2..cases[c].version :
    \/ \E e \in audit : e.case = c /\ e.version = v
    \/ \E r \in Requests : Auditing(r, c, v)

(* A case that waits for evidence has an OPEN evidence request, or the     *)
(* request that moved it is on its way to open one.                        *)
EvidenceIsAsked ==
  \A c \in Cases : cases[c].state = "REQUESTING_EVIDENCE" =>
    \/ OpenRequests(c) # {}
    \/ \E r \in Requests :
         /\ req[r] # Idle
         /\ req[r].op = "request_evidence"
         /\ req[r].pc \in {"audit", "open"}
         /\ req[r].case = c

(* An investigation that started ends, and its case does not stay behind   *)
(* in INVESTIGATING - unless the agent cannot load its payment unit.       *)
InvestigationsConclude ==
  \A c \in Cases \ Unloadable :
    Running(c) # {} ~> (Running(c) = {} /\ cases[c].state # "INVESTIGATING")
=============================================================================
