------------------------ MODULE CaseWorkflowInvariant ------------------------
(***************************************************************************)
(* The safety properties of CaseWorkflow are not inductive: they say       *)
(* nothing of what a request in the middle of its handler knows.  IInv     *)
(* adds that - the versions and rows a request owns, what it may still ask *)
(* for, and the events it has yet to append.  TLC checks it, and           *)
(* CaseWorkflowProofs proves it.                                           *)
(***************************************************************************)
EXTENDS CaseWorkflow

(* The states the API can bring a case to.                                 *)
Reached == { "EXCEPTION", "INVESTIGATING", "ACTION_PROPOSED", "APPROVED",
             "REQUESTING_EVIDENCE", "STAGED", "ESCALATED" }

(* The events appended, and those a live request has yet to append.        *)
Pending == {r \in Requests : Written(r) /\ req[r].pc \in {"start", "audit"}}

Recorded == audit \cup {Event(r) : r \in Pending}

RowsAreDistinct ==
  /\ \A i \in DOMAIN investigations :
       investigations[i].atVersion <= cases[investigations[i].case].version
  /\ \A i, j \in DOMAIN investigations :
       i # j /\ investigations[i].case = investigations[j].case
         => investigations[i].atVersion # investigations[j].atVersion

(* What a request asks for, by the operation it is part of.                *)
AsksFor(r) ==
  req[r] # Idle =>
    /\ req[r].op # "conclude" /\ req[r].pc # "finish"
         => req[r].to = Operation[req[r].op].to
    /\ req[r].op = "request_evidence" => req[r].actor # "SYSTEM"
    /\ req[r].op = "conclude" => req[r].pc \in {"read", "write", "audit"}
    /\ req[r].op = "conclude" \/ req[r].pc = "finish"
         => req[r].to \in {"ACTION_PROPOSED", "ESCALATED"}
    /\ req[r].pc \in {"start", "dispatch", "finish"} => req[r].op = "investigate"
    /\ req[r].pc # "read" => req[r].from \in CaseState
    /\ req[r].pc = "write" => Legal(req[r].from, req[r].to, req[r].actor, FALSE)

(* What a request that has written knows: its version is its own.          *)
OwnsVersion(r) ==
  Written(r) =>
    /\ req[r].ver = req[r].exp + 1
    /\ req[r].ver <= cases[req[r].case].version
    /\ \A s \in Requests : Written(s) /\ s # r /\ req[s].case = req[r].case
         => req[s].ver # req[r].ver

(* What a request that runs an investigation knows of its row.             *)
RowIs(r, status, version) ==
  /\ req[r].inv \in DOMAIN investigations
  /\ investigations[req[r].inv] =
       [case |-> req[r].case, status |-> status, atVersion |-> version]

OwnsRow(r) ==
  req[r] # Idle =>
    /\ req[r].pc = "start" =>
         /\ StandsAt(req[r].case, req[r].ver)
         /\ \A i \in DOMAIN investigations : investigations[i].case = req[r].case
              => investigations[i].atVersion # req[r].ver
    /\ req[r].op = "investigate" /\ req[r].pc \in {"audit", "dispatch", "finish"}
         => RowIs(r, "RUNNING", req[r].ver)
    /\ req[r].op = "conclude" /\ req[r].pc \in {"read", "write"}
         => RowIs(r, FinishedAs(r), req[r].exp)

IInv ==
  /\ TypeOK
  /\ \A c \in Cases : cases[c].state \in Reached
  /\ IsAPath(Recorded)
  /\ RowsAreDistinct
  /\ RunningIsCurrent
  /\ ProposalIsVerified
  /\ \A r \in Requests : AsksFor(r) /\ OwnsVersion(r) /\ OwnsRow(r)
=============================================================================
