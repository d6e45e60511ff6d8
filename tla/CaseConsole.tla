----------------------------- MODULE CaseConsole -----------------------------
(***************************************************************************)
(* The case page of the web console (next-app): what it shows, the buttons *)
(* it offers, and what becomes of a click.  A page is put together from    *)
(* separate reads of the API.  The case read carries no version: the page  *)
(* takes the highest version on the listed part of the audit trail, and a  *)
(* click sends that version.                                               *)
(*                                                                         *)
(* The API is reduced to what CaseWorkflow is shown to implement: a        *)
(* transition happens at once or is refused, and its audit event follows.  *)
(***************************************************************************)
EXTENDS CaseOperations, Sequences, FiniteSetsExt

CONSTANTS
  Tabs,            \* browser tabs open on the case
  MaxRequests,     \* bound on the requests the API works on at the same time
  Users,           \* the roles of the identities the console can be used as
  AuditPageLimit,  \* events the audit route lists, oldest first
  AgentEvents,     \* how many events of its own an agent run appends
  MaxVersion,      \* bound: past it only escalations are asked for
  MaxFaults        \* bound on reads that fail, answers lost, processes that die

ASSUME ConsoleAssumption ==
  /\ Users \subseteq Human
  /\ MaxRequests \in Nat
  /\ AuditPageLimit \in Nat
  /\ AgentEvents \subseteq Nat
  /\ MaxVersion \in Nat
  /\ MaxFaults \in Nat

VARIABLES
  case,    \* reconciliation_cases: [state, version]
  trail,   \* the case's audit events, oldest first: [version, proposal]
  user,    \* who the identity cookie names; switching reloads the page, as
           \* another identity would have opened it
  tab,     \* what each tab displays, and the page it is loading
  server,  \* the requests the API works on, the tabs' and other clients'
  faults   \* faults so far

vars == <<case, trail, user, tab, server, faults>>

----------------------------------------------------------------------------
(* Audit events.  Those of the agent carry no version (0 here).            *)
Event == [version : Nat, proposal : BOOLEAN]

Move(version, isProposal) == [version |-> version, proposal |-> isProposal]
AgentEvent == Move(0, FALSE)

(* The oldest events, as many as the route asks for.                       *)
listForCase == Min({Len(trail), AuditPageLimit})

(* A page is the state it was rendered with and the number of audit events *)
(* the audit route had for it: the trail only grows, so the number says    *)
(* which.  A read that failed leaves nothing to go by, and a page that has *)
(* no case, or nobody it is rendered for, offers nothing.                  *)
NoState == "none"
NoPage == [state |-> NoState, listed |-> 0]

Page == [state : CaseState \cup {NoState}, listed : 0..AuditPageLimit]

Listed(page) == {trail[i] : i \in 1..page.listed}

(* The version the page displays and sends, 1 when no event carries one.   *)
ShownVersion(page) ==
  LET versions == {e.version : e \in Listed(page)} \ {0}
  IN  IF versions = {} THEN 1 ELSE Max(versions)

(* latestProposal: the first proposal listed, by its version.              *)
ShownProposal(page) ==
  LET proposals == {e.version : e \in {f \in Listed(page) : f.proposal}}
  IN  IF proposals = {} THEN 0 ELSE Min(proposals)

(* allowedFor and the branches of CaseActions: the buttons that are        *)
(* enabled for a role.  Of an APPROVED case only staging is rendered.      *)
Button ==
  [ investigate |-> [on |-> {"EXCEPTION"}, least |-> "OPERATOR"],
    reinvestigate |-> [on |-> {"REQUESTING_EVIDENCE", "REJECTED"}, least |-> "OPERATOR"],
    escalate |-> [on |-> {"EXCEPTION", "INVESTIGATING", "REQUESTING_EVIDENCE",
                          "REJECTED", "ACTION_PROPOSED"}, least |-> "OPERATOR"],
    approve |-> [on |-> {"ACTION_PROPOSED"}, least |-> "APPROVER"],
    stage |-> [on |-> {"APPROVED"}, least |-> "OPERATOR"] ]

Offered(page) ==
  {op \in DOMAIN Button : page.state \in Button[op].on /\ hasAtLeast(user, Button[op].least)}

----------------------------------------------------------------------------
(* A tab: the page on display; the reads outstanding for the next one, and *)
(* what the others brought; whether an answer has come whose page has not; *)
(* and whether router.refresh follows when this load is in.                *)
Reads == {"case", "audit"}

TabState ==
  [page : Page, next : Page, reads : SUBSET Reads, settling : BOOLEAN, refresh : BOOLEAN]

Opened == [ page |-> NoPage, next |-> NoPage, reads |-> Reads,
            settling |-> FALSE, refresh |-> FALSE ]

(* A request: what it asks for, who waits for its answer, and, for one     *)
(* made on a page, the page.                                               *)
NoTab == "none"

Idle == [pc |-> "idle", tab |-> NoTab]

Slots == 1..MaxRequests

Pc == {"serve", "audit", "agent", "conclude"}

(* The states the API can bring a case to.                                 *)
Reached == {"EXCEPTION", "ACTION_PROPOSED"} \cup {Operation[op].to : op \in DOMAIN Operation}

RequestState ==
  [ pc : Pc, op : DOMAIN Operation, by : Human, to : Reached,
    version : Nat, tab : Tabs \cup {NoTab}, page : Page ]

TypeOK ==
  /\ case \in [state : Reached, version : Nat]
  /\ trail \in Seq(Event)
  /\ user \in Users
  /\ tab \in [Tabs -> TabState]
  /\ server \in [Slots -> RequestState \cup {Idle}]
  /\ faults \in 0..MaxFaults

Init ==
  /\ case = [state |-> "EXCEPTION", version |-> 1]
  /\ trail = <<Move(1, FALSE)>>
  /\ user \in Users
  /\ tab = [t \in Tabs |-> Opened]
  /\ server = [s \in Slots |-> Idle]
  /\ faults = 0

Fault == faults < MaxFaults /\ faults' = faults + 1

(* useTransition's pending: the buttons are disabled until the action has  *)
(* returned and the page that came back with it is in.                     *)
Awaited(t) == {s \in Slots : server[s].tab = t}

Pending(t) == tab[t].settling \/ Awaited(t) # {}

----------------------------------------------------------------------------
(* The page.                                                               *)

(* One of the page's concurrent reads is answered.  With the last of them  *)
(* the page replaces the one on display and its buttons are enabled; after *)
(* an answer that calls for it, router.refresh loads the page once more.   *)
Read(t, read, next) ==
  LET left == tab[t].reads \ {read}
  IN  /\ read \in tab[t].reads
      /\ tab' = [tab EXCEPT ![t] =
           IF left # {}
           THEN [tab[t] EXCEPT !.reads = left, !.next = next]
           ELSE [ page |-> next, next |-> NoPage, settling |-> FALSE,
                  refresh |-> FALSE,
                  reads |-> IF tab[t].refresh THEN Reads ELSE {} ]]
      /\ UNCHANGED <<case, trail, user, server>>

ReadCase(t) ==
  /\ Read(t, "case", [tab[t].next EXCEPT !.state = case.state])
  /\ UNCHANGED faults

ReadAudit(t) ==
  /\ Read(t, "audit",
          [tab[t].next EXCEPT !.listed = listForCase])
  /\ UNCHANGED faults

(* A read that fails.                                                      *)
FailRead(t) ==
  /\ \E read \in Reads : Read(t, read, tab[t].next)
  /\ Fault

(* The page is opened again, whatever the tab was waiting for.             *)
Reload(t) ==
  /\ Pending(t) \/ tab[t].reads = {}
  /\ tab' = [tab EXCEPT ![t] = Opened]
  /\ server' = [s \in Slots |->
       IF s \in Awaited(t) THEN [server[s] EXCEPT !.tab = NoTab] ELSE server[s]]
  /\ UNCHANGED <<case, trail, user, faults>>

----------------------------------------------------------------------------
(* Requests.                                                               *)
Allowed(op) == case.version < MaxVersion \/ op = "escalate"

(* The first slot that is free takes a request.                            *)
Enters(request) ==
  \E s \in Slots :
    /\ server[s] = Idle
    /\ \A r \in Slots : r < s => server[r] # Idle
    /\ server' = [server EXCEPT ![s] = request]

(* A button is pressed: the request goes out with the version of the page. *)
Click(t, op) ==
  /\ ~Pending(t)
  /\ op \in Offered(tab[t].page)
  /\ Allowed(op)
  /\ Enters([ pc |-> "serve", op |-> op, by |-> user, to |-> Operation[op].to,
              version |-> ShownVersion(tab[t].page), tab |-> t, page |-> tab[t].page ])
  /\ UNCHANGED <<case, trail, user, tab, faults>>

(* A bug: only an action that succeeded loads the page again.              *)
Answer_Unrevalidated(s, status) ==
  /\ server' = [server EXCEPT ![s] = Idle]
  /\ tab' = IF server[s].tab = NoTab \/ status # "ok" THEN tab
            ELSE [tab EXCEPT ![server[s].tab] =
                    [@ EXCEPT !.reads = Reads, !.next = NoPage,
                              !.settling = TRUE, !.refresh = TRUE]]

(* The answer reaches the tab that waits for it, if one does.  Whatever it *)
(* says, the action revalidates the page, which is loaded again; and after *)
(* ok and conflict the component asks for one more.                        *)
Answer(s, status) ==
  /\ server' = [server EXCEPT ![s] = Idle]
  /\ tab' = IF server[s].tab = NoTab THEN tab
            ELSE [tab EXCEPT ![server[s].tab] =
                    [@ EXCEPT !.reads = Reads, !.next = NoPage, !.settling = TRUE,
                              !.refresh = status \in {"ok", "conflict"}]]

(* A bug: whatever version the request carries, the case moves.            *)
Accepts_AnyVersion(s) ==
  LET r == server[s]
      actor == IF r.pc = "conclude" THEN "SYSTEM" ELSE ActorFor(r.op, r.by)
  IN  /\ r.pc = "serve" => hasAtLeast(r.by, Operation[r.op].least)
      /\ Legal(case.state, r.to, actor, FALSE)

(* The transition of a request: at once, or not at all.                    *)
Accepts(s) ==
  LET r == server[s]
      actor == IF r.pc = "conclude" THEN "SYSTEM" ELSE ActorFor(r.op, r.by)
  IN  /\ r.pc = "serve" => hasAtLeast(r.by, Operation[r.op].least)
      /\ case.version = r.version
      /\ Legal(case.state, r.to, actor, FALSE)

Serve(s) ==
  /\ server[s].pc \in {"serve", "conclude"}
  /\ Accepts(s)
  /\ case' = [state |-> server[s].to, version |-> case.version + 1]
  /\ server' = [server EXCEPT ![s].pc = "audit", ![s].page = NoPage,
                              ![s].version = case.version + 1]
  /\ UNCHANGED <<trail, user, tab, faults>>

(* Another client of the API moves the case.  Its requests that are refused*)
(* change nothing, and an APPROVER may do all that an OPERATOR may.        *)
Elsewhere(op) ==
  /\ Allowed(op)
  /\ Legal(case.state, Operation[op].to, ActorFor(op, "APPROVER"), FALSE)
  /\ case' = [state |-> Operation[op].to, version |-> case.version + 1]
  /\ Enters([ pc |-> "audit", op |-> op, by |-> "APPROVER", to |-> Operation[op].to,
              version |-> case.version + 1, tab |-> NoTab, page |-> NoPage ])
  /\ UNCHANGED <<trail, user, tab, faults>>

(* FORBIDDEN below the least role, a conflict for every other refusal.  An *)
(* agent that cannot conclude is reported inside an answer of success.     *)
Refuse(s) ==
  /\ server[s].pc \in {"serve", "conclude"}
  /\ ~Accepts(s)
  /\ Answer(s, IF server[s].pc = "conclude" THEN "ok"
               ELSE IF hasAtLeast(server[s].by, Operation[server[s].op].least)
               THEN "conflict" ELSE "forbidden")
  /\ UNCHANGED <<case, trail, user, faults>>

(* The audit event of the move; an investigation then goes on to the agent.*)
AppendAudit(s) ==
  /\ server[s].pc = "audit"
  /\ trail' = Append(trail, Move(server[s].version, server[s].to = "ACTION_PROPOSED"))
  /\ IF server[s].op = "investigate" /\ server[s].to = "INVESTIGATING"
     THEN server' = [server EXCEPT ![s].pc = "agent"] /\ UNCHANGED tab
     ELSE Answer(s, "ok")
  /\ UNCHANGED <<case, user, faults>>

(* The agent, if it may run, leaves events of its own and heads for a      *)
(* proposal or an escalation.                                              *)
RunAgent(s, events, to) ==
  /\ server[s].pc = "agent"
  /\ trail' = trail \o [i \in 1..events |-> AgentEvent]
  /\ server' = [server EXCEPT ![s].pc = "conclude", ![s].to = to]
  /\ UNCHANGED <<case, user, tab, faults>>

(* The agent finds no unit to investigate.                                 *)
NothingToLoad(s) ==
  /\ server[s].pc = "agent"
  /\ Answer(s, "ok")
  /\ UNCHANGED <<case, trail, user, faults>>

(* The process dies, or a statement throws; or the answer alone is lost    *)
(* and the API works on.  Either way the action reports an error.          *)
Crash(s) ==
  /\ server[s] # Idle
  /\ Answer(s, "error")
  /\ UNCHANGED <<case, trail, user>>
  /\ Fault

LoseAnswer(s) ==
  /\ server[s].tab # NoTab
  /\ tab' = [tab EXCEPT ![server[s].tab] =
               [@ EXCEPT !.reads = Reads, !.next = NoPage, !.settling = TRUE]]
  /\ server' = [server EXCEPT ![s].tab = NoTab]
  /\ UNCHANGED <<case, trail, user>>
  /\ Fault

----------------------------------------------------------------------------
Load(t) == ReadCase(t) \/ ReadAudit(t) \/ FailRead(t)

Work(s) ==
  \/ Serve(s)
  \/ Refuse(s)
  \/ AppendAudit(s)
  \/ \E n \in AgentEvents, to \in {"ACTION_PROPOSED", "ESCALATED"} :
       RunAgent(s, n, to)
  \/ NothingToLoad(s)

Next ==
  \/ \E t \in Tabs :
       \/ Load(t)
       \/ Reload(t)
       \/ \E op \in DOMAIN Operation : Click(t, op)
  \/ \E op \in DOMAIN Operation : Elsewhere(op)
  \/ \E s \in Slots : Work(s) \/ Crash(s) \/ LoseAnswer(s)

Spec == Init /\ [][Next]_vars

(* Reads are answered, one way or another, and the API works off what it   *)
(* has taken on.  The people: one keeps asking for the escalation whenever *)
(* a page offers it, and opens the page again when it does not.            *)
FairSpec ==
  /\ Spec
  /\ \A t \in Tabs :
       /\ WF_vars(Load(t))
       /\ SF_vars(Click(t, "escalate"))
       /\ SF_vars(Reload(t) /\ ~Pending(t) /\ "escalate" \notin Offered(tab[t].page))
  /\ \A s \in Slots : WF_vars(Work(s))

----------------------------------------------------------------------------
(* Properties.                                                             *)

FromPage(s) == server[s].pc = "serve" /\ server[s].page # NoPage

Approves(s) ==
  FromPage(s) /\ server[s].op = "approve" /\ server'[s].pc = "audit"

(* Whatever reads a page was put together from, however late they came and *)
(* whoever moved the case between them: an approval given on a page takes  *)
(* effect only if that page listed the very proposal that gets approved.   *)
ApprovalsAreInformed ==
  [][\A s \in Slots : Approves(s) =>
       \E e \in Listed(server[s].page) : e.proposal /\ e.version = case.version]_vars

(* Of a case that had more than one proposal, the one approved is the one  *)
(* the page put above the button as the verified proposal.                 *)
ApprovesWhatIsShown ==
  [][\A s \in Slots :
       Approves(s) => ShownProposal(server[s].page) = case.version]_vars

(* What a page that shows the case as it stands offers, the API does not   *)
(* refuse; but for staging, which the page offers to an OPERATOR and the   *)
(* API keeps for an APPROVER.                                              *)
OffersAreHonoured ==
  \A s \in Slots :
    LET r == server[s] IN
    /\ FromPage(s)
    /\ r.page.state = case.state /\ r.version = case.version
    /\ r.op = "stage" => r.by # "OPERATOR"
    => Accepts(s)

(* A pending event is that of the move its request made.                   *)
PendingIsCurrent(s) ==
  server[s].pc = "audit" =>
    /\ server[s].version <= case.version
    /\ server[s].version = case.version => server[s].to = case.state

(* The trail knows no version the case has not had, and a proposal that    *)
(* stands is on the trail as one.                                          *)
TrailIsCurrent ==
  /\ case.version >= 1
  /\ case.version = 1 => case.state = "EXCEPTION"
  /\ \A i \in DOMAIN trail : trail[i].version <= case.version
  /\ \A i \in DOMAIN trail :
       trail[i].version = case.version /\ case.state = "ACTION_PROPOSED" => trail[i].proposal
  /\ \A s \in Slots : PendingIsCurrent(s)

(* Every listing has a highest version.                                    *)
ListingsHaveTops ==
  \A n \in 1..Len(trail) : \E i \in 1..n : \A j \in 1..n : trail[j].version <= trail[i].version

PagesAreOld ==
  /\ \A t \in Tabs : tab[t].page.listed <= Len(trail) /\ tab[t].next.listed <= Len(trail)
  /\ \A s \in Slots : server[s] # Idle => server[s].page.listed <= Len(trail)

(* A request made on a page carries what that page showed, however much    *)
(* has been appended since.                                                *)
CarriesPage(s) ==
  FromPage(s) =>
    LET r == server[s] IN
    /\ r.op \in DOMAIN Button
    /\ r.page.state \in Button[r.op].on
    /\ hasAtLeast(r.by, Button[r.op].least)
    /\ r.to = Operation[r.op].to
    /\ r.version = ShownVersion(r.page)

CarriesItsPage == \A s \in Slots : CarriesPage(s)

(* The inductive invariant.                                                *)
ConsoleInv ==
  TypeOK /\ TrailIsCurrent /\ ListingsHaveTops /\ PagesAreOld /\ CarriesItsPage /\ OffersAreHonoured

(* The audit route no longer has, or never will have, the event of the     *)
(* case's version: no page can send it.                                    *)
Hidden ==
  /\ \A i \in 1..listForCase : trail[i].version # case.version
  /\ \A s \in Slots : server[s].pc # "audit"

(* Someone who wants the case escalated, and presses the button of every   *)
(* page that has it, sees it escalated or decided in the end, through      *)
(* conflicts, failed reads and lost answers; unless the page can no longer *)
(* show the version of the case.                                           *)
EscalationGetsThrough ==
  <>(~Legal(case.state, "ESCALATED", "OPERATOR", FALSE) \/ Hidden)
=============================================================================
