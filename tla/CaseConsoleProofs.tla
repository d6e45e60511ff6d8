-------------------------- MODULE CaseConsoleProofs --------------------------
(***************************************************************************)
(* CaseConsole keeps ConsoleInv for any tabs, any number of requests, any  *)
(* limit of the audit listing and any faults; that offers are honoured is  *)
(* part of it, and that approvals are informed follows.                    *)
(***************************************************************************)
EXTENDS CaseConsole, TLAPS

(* The moves of the table that buttons ask for.                            *)
LEMMA MovesAreLegal ==
  /\ \A role \in {"OPERATOR", "APPROVER"} :
       /\ Legal("EXCEPTION", "INVESTIGATING", role, FALSE)
       /\ \A from \in {"REQUESTING_EVIDENCE", "REJECTED"} :
            Legal(from, "INVESTIGATING", role, FALSE)
       /\ \A from \in {"EXCEPTION", "INVESTIGATING", "REQUESTING_EVIDENCE", "REJECTED",
                       "ACTION_PROPOSED"} : Legal(from, "ESCALATED", role, FALSE)
  /\ Legal("ACTION_PROPOSED", "APPROVED", "APPROVER", FALSE)
  /\ Legal("APPROVED", "STAGED", "SYSTEM", FALSE)
<1>1. \A t \in Transitions : t.requiresOutcome => t.to = "CLOSED"
  BY DEF Transitions, rule, closing
<1>2. ASSUME NEW from, NEW to, NEW actors \in {SysOp, OpApprover, {"OPERATOR"}},
             rule(from, to, actors) \in Transitions, to # "CLOSED",
             NEW role \in {"OPERATOR", "APPROVER"}
      PROVE  Legal(from, to, role, FALSE)
  <2>1. rule(from, to, actors) \in RulesFor(from, to)
    BY <1>2 DEF RulesFor, rule
  <2>2. "OPERATOR" \in actors /\ "OPERATOR" \in Human /\ role \in Human
    BY DEF SysOp, OpApprover, Human
  <2>3. HumanRank["OPERATOR"] <= HumanRank[role]
    BY DEF HumanRank
  <2>4. isActorPermitted(from, to, role)
    BY <2>1, <2>2, <2>3 DEF isActorPermitted, rule
  <2> QED
    BY <1>1, <1>2, <2>1, <2>4 DEF Legal, canTransition, requiresOutcomeRecord, RulesFor
<1>3. ASSUME NEW from, NEW to, NEW actor,
             rule(from, to, {actor}) \in Transitions, to # "CLOSED"
      PROVE  Legal(from, to, actor, FALSE)
  <2>1. rule(from, to, {actor}) \in RulesFor(from, to)
    BY <1>3 DEF RulesFor, rule
  <2> QED
    BY <1>1, <1>3, <2>1
    DEF Legal, canTransition, isActorPermitted, requiresOutcomeRecord, RulesFor, rule
<1>4. /\ rule("EXCEPTION", "INVESTIGATING", SysOp) \in Transitions
      /\ rule("REQUESTING_EVIDENCE", "INVESTIGATING", SysOp) \in Transitions
      /\ rule("REJECTED", "INVESTIGATING", {"OPERATOR"}) \in Transitions
      /\ rule("REJECTED", "ESCALATED", OpApprover) \in Transitions
      /\ \A from \in {"EXCEPTION", "INVESTIGATING", "REQUESTING_EVIDENCE", "ACTION_PROPOSED"} :
           rule(from, "ESCALATED", SysOp) \in Transitions
      /\ rule("ACTION_PROPOSED", "APPROVED", {"APPROVER"}) \in Transitions
      /\ rule("APPROVED", "STAGED", {"SYSTEM"}) \in Transitions
  BY DEF Transitions, SystemOnly
<1> QED
  BY <1>2, <1>3, <1>4

(* What the proofs need of the buttons, the operations and the table.      *)
LEMMA ButtonFacts ==
  /\ DOMAIN Button \subseteq DOMAIN Operation
  /\ \A op \in DOMAIN Operation : Operation[op].to \in Reached
  /\ \A op \in DOMAIN Button, by \in Human :
       hasAtLeast(by, Button[op].least) /\ (op = "stage" => by # "OPERATOR")
         => hasAtLeast(by, Operation[op].least)
  /\ \A op \in DOMAIN Button : \A from \in Button[op].on, by \in Human :
       Legal(from, Operation[op].to, ActorFor(op, by), FALSE)
  /\ \A from \in Reached : canTransition(from, "APPROVED") => from = "ACTION_PROPOSED"
  /\ \A op \in DOMAIN Operation : op = "approve" <=> Operation[op].to = "APPROVED"
<1>1. DOMAIN Button \subseteq DOMAIN Operation
  BY DEF Button, Operation
<1>2. \A op \in DOMAIN Operation : Operation[op].to \in Reached
  BY DEF Reached
<1>3. ASSUME NEW op \in DOMAIN Button, NEW by \in Human,
             hasAtLeast(by, Button[op].least), op = "stage" => by # "OPERATOR"
      PROVE  hasAtLeast(by, Operation[op].least)
  BY <1>3 DEF Button, Operation, Human, hasAtLeast, HumanRank
<1>4. ASSUME NEW op \in DOMAIN Button, NEW from \in Button[op].on, NEW by \in Human
      PROVE  Legal(from, Operation[op].to, ActorFor(op, by), FALSE)
  <2> USE DEF Button, Operation, ActorFor
  <2>1. HumanActor(by) \in {"OPERATOR", "APPROVER"}
    BY DEF HumanActor
  <2>2. CASE op = "investigate"
    <3>1. from = "EXCEPTION"
      BY <2>2
    <3> QED
      BY <2>2, <3>1, MovesAreLegal
  <2>3. CASE op = "reinvestigate"
    <3>1. from \in {"REQUESTING_EVIDENCE", "REJECTED"}
      BY <2>3
    <3> QED
      BY <2>1, <2>3, <3>1, MovesAreLegal
  <2>4. CASE op = "escalate"
    <3>1. from \in {"EXCEPTION", "INVESTIGATING", "REQUESTING_EVIDENCE", "REJECTED",
                    "ACTION_PROPOSED"}
      BY <2>4
    <3> QED
      BY <2>1, <2>4, <3>1, MovesAreLegal
  <2>5. CASE op = "approve"
    <3>1. from = "ACTION_PROPOSED"
      BY <2>5
    <3> QED
      BY <2>5, <3>1, MovesAreLegal
  <2>6. CASE op = "stage"
    <3>1. from = "APPROVED"
      BY <2>6
    <3> QED
      BY <2>6, <3>1, MovesAreLegal
  <2> QED
    BY <2>2, <2>3, <2>4, <2>5, <2>6
<1>5. ASSUME NEW from \in Reached, canTransition(from, "APPROVED")
      PROVE  from = "ACTION_PROPOSED"
  BY <1>5 DEF Reached, Operation, canTransition, RulesFor, Transitions, rule, closing,
              SystemOnly, SysOp, OpApprover
<1>6. \A op \in DOMAIN Operation : op = "approve" <=> Operation[op].to = "APPROVED"
  BY DEF Operation
<1> QED
  BY <1>1, <1>2, <1>3, <1>4, <1>5, <1>6

----------------------------------------------------------------------------
(* The trail only grows, by one event or by those of an agent.             *)
Grows ==
  /\ trail' \in Seq(Event)
  /\ Len(trail) <= Len(trail')
  /\ \A i \in 1..Len(trail) : trail'[i] = trail[i]

LEMMA AppendedOne ==
  ASSUME trail \in Seq(Event), NEW e \in Event, trail' = Append(trail, e)
  PROVE  /\ Grows
         /\ Len(trail') = Len(trail) + 1
         /\ trail'[Len(trail')] = e
BY DEF Grows

LEMMA AppendedSome ==
  ASSUME trail \in Seq(Event), NEW n \in Nat,
         trail' = trail \o [i \in 1..n |-> AgentEvent]
  PROVE  /\ Grows
         /\ Len(trail') = Len(trail) + n
         /\ \A i \in Len(trail) + 1 .. Len(trail') : trail'[i] = AgentEvent
<1>1. AgentEvent \in Event
  BY DEF AgentEvent, Move, Event
<1>2. [i \in 1..n |-> AgentEvent] \in Seq(Event) /\ Len([i \in 1..n |-> AgentEvent]) = n
  BY <1>1
<1> QED
  BY <1>1, <1>2 DEF Grows

----------------------------------------------------------------------------
(* Types.                                                                  *)
LEMMA Limits == AuditPageLimit \in Nat /\ MaxFaults \in Nat /\ Users \subseteq Human
BY ConsoleAssumption

LEMMA ListingIsBounded ==
  ASSUME trail \in Seq(Event)
  PROVE  listForCase \in 0..AuditPageLimit /\ listForCase <= Len(trail)
<1>1. Len(trail) \in Nat /\ AuditPageLimit \in Nat
  BY Limits
<1>2. \E x \in {Len(trail), AuditPageLimit} : \A y \in {Len(trail), AuditPageLimit} : x =< y
  BY <1>1
<1>3. /\ listForCase \in {Len(trail), AuditPageLimit}
      /\ \A y \in {Len(trail), AuditPageLimit} : listForCase =< y
  BY <1>2 DEF listForCase, Min
<1> QED
  BY <1>1, <1>3

LEMMA InitTyped == Init => TypeOK
<1> SUFFICES ASSUME Init
             PROVE  TypeOK
  OBVIOUS
<1>1. NoPage \in Page
  BY Limits DEF NoPage, Page
<1>2. Opened \in TabState
  BY <1>1 DEF Opened, TabState
<1>3. case \in [state : Reached, version : Nat]
  BY DEF Init, Reached
<1>4. trail \in Seq(Event)
  BY DEF Init, Event, Move
<1> QED
  <2>1. tab \in [Tabs -> TabState]
    BY <1>2 DEF Init
  <2>2. server \in [Slots -> RequestState \cup {Idle}]
    BY DEF Init
  <2>3. user \in Users /\ faults \in 0..MaxFaults
    BY Limits DEF Init
  <2> QED
    BY <1>3, <1>4, <2>1, <2>2, <2>3 DEF TypeOK

(* Reads leave all but their tab alone; the tab stays typed.               *)
LEMMA ReadIsTyped ==
  ASSUME TypeOK, NEW t \in Tabs, NEW read, NEW next \in Page, Read(t, read, next),
         faults' \in 0..MaxFaults
  PROVE  TypeOK'
<1>1. tab[t] \in TabState
  BY DEF TypeOK
<1>2. NoPage \in Page
  BY Limits DEF NoPage, Page
<1> DEFINE left == tab[t].reads \ {read}
<1>3. left \in SUBSET Reads
  BY <1>1 DEF TabState
<1>4. [tab[t] EXCEPT !.reads = left, !.next = next] \in TabState
  BY <1>1, <1>3 DEF TabState
<1>5. [ page |-> next, next |-> NoPage, settling |-> FALSE, refresh |-> FALSE,
        reads |-> IF tab[t].refresh THEN Reads ELSE {} ] \in TabState
  BY <1>2 DEF TabState
<1>6. tab' \in [Tabs -> TabState]
  BY <1>4, <1>5 DEF Read, TypeOK
<1> QED
  BY <1>6 DEF Read, TypeOK

(* A tab that loads its page again.                                        *)
LEMMA Resettled ==
  ASSUME NEW x \in TabState, NEW again \in BOOLEAN
  PROVE  /\ [x EXCEPT !.reads = Reads, !.next = NoPage, !.settling = TRUE,
                      !.refresh = again] \in TabState
         /\ [x EXCEPT !.reads = Reads, !.next = NoPage, !.settling = TRUE] \in TabState
<1>1. NoPage \in Page
  BY Limits DEF NoPage, Page
<1> QED
  BY <1>1 DEF TabState

(* An answer frees its slot, and the tab stays typed.                      *)
LEMMA AnswerIsTyped ==
  ASSUME TypeOK, NEW s \in Slots, NEW status, Answer(s, status),
         case' = case, trail' \in Seq(Event), user' = user, faults' \in 0..MaxFaults
  PROVE  TypeOK'
<1>1. (status \in {"ok", "conflict"}) \in BOOLEAN
  OBVIOUS
<1>2. ASSUME NEW t \in Tabs
      PROVE  [ tab[t] EXCEPT !.reads = Reads, !.next = NoPage, !.settling = TRUE,
                             !.refresh = status \in {"ok", "conflict"} ] \in TabState
  BY <1>1, Resettled DEF TypeOK
<1>3. tab' \in [Tabs -> TabState]
  <2>1. CASE server[s].tab = NoTab
    BY <2>1 DEF Answer, TypeOK
  <2>2. CASE server[s].tab # NoTab
    BY <2>2, <1>2 DEF Answer, TypeOK
  <2> QED
    BY <2>1, <2>2
<1>4. server' \in [Slots -> RequestState \cup {Idle}]
  BY DEF Answer, TypeOK
<1> QED
  BY <1>3, <1>4 DEF TypeOK

(* A request of its type takes a slot.                                     *)
LEMMA EntersTyped ==
  ASSUME TypeOK, NEW request \in RequestState, Enters(request)
  PROVE  server' \in [Slots -> RequestState \cup {Idle}]
BY DEF Enters, TypeOK

LEMMA RequestIsTyped ==
  ASSUME TypeOK, NEW s \in Slots, server[s] # Idle
  PROVE  server[s] \in RequestState
BY DEF TypeOK

LEMMA BusyIsRequest ==
  ASSUME TypeOK, NEW s \in Slots, server[s].pc \in Pc
  PROVE  server[s] # Idle /\ server[s] \in RequestState
<1>1. server[s] # Idle
  BY DEF Idle, Pc
<1> QED
  BY <1>1, RequestIsTyped

(* The version a page shows is that of an event it lists, or 1.            *)
LEMMA ShownIsListed ==
  ASSUME TypeOK, ListingsHaveTops, NEW page \in Page, page.listed <= Len(trail)
  PROVE  /\ ShownVersion(page) \in Nat
         /\ \/ ShownVersion(page) = 1
            \/ \E i \in 1..page.listed : trail[i].version = ShownVersion(page)
<1> DEFINE versions == {e.version : e \in Listed(page)} \ {0}
<1>1. page.listed \in Nat /\ \A i \in 1..page.listed : trail[i] \in Event
  BY Limits DEF TypeOK, Page
<1>2. CASE versions = {}
  BY <1>2 DEF ShownVersion
<1>3. CASE versions # {}
  <2>1. \A v \in versions : \E i \in 1..page.listed : trail[i].version = v
    BY DEF Listed
  <2>2. \A i \in 1..page.listed : trail[i].version # 0 => trail[i].version \in versions
    BY DEF Listed
  <2>3. 0 \notin versions
    OBVIOUS
  <2> HIDE DEF versions
  <2>4. page.listed \in 1..Len(trail)
    BY <1>1, <1>3, <2>1 DEF TypeOK
  <2>5. PICK i \in 1..page.listed :
          \A j \in 1..page.listed : trail[j].version <= trail[i].version
    BY <2>4 DEF ListingsHaveTops
  <2>6. \A v \in versions : v <= trail[i].version /\ v \in Nat /\ v # 0
    BY <1>1, <2>1, <2>5, <2>3 DEF Event
  <2>7. trail[i].version \in versions
    BY <1>1, <1>3, <2>2, <2>5, <2>6 DEF Event
  <2>8. \A v \in versions : trail[i].version >= v
    BY <1>1, <2>5, <2>6 DEF Event
  <2>9. Max(versions) \in versions
    BY <2>7, <2>8 DEF Max
  <2>10. ShownVersion(page) = Max(versions)
    BY <1>3 DEF ShownVersion, versions
  <2> QED
    BY <2>1, <2>6, <2>9, <2>10
<1> QED
  BY <1>2, <1>3

LEMMA StepIsTyped ==
  ASSUME TypeOK, ListingsHaveTops, PagesAreOld, Next
  PROVE  TypeOK'
<1> USE DEF Pc
<1>0. /\ trail \in Seq(Event)
      /\ NoPage \in Page
      /\ faults \in 0..MaxFaults
      /\ case.version \in Nat /\ case.state \in Reached
      /\ Reached \subseteq CaseState
  <2>1. NoPage \in Page
    BY Limits DEF NoPage, Page
  <2>2. Reached \subseteq CaseState
    BY DEF Reached, Operation, CaseState
  <2> QED
    BY <2>1, <2>2 DEF TypeOK
<1>1. ASSUME NEW t \in Tabs, Load(t)
      PROVE  TypeOK'
  <2>1. tab[t].next \in Page
    BY DEF TypeOK, TabState
  <2>2. CASE ReadCase(t)
    <3>1. [tab[t].next EXCEPT !.state = case.state] \in Page
      BY <1>0, <2>1 DEF Page
    <3> QED
      BY <1>0, <2>2, <3>1, ReadIsTyped DEF ReadCase
  <2>3. CASE ReadAudit(t)
    <3>1. [tab[t].next EXCEPT !.listed = listForCase] \in Page
      BY <1>0, <2>1, ListingIsBounded DEF Page
    <3> QED
      BY <1>0, <2>3, <3>1, ReadIsTyped DEF ReadAudit
  <2>4. CASE FailRead(t)
    BY <1>0, <2>1, <2>4, ReadIsTyped, Limits DEF FailRead, Fault
  <2> QED
    BY <1>1, <2>2, <2>3, <2>4 DEF Load
<1>2. ASSUME NEW t \in Tabs, Reload(t)
      PROVE  TypeOK'
  <2>1. Opened \in TabState
    BY <1>0 DEF Opened, TabState
  <2>2. ASSUME NEW s \in Awaited(t)
        PROVE  [server[s] EXCEPT !.tab = NoTab] \in RequestState \cup {Idle}
    <3>1. CASE server[s] = Idle
      BY <3>1 DEF Idle
    <3>2. CASE server[s] # Idle
      BY <3>2, RequestIsTyped DEF RequestState, Awaited
    <3> QED
      BY <3>1, <3>2
  <2>3. tab' \in [Tabs -> TabState]
    BY <1>2, <2>1 DEF Reload, TypeOK
  <2>4. server' \in [Slots -> RequestState \cup {Idle}]
    BY <1>2, <2>2 DEF Reload, TypeOK
  <2> QED
    BY <1>2, <2>3, <2>4 DEF Reload, TypeOK
<1>3. ASSUME NEW t \in Tabs, NEW op \in DOMAIN Operation, Click(t, op)
      PROVE  TypeOK'
  <2>1. tab[t].page \in Page /\ user \in Human
    BY Limits DEF TypeOK, TabState
  <2>2. ShownVersion(tab[t].page) \in Nat
    BY <2>1, ShownIsListed DEF PagesAreOld
  <2> DEFINE request ==
        [ pc |-> "serve", op |-> op, by |-> user, to |-> Operation[op].to,
          version |-> ShownVersion(tab[t].page), tab |-> t, page |-> tab[t].page ]
  <2>3. request \in RequestState
    BY <2>1, <2>2, ButtonFacts DEF RequestState
  <2> HIDE DEF request
  <2>4. Enters(request) /\ UNCHANGED <<case, trail, user, tab, faults>>
    BY <1>3 DEF Click, request
  <2> QED
    BY <2>3, <2>4, EntersTyped DEF TypeOK
<1>4. ASSUME NEW op \in DOMAIN Operation, Elsewhere(op)
      PROVE  TypeOK'
  <2> DEFINE request ==
        [ pc |-> "audit", op |-> op, by |-> "APPROVER", to |-> Operation[op].to,
          version |-> case.version + 1, tab |-> NoTab, page |-> NoPage ]
  <2>1. request \in RequestState
    BY <1>0, ButtonFacts DEF RequestState, Human
  <2> HIDE DEF request
  <2>2. Enters(request) /\ UNCHANGED <<trail, user, tab, faults>>
    BY <1>4 DEF Elsewhere, request
  <2>3. case' \in [state : Reached, version : Nat]
    BY <1>0, <1>4, ButtonFacts DEF Elsewhere
  <2> QED
    BY <2>1, <2>2, <2>3, EntersTyped DEF TypeOK
<1>5. ASSUME NEW s \in Slots, Serve(s)
      PROVE  TypeOK'
  <2>1. server[s] \in RequestState
    BY <1>5, BusyIsRequest DEF Serve
  <2>2. case' \in [state : Reached, version : Nat]
    BY <1>0, <1>5, <2>1 DEF Serve, RequestState
  <2>3. [server[s] EXCEPT !.pc = "audit", !.page = NoPage, !.version = case.version + 1]
          \in RequestState
    <3>1. case.version + 1 \in Nat
      BY <1>0
    <3>2. [server[s] EXCEPT !.version = case.version + 1] \in RequestState
      BY <2>1, <3>1 DEF RequestState
    <3> QED
      BY <1>0, <2>1, <3>1 DEF RequestState
  <2>4. server' \in [Slots -> RequestState \cup {Idle}]
    BY <1>5, <2>3 DEF Serve, TypeOK
  <2> QED
    BY <1>5, <2>2, <2>4 DEF Serve, TypeOK
<1>6. ASSUME NEW s \in Slots, Refuse(s)
      PROVE  TypeOK'
  BY <1>0, <1>6, AnswerIsTyped DEF Refuse
<1>7. ASSUME NEW s \in Slots, AppendAudit(s)
      PROVE  TypeOK'
  <2>1. server[s] \in RequestState
    BY <1>7, BusyIsRequest DEF AppendAudit
  <2>2. Move(server[s].version, server[s].to = "ACTION_PROPOSED") \in Event
    BY <2>1 DEF RequestState, Move, Event
  <2>3. trail' \in Seq(Event)
    BY <1>0, <1>7, <2>2, AppendedOne DEF AppendAudit, Grows
  <2>4. CASE server' = [server EXCEPT ![s].pc = "agent"] /\ UNCHANGED tab
    <3>1. [server[s] EXCEPT !.pc = "agent"] \in RequestState
      BY <2>1 DEF RequestState
    <3> QED
      BY <1>7, <2>3, <2>4, <3>1 DEF AppendAudit, TypeOK
  <2>5. CASE Answer(s, "ok")
    BY <1>0, <1>7, <2>3, <2>5, AnswerIsTyped DEF AppendAudit
  <2> QED
    BY <1>7, <2>4, <2>5 DEF AppendAudit
<1>8. ASSUME NEW s \in Slots, NEW n \in AgentEvents, NEW to \in {"ACTION_PROPOSED", "ESCALATED"},
             RunAgent(s, n, to)
      PROVE  TypeOK'
  <2>1. server[s] \in RequestState
    BY <1>8, BusyIsRequest DEF RunAgent
  <2>2. n \in Nat /\ to \in Reached
    BY ConsoleAssumption DEF Reached, Operation
  <2>3. trail' \in Seq(Event)
    BY <1>0, <1>8, <2>2, AppendedSome DEF RunAgent, Grows
  <2>4. [server[s] EXCEPT !.pc = "conclude", !.to = to] \in RequestState
    BY <2>1, <2>2 DEF RequestState
  <2> QED
    BY <1>8, <2>3, <2>4 DEF RunAgent, TypeOK
<1>9. ASSUME NEW s \in Slots, NothingToLoad(s)
      PROVE  TypeOK'
  BY <1>0, <1>9, AnswerIsTyped DEF NothingToLoad
<1>10. ASSUME NEW s \in Slots, Crash(s)
      PROVE  TypeOK'
  BY <1>0, <1>10, AnswerIsTyped, Limits DEF Crash, Fault
<1>11. ASSUME NEW s \in Slots, LoseAnswer(s)
      PROVE  TypeOK'
  <2>1. ASSUME NEW t \in Tabs
        PROVE  [tab[t] EXCEPT !.reads = Reads, !.next = NoPage, !.settling = TRUE] \in TabState
    <3>1. TRUE \in BOOLEAN
      OBVIOUS
    <3> QED
      BY <3>1, Resettled DEF TypeOK
  <2>2. tab' \in [Tabs -> TabState]
    BY <1>11, <2>1 DEF LoseAnswer, TypeOK
  <2>3. server[s] # Idle
    BY <1>11 DEF LoseAnswer, Idle
  <2>4. [server[s] EXCEPT !.tab = NoTab] \in RequestState
    BY <2>3, RequestIsTyped DEF RequestState
  <2> QED
    BY <1>0, <1>11, <2>2, <2>4, Limits DEF LoseAnswer, Fault, TypeOK
<1> QED
  BY <1>1, <1>2, <1>3, <1>4, <1>5, <1>6, <1>7, <1>8, <1>9, <1>10, <1>11 DEF Next, Work

----------------------------------------------------------------------------
(* What steps leave as it was.  A request is kept when it is the same, or  *)
(* has passed on to the agent or the conclusion, or is over.               *)
Kept(s) ==
  server'[s] # Idle =>
    /\ server[s] # Idle
    /\ server'[s].page = server[s].page
    /\ server'[s].pc \in {"serve", "audit"} =>
         /\ server'[s].pc = server[s].pc
         /\ server'[s].op = server[s].op
         /\ server'[s].by = server[s].by
         /\ server'[s].to = server[s].to
         /\ server'[s].version = server[s].version

LEMMA SameIsKept == ASSUME NEW s, server'[s] = server[s] PROVE Kept(s)
BY DEF Kept

LEMMA AnswerKeeps ==
  ASSUME TypeOK, NEW s \in Slots, NEW status, Answer(s, status)
  PROVE  \A r \in Slots : Kept(r)
BY DEF Answer, Kept, TypeOK

(* Another tab means nothing to a request.                                 *)
LEMMA ForgottenIsKept ==
  ASSUME TypeOK, NEW s \in Slots, server'[s] = [server[s] EXCEPT !.tab = NoTab],
         server[s] # Idle
  PROVE  Kept(s)
<1>1. server[s] \in RequestState
  BY RequestIsTyped
<1> QED
  BY <1>1 DEF Kept, RequestState

(* All but the steps that start a request or make a move.                  *)
Works(s) ==
  \/ Refuse(s)
  \/ AppendAudit(s)
  \/ \E n \in AgentEvents, to \in {"ACTION_PROPOSED", "ESCALATED"} : RunAgent(s, n, to)
  \/ NothingToLoad(s)
  \/ Crash(s)
  \/ LoseAnswer(s)

LEMMA WorkKeeps ==
  ASSUME TypeOK, NEW s \in Slots, Works(s)
  PROVE  case' = case /\ \A r \in Slots : Kept(r)
<1>1. CASE Refuse(s) \/ NothingToLoad(s) \/ Crash(s)
  BY <1>1, AnswerKeeps DEF Refuse, NothingToLoad, Crash
<1>2. CASE AppendAudit(s)
  <2>1. CASE Answer(s, "ok")
    BY <1>2, <2>1, AnswerKeeps DEF AppendAudit
  <2>2. CASE server' = [server EXCEPT ![s].pc = "agent"]
    <3>1. server[s] \in RequestState /\ server[s] # Idle
      BY <1>2, BusyIsRequest DEF AppendAudit, Pc
    <3>2. Kept(s)
      BY <2>2, <3>1 DEF Kept, RequestState, TypeOK
    <3>3. \A r \in Slots : r # s => server'[r] = server[r]
      BY <2>2 DEF TypeOK
    <3> QED
      BY <1>2, <3>2, <3>3, SameIsKept DEF AppendAudit
  <2> QED
    BY <1>2, <2>1, <2>2 DEF AppendAudit
<1>3. ASSUME NEW n \in AgentEvents, NEW to \in {"ACTION_PROPOSED", "ESCALATED"},
             RunAgent(s, n, to)
      PROVE  case' = case /\ \A r \in Slots : Kept(r)
  <2>1. server[s] \in RequestState /\ server[s] # Idle
    BY <1>3, BusyIsRequest DEF RunAgent, Pc
  <2>2. Kept(s)
    BY <1>3, <2>1 DEF RunAgent, Kept, RequestState, TypeOK
  <2>3. \A r \in Slots : r # s => server'[r] = server[r]
    BY <1>3 DEF RunAgent, TypeOK
  <2> QED
    BY <1>3, <2>2, <2>3, SameIsKept DEF RunAgent
<1>4. CASE LoseAnswer(s)
  <2>1. server[s] # Idle
    BY <1>4 DEF LoseAnswer, Idle
  <2>2. \A r \in Slots : r # s => server'[r] = server[r]
    BY <1>4 DEF LoseAnswer, TypeOK
  <2>3. Kept(s)
    BY <1>4, <2>1, ForgottenIsKept DEF LoseAnswer, TypeOK
  <2> QED
    BY <1>4, <2>2, <2>3, SameIsKept DEF LoseAnswer
<1> QED
  BY <1>1, <1>2, <1>3, <1>4 DEF Works

LEMMA PageKeeps ==
  ASSUME TypeOK, NEW t \in Tabs, Load(t) \/ Reload(t)
  PROVE  case' = case /\ trail' = trail /\ \A r \in Slots : Kept(r)
<1>1. CASE Load(t)
  BY <1>1, SameIsKept DEF Load, ReadCase, ReadAudit, FailRead, Read
<1>2. CASE Reload(t)
  <2>1. ASSUME NEW r \in Slots
        PROVE  Kept(r)
    <3>1. CASE r \in Awaited(t)
      <4>1. server[r] # Idle \/ server'[r] = server[r]
        BY <1>2, <3>1 DEF Reload, Idle
      <4>2. server'[r] = [server[r] EXCEPT !.tab = NoTab]
        BY <1>2, <3>1 DEF Reload
      <4> QED
        BY <4>1, <4>2, ForgottenIsKept, SameIsKept
    <3>2. CASE r \notin Awaited(t)
      BY <1>2, <3>2, SameIsKept DEF Reload
    <3> QED
      BY <3>1, <3>2
  <2> QED
    BY <1>2, <2>1 DEF Reload
<1> QED
  BY <1>1, <1>2

----------------------------------------------------------------------------
(* The trail: what a step appends is what the agent leaves, or the event   *)
(* of one pending move.                                                    *)
ByAgent == \A i \in Len(trail) + 1 .. Len(trail') : trail'[i] = AgentEvent

ByMove ==
  \E s \in Slots :
    /\ server[s].pc = "audit"
    /\ Len(trail') = Len(trail) + 1
    /\ trail'[Len(trail')] = Move(server[s].version, server[s].to = "ACTION_PROPOSED")

LEMMA SameTrail ==
  ASSUME trail \in Seq(Event), trail' = trail
  PROVE  Grows /\ ByAgent
BY DEF Grows, ByAgent

LEMMA TrailGrows ==
  ASSUME TypeOK, Next
  PROVE  Grows /\ (ByAgent \/ ByMove)
<1>0. trail \in Seq(Event)
  BY DEF TypeOK
<1>1. ASSUME NEW s \in Slots, AppendAudit(s)
      PROVE  Grows /\ ByMove
  <2>1. server[s] \in RequestState
    BY <1>1, BusyIsRequest DEF AppendAudit, Pc
  <2>2. Move(server[s].version, server[s].to = "ACTION_PROPOSED") \in Event
    BY <2>1 DEF RequestState, Move, Event
  <2> QED
    BY <1>0, <1>1, <2>2, AppendedOne DEF AppendAudit, ByMove
<1>2. ASSUME NEW s \in Slots, NEW n \in AgentEvents,
             NEW to \in {"ACTION_PROPOSED", "ESCALATED"}, RunAgent(s, n, to)
      PROVE  Grows /\ ByAgent
  BY <1>0, <1>2, AppendedSome, ConsoleAssumption DEF RunAgent, ByAgent
<1>3. ASSUME NEW t \in Tabs,
             Load(t) \/ Reload(t) \/ \E op \in DOMAIN Operation : Click(t, op)
      PROVE  Grows /\ ByAgent
  <2>1. trail' = trail
    BY <1>3, PageKeeps DEF Click
  <2> QED
    BY <1>0, <2>1, SameTrail
<1>4. ASSUME NEW op \in DOMAIN Operation, Elsewhere(op)
      PROVE  Grows /\ ByAgent
  BY <1>0, <1>4, SameTrail DEF Elsewhere
<1>5. ASSUME NEW s \in Slots,
             Serve(s) \/ Refuse(s) \/ NothingToLoad(s) \/ Crash(s) \/ LoseAnswer(s)
      PROVE  Grows /\ ByAgent
  BY <1>0, <1>5, SameTrail DEF Serve, Refuse, NothingToLoad, Crash, LoseAnswer
<1> QED
  BY <1>1, <1>2, <1>3, <1>4, <1>5 DEF Next, Work

(* Among as many events there is a highest version, whether the last is    *)
(* higher than all before or not.                                          *)
LEMMA OneMoreTop ==
  ASSUME NEW n \in Nat, NEW seq, \A j \in 1..n + 1 : seq[j].version \in Nat,
         n # 0 => \E i \in 1..n : \A j \in 1..n : seq[j].version <= seq[i].version
  PROVE  \E i \in 1..n + 1 : \A j \in 1..n + 1 : seq[j].version <= seq[i].version
<1>1. n + 1 \in 1..n + 1 /\ 1..n + 1 = 1..n \cup {n + 1}
  OBVIOUS
<1>2. ASSUME \A j \in 1..n : seq[j].version <= seq[n + 1].version
      PROVE  \E i \in 1..n + 1 : \A j \in 1..n + 1 : seq[j].version <= seq[i].version
  <2>1. \A j \in 1..n + 1 : seq[j].version <= seq[n + 1].version
    BY <1>1, <1>2
  <2> QED
    BY <1>1, <2>1
<1>3. ASSUME NEW i \in 1..n, \A j \in 1..n : seq[j].version <= seq[i].version,
             seq[n + 1].version <= seq[i].version
      PROVE  \E k \in 1..n + 1 : \A j \in 1..n + 1 : seq[j].version <= seq[k].version
  <2>1. i \in 1..n + 1
    OBVIOUS
  <2>2. \A j \in 1..n + 1 : seq[j].version <= seq[i].version
    BY <1>1, <1>3
  <2> QED
    BY <2>1, <2>2
<1>4. CASE n = 0
  BY <1>2, <1>4
<1>5. CASE n # 0
  <2>1. PICK i \in 1..n : \A j \in 1..n : seq[j].version <= seq[i].version
    BY <1>5
  <2>2. seq[n + 1].version \in Nat /\ seq[i].version \in Nat
    BY <1>1
  <2>3. CASE seq[n + 1].version <= seq[i].version
    BY <1>3, <2>1, <2>3
  <2>4. CASE seq[i].version <= seq[n + 1].version
    <3>1. \A j \in 1..n : seq[j].version \in Nat
      BY <1>1
    <3>2. \A j \in 1..n : seq[j].version <= seq[n + 1].version
      BY <2>1, <2>2, <2>4, <3>1
    <3> QED
      BY <1>2, <3>2
  <2> QED
    BY <2>2, <2>3, <2>4
<1> QED
  BY <1>4, <1>5

LEMMA TopsStay ==
  ASSUME TypeOK, ListingsHaveTops, Grows, ByAgent \/ ByMove
  PROVE  ListingsHaveTops'
<1>1. /\ trail' \in Seq(Event)
      /\ Len(trail) \in Nat /\ Len(trail') \in Nat /\ Len(trail) <= Len(trail')
      /\ \A i \in 1..Len(trail) : trail'[i] = trail[i]
  BY DEF TypeOK, Grows
<1>2. \A i \in 1..Len(trail') : trail'[i].version \in Nat
  <2>1. \A i \in 1..Len(trail') : trail'[i] \in Event
    BY <1>1
  <2> QED
    BY <2>1 DEF Event
<1> DEFINE Top(n) == \E i \in 1..n : \A j \in 1..n : trail'[j].version <= trail'[i].version
<1>3. ASSUME NEW n \in 1..Len(trail)
      PROVE  Top(n)
  <2>1. PICK i \in 1..n : \A j \in 1..n : trail[j].version <= trail[i].version
    BY DEF ListingsHaveTops
  <2>2. \A j \in 1..n : trail'[j] = trail[j]
    BY <1>1
  <2>3. \A j \in 1..n : trail'[j].version <= trail'[i].version
    BY <2>1, <2>2
  <2> QED
    BY <2>3
<1>4. ASSUME NEW n \in 1..Len(trail'), n > Len(trail)
      PROVE  Top(n)
  <2>1. ASSUME Len(trail) # 0
        PROVE  Top(Len(trail))
    <3>1. Len(trail) \in 1..Len(trail)
      BY <1>1, <2>1
    <3> HIDE DEF Top
    <3> QED
      BY <1>3, <3>1
  <2>2. CASE ByMove
    <3>1. n = Len(trail) + 1 /\ n = Len(trail')
      BY <1>1, <1>4, <2>2 DEF ByMove
    <3> QED
      BY <1>1, <1>2, <2>1, <3>1, OneMoreTop
  <2>3. CASE ByAgent
    <3>1. \A i \in Len(trail) + 1 .. n : trail'[i].version = 0
      BY <1>1, <2>3 DEF ByAgent, AgentEvent, Move
    <3>2. CASE Len(trail) = 0
      <4>1. 1 \in 1..n /\ \A j \in 1..n : trail'[j].version = 0
        BY <1>1, <3>1, <3>2
      <4>2. \A j \in 1..n : trail'[j].version <= trail'[1].version
        BY <4>1
      <4> QED
        BY <4>1, <4>2
    <3>3. CASE Len(trail) # 0
      <4>1. PICK i \in 1..Len(trail) :
              \A j \in 1..Len(trail) : trail'[j].version <= trail'[i].version
        BY <2>1, <3>3
      <4>2. i \in 1..n /\ trail'[i].version \in Nat
        BY <1>1, <1>2, <1>4
      <4>3. \A j \in 1..n : trail'[j].version <= trail'[i].version
        BY <1>1, <3>1, <4>1, <4>2
      <4> QED
        BY <4>2, <4>3
    <3> QED
      BY <3>2, <3>3
  <2> QED
    BY <2>2, <2>3
<1>5. \A n \in 1..Len(trail') : n \in 1..Len(trail) \/ n > Len(trail)
  BY <1>1
<1>6. \A n \in 1..Len(trail') : Top(n)
  BY <1>3, <1>4, <1>5
<1> QED
  BY <1>6 DEF ListingsHaveTops

----------------------------------------------------------------------------
(* The pages: what a tab or a request has was listed when the trail was no *)
(* longer than it is.                                                      *)
LEMMA TabsStayOld ==
  ASSUME TypeOK, PagesAreOld, Next, Len(trail) <= Len(trail'), Len(trail') \in Nat, NEW t \in Tabs
  PROVE  tab'[t].page.listed <= Len(trail') /\ tab'[t].next.listed <= Len(trail')
<1> DEFINE Old(x) == x.page.listed <= Len(trail') /\ x.next.listed <= Len(trail')
<1>1. /\ trail \in Seq(Event) /\ Len(trail) \in Nat
      /\ \A u \in Tabs : /\ tab[u].page.listed \in Nat /\ tab[u].page.listed <= Len(trail)
                         /\ tab[u].next.listed \in Nat /\ tab[u].next.listed <= Len(trail)
  BY Limits DEF TypeOK, TabState, Page, PagesAreOld
<1>2. NoPage.listed <= Len(trail')
  BY DEF NoPage
<1>3. tab[t].page.listed <= Len(trail') /\ tab[t].next.listed <= Len(trail')
  BY <1>1
<1>4. ASSUME NEW u \in Tabs, NEW read, NEW next, next.listed <= Len(trail'), Read(u, read, next)
      PROVE  Old(tab'[t])
  <2>1. CASE t = u
    BY <1>2, <1>3, <1>4, <2>1 DEF Read, TypeOK, TabState
  <2>2. CASE t # u
    BY <1>3, <1>4, <2>2 DEF Read, TypeOK
  <2> QED
    BY <2>1, <2>2
<1>5. ASSUME NEW u \in Tabs, Load(u)
      PROVE  Old(tab'[t])
  <2>1. tab[u].next \in Page /\ tab[u].next.listed <= Len(trail')
    BY <1>1 DEF TypeOK, TabState
  <2>2. [tab[u].next EXCEPT !.state = case.state].listed <= Len(trail')
    BY <2>1 DEF Page
  <2>3. [tab[u].next EXCEPT !.listed = listForCase].listed <= Len(trail')
    BY <1>1, <2>1, ListingIsBounded, Limits DEF Page
  <2> QED
    BY <1>4, <1>5, <2>1, <2>2, <2>3 DEF Load, ReadCase, ReadAudit, FailRead
<1>6. ASSUME NEW u \in Tabs, Reload(u)
      PROVE  Old(tab'[t])
  BY <1>2, <1>3, <1>6 DEF Reload, TypeOK, Opened
<1>7. ASSUME NEW s \in Slots, NEW status, Answer(s, status)
      PROVE  Old(tab'[t])
  <2>1. CASE tab' = tab
    BY <1>3, <2>1
  <2>2. CASE tab' = [tab EXCEPT ![server[s].tab] =
                       [@ EXCEPT !.reads = Reads, !.next = NoPage, !.settling = TRUE,
                                 !.refresh = status \in {"ok", "conflict"}]]
    BY <1>2, <1>3, <2>2 DEF TypeOK, TabState
  <2> QED
    BY <1>7, <2>1, <2>2 DEF Answer
<1>8. ASSUME NEW s \in Slots, LoseAnswer(s)
      PROVE  Old(tab'[t])
  BY <1>2, <1>3, <1>8 DEF LoseAnswer, TypeOK, TabState
<1>9. tab' = tab => Old(tab'[t])
  BY <1>3
<1>10. ASSUME NEW s \in Slots, Work(s)
       PROVE  Old(tab'[t])
  BY <1>7, <1>9, <1>10 DEF Work, Serve, Refuse, AppendAudit, RunAgent, NothingToLoad
<1> HIDE DEF Old
<1>11. Old(tab'[t])
  BY <1>5, <1>6, <1>7, <1>8, <1>9, <1>10 DEF Next, Click, Elsewhere, Crash
<1> QED
  BY <1>11 DEF Old

(* What a click, another client's move and a served request put in a slot. *)
LEMMA ClickEnters ==
  ASSUME TypeOK, NEW t \in Tabs, NEW op \in DOMAIN Operation, Click(t, op)
  PROVE  /\ case' = case /\ trail' = trail
         /\ \E s \in Slots :
              /\ server'[s].pc = "serve" /\ server'[s].op = op /\ server'[s].by = user
              /\ server'[s].to = Operation[op].to
              /\ server'[s].version = ShownVersion(tab[t].page)
              /\ server'[s].page = tab[t].page
              /\ \A r \in Slots : r # s => server'[r] = server[r]
<1> DEFINE request ==
      [ pc |-> "serve", op |-> op, by |-> user, to |-> Operation[op].to,
        version |-> ShownVersion(tab[t].page), tab |-> t, page |-> tab[t].page ]
<1>1. Enters(request) /\ case' = case /\ trail' = trail
  BY DEF Click
<1>2. /\ request.pc = "serve" /\ request.op = op /\ request.by = user
      /\ request.to = Operation[op].to
      /\ request.version = ShownVersion(tab[t].page) /\ request.page = tab[t].page
  OBVIOUS
<1> HIDE DEF request
<1>3. PICK s \in Slots : server'[s] = request /\ \A r \in Slots : r # s => server'[r] = server[r]
  BY <1>1 DEF Enters, TypeOK
<1> QED
  BY <1>1, <1>2, <1>3

LEMMA ElsewhereEnters ==
  ASSUME TypeOK, NEW op \in DOMAIN Operation, Elsewhere(op)
  PROVE  /\ case' = [state |-> Operation[op].to, version |-> case.version + 1]
         /\ trail' = trail
         /\ \E s \in Slots :
              /\ server[s] = Idle /\ server'[s].pc = "audit"
              /\ server'[s].to = Operation[op].to
              /\ server'[s].version = case.version + 1
              /\ server'[s].page = NoPage
              /\ \A r \in Slots : r # s => server'[r] = server[r]
<1> DEFINE request ==
      [ pc |-> "audit", op |-> op, by |-> "APPROVER", to |-> Operation[op].to,
        version |-> case.version + 1, tab |-> NoTab, page |-> NoPage ]
<1>1. /\ Enters(request) /\ trail' = trail
      /\ case' = [state |-> Operation[op].to, version |-> case.version + 1]
  BY DEF Elsewhere
<1>2. /\ request.pc = "audit" /\ request.to = Operation[op].to
      /\ request.version = case.version + 1 /\ request.page = NoPage
  OBVIOUS
<1> HIDE DEF request
<1>3. PICK s \in Slots : /\ server[s] = Idle /\ server'[s] = request
                         /\ \A r \in Slots : r # s => server'[r] = server[r]
  BY <1>1 DEF Enters, TypeOK
<1> QED
  BY <1>1, <1>2, <1>3

LEMMA ServeMoves ==
  ASSUME TypeOK, NEW s \in Slots, Serve(s)
  PROVE  /\ server[s] \in RequestState
         /\ case' = [state |-> server[s].to, version |-> case.version + 1]
         /\ trail' = trail
         /\ server'[s].pc = "audit" /\ server'[s].page = NoPage
         /\ server'[s].to = server[s].to /\ server'[s].version = case.version + 1
         /\ \A r \in Slots : r # s => server'[r] = server[r]
<1>1. server[s] \in RequestState
  BY BusyIsRequest DEF Serve, Pc
<1> QED
  BY <1>1 DEF Serve, TypeOK, RequestState

(* The steps, by what they do to the requests.                             *)
LEMMA Steps ==
  ASSUME TypeOK, Next
  PROVE  \/ case' = case /\ \A r \in Slots : Kept(r)
         \/ \E t \in Tabs, op \in DOMAIN Operation : Click(t, op)
         \/ \E op \in DOMAIN Operation : Elsewhere(op)
         \/ \E s \in Slots : Serve(s)
<1>1. ASSUME NEW t \in Tabs, Load(t) \/ Reload(t)
      PROVE  case' = case /\ \A r \in Slots : Kept(r)
  BY <1>1, PageKeeps
<1>2. ASSUME NEW s \in Slots, Works(s)
      PROVE  case' = case /\ \A r \in Slots : Kept(r)
  BY <1>2, WorkKeeps
<1>3. \A s \in Slots : Work(s) \/ Crash(s) \/ LoseAnswer(s) => Serve(s) \/ Works(s)
  BY DEF Work, Works
<1> QED
  BY <1>1, <1>2, <1>3 DEF Next

LEMMA PagesStayOld ==
  ASSUME TypeOK, PagesAreOld, Next, Grows
  PROVE  PagesAreOld'
<1>1. Len(trail) \in Nat /\ Len(trail') \in Nat /\ Len(trail) <= Len(trail')
  BY DEF TypeOK, Grows
<1>2. \A t \in Tabs : tab'[t].page.listed <= Len(trail') /\ tab'[t].next.listed <= Len(trail')
  BY <1>1, TabsStayOld
<1>3. ASSUME NEW s \in Slots, server[s] # Idle
      PROVE  server[s].page.listed <= Len(trail')
  BY <1>1, <1>3, RequestIsTyped, Limits DEF PagesAreOld, RequestState, Page
<1>4. ASSUME NEW s \in Slots, Kept(s), server'[s] # Idle
      PROVE  server'[s].page.listed <= Len(trail')
  BY <1>3, <1>4 DEF Kept
<1>5. NoPage.listed <= Len(trail')
  BY <1>1 DEF NoPage
<1>6. ASSUME NEW t \in Tabs
      PROVE  tab[t].page.listed <= Len(trail')
  BY <1>1, Limits DEF PagesAreOld, TypeOK, TabState, Page
<1>7. \A s \in Slots : server'[s] # Idle => server'[s].page.listed <= Len(trail')
  <2>1. CASE \A r \in Slots : Kept(r)
    BY <1>4, <2>1
  <2>2. ASSUME NEW t \in Tabs, NEW op \in DOMAIN Operation, Click(t, op)
        PROVE  \A s \in Slots : server'[s] # Idle => server'[s].page.listed <= Len(trail')
    <3>1. PICK s \in Slots : /\ server'[s].page = tab[t].page
                             /\ \A r \in Slots : r # s => server'[r] = server[r]
      BY <2>2, ClickEnters
    <3>2. server'[s].page.listed <= Len(trail')
      BY <1>6, <3>1
    <3> QED
      BY <1>4, <3>1, <3>2, SameIsKept
  <2>3. ASSUME NEW op \in DOMAIN Operation, Elsewhere(op)
        PROVE  \A s \in Slots : server'[s] # Idle => server'[s].page.listed <= Len(trail')
    <3>1. PICK s \in Slots : /\ server'[s].page = NoPage
                             /\ \A r \in Slots : r # s => server'[r] = server[r]
      BY <2>3, ElsewhereEnters
    <3>2. server'[s].page.listed <= Len(trail')
      BY <1>5, <3>1
    <3> QED
      BY <1>4, <3>1, <3>2, SameIsKept
  <2>4. ASSUME NEW s \in Slots, Serve(s)
        PROVE  \A r \in Slots : server'[r] # Idle => server'[r].page.listed <= Len(trail')
    <3>1. server'[s].page = NoPage /\ \A r \in Slots : r # s => server'[r] = server[r]
      BY <2>4, ServeMoves
    <3>2. server'[s].page.listed <= Len(trail')
      BY <1>5, <3>1
    <3> QED
      BY <1>4, <3>1, <3>2, SameIsKept
  <2> QED
    BY <2>1, <2>2, <2>3, <2>4, Steps
<1> QED
  BY <1>2, <1>7 DEF PagesAreOld

----------------------------------------------------------------------------
(* The trail and the version of the case.                                  *)

LEMMA TrailStaysCurrent ==
  ASSUME TypeOK, TrailIsCurrent, Next, Grows, ByAgent \/ ByMove
  PROVE  TrailIsCurrent'
<1>1. /\ trail \in Seq(Event) /\ trail' \in Seq(Event)
      /\ Len(trail) \in Nat /\ Len(trail') \in Nat /\ Len(trail) <= Len(trail')
      /\ \A i \in 1..Len(trail) : trail'[i] = trail[i]
      /\ case.version \in Nat
  BY DEF TypeOK, Grows
<1>2. /\ \A i \in 1..Len(trail) : trail[i] \in Event
      /\ DOMAIN trail = 1..Len(trail) /\ DOMAIN trail' = 1..Len(trail')
  BY <1>1
<1>3. \A i \in 1..Len(trail) : trail[i].version \in Nat
  BY <1>2 DEF Event
<1>4. /\ case.version >= 1
      /\ case.version = 1 => case.state = "EXCEPTION"
      /\ \A i \in 1..Len(trail) : trail[i].version <= case.version
      /\ \A i \in 1..Len(trail) :
           trail[i].version = case.version /\ case.state = "ACTION_PROPOSED" => trail[i].proposal
      /\ \A s \in Slots : PendingIsCurrent(s)
  BY <1>2 DEF TrailIsCurrent, PendingIsCurrent
<1>5. ASSUME case' = case, \A s \in Slots : Kept(s)
      PROVE  TrailIsCurrent'
  <2>1. \A s \in Slots : PendingIsCurrent(s)'
    <3> TAKE s \in Slots
    <3>1. CASE server'[s] = Idle
      BY <3>1 DEF Idle, PendingIsCurrent
    <3>2. CASE server'[s] # Idle
      BY <1>4, <1>5, <3>2 DEF Kept, PendingIsCurrent
    <3> QED
      BY <3>1, <3>2
  <2>2. ASSUME NEW i \in 1..Len(trail'), i > Len(trail)
        PROVE  /\ trail'[i].version <= case.version
               /\ trail'[i].version = case.version /\ case.state = "ACTION_PROPOSED"
                    => trail'[i].proposal
    <3>1. CASE ByAgent
      <4>1. trail'[i] = AgentEvent
        BY <1>1, <2>2, <3>1 DEF ByAgent
      <4> QED
        BY <1>1, <1>4, <4>1 DEF AgentEvent, Move
    <3>2. CASE ByMove
      <4>1. PICK s \in Slots :
              /\ server[s].pc = "audit"
              /\ trail'[i] = Move(server[s].version, server[s].to = "ACTION_PROPOSED")
        BY <1>1, <2>2, <3>2 DEF ByMove
      <4>2. trail'[i].version = server[s].version
        BY <4>1 DEF Move
      <4>3. trail'[i].proposal = (server[s].to = "ACTION_PROPOSED")
        BY <4>1 DEF Move
      <4>4. trail'[i].version <= case.version
        BY <1>4, <4>1, <4>2 DEF PendingIsCurrent
      <4>5. ASSUME trail'[i].version = case.version, case.state = "ACTION_PROPOSED"
            PROVE  trail'[i].proposal
        <5>1. server[s].to = "ACTION_PROPOSED"
          BY <1>4, <4>1, <4>2, <4>5 DEF PendingIsCurrent
        <5> QED
          BY <4>3, <5>1, Zenon
      <4> QED
        BY <4>4, <4>5
    <3> QED
      BY <3>1, <3>2
  <2>3. \A i \in 1..Len(trail') : i \in 1..Len(trail) \/ i > Len(trail)
    BY <1>1
  <2>4. \A i \in 1..Len(trail') :
          /\ trail'[i].version <= case.version
          /\ trail'[i].version = case.version /\ case.state = "ACTION_PROPOSED"
               => trail'[i].proposal
    BY <1>1, <1>4, <2>2, <2>3
  <2> QED
    BY <1>2, <1>4, <1>5, <2>1, <2>4 DEF TrailIsCurrent, PendingIsCurrent
<1>6. ASSUME case'.version = case.version + 1, trail' = trail,
             \A s \in Slots : PendingIsCurrent(s)'
      PROVE  TrailIsCurrent'
  <2>1. case'.version >= 1 /\ case'.version # 1
    BY <1>1, <1>4, <1>6
  <2>2. \A i \in DOMAIN trail' :
          trail'[i].version <= case'.version /\ trail'[i].version # case'.version
    BY <1>1, <1>2, <1>3, <1>4, <1>6
  <2> QED
    BY <1>6, <2>1, <2>2 DEF TrailIsCurrent, PendingIsCurrent
<1>7. ASSUME NEW s \in Slots, server'[s] = server[s], case'.version = case.version + 1
      PROVE  PendingIsCurrent(s)'
  <2>1. server[s].pc = "audit" => server[s].version \in Nat
    BY BusyIsRequest DEF RequestState, Pc
  <2> QED
    BY <1>1, <1>4, <1>7, <2>1 DEF PendingIsCurrent
<1>8. ASSUME NEW t \in Tabs, NEW op \in DOMAIN Operation, Click(t, op)
      PROVE  TrailIsCurrent'
  <2>1. PICK s \in Slots :
          server'[s].pc = "serve" /\ \A r \in Slots : r # s => server'[r] = server[r]
    BY <1>8, ClickEnters
  <2>2. case' = case /\ trail' = trail
    BY <1>8, ClickEnters
  <2>3. \A r \in Slots : PendingIsCurrent(r)'
    BY <1>4, <2>1, <2>2 DEF PendingIsCurrent
  <2> QED
    BY <1>2, <1>4, <2>2, <2>3 DEF TrailIsCurrent, PendingIsCurrent
<1>9. ASSUME NEW op \in DOMAIN Operation, Elsewhere(op)
      PROVE  TrailIsCurrent'
  <2>1. case' = [state |-> Operation[op].to, version |-> case.version + 1] /\ trail' = trail
    BY <1>9, ElsewhereEnters
  <2>2. PICK s \in Slots :
          /\ server'[s].version = case.version + 1 /\ server'[s].to = Operation[op].to
          /\ \A r \in Slots : r # s => server'[r] = server[r]
    BY <1>9, ElsewhereEnters
  <2>3. PendingIsCurrent(s)'
    BY <1>1, <2>1, <2>2 DEF PendingIsCurrent
  <2> QED
    BY <1>6, <1>7, <2>1, <2>2, <2>3
<1>10. ASSUME NEW s \in Slots, Serve(s)
       PROVE  TrailIsCurrent'
  <2>1. case' = [state |-> server[s].to, version |-> case.version + 1] /\ trail' = trail
    BY <1>10, ServeMoves
  <2>2. /\ server'[s].version = case.version + 1 /\ server'[s].to = server[s].to
        /\ \A r \in Slots : r # s => server'[r] = server[r]
    BY <1>10, ServeMoves
  <2>3. PendingIsCurrent(s)'
    BY <1>1, <2>1, <2>2 DEF PendingIsCurrent
  <2> QED
    BY <1>6, <1>7, <2>1, <2>2, <2>3
<1> QED
  BY <1>5, <1>8, <1>9, <1>10, Steps

----------------------------------------------------------------------------
(* Requests made on a page.                                                *)

LEMMA PagesAreCarried ==
  ASSUME TypeOK, PagesAreOld, CarriesItsPage, Next, Grows
  PROVE  CarriesItsPage'
<1>1. ASSUME NEW s \in Slots, Kept(s)
      PROVE  CarriesPage(s)'
  <2> SUFFICES ASSUME FromPage(s)'
               PROVE  CarriesPage(s)'
    BY DEF CarriesPage
  <2>1. /\ server[s] # Idle /\ server'[s].page = server[s].page
        /\ server[s].pc = "serve"
        /\ server'[s].op = server[s].op /\ server'[s].by = server[s].by
        /\ server'[s].to = server[s].to /\ server'[s].version = server[s].version
    BY <1>1 DEF Kept, FromPage, Idle
  <2>2. FromPage(s)
    BY <2>1 DEF FromPage
  <2>3. CarriesPage(s)
    BY <2>2 DEF CarriesItsPage, CarriesPage
  <2>4. server[s].page \in Page /\ server[s].page.listed <= Len(trail)
    BY <2>1, RequestIsTyped DEF PagesAreOld, RequestState
  <2>5. \A i \in 1..server[s].page.listed : trail'[i] = trail[i]
    BY <2>4, Limits DEF Page, TypeOK, Grows
  <2>6. server'[s].version = ShownVersion(server[s].page)'
    <3>1. server[s].version = ShownVersion(server[s].page)
      BY <2>2, <2>3 DEF CarriesPage
    <3>2. Listed(server[s].page)' = Listed(server[s].page)
      BY <2>1, <2>5 DEF Listed
    <3> QED
      BY <2>1, <3>1, <3>2 DEF ShownVersion
  <2> QED
    BY <2>1, <2>2, <2>3, <2>6 DEF CarriesPage
<1>2. ASSUME NEW t \in Tabs, NEW op \in DOMAIN Operation, Click(t, op)
      PROVE  \A s \in Slots : CarriesPage(s)'
  <2>1. PICK s \in Slots :
          /\ server'[s].pc = "serve" /\ server'[s].op = op /\ server'[s].by = user
          /\ server'[s].to = Operation[op].to
          /\ server'[s].version = ShownVersion(tab[t].page)
          /\ server'[s].page = tab[t].page
          /\ \A r \in Slots : r # s => server'[r] = server[r]
    BY <1>2, ClickEnters
  <2>2. /\ op \in DOMAIN Button /\ tab[t].page.state \in Button[op].on
        /\ hasAtLeast(user, Button[op].least)
    BY <1>2 DEF Click, Offered
  <2>3. Listed(server[s].page)' = Listed(tab[t].page)
    BY <1>2, <2>1, ClickEnters DEF Listed
  <2>4. server'[s].version = ShownVersion(server[s].page)'
    BY <2>1, <2>3 DEF ShownVersion
  <2>5. CarriesPage(s)'
    BY <2>1, <2>2, <2>4 DEF CarriesPage
  <2> QED
    BY <1>1, <2>1, <2>5, SameIsKept
<1>3. ASSUME NEW op \in DOMAIN Operation, Elsewhere(op)
      PROVE  \A s \in Slots : CarriesPage(s)'
  <2>1. PICK s \in Slots :
          server'[s].pc = "audit" /\ \A r \in Slots : r # s => server'[r] = server[r]
    BY <1>3, ElsewhereEnters
  <2>2. CarriesPage(s)'
    BY <2>1 DEF CarriesPage, FromPage
  <2> QED
    BY <1>1, <2>1, <2>2, SameIsKept
<1>4. ASSUME NEW s \in Slots, Serve(s)
      PROVE  \A r \in Slots : CarriesPage(r)'
  <2>1. CarriesPage(s)'
    BY <1>4, ServeMoves DEF CarriesPage, FromPage
  <2> QED
    BY <1>1, <1>4, <2>1, ServeMoves, SameIsKept
<1>5. \A s \in Slots : CarriesPage(s)'
  BY <1>1, <1>2, <1>3, <1>4, Steps
<1> QED
  BY <1>5 DEF CarriesItsPage, CarriesPage

(* A request that carries its page, of a case that is as the page has it,  *)
(* is what the API accepts.                                                *)
LEMMA CarriedIsHonoured ==
  ASSUME TypeOK, CarriesItsPage
  PROVE  OffersAreHonoured
<1> SUFFICES ASSUME NEW s \in Slots, FromPage(s),
                    server[s].page.state = case.state, server[s].version = case.version,
                    server[s].op = "stage" => server[s].by # "OPERATOR"
             PROVE  Accepts(s)
  BY DEF OffersAreHonoured
<1>1. server[s] \in RequestState /\ server[s].pc = "serve"
  BY BusyIsRequest DEF FromPage, Pc
<1>2. /\ server[s].op \in DOMAIN Button /\ server[s].by \in Human
      /\ case.state \in Button[server[s].op].on
      /\ hasAtLeast(server[s].by, Button[server[s].op].least)
      /\ server[s].to = Operation[server[s].op].to
  BY <1>1 DEF CarriesItsPage, CarriesPage, RequestState
<1>3. hasAtLeast(server[s].by, Operation[server[s].op].least)
  BY <1>2, ButtonFacts
<1>4. Legal(case.state, server[s].to, ActorFor(server[s].op, server[s].by), FALSE)
  BY <1>2, ButtonFacts
<1> QED
  BY <1>1, <1>3, <1>4 DEF Accepts

----------------------------------------------------------------------------
(* The invariant.                                                          *)
LEMMA InitHolds == Init => ConsoleInv
<1> SUFFICES ASSUME Init
             PROVE  ConsoleInv
  OBVIOUS
<1>1. TypeOK
  BY InitTyped
<1>2. /\ trail = <<Move(1, FALSE)>> /\ Len(trail) = 1 /\ trail[1] = Move(1, FALSE)
      /\ DOMAIN trail = 1..1 /\ Move(1, FALSE).version = 1
      /\ case.state = "EXCEPTION" /\ case.version = 1
      /\ \A s \in Slots : server[s] = Idle /\ server[s].pc = "idle"
      /\ \A t \in Tabs : tab[t].page.listed = 0 /\ tab[t].next.listed = 0
  BY DEF Init, Move, Idle, Opened, NoPage
<1>3. \A i \in 1..1 : trail[i].version = 1
  <2>1. trail[1].version = 1
    BY <1>2
  <2>2. \A i \in 1..1 : i = 1
    OBVIOUS
  <2> QED
    BY <2>1, <2>2
<1>4. TrailIsCurrent
  <2>1. \A s \in Slots : server[s].pc # "audit"
    BY <1>2
  <2>2. \A i \in DOMAIN trail : trail[i].version <= case.version
    <3>1. DOMAIN trail = 1..1 /\ case.version = 1
      BY <1>2
    <3> QED
      BY <1>3, <3>1
  <2>3. case.version >= 1 /\ case.state # "ACTION_PROPOSED"
    BY <1>2
  <2> QED
    BY <1>2, <2>1, <2>2, <2>3 DEF TrailIsCurrent, PendingIsCurrent
<1>5. ListingsHaveTops
  <2> SUFFICES ASSUME NEW n \in 1..Len(trail)
               PROVE  \E i \in 1..n : \A j \in 1..n : trail[j].version <= trail[i].version
    BY DEF ListingsHaveTops
  <2>1. n = 1
    BY <1>2
  <2> QED
    BY <1>3, <2>1
<1>6. PagesAreOld
  BY <1>2 DEF PagesAreOld
<1>7. CarriesItsPage
  BY <1>2 DEF CarriesItsPage, CarriesPage, FromPage
<1> QED
  BY <1>1, <1>4, <1>5, <1>6, <1>7, CarriedIsHonoured DEF ConsoleInv

LEMMA NextKeeps == ConsoleInv /\ [Next]_vars => ConsoleInv'
<1> SUFFICES ASSUME ConsoleInv, [Next]_vars
             PROVE  ConsoleInv'
  OBVIOUS
<1> USE DEF ConsoleInv
<1>1. CASE Next
  <2>1. TypeOK'
    BY <1>1, StepIsTyped
  <2>2. Grows /\ (ByAgent \/ ByMove)
    BY <1>1, TrailGrows
  <2>3. TrailIsCurrent'
    BY <1>1, <2>2, TrailStaysCurrent
  <2>4. ListingsHaveTops'
    BY <2>2, TopsStay
  <2>5. PagesAreOld'
    BY <1>1, <2>2, PagesStayOld
  <2>6. CarriesItsPage'
    BY <1>1, <2>2, PagesAreCarried
  <2>7. OffersAreHonoured'
    BY <2>1, <2>6, CarriedIsHonoured, PTL
  <2> QED
    BY <2>1, <2>3, <2>4, <2>5, <2>6, <2>7
<1>2. CASE UNCHANGED vars
  <2> USE <1>2 DEF vars
  <2>1. TypeOK'
    BY DEF TypeOK
  <2>2. TrailIsCurrent'
    BY DEF TrailIsCurrent, PendingIsCurrent
  <2>3. ListingsHaveTops'
    BY DEF ListingsHaveTops
  <2>4. PagesAreOld'
    BY DEF PagesAreOld
  <2>5. CarriesItsPage'
    <3> USE DEF CarriesItsPage, CarriesPage
    <3> TAKE s \in Slots
    <3>1. Listed(server[s].page)' = Listed(server[s].page)
      BY DEF Listed
    <3>2. ShownVersion(server[s].page)' = ShownVersion(server[s].page)
      BY <3>1 DEF ShownVersion
    <3>3. FromPage(s)' => FromPage(s)
      BY DEF FromPage
    <3> QED
      BY <3>2, <3>3
  <2>6. OffersAreHonoured'
    BY <2>1, <2>5, CarriedIsHonoured, PTL
  <2> QED
    BY <2>1, <2>2, <2>3, <2>4, <2>5, <2>6
<1> QED
  BY <1>1, <1>2

(* The page never sends what it did not show and a page of the case as it  *)
(* stands offers nothing the API refuses (staging by an OPERATOR apart),   *)
(* with any number of tabs and requests and whatever is lost or fails.     *)
THEOREM Invariance == Spec => []ConsoleInv
<1> QED
  BY InitHolds, NextKeeps, PTL DEF Spec

(* An approval that takes effect was given on a page that listed the very  *)
(* proposal it approves.                                                   *)
THEOREM ApprovalsInformed == Spec => ApprovalsAreInformed
<1>1. ASSUME ConsoleInv, Next, NEW s \in Slots, Approves(s)
      PROVE  \E e \in Listed(server[s].page) : e.proposal /\ e.version = case.version
  <2> USE DEF ConsoleInv
  <2>1. /\ server[s].pc = "serve" /\ server[s].op = "approve" /\ server'[s].pc = "audit"
        /\ server[s] # Idle /\ server[s] \in RequestState
    BY <1>1, BusyIsRequest DEF Approves, FromPage, Pc
  <2>2. Serve(s)
    <3>1. ~Kept(s)
      BY <2>1 DEF Kept, Idle
    <3>2. ASSUME NEW t \in Tabs, NEW op \in DOMAIN Operation, Click(t, op)
          PROVE  FALSE
      BY <1>1, <2>1, <3>1, <3>2, ClickEnters, SameIsKept
    <3>3. ASSUME NEW op \in DOMAIN Operation, Elsewhere(op)
          PROVE  FALSE
      BY <1>1, <2>1, <3>1, <3>3, ElsewhereEnters, SameIsKept
    <3>4. ASSUME NEW r \in Slots, Serve(r), r # s
          PROVE  FALSE
      BY <1>1, <3>1, <3>4, ServeMoves, SameIsKept
    <3> QED
      BY <1>1, <3>1, <3>2, <3>3, <3>4, Steps
  <2>3. /\ case.version = server[s].version
        /\ canTransition(case.state, "APPROVED")
    <3>1. server[s].to = "APPROVED"
      BY <1>1, <2>1, ButtonFacts DEF Approves, CarriesItsPage, CarriesPage
    <3> QED
      BY <2>2, <3>1 DEF Serve, Accepts, Legal
  <2>4. case.state = "ACTION_PROPOSED"
    BY <1>1, <2>3, ButtonFacts DEF TypeOK
  <2>5. server[s].page \in Page /\ server[s].page.listed <= Len(trail)
    BY <1>1, <2>1 DEF RequestState, PagesAreOld
  <2>6. case.version = ShownVersion(server[s].page) /\ case.version # 1
    BY <1>1, <2>3, <2>4 DEF Approves, CarriesItsPage, CarriesPage, TrailIsCurrent, PendingIsCurrent
  <2>7. PICK i \in 1..server[s].page.listed : trail[i].version = case.version
    BY <1>1, <2>5, <2>6, ShownIsListed
  <2>8. i \in DOMAIN trail
    BY <1>1, <2>5, Limits DEF TypeOK, Page
  <2>9. trail[i].proposal
    BY <1>1, <2>4, <2>7, <2>8 DEF TrailIsCurrent, PendingIsCurrent
  <2> QED
    BY <2>7, <2>9 DEF Listed
<1>2. ASSUME ConsoleInv, [Next]_vars
      PROVE  [\A s \in Slots : Approves(s) =>
                \E e \in Listed(server[s].page) : e.proposal /\ e.version = case.version]_vars
  BY <1>1, <1>2
<1> QED
  BY <1>2, Invariance, PTL DEF Spec, ApprovalsAreInformed
=============================================================================
