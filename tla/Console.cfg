\* One tab and two requests at a time: the tab's and another client's, or the
\* tab's and one whose answer it has lost.
SPECIFICATION FairSpec
CONSTANTS
  t1 = t1
  Tabs <- OneTab
  MaxRequests = 2
  Users <- OperatorOrApprover
  AuditPageLimit = 5
  AgentEvents <- JustOne
  MaxVersion = 4
  MaxFaults = 1
INVARIANTS
  ConsoleInv
PROPERTIES
  ApprovalsAreInformed
  EscalationGetsThrough
