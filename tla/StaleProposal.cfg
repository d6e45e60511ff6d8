\* Nothing fails, and the audit trail fits the listing: an approver's page of a
\* case that has come to a second proposal.
SPECIFICATION Spec
CONSTANTS
  t1 = t1
  Tabs <- OneTab
  MaxRequests = 1
  Users <- OperatorOrApprover
  AuditPageLimit = 8
  AgentEvents <- JustOne
  MaxVersion = 7
  MaxFaults = 0
PROPERTIES
  ApprovesWhatIsShown
CHECK_DEADLOCK FALSE
