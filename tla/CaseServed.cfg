\* Nothing fails, but the agent cannot load one of the cases: what every request promises once it reaches its end.
SPECIFICATION FairSpec
CONSTANTS
  c1 = c1
  c2 = c2
  r1 = r1
  r2 = r2
  Cases <- TwoCases
  Requests <- TwoRequests
  ClientVersions <- SawUpTo3
  AiSettings <- Switchable
  Unloadable <- SecondCase
  MayCrash = FALSE
INVARIANTS
  AuditHasNoGaps
  EvidenceIsAsked
PROPERTIES
  InvestigationsConclude
