\* Two requests race over one case; processes may die at any statement; there
\* are versions enough for a second investigation.
SPECIFICATION Spec
CONSTANTS
  c1 = c1
  c2 = c2
  r1 = r1
  r2 = r2
  Cases <- OneCase
  Requests <- TwoRequests
  ClientVersions <- SawUpTo6
  AiSettings <- Switchable
  Unloadable <- NoCase
  MayCrash = TRUE
SYMMETRY RequestSymmetry
INVARIANTS
  IInv
  AuditIsAPath
  RunningIsCurrent
  StartNeverCollides
  ProposalIsVerified
  DecidedOnWhatWasSeen
PROPERTIES
  EscalatedIsFinal
  ImplementsLifecycle
