\* Two jobs, and three workers, one of which takes one type only: enough to bring
\* a job back beyond the ceiling.
SPECIFICATION FairSpec
CONSTANTS
  j1 = j1
  j2 = j2
  w1 = w1
  w2 = w2
  w3 = w3
  Jobs <- TwoJobs
  Workers <- ThreeWorkers
  Handles <- HandleOne
  MAX_ATTEMPTS = 2
INVARIANTS
  QueueInv
  ClaimsAreDistinct
  TriesAreBounded
PROPERTIES
  EveryJobSettles
