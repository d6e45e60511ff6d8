\* A worker that was taken for dead fails the job another has claimed.
SPECIFICATION Spec
CONSTANTS
  j1 = j1
  j2 = j2
  w1 = w1
  w2 = w2
  w3 = w3
  Jobs <- OneJob
  Workers <- TwoWorkers
  Handles <- HandleAll
  MAX_ATTEMPTS = 2
PROPERTY
  LiveWorkIsKept
