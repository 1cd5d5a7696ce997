CONSTANTS
  a = a
  b = b
  note = note
  w1 = w1
  w2 = w2
  Nil = Nil
  Fields <- TwoFields
  Notes <- OneNote
  Values <- TwoValues
  Initial = a
  Workers <- TwoWorkers
  MaxJobs = 3
  MaxTries = 1
SPECIFICATION FairSpec
INVARIANTS TypeOK IndexHoldsQueuedValues SmoothIndexMatches
PROPERTIES SearchSettles
CHECK_DEADLOCK FALSE
