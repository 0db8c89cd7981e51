CONSTANTS
  r1 = r1 r2 = r2 n1 = n1 n2 = n2
  Run = {r1, r2} Number = {n1, n2} Request = {q1, q2}
  File <- MCFile NoRun = NoRun Other = Other
  MaxRetries = 1 MaxFaults = 0
SPECIFICATION FairSpec
PROPERTIES QueuedEnds
CHECK_DEADLOCK FALSE
