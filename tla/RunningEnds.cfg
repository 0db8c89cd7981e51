CONSTANTS
  r1 = r1 r2 = r2 n1 = n1 n2 = n2
  Run = {r1, r2} Number = {n1, n2} Request = {q1}
  File <- MCFile NoRun = NoRun Other = Other
  MaxRetries = 1 MaxFaults = 1
SPECIFICATION FairSpec
PROPERTIES RunningEnds
CHECK_DEADLOCK FALSE
