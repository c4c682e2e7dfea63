\* A worker, two REST calls, drifting and failing DNS, restarts.
CONSTANTS
  root = root
  boot = boot
  worker = worker
  rest = rest
  rest2 = rest2
  ip1 = ip1
  ip2 = ip2
  Domains = {root}
  Default = root
  Answers = {ip1, ip2}
  Boot = boot
  Checkers = {worker}
  Callers = {rest, rest2}
  MayRestart = TRUE
  Absent = Absent
  Empty = Empty
  Garbled = Garbled
SPECIFICATION FairSpec
INVARIANT ResolverTypeOK GhostsRaced FileMatches
PROPERTY KeepsLastKnownGood EventuallyResolved
