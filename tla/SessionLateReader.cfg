\* The property is violated: see the findings.
CONSTANTS
  cli = cli
  srv = srv
  k1 = k1
  k2 = k2
  Nodes = {cli, srv}
  Clients = {cli}
  Servers = {srv}
  Dialable = {srv}
  Conns = {k1, k2}
  Verifiers = {srv}
  MayRemove = FALSE
  LateReaders = TRUE
  Absent = Absent
SPECIFICATION FairSpec
PROPERTY EventuallyServed
