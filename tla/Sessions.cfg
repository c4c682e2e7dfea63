\* A client and its controller: replaced, lost and restarted sessions.
CONSTANTS
  cli = cli
  srv = srv
  k1 = k1
  k2 = k2
  Nodes = {cli, srv}
  Clients = {cli}
  Servers = {srv}
  Dialable = {srv}
  Conns = {k1, k2}
  Verifiers = {srv}
  MayRemove = FALSE
  LateReaders = FALSE
  Absent = Absent
SPECIFICATION FairSpec
INVARIANT SessionsTypeOK ActiveSession AnnouncedIsProven
PROPERTY EventuallyServed ImplementsChallengeResponse
