\* The property is violated: see the findings.
CONSTANTS
  ra = ra
  rb = rb
  mac = mac
  group = group
  k1 = k1
  k2 = k2
  k3 = k3
  outbound = outbound
  loop = loop
  Remotes = {ra, rb}
  Macs = {mac}
  Group = group
  Conns = {k1, k2, k3}
  RemoteOf <- Ends3
  Outbound = outbound
  Loop = loop
  Absent = Absent
SPECIFICATION Spec
INVARIANT LostAreForgotten
CHECK_DEADLOCK FALSE
