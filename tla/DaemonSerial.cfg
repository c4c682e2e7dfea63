\* Handlers one at a time, QUIC only, no restart, flags fixed.
CONSTANTS
  quic = quic
  udp = udp
  rest1 = rest1
  n1 = n1
  a1 = a1
  a2 = a2
  lan = lan
  all = all
  Networks = {n1}
  Tasks = {quic, udp, rest1}
  QuicTask = quic
  UdpTask = udp
  RestTasks = {rest1}
  Transports = {"quic"}
  Addresses = {a1, a2}
  Targets = {lan, all}
  DefaultRoutes = {all}
  Configs <- RichConfigs
  Updates <- PauseResume
  Lens = {24, 128}
  LanLen <- Lan24
  RemoveLen <- FixedLen
  Overlap = FALSE
  MayRestart = FALSE
  Absent = Absent
  Empty = Empty
  Garbled = Garbled
SPECIFICATION FairSpec
INVARIANT DaemonTypeOK InterfaceMatches
PROPERTY EventuallyConfigured
