\* Handlers overlap and the daemon restarts at any time; UDP carries configuration.
CONSTANTS
  quic = quic
  udp = udp
  rest1 = rest1
  n1 = n1
  a1 = a1
  a2 = a2
  lan = lan
  all = all
  Networks = {n1}
  Tasks = {quic, udp, rest1}
  QuicTask = quic
  UdpTask = udp
  RestTasks = {rest1}
  Transports = {"udp"}
  Addresses = {a1}
  Targets = {lan}
  DefaultRoutes = {}
  Configs <- OneConfig
  Updates <- Pauses
  Lens = {24, 128}
  LanLen <- Lan24
  RemoveLen <- FixedLen
  Overlap = TRUE
  MayRestart = TRUE
  Absent = Absent
  Empty = Empty
  Garbled = Garbled
SPECIFICATION DaemonSpec
INVARIANT TypeOK Durable MembershipSurvives
PROPERTY ImplementsDurableTable Spec OnlyUsersDecide
