\* Calls overlap and the process dies at any point.
CONSTANTS
  t1 = t1
  t2 = t2
  n1 = n1
  n2 = n2
  m1 = m1
  m2 = m2
  a1 = a1
  a2 = a2
  b1 = b1
  b2 = b2
  Networks = {n1}
  Members = {m1}
  Tasks = {t1, t2}
  V4Pool <- TwoAddresses
  V6Probes <- Colliding
  Patches <- OnlyAuthorize
  NetPatches <- TwoSetups
  Overlap = TRUE
  MayCrash = TRUE
  Absent = Absent
  Empty = Empty
  Garbled = Garbled
SPECIFICATION FairSpec
INVARIANT OnlyGranted HoldersGoOn
PROPERTY CallsReturn
