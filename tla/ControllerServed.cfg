\* The property is violated: see the findings.
CONSTANTS
  t1 = t1
  t2 = t2
  n1 = n1
  n2 = n2
  m1 = m1
  m2 = m2
  a1 = a1
  a2 = a2
  b1 = b1
  b2 = b2
  Networks = {n1}
  Members = {m1, m2}
  Tasks = {t1, t2}
  V4Pool <- TwoAddresses
  V6Probes <- Colliding
  Patches <- OnlyAuthorize
  NetPatches <- LateSetup
  Overlap = FALSE
  MayCrash = FALSE
  Absent = Absent
  Empty = Empty
  Garbled = Garbled
SPECIFICATION Spec
INVARIANT ServedUnique
