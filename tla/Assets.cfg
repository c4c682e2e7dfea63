\* A planet and a moon through three releases in any order, with failures, crashes and rollbacks.
CONSTANTS
  planet = planet
  moon = moon
  p1 = p1
  p2 = p2
  p3 = p3
  s1 = s1
  s2 = s2
  Planet = planet
  Moons = {moon}
  Releases = 3
  Contains <- ThreeReleases
  AutoRollback = TRUE
  MayCrash = TRUE
  Absent = Absent
  Torn = Torn
SPECIFICATION FairSpec
INVARIANT AssetsTypeOK TagMeansSynced
PROPERTY OnlyRollbackTears EventuallySynced
