SPECIFICATION FairSpec
CONSTANTS
  Ids = {i1, i2}
  Requests = {r1, r2}
  Lifetime = 1
  MaxClock = 3
  Absent = Absent
INVARIANTS
  TypeOK
  RevokedNeverServed
PROPERTIES
  NoResurrection
  ServiceSpec
  ExpiredEventuallyRemoved
