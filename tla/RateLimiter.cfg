SPECIFICATION Spec
CONSTANTS
  Keys = {k1, k2}
  Requests = {r1, r2}
  Cost = 2
  Burst = 4
  MaxClock = 5
INVARIANTS
  TypeOK
  SpendBound
PROPERTIES
  NoLockout
  PacerSpec
