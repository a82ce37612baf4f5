SPECIFICATION Spec
CONSTANTS
  Tenants = {acme, organizations}
  Google = google
  Absent = Absent
  Garbage = Garbage
  Nothing = Nothing
  Users = {ann}
  Sids = {s1, s2}
  Requests = {r1, r2}
  Owners = {ann}
  LocalRequired = TRUE
  Secrets = {k1, k2}
  None = None
INVARIANTS
  TypeOK
  ListensWithItsProviders
  OfflineStart
  ServedHasFactor
  SecondFactorAsked
PROPERTIES
  BootDecides
  RefreshHeals
