SPECIFICATION Spec
CONSTANTS
  Emails = {ann, bob}
  Idents = {i1, i2}
  Tokens = {t1, t2}
  Requests = {r1, r2}
  None = None
INVARIANTS
  TypeOK
  CallbackSessionsLinked
  SessionsAreProven
PROPERTIES
  RegistrySpec
SYMMETRY Interchangeable
