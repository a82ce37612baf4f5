SPECIFICATION Spec
CONSTANTS
  Emails = {ann, bob}
  Idents = {i1}
  Tokens = {t1, t2}
  Requests = {r1, r2}
  None = None
INVARIANTS
  LinkSessionsLinked
