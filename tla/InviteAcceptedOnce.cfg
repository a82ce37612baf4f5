SPECIFICATION Spec
CONSTANTS
  Emails = {ann, bob}
  Usernames = {ann, bob}
  Passwords = {p1}
  Slugs = {acme}
  Tokens = {t1}
  Requests = {r1, r2}
  None = None
INVARIANTS
  InviteAcceptedOnce
