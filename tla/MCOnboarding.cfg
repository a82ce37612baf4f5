SPECIFICATION Spec
CONSTANTS
  Emails = {ann, bob}
  Usernames = {ann, bob}
  Passwords = {p1, p2}
  Slugs = {acme, bolt}
  Tokens = {t1}
  Requests = {r1, r2}
  None = None
INVARIANTS
  TypeOK
  OwnerIsCreator
  SignupDelivers
  SessionsAreMembers
  UsedInviteMeansMember
PROPERTIES
  OnlyOwnCredential
  MembershipSpec
SYMMETRY Interchangeable
