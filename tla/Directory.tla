------------------------------ MODULE Directory -------------------------------
(***************************************************************************)
(* The tables the sign-up, sign-in and invite handlers share, and the SQL  *)
(* statements they run on them.  A handler runs each statement on its own, *)
(* outside any transaction, so between two statements of one request any   *)
(* other request may run and the request itself may fail.                  *)
(*                                                                         *)
(* A user is identified with its email (users.email is UNIQUE), an         *)
(* organisation with its slug.                                             *)
(***************************************************************************)
EXTENDS Naturals

CONSTANTS Emails,     \* users.email
          Usernames,  \* local_credentials.username; every email can be one
          Passwords,
          Slugs,      \* organisations.slug
          Tokens,     \* invite tokens that may be drawn
          Requests,   \* handler goroutines
          None        \* no row

VARIABLES
  users,     \* table users
  cred,      \* table local_credentials, by user: [name, pw] or None
  orgs,      \* table organisations
  role,      \* table org_memberships: role[org][user] or None
  invites,   \* table org_invites, by token, or None
  sessions,  \* the <<user, active org>> pairs sessions were issued for
  pc,        \* the next statement of each request
  loc,       \* a request's local variables
  creator,   \* history: the user whose sign-up created the organisation
  accepted   \* history: completed acceptances of each token

tables == <<users, cred, orgs, role, invites>>
request == <<pc, loc>>
vars == <<users, cred, orgs, role, invites, sessions, pc, loc, creator, accepted>>

Roles == {"Owner", "Admin", "Member", "Viewer"}

\* Postgres orders the enum org_role as it is declared.
EnumOrder == [Owner |-> 1, Admin |-> 2, Member |-> 3, Viewer |-> 4]

Credentials == [name : Usernames, pw : Passwords]
Invitations == [org : Slugs, email : Emails, role : Roles \ {"Owner"},
                expired : BOOLEAN, used : BOOLEAN]
Locals == [user : Emails \cup {None}, name : Usernames \cup {None},
           pw : Passwords \cup {None}, org : Slugs \cup {None},
           role : Roles \cup {None}, token : Tokens \cup {None}]

ASSUME DirectoryAssumption ==
  /\ Emails \subseteq Usernames
  /\ None \notin Emails /\ None \notin Roles
  /\ None \notin Credentials /\ None \notin Invitations

NoLocals == [user |-> None, name |-> None, pw |-> None,
             org |-> None, role |-> None, token |-> None]

DirectoryInit ==
  /\ users = {}
  /\ cred = [e \in Emails |-> None]
  /\ orgs = {}
  /\ role = [o \in Slugs |-> [e \in Emails |-> None]]
  /\ invites = [t \in Tokens |-> None]
  /\ sessions = {}
  /\ pc = [r \in Requests |-> "idle"]
  /\ loc = [r \in Requests |-> NoLocals]
  /\ creator = [o \in Slugs |-> None]
  /\ accepted = [t \in Tokens |-> 0]

-------------------------------------------------------------------------------
(* Control of a request.                                                      *)

goto(r, l) == pc' = [pc EXCEPT ![r] = l] /\ UNCHANGED loc

\* The handler returns and its locals are gone.
done(r) ==
  /\ pc' = [pc EXCEPT ![r] = "idle"]
  /\ loc' = [loc EXCEPT ![r] = NoLocals]

begin(r, l, locals) ==
  /\ pc[r] = "idle"
  /\ pc' = [pc EXCEPT ![r] = l]
  /\ loc' = [loc EXCEPT ![r] = locals]

-------------------------------------------------------------------------------
(* Statements.                                                                *)

\* INSERT ... ON CONFLICT (email) DO UPDATE: the row exists afterwards.
UpsertUserByVerifiedEmail(e) == users' = users \cup {e}

\* The primary key (user_id) and UNIQUE (username) both hold for a new row.
CredentialFree(e, n) ==
  /\ cred[e] = None
  /\ \A f \in Emails : cred[f] # None => cred[f].name # n

UpsertLocalCredential(e, n, p) ==
  cred' = [cred EXCEPT ![e] = [name |-> n, pw |-> p]]

CreateLocalCredential(e, n, p) ==
  cred' = [cred EXCEPT ![e] = [name |-> n, pw |-> p]]

\* An update that inserts the missing row, without a username.
UpsertPasswordOnly(e, p) ==
  cred' = [cred EXCEPT ![e] = [name |-> IF cred[e] = None THEN None ELSE cred[e].name,
                               pw |-> p]]

\* UPDATE ... WHERE user_id = e: no row, no change, no error.
UpdateLocalPasswordHash(e, p) ==
  cred' = IF cred[e] = None THEN cred ELSE [cred EXCEPT ![e].pw = p]

\* INSERT ... ON CONFLICT (org_id, user_id) DO UPDATE SET role: overwrites.
EnsureMembership(o, e, g) == role' = [role EXCEPT ![o][e] = g]

\* ORDER BY m.role DESC LIMIT 1; among equal roles the oldest organisation, an
\* age this model does not keep.
PickUserOrg(e) ==
  LET Mine == {o \in Slugs : role[o][e] # None}
  IN  {o \in Mine : \A p \in Mine : EnumOrder[role[p][e]] <= EnumOrder[role[o][e]]}
===============================================================================
