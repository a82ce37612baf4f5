------------------------------ MODULE Onboarding ------------------------------
(***************************************************************************)
(* Sign-up, login, set-password and invites together, on one database:     *)
(* how a person gets an account, an organisation, a role and a session,    *)
(* with requests interleaving at every statement and failing between any   *)
(* two of them.                                                            *)
(***************************************************************************)
EXTENDS LocalAuth, Invites

Init == DirectoryInit

\* The database returns an error, the client goes away (the statements run under
\* the request's context) or the process dies: the handler stops where it is.
Abort(r) ==
  /\ pc[r] # "idle"
  /\ done(r)
  /\ UNCHANGED <<tables, sessions, creator, accepted>>

Arrive(r) ==
  \/ \E e \in Emails, n \in Usernames, p \in Passwords, o \in Slugs :
       SignupUser(r, e, n, p, o)
  \/ \E n \in Usernames, p \in Passwords : LoginCredential(r, n, p)
  \/ \E e \in Emails, p \in Passwords : PasswordLookup(r, e, p)
  \/ \E u, e \in Emails, o \in Slugs, g \in Roles \ {"Owner"} :
       InviteAuthorize(r, u, o, e, g)
  \/ \E t \in Tokens : AcceptFind(r, t)

Next ==
  \/ \E r \in Requests : Arrive(r) \/ LocalAuthStep(r) \/ InvitesStep(r) \/ Abort(r)
  \/ \E t \in Tokens : InviteExpires(t)

Spec == Init /\ [][Next]_vars

-------------------------------------------------------------------------------

PCs == {"idle", "signup_cred", "signup_find", "signup_org", "signup_owner",
        "signup_session", "login_org", "password_update", "password_create",
        "password_ok", "invite_insert", "accept_user", "accept_member",
        "accept_use", "accept_session"}

TypeOK ==
  /\ users \subseteq Emails
  /\ cred \in [Emails -> Credentials \cup {None}]
  /\ orgs \subseteq Slugs
  /\ role \in [Slugs -> [Emails -> Roles \cup {None}]]
  /\ invites \in [Tokens -> Invitations \cup {None}]
  /\ sessions \subseteq Emails \X Slugs
  /\ pc \in [Requests -> PCs]
  /\ loc \in [Requests -> Locals]
  /\ creator \in [Slugs -> Emails \cup {None}]
  /\ accepted \in [Tokens -> Nat]

\* Some invite of the organisation is addressed to the user.
Invited(o, u) ==
  \E t \in Tokens : invites[t] # None /\ invites[t].org = o /\ invites[t].email = u

\* An organisation's only possible Owner is the user whose sign-up created it:
\* neither two sign-ups racing for one slug nor any invite makes another one.
OwnerIsCreator ==
  \A o \in Slugs, e \in Emails : role[o][e] = "Owner" => creator[o] = e

\* A sign-up about to answer 201 has kept every promise of the answer, whatever other
\* requests did between its statements: the organisation is its own, and it owns
\* it unless the owner has invited herself into a lower role meanwhile; and she
\* holds the credential she asked for.
SignupDelivers ==
  \A r \in Requests : pc[r] = "signup_session" =>
    LET u == loc[r].user
        o == loc[r].org
    IN  /\ creator[o] = u
        /\ role[o][u] # None
        /\ role[o][u] = "Owner" \/ Invited(o, u)
        /\ cred[u] # None
        /\ cred[u].name = loc[r].name

\* No session is ever issued for an organisation its user does not belong to.
SessionsAreMembers ==
  \A s \in sessions : role[s[2]][s[1]] # None

\* An invite that is spent has given its addressee a membership, even when the
\* acceptance that spent it failed half way: it can never be lost.
UsedInviteMeansMember ==
  \A t \in Tokens : invites[t] # None /\ invites[t].used =>
    role[invites[t].org][invites[t].email] # None

\* A credential, once there, changes only by its own user's set-password: no
\* username that happens to be somebody's email lets one user change another's.
OnlyOwnCredential ==
  [][\A e \in Emails : cred[e] # None /\ cred'[e] # cred[e] =>
       \E r \in Requests : pc[r] = "password_update" /\ loc[r].user = e]_vars

\* The invites there are, as what they offer.
Offers ==
  {<<invites[t].org, invites[t].email, invites[t].role>> : t \in {u \in Tokens : invites[u] # None}}

Members == INSTANCE Membership WITH founder <- creator, offers <- Offers

\* However the statements of sign-ups, invites and acceptances interleave or fail, an
\* organisation is founded once, its first member is its founder as Owner, once,
\* and no membership is written or changed but to a role offered by an
\* organisation that had an Owner by then.
MembershipSpec == Members!Spec

\* invite.go:21: "Returns a one-time token".
InviteAcceptedOnce ==
  \A t \in Tokens : accepted[t] <= 1

\* local.go:88: an organisation that exists has, or is about to get, an owner
\* whom a rejected sign-up can ask for an invite.
ExistingOrgHasOwner ==
  \A o \in orgs :
    \/ \E e \in Emails : role[o][e] = "Owner"
    \/ \E r \in Requests : pc[r] = "signup_owner" /\ loc[r].org = o

\* auth_flow.md:66: set-password "sets/updates the local password for the current
\* session": when it answers ok, the session's user has a local credential.
PasswordIsSet ==
  \A r \in Requests : pc[r] = "password_ok" => cred[loc[r].user] # None
===============================================================================
