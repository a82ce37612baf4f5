------------------------------ MODULE LocalAuth -------------------------------
(***************************************************************************)
(* internal/auth/local.go and password.go: sign-up, login and set-password *)
(* as the sequences of statements the handlers run.                        *)
(***************************************************************************)
EXTENDS Directory

\* A valid sign-up body: UpsertUserByVerifiedEmail is its first statement.
SignupUser(r, e, n, p, o) ==
  /\ begin(r, "signup_cred", [NoLocals EXCEPT !.user = e, !.name = n, !.pw = p, !.org = o])
  /\ UpsertUserByVerifiedEmail(e)
  /\ UNCHANGED <<cred, orgs, role, invites, sessions, creator, accepted>>

\* A credential that replaces the one the user already has.
SignupCredentialUpsert(r) ==
  /\ pc[r] = "signup_cred"
  /\ UpsertLocalCredential(loc[r].user, loc[r].name, loc[r].pw)
  /\ goto(r, "signup_find")
  /\ UNCHANGED <<users, orgs, role, invites, sessions, creator, accepted>>

\* 409 "username taken" on either unique constraint.
SignupCredential(r) ==
  /\ pc[r] = "signup_cred"
  /\ IF CredentialFree(loc[r].user, loc[r].name)
     THEN /\ CreateLocalCredential(loc[r].user, loc[r].name, loc[r].pw)
          /\ goto(r, "signup_find")
     ELSE done(r) /\ UNCHANGED cred
  /\ UNCHANGED <<users, orgs, role, invites, sessions, creator, accepted>>

\* FindOrgBySlug: a row is answered 409 "org_exists", which leaves the user and the
\* credential behind; any error, no row or not, goes on to CreateOrg.
SignupFindOrg(r) ==
  /\ pc[r] = "signup_find"
  /\ \/ loc[r].org \in orgs /\ done(r)
     \/ goto(r, "signup_org")
  /\ UNCHANGED <<tables, sessions, creator, accepted>>

\* A CreateOrg that hands back the organisation when the slug exists.
SignupCreateOrReuseOrg(r) ==
  /\ pc[r] = "signup_org"
  /\ orgs' = orgs \cup {loc[r].org}
  /\ creator' = IF loc[r].org \in orgs THEN creator
                ELSE [creator EXCEPT ![loc[r].org] = loc[r].user]
  /\ goto(r, "signup_owner")
  /\ UNCHANGED <<users, cred, role, invites, sessions, accepted>>

\* INSERT: 500 when another sign-up has taken the slug since the lookup.
SignupCreateOrg(r) ==
  /\ pc[r] = "signup_org"
  /\ IF loc[r].org \in orgs
     THEN done(r) /\ UNCHANGED <<orgs, creator>>
     ELSE /\ orgs' = orgs \cup {loc[r].org}
          /\ creator' = [creator EXCEPT ![loc[r].org] = loc[r].user]
          /\ goto(r, "signup_owner")
  /\ UNCHANGED <<users, cred, role, invites, sessions, accepted>>

SignupOwner(r) ==
  /\ pc[r] = "signup_owner"
  /\ EnsureMembership(loc[r].org, loc[r].user, "Owner")
  /\ goto(r, "signup_session")
  /\ UNCHANGED <<users, cred, orgs, invites, sessions, creator, accepted>>

\* SetSessionCookie of sign-up and of invite acceptance.
StartSession(r) ==
  /\ pc[r] \in {"signup_session", "accept_session"}
  /\ sessions' = sessions \cup {<<loc[r].user, loc[r].org>>}
  /\ done(r)
  /\ UNCHANGED <<tables, creator, accepted>>

\* GetLocalCredentialByUsername and VerifyPassword.
LoginCredential(r, n, p) ==
  /\ \E e \in Emails :
       /\ cred[e] = [name |-> n, pw |-> p]
       /\ begin(r, "login_org", [NoLocals EXCEPT !.user = e])
  /\ UNCHANGED <<tables, sessions, creator, accepted>>

\* PickUserOrg and the session, or 403 "no organisation".
LoginSession(r) ==
  /\ pc[r] = "login_org"
  /\ \/ /\ PickUserOrg(loc[r].user) = {}
        /\ UNCHANGED sessions
     \/ \E o \in PickUserOrg(loc[r].user) :
          sessions' = sessions \cup {<<loc[r].user, o>>}
  /\ done(r)
  /\ UNCHANGED <<tables, creator, accepted>>

\* SetPasswordHandler looks for a credential whose username is the user's email,
\* whoever it belongs to; any error, no row or not, means there is none.
PasswordLookup(r, e, p) ==
  /\ \E o \in Slugs : <<e, o>> \in sessions
  /\ LET locals == [NoLocals EXCEPT !.user = e, !.pw = p]
     IN  \/ /\ \E f \in Emails : cred[f] # None /\ cred[f].name = e
            /\ begin(r, "password_update", locals)
         \/ begin(r, "password_create", locals)
  /\ UNCHANGED <<tables, sessions, creator, accepted>>

\* An update keyed by the username that was looked up.
PasswordUpdateByName(r) ==
  /\ pc[r] = "password_update"
  /\ cred' = [f \in Emails |-> IF cred[f] # None /\ cred[f].name = loc[r].user
                               THEN [cred[f] EXCEPT !.pw = loc[r].pw] ELSE cred[f]]
  /\ goto(r, "password_ok")
  /\ UNCHANGED <<users, orgs, role, invites, sessions, creator, accepted>>

PasswordUpdate(r) ==
  /\ pc[r] = "password_update"
  /\ UpdateLocalPasswordHash(loc[r].user, loc[r].pw)
  /\ goto(r, "password_ok")
  /\ UNCHANGED <<users, orgs, role, invites, sessions, creator, accepted>>

PasswordCreate(r) ==
  /\ pc[r] = "password_create"
  /\ IF CredentialFree(loc[r].user, loc[r].user)
     THEN /\ CreateLocalCredential(loc[r].user, loc[r].user, loc[r].pw)
          /\ goto(r, "password_ok")
     ELSE done(r) /\ UNCHANGED cred
  /\ UNCHANGED <<users, orgs, role, invites, sessions, creator, accepted>>

\* The handler answers { ok: true, redirect }.
PasswordReply(r) ==
  /\ pc[r] = "password_ok"
  /\ done(r)
  /\ UNCHANGED <<tables, sessions, creator, accepted>>

LocalAuthStep(r) ==
  \/ SignupCredential(r) \/ SignupFindOrg(r) \/ SignupCreateOrg(r) \/ SignupOwner(r)
  \/ StartSession(r) \/ LoginSession(r)
  \/ PasswordUpdate(r) \/ PasswordCreate(r) \/ PasswordReply(r)
===============================================================================
