-------------------------------- MODULE Invites -------------------------------
(***************************************************************************)
(* internal/auth/invite.go and the invite statements of repo/orgs.go:      *)
(* creating an invite and accepting one, statement by statement.           *)
(***************************************************************************)
EXTENDS Directory

\* RequireAuth and RequireRole(Owner) let the request in; the handler refuses the
\* role Owner and any unknown one.
InviteAuthorize(r, u, o, e, g) ==
  /\ <<u, o>> \in sessions
  /\ role[o][u] = "Owner"
  /\ begin(r, "invite_insert", [NoLocals EXCEPT !.user = e, !.org = o, !.role = g])
  /\ UNCHANGED <<tables, sessions, creator, accepted>>

\* CreateInvite under the hash of a fresh random token.
InviteInsert(r) ==
  /\ pc[r] = "invite_insert"
  /\ \E t \in Tokens :
       /\ invites[t] = None
       /\ invites' = [invites EXCEPT ![t] =
            [org |-> loc[r].org, email |-> loc[r].user, role |-> loc[r].role,
             expired |-> FALSE, used |-> FALSE]]
  /\ done(r)
  /\ UNCHANGED <<users, cred, orgs, role, sessions, creator, accepted>>

\* Seven days pass.
InviteExpires(t) ==
  /\ invites[t] # None
  /\ ~invites[t].expired
  /\ invites' = [invites EXCEPT ![t].expired = TRUE]
  /\ UNCHANGED <<users, cred, orgs, role, sessions, request, creator, accepted>>

\* GetInviteByTokenHash and the check of used_at and expires_at.
AcceptFind(r, t) ==
  /\ invites[t] # None
  /\ ~invites[t].used /\ ~invites[t].expired
  /\ begin(r, "accept_user",
           [NoLocals EXCEPT !.user = invites[t].email, !.org = invites[t].org,
                            !.role = invites[t].role, !.token = t])
  /\ UNCHANGED <<tables, sessions, creator, accepted>>

\* A handler that takes an existing user to be a member already.
AcceptUserAssumeMember(r) ==
  /\ pc[r] = "accept_user"
  /\ goto(r, IF loc[r].user \in users THEN "accept_use" ELSE "accept_member")
  /\ UpsertUserByVerifiedEmail(loc[r].user)
  /\ UNCHANGED <<cred, orgs, role, invites, sessions, creator, accepted>>

\* A handler that claims the invite before it adds the membership.
AcceptUserClaimFirst(r) ==
  /\ pc[r] = "accept_user"
  /\ UpsertUserByVerifiedEmail(loc[r].user)
  /\ invites' = [invites EXCEPT ![loc[r].token].used = TRUE]
  /\ goto(r, "accept_member")
  /\ UNCHANGED <<cred, orgs, role, sessions, creator, accepted>>

\* GetUserByEmail, or UpsertUserByVerifiedEmail: users are never deleted, so the
\* two statements do what the second does alone.
AcceptUser(r) ==
  /\ pc[r] = "accept_user"
  /\ UpsertUserByVerifiedEmail(loc[r].user)
  /\ goto(r, "accept_member")
  /\ UNCHANGED <<cred, orgs, role, invites, sessions, creator, accepted>>

AcceptMember(r) ==
  /\ pc[r] = "accept_member"
  /\ EnsureMembership(loc[r].org, loc[r].user, loc[r].role)
  /\ goto(r, "accept_use")
  /\ UNCHANGED <<users, cred, orgs, invites, sessions, creator, accepted>>

\* UseInvite: UPDATE ... WHERE used_at IS NULL, the number of rows not looked at.
AcceptUse(r) ==
  /\ pc[r] = "accept_use"
  /\ invites' = [invites EXCEPT ![loc[r].token].used = TRUE]
  /\ accepted' = [accepted EXCEPT ![loc[r].token] = @ + 1]
  /\ goto(r, "accept_session")
  /\ UNCHANGED <<users, cred, orgs, role, sessions, creator>>

InvitesStep(r) ==
  InviteInsert(r) \/ AcceptUser(r) \/ AcceptMember(r) \/ AcceptUse(r)
===============================================================================
