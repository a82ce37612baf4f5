--------------------------- MODULE OnboardingProofs ---------------------------
(***************************************************************************)
(* Theorems about Onboarding, for any number of users, organisations,      *)
(* invites and concurrent requests.                                        *)
(***************************************************************************)
EXTENDS Onboarding, TLAPS

\* The two halves of TypeOK.
ControlOK ==
  /\ pc \in [Requests -> PCs]
  /\ loc \in [Requests -> Locals]

TablesOK ==
  /\ users \subseteq Emails
  /\ cred \in [Emails -> Credentials \cup {None}]
  /\ orgs \subseteq Slugs
  /\ role \in [Slugs -> [Emails -> Roles \cup {None}]]
  /\ invites \in [Tokens -> Invitations \cup {None}]
  /\ sessions \subseteq Emails \X Slugs
  /\ creator \in [Slugs -> Emails \cup {None}]
  /\ accepted \in [Tokens -> Nat]

\* Where a request is, its locals are set: the columns it has read or was given.
LocalsInv ==
  \A r \in Requests :
    /\ pc[r] # "idle" => loc[r].user \in Emails
    /\ pc[r] \in {"signup_cred", "signup_find", "signup_org", "signup_owner",
                  "signup_session"} =>
         /\ loc[r].name \in Usernames
         /\ loc[r].pw \in Passwords
         /\ loc[r].org \in Slugs
    /\ pc[r] \in {"password_update", "password_create"} => loc[r].pw \in Passwords
    /\ pc[r] \in {"invite_insert", "accept_user", "accept_member", "accept_use"} =>
         /\ loc[r].org \in Slugs
         /\ loc[r].role \in Roles \ {"Owner"}
    /\ pc[r] = "accept_session" => loc[r].org \in Slugs
    /\ pc[r] \in {"accept_user", "accept_member", "accept_use"} => loc[r].token \in Tokens

\* An organisation that does not exist has no creator.
CreatorInv ==
  \A o \in Slugs : o \notin orgs => creator[o] = None

\* What a sign-up has done by each of its statements is still there: nothing
\* deletes a credential, an organisation or a membership.
SignupOK(r) ==
  LET u == loc[r].user
      o == loc[r].org
  IN  /\ pc[r] \in {"signup_find", "signup_org", "signup_owner", "signup_session"} =>
           cred[u] # None /\ cred[u].name = loc[r].name
      /\ pc[r] \in {"signup_owner", "signup_session"} => creator[o] = u
      /\ pc[r] = "signup_session" =>
           /\ role[o][u] # None
           /\ role[o][u] = "Owner" \/ Invited(o, u)

SignupInv == \A r \in Requests : SignupOK(r)

\* An acceptance still holds what it read of the invite, whose row nobody changes
\* but to mark it; past EnsureMembership its user is a member.
AcceptInv ==
  \A r \in Requests :
    LET t == loc[r].token
    IN  /\ pc[r] \in {"accept_user", "accept_member", "accept_use"} =>
             /\ invites[t] # None
             /\ invites[t].org = loc[r].org
             /\ invites[t].email = loc[r].user
        /\ pc[r] \in {"accept_use", "accept_session"} =>
             role[loc[r].org][loc[r].user] # None

IInv ==
  /\ TypeOK
  /\ LocalsInv
  /\ CreatorInv
  /\ SignupInv
  /\ AcceptInv
  /\ OwnerIsCreator
  /\ SessionsAreMembers
  /\ UsedInviteMeansMember

\* What no statement of any handler takes away: a credential or its username, a
\* membership, an invite or its addressee, an organisation's creator.  A role that
\* changes becomes Owner or is changed by an invite.
NothingLost ==
  /\ \A e \in Emails : cred[e] # None => cred'[e] # None /\ cred'[e].name = cred[e].name
  /\ \A o \in Slugs, e \in Emails :
       /\ role[o][e] # None => role'[o][e] # None
       /\ role'[o][e] \in {role[o][e], "Owner"} \/ Invited(o, e)
  /\ \A t \in Tokens : invites[t] # None =>
       /\ invites'[t] # None
       /\ invites'[t].org = invites[t].org
       /\ invites'[t].email = invites[t].email
  /\ \A o \in Slugs : creator[o] # None => creator'[o] = creator[o]

-------------------------------------------------------------------------------

\* Before the first request every table is empty.
LEMMA InitIInv == Init => IInv
  BY DirectoryAssumption DEF Init, DirectoryInit, IInv, LocalsInv, CreatorInv, SignupInv,
     SignupOK, AcceptInv, OwnerIsCreator, SessionsAreMembers, UsedInviteMeansMember,
     TypeOK, PCs, Credentials, Invitations, Locals, NoLocals, Roles

\* Moving to a known label keeps the control typed.
LEMMA GotoControl ==
  ASSUME ControlOK, NEW r \in Requests, NEW l \in PCs, goto(r, l)
  PROVE  ControlOK'
  BY DEF ControlOK, goto

\* Returning keeps the control typed.
LEMMA DoneControl ==
  ASSUME ControlOK, NEW r \in Requests, done(r)
  PROVE  ControlOK'
<1>1. NoLocals \in Locals
  BY DEF NoLocals, Locals
<1>2. QED
  BY <1>1 DEF ControlOK, done, PCs

\* Starting a request with typed locals keeps the control typed.
LEMMA BeginControl ==
  ASSUME ControlOK, NEW r \in Requests, NEW l \in PCs, NEW v \in Locals, begin(r, l, v)
  PROVE  ControlOK'
  BY DEF ControlOK, begin

\* Marking an invite used or expired leaves its addressee and its role alone.
LEMMA MarkedInvite ==
  ASSUME NEW i \in Invitations
  PROVE  /\ [i EXCEPT !.used = TRUE] \in Invitations
         /\ [i EXCEPT !.used = TRUE].org = i.org
         /\ [i EXCEPT !.used = TRUE].email = i.email
         /\ [i EXCEPT !.used = TRUE].role = i.role
         /\ [i EXCEPT !.used = TRUE].used
         /\ [i EXCEPT !.expired = TRUE] \in Invitations
         /\ [i EXCEPT !.expired = TRUE].org = i.org
         /\ [i EXCEPT !.expired = TRUE].email = i.email
         /\ [i EXCEPT !.expired = TRUE].role = i.role
         /\ [i EXCEPT !.expired = TRUE].used = i.used
  BY DEF Invitations

\* Every statement moves its request to a known place, with locals of known types.
LEMMA StepControl == TypeOK /\ LocalsInv /\ AcceptInv /\ [Next]_vars => ControlOK'
<1> SUFFICES ASSUME TypeOK, LocalsInv, AcceptInv, [Next]_vars PROVE ControlOK'
  OBVIOUS
<1> USE DEF TypeOK, ControlOK, Invitations
<1>1. ASSUME NEW r \in Requests, NEW e \in Emails, NEW n \in Usernames,
              NEW p \in Passwords, NEW o \in Slugs,
              SignupUser(r, e, n, p, o)
      PROVE  ControlOK'
  BY <1>1, BeginControl DEF SignupUser, PCs, Locals, NoLocals
<1>2. ASSUME NEW r \in Requests, NEW n \in Usernames, NEW p \in Passwords,
              LoginCredential(r, n, p) PROVE ControlOK'
  BY <1>2, BeginControl DEF LoginCredential, PCs, Locals, NoLocals
<1>3. ASSUME NEW r \in Requests, NEW e \in Emails, NEW p \in Passwords,
              PasswordLookup(r, e, p) PROVE ControlOK'
  BY <1>3, BeginControl DEF PasswordLookup, PCs, Locals, NoLocals
<1>4. ASSUME NEW r \in Requests, NEW u \in Emails, NEW e \in Emails,
              NEW o \in Slugs, NEW g \in Roles \ {"Owner"},
              InviteAuthorize(r, u, o, e, g)
      PROVE  ControlOK'
  BY <1>4, BeginControl DEF InviteAuthorize, PCs, Locals, NoLocals
<1>5. ASSUME NEW r \in Requests, NEW t \in Tokens, AcceptFind(r, t) PROVE ControlOK'
  BY <1>5, BeginControl DEF AcceptFind, PCs, Locals, NoLocals
<1>6. ASSUME NEW r \in Requests, SignupCredential(r) PROVE ControlOK'
  BY <1>6, GotoControl, DoneControl DEF SignupCredential, PCs
<1>7. ASSUME NEW r \in Requests, SignupFindOrg(r) PROVE ControlOK'
  BY <1>7, GotoControl, DoneControl DEF SignupFindOrg, PCs
<1>8. ASSUME NEW r \in Requests, SignupCreateOrg(r) PROVE ControlOK'
  BY <1>8, GotoControl, DoneControl DEF SignupCreateOrg, PCs
<1>9. ASSUME NEW r \in Requests, SignupOwner(r) PROVE ControlOK'
  BY <1>9, GotoControl, DoneControl DEF SignupOwner, PCs
<1>10. ASSUME NEW r \in Requests, StartSession(r) PROVE ControlOK'
  BY <1>10, GotoControl, DoneControl DEF StartSession, PCs
<1>11. ASSUME NEW r \in Requests, LoginSession(r) PROVE ControlOK'
  BY <1>11, GotoControl, DoneControl DEF LoginSession, PCs
<1>12. ASSUME NEW r \in Requests, PasswordUpdate(r) PROVE ControlOK'
  BY <1>12, GotoControl, DoneControl DEF PasswordUpdate, PCs
<1>13. ASSUME NEW r \in Requests, PasswordCreate(r) PROVE ControlOK'
  BY <1>13, GotoControl, DoneControl DEF PasswordCreate, PCs
<1>14. ASSUME NEW r \in Requests, PasswordReply(r) PROVE ControlOK'
  BY <1>14, GotoControl, DoneControl DEF PasswordReply, PCs
<1>15. ASSUME NEW r \in Requests, InviteInsert(r) PROVE ControlOK'
  BY <1>15, GotoControl, DoneControl DEF InviteInsert, PCs
<1>16. ASSUME NEW r \in Requests, AcceptUser(r) PROVE ControlOK'
  BY <1>16, GotoControl, DoneControl DEF AcceptUser, PCs
<1>17. ASSUME NEW r \in Requests, AcceptMember(r) PROVE ControlOK'
  BY <1>17, GotoControl, DoneControl DEF AcceptMember, PCs
<1>18. ASSUME NEW r \in Requests, AcceptUse(r) PROVE ControlOK'
  BY <1>18, GotoControl, DoneControl DEF AcceptUse, PCs
<1>19. ASSUME NEW r \in Requests, Abort(r) PROVE ControlOK'
  BY <1>19, GotoControl, DoneControl DEF Abort, PCs
<1>20. ASSUME NEW t \in Tokens, InviteExpires(t) PROVE ControlOK'
  BY <1>20 DEF InviteExpires, request, ControlOK
<1>21. CASE UNCHANGED vars
  BY <1>21 DEF vars
<1>22. QED
  BY <1>1, <1>2, <1>3, <1>4, <1>5, <1>6, <1>7, <1>8, <1>9, <1>10, <1>11, <1>12, <1>13,
      <1>14, <1>15, <1>16, <1>17, <1>18, <1>19, <1>20, <1>21
  DEF Next, Arrive, LocalAuthStep, InvitesStep

\* Every statement keeps the tables typed.
LEMMA StepTables == TypeOK /\ LocalsInv /\ AcceptInv /\ [Next]_vars => TablesOK'
<1> SUFFICES ASSUME TypeOK, LocalsInv, AcceptInv, [Next]_vars PROVE TablesOK'
  OBVIOUS
<1> USE DirectoryAssumption DEF TypeOK, TablesOK, LocalsInv, AcceptInv, tables
<1>1. ASSUME NEW r \in Requests, NEW e \in Emails, NEW n \in Usernames,
              NEW p \in Passwords, NEW o \in Slugs,
              SignupUser(r, e, n, p, o)
      PROVE  TablesOK'
  BY <1>1 DEF SignupUser, UpsertUserByVerifiedEmail, begin
<1>2. ASSUME NEW r \in Requests, NEW n \in Usernames, NEW p \in Passwords,
              LoginCredential(r, n, p) PROVE TablesOK'
  BY <1>2 DEF LoginCredential, begin
<1>3. ASSUME NEW r \in Requests, NEW e \in Emails, NEW p \in Passwords,
              PasswordLookup(r, e, p) PROVE TablesOK'
  BY <1>3 DEF PasswordLookup, begin
<1>4. ASSUME NEW r \in Requests, NEW u \in Emails, NEW e \in Emails,
              NEW o \in Slugs, NEW g \in Roles \ {"Owner"},
              InviteAuthorize(r, u, o, e, g)
      PROVE  TablesOK'
  BY <1>4 DEF InviteAuthorize, begin
<1>5. ASSUME NEW r \in Requests, NEW t \in Tokens, AcceptFind(r, t) PROVE TablesOK'
  BY <1>5 DEF AcceptFind, begin
<1>6. ASSUME NEW r \in Requests, SignupCredential(r) PROVE TablesOK'
  BY <1>6 DEF SignupCredential, CreateLocalCredential, Credentials
<1>7. ASSUME NEW r \in Requests, SignupFindOrg(r) PROVE TablesOK'
  BY <1>7 DEF SignupFindOrg
<1>8. ASSUME NEW r \in Requests, SignupCreateOrg(r) PROVE TablesOK'
  BY <1>8 DEF SignupCreateOrg
<1>9. ASSUME NEW r \in Requests, SignupOwner(r) PROVE TablesOK'
  BY <1>9 DEF SignupOwner, EnsureMembership, Roles
<1>10. ASSUME NEW r \in Requests, StartSession(r) PROVE TablesOK'
  BY <1>10 DEF StartSession
<1>11. ASSUME NEW r \in Requests, LoginSession(r) PROVE TablesOK'
  BY <1>11 DEF LoginSession, PickUserOrg
<1>12. ASSUME NEW r \in Requests, PasswordUpdate(r) PROVE TablesOK'
  <2>1. cred' \in [Emails -> Credentials \cup {None}]
    <3>1. CASE cred[loc[r].user] = None
      BY <1>12, <3>1 DEF PasswordUpdate, UpdateLocalPasswordHash
    <3>2. CASE cred[loc[r].user] # None
      <4>1. cred[loc[r].user] \in Credentials
        BY <1>12, <3>2 DEF PasswordUpdate
      <4>2. [cred[loc[r].user] EXCEPT !.pw = loc[r].pw] \in Credentials
        BY <1>12, <4>1 DEF PasswordUpdate, Credentials
      <4>3. QED
        BY <1>12, <3>2, <4>2 DEF PasswordUpdate, UpdateLocalPasswordHash
    <3>3. QED
      BY <3>1, <3>2
  <2>2. QED
    BY <1>12, <2>1 DEF PasswordUpdate
<1>13. ASSUME NEW r \in Requests, PasswordCreate(r) PROVE TablesOK'
  <2>1. [name |-> loc[r].user, pw |-> loc[r].pw] \in Credentials
    BY <1>13 DEF PasswordCreate, Credentials
  <2>2. cred' \in [Emails -> Credentials \cup {None}]
    BY <1>13, <2>1 DEF PasswordCreate, CreateLocalCredential
  <2>3. QED
    BY <1>13, <2>2 DEF PasswordCreate
<1>14. ASSUME NEW r \in Requests, PasswordReply(r) PROVE TablesOK'
  BY <1>14 DEF PasswordReply
<1>15. ASSUME NEW r \in Requests, InviteInsert(r) PROVE TablesOK'
  BY <1>15 DEF InviteInsert, Invitations
<1>16. ASSUME NEW r \in Requests, AcceptUser(r) PROVE TablesOK'
  BY <1>16 DEF AcceptUser, UpsertUserByVerifiedEmail
<1>17. ASSUME NEW r \in Requests, AcceptMember(r) PROVE TablesOK'
  BY <1>17 DEF AcceptMember, EnsureMembership
<1>18. ASSUME NEW r \in Requests, AcceptUse(r) PROVE TablesOK'
  <2> DEFINE t1 == loc[r].token
  <2>1. t1 \in Tokens /\ invites[t1] \in Invitations
    BY <1>18 DEF AcceptUse
  <2>2. invites' = [invites EXCEPT ![t1] = [invites[t1] EXCEPT !.used = TRUE]]
    BY <1>18 DEF AcceptUse
  <2>3. invites' \in [Tokens -> Invitations \cup {None}]
    BY <2>1, <2>2, MarkedInvite
  <2>4. QED
    BY <1>18, <2>3 DEF AcceptUse
<1>19. ASSUME NEW r \in Requests, Abort(r) PROVE TablesOK'
  BY <1>19 DEF Abort
<1>20. ASSUME NEW t \in Tokens, InviteExpires(t) PROVE TablesOK'
  <2> DEFINE t1 == t
  <2>1. t1 \in Tokens /\ invites[t1] \in Invitations
    BY <1>20 DEF InviteExpires
  <2>2. invites' = [invites EXCEPT ![t1] = [invites[t1] EXCEPT !.expired = TRUE]]
    BY <1>20 DEF InviteExpires
  <2>3. invites' \in [Tokens -> Invitations \cup {None}]
    BY <2>1, <2>2, MarkedInvite
  <2>4. QED
    BY <1>20, <2>3 DEF InviteExpires
<1>21. CASE UNCHANGED vars
  BY <1>21 DEF vars
<1>22. QED
  BY <1>1, <1>2, <1>3, <1>4, <1>5, <1>6, <1>7, <1>8, <1>9, <1>10, <1>11, <1>12, <1>13,
      <1>14, <1>15, <1>16, <1>17, <1>18, <1>19, <1>20, <1>21
  DEF Next, Arrive, LocalAuthStep, InvitesStep

\* No step of any request loses what other requests rely on.
LEMMA StepNothingLost == TypeOK /\ LocalsInv /\ AcceptInv /\ CreatorInv
    /\ [Next]_vars => NothingLost
<1> SUFFICES ASSUME TypeOK, LocalsInv, AcceptInv, CreatorInv, [Next]_vars PROVE NothingLost
  OBVIOUS
<1> USE DirectoryAssumption DEF NothingLost, Invited, LocalsInv, AcceptInv, CreatorInv,
    TypeOK, tables
<1>1. ASSUME NEW r \in Requests, NEW e \in Emails, NEW n \in Usernames,
              NEW p \in Passwords, NEW o \in Slugs,
              SignupUser(r, e, n, p, o)
      PROVE  NothingLost
  BY <1>1 DEF SignupUser, UpsertUserByVerifiedEmail, begin
<1>2. ASSUME NEW r \in Requests, NEW n \in Usernames, NEW p \in Passwords,
              LoginCredential(r, n, p) PROVE NothingLost
  BY <1>2 DEF LoginCredential, begin
<1>3. ASSUME NEW r \in Requests, NEW e \in Emails, NEW p \in Passwords,
              PasswordLookup(r, e, p) PROVE NothingLost
  BY <1>3 DEF PasswordLookup, begin
<1>4. ASSUME NEW r \in Requests, NEW u \in Emails, NEW e \in Emails,
              NEW o \in Slugs, NEW g \in Roles \ {"Owner"},
              InviteAuthorize(r, u, o, e, g)
      PROVE  NothingLost
  BY <1>4 DEF InviteAuthorize, begin
<1>5. ASSUME NEW r \in Requests, NEW t \in Tokens, AcceptFind(r, t) PROVE NothingLost
  BY <1>5 DEF AcceptFind, begin
<1>6. ASSUME NEW r \in Requests, SignupCredential(r) PROVE NothingLost
  BY <1>6 DEF SignupCredential, CreateLocalCredential, CredentialFree
<1>7. ASSUME NEW r \in Requests, SignupFindOrg(r) PROVE NothingLost
  BY <1>7 DEF SignupFindOrg
<1>8. ASSUME NEW r \in Requests, SignupCreateOrg(r) PROVE NothingLost
  BY <1>8 DEF SignupCreateOrg
<1>9. ASSUME NEW r \in Requests, SignupOwner(r) PROVE NothingLost
  BY <1>9 DEF SignupOwner, EnsureMembership, Roles
<1>10. ASSUME NEW r \in Requests, StartSession(r) PROVE NothingLost
  BY <1>10 DEF StartSession
<1>11. ASSUME NEW r \in Requests, LoginSession(r) PROVE NothingLost
  BY <1>11 DEF LoginSession, PickUserOrg
<1>12. ASSUME NEW r \in Requests, PasswordUpdate(r) PROVE NothingLost
  <2>1. ASSUME cred[loc[r].user] # None
        PROVE  /\ [cred[loc[r].user] EXCEPT !.pw = loc[r].pw] # None
               /\ [cred[loc[r].user] EXCEPT !.pw = loc[r].pw].name = cred[loc[r].user].name
    <3>1. cred[loc[r].user] \in Credentials
      BY <1>12, <2>1 DEF PasswordUpdate
    <3>2. [cred[loc[r].user] EXCEPT !.pw = loc[r].pw] \in Credentials
      BY <1>12, <3>1 DEF PasswordUpdate, Credentials
    <3>3. QED
      BY <3>1, <3>2 DEF Credentials
  <2>2. QED
    BY <1>12, <2>1 DEF PasswordUpdate, UpdateLocalPasswordHash
<1>13. ASSUME NEW r \in Requests, PasswordCreate(r) PROVE NothingLost
  BY <1>13 DEF PasswordCreate, CreateLocalCredential, CredentialFree
<1>14. ASSUME NEW r \in Requests, PasswordReply(r) PROVE NothingLost
  BY <1>14 DEF PasswordReply
<1>15. ASSUME NEW r \in Requests, InviteInsert(r) PROVE NothingLost
  BY <1>15 DEF InviteInsert
<1>16. ASSUME NEW r \in Requests, AcceptUser(r) PROVE NothingLost
  BY <1>16 DEF AcceptUser, UpsertUserByVerifiedEmail
<1>17. ASSUME NEW r \in Requests, AcceptMember(r) PROVE NothingLost
  BY <1>17 DEF AcceptMember, EnsureMembership
<1>18. ASSUME NEW r \in Requests, AcceptUse(r) PROVE NothingLost
  <2>1. ASSUME NEW s \in Tokens, invites[s] # None
        PROVE /\ invites'[s] # None
              /\ invites'[s].org = invites[s].org
              /\ invites'[s].email = invites[s].email
    <3>1. invites[s] \in Invitations
      BY <2>1
    <3>2. invites'[s] \in {invites[s], [invites[s] EXCEPT !.used = TRUE]}
      BY <1>18 DEF AcceptUse
    <3>3. /\ [invites[s] EXCEPT !.used = TRUE] \in Invitations
          /\ [invites[s] EXCEPT !.used = TRUE].org = invites[s].org
          /\ [invites[s] EXCEPT !.used = TRUE].email = invites[s].email
      BY <3>1, MarkedInvite
    <3>4. CASE invites'[s] = invites[s]
      BY <2>1, <3>4
    <3>5. CASE invites'[s] = [invites[s] EXCEPT !.used = TRUE]
      BY <3>3, <3>5
    <3>6. QED
      BY <3>2, <3>4, <3>5
  <2>2. QED
    BY <1>18, <2>1 DEF AcceptUse
<1>19. ASSUME NEW r \in Requests, Abort(r) PROVE NothingLost
  BY <1>19 DEF Abort
<1>20. ASSUME NEW t \in Tokens, InviteExpires(t) PROVE NothingLost
  <2>1. ASSUME NEW s \in Tokens, invites[s] # None
        PROVE /\ invites'[s] # None
              /\ invites'[s].org = invites[s].org
              /\ invites'[s].email = invites[s].email
    <3>1. invites[s] \in Invitations
      BY <2>1
    <3>2. invites'[s] \in {invites[s], [invites[s] EXCEPT !.expired = TRUE]}
      BY <1>20 DEF InviteExpires
    <3>3. /\ [invites[s] EXCEPT !.expired = TRUE] \in Invitations
          /\ [invites[s] EXCEPT !.expired = TRUE].org = invites[s].org
          /\ [invites[s] EXCEPT !.expired = TRUE].email = invites[s].email
      BY <3>1, MarkedInvite
    <3>4. CASE invites'[s] = invites[s]
      BY <2>1, <3>4
    <3>5. CASE invites'[s] = [invites[s] EXCEPT !.expired = TRUE]
      BY <3>3, <3>5
    <3>6. QED
      BY <3>2, <3>4, <3>5
  <2>2. QED
    BY <1>20, <2>1 DEF InviteExpires, request
<1>21. CASE UNCHANGED vars
  BY <1>21 DEF vars
<1>22. QED
  BY <1>1, <1>2, <1>3, <1>4, <1>5, <1>6, <1>7, <1>8, <1>9, <1>10, <1>11, <1>12, <1>13,
      <1>14, <1>15, <1>16, <1>17, <1>18, <1>19, <1>20, <1>21
  DEF Next, Arrive, LocalAuthStep, InvitesStep

\* A request carries what it was given or has read to its last statement.
LEMMA StepLocalsInv ==
  TypeOK /\ LocalsInv /\ [Next]_vars => LocalsInv'
<1> SUFFICES ASSUME TypeOK, LocalsInv, [Next]_vars PROVE LocalsInv'
  OBVIOUS
<1> USE DirectoryAssumption DEF TypeOK, LocalsInv, Invitations, NoLocals, goto, done, tables
<1>1. ASSUME NEW r \in Requests, LocalAuthStep(r) PROVE LocalsInv'
  BY <1>1 DEF LocalAuthStep, SignupCredential, SignupFindOrg, SignupCreateOrg, SignupOwner,
           StartSession, LoginSession, PasswordUpdate, PasswordCreate, PasswordReply
<1>2. ASSUME NEW r \in Requests, InvitesStep(r) PROVE LocalsInv'
  BY <1>2 DEF InvitesStep, InviteInsert, AcceptUser, AcceptMember, AcceptUse
<1>3. ASSUME NEW r \in Requests, NEW e \in Emails, NEW n \in Usernames,
              NEW p \in Passwords, NEW o \in Slugs,
              SignupUser(r, e, n, p, o)
      PROVE  LocalsInv'
  BY <1>3 DEF SignupUser, UpsertUserByVerifiedEmail, begin
<1>4. ASSUME NEW r \in Requests, NEW n \in Usernames, NEW p \in Passwords,
              LoginCredential(r, n, p) PROVE LocalsInv'
  BY <1>4 DEF LoginCredential, begin
<1>5. ASSUME NEW r \in Requests, NEW e \in Emails, NEW p \in Passwords,
              PasswordLookup(r, e, p) PROVE LocalsInv'
  <2> DEFINE v == [NoLocals EXCEPT !.user = e, !.pw = p]
  <2>1. v.user = e /\ v.pw = p
    BY DEF NoLocals
  <2>2. CASE begin(r, "password_update", v)
    BY <2>1, <2>2 DEF begin
  <2>3. CASE begin(r, "password_create", v)
    BY <2>1, <2>3 DEF begin
  <2>4. QED
    BY <1>5, <2>2, <2>3 DEF PasswordLookup
<1>6. ASSUME NEW r \in Requests, NEW u \in Emails, NEW e \in Emails,
              NEW o \in Slugs, NEW g \in Roles \ {"Owner"},
              InviteAuthorize(r, u, o, e, g)
      PROVE  LocalsInv'
  BY <1>6 DEF InviteAuthorize, begin
<1>7. ASSUME NEW r \in Requests, NEW t \in Tokens, AcceptFind(r, t) PROVE LocalsInv'
  BY <1>7 DEF AcceptFind, begin
<1>8. ASSUME NEW r \in Requests, Abort(r) PROVE LocalsInv'
  BY <1>8 DEF Abort
<1>9. ASSUME NEW t \in Tokens, InviteExpires(t) PROVE LocalsInv'
  BY <1>9 DEF InviteExpires, request
<1>10. CASE UNCHANGED vars
  BY <1>10 DEF vars
<1>11. QED
  BY <1>1, <1>2, <1>3, <1>4, <1>5, <1>6, <1>7, <1>8, <1>9, <1>10 DEF Next, Arrive

\* Only CreateOrg names a creator, and it creates the organisation.
LEMMA StepCreatorInv ==
  TypeOK /\ LocalsInv /\ CreatorInv /\ [Next]_vars => CreatorInv'
<1> SUFFICES ASSUME TypeOK, LocalsInv, CreatorInv, [Next]_vars PROVE CreatorInv'
  OBVIOUS
<1> USE DirectoryAssumption DEF TypeOK, LocalsInv, CreatorInv, goto, done, tables
<1>1. ASSUME NEW r \in Requests, LocalAuthStep(r) PROVE CreatorInv'
  BY <1>1 DEF LocalAuthStep, SignupCredential, SignupFindOrg, SignupCreateOrg, SignupOwner,
           StartSession, LoginSession, PasswordUpdate, PasswordCreate, PasswordReply
<1>2. ASSUME NEW r \in Requests, InvitesStep(r) PROVE CreatorInv'
  BY <1>2 DEF InvitesStep, InviteInsert, AcceptUser, AcceptMember, AcceptUse
<1>3. ASSUME NEW r \in Requests, NEW e \in Emails, NEW n \in Usernames,
              NEW p \in Passwords, NEW o \in Slugs,
              SignupUser(r, e, n, p, o)
      PROVE  CreatorInv'
  BY <1>3 DEF SignupUser, UpsertUserByVerifiedEmail, begin
<1>4. ASSUME NEW r \in Requests, NEW n \in Usernames, NEW p \in Passwords,
              LoginCredential(r, n, p) PROVE CreatorInv'
  BY <1>4 DEF LoginCredential, begin
<1>5. ASSUME NEW r \in Requests, NEW e \in Emails, NEW p \in Passwords,
              PasswordLookup(r, e, p) PROVE CreatorInv'
  BY <1>5 DEF PasswordLookup, begin
<1>6. ASSUME NEW r \in Requests, NEW u \in Emails, NEW e \in Emails,
              NEW o \in Slugs, NEW g \in Roles \ {"Owner"},
              InviteAuthorize(r, u, o, e, g)
      PROVE  CreatorInv'
  BY <1>6 DEF InviteAuthorize, begin
<1>7. ASSUME NEW r \in Requests, NEW t \in Tokens, AcceptFind(r, t) PROVE CreatorInv'
  BY <1>7 DEF AcceptFind, begin
<1>8. ASSUME NEW r \in Requests, Abort(r) PROVE CreatorInv'
  BY <1>8 DEF Abort
<1>9. ASSUME NEW t \in Tokens, InviteExpires(t) PROVE CreatorInv'
  BY <1>9 DEF InviteExpires, request
<1>10. CASE UNCHANGED vars
  BY <1>10 DEF vars
<1>11. QED
  BY <1>1, <1>2, <1>3, <1>4, <1>5, <1>6, <1>7, <1>8, <1>9, <1>10 DEF Next, Arrive

\* Only the owner statement of the sign-up that created the organisation writes
\* Owner.
LEMMA StepOwner ==
  TypeOK /\ LocalsInv /\ CreatorInv /\ SignupInv /\ OwnerIsCreator
    /\ [Next]_vars => OwnerIsCreator'
<1> SUFFICES ASSUME TypeOK, LocalsInv, CreatorInv, SignupInv, OwnerIsCreator,
    [Next]_vars PROVE OwnerIsCreator'
  OBVIOUS
<1> USE DirectoryAssumption DEF TypeOK, LocalsInv, CreatorInv, SignupInv, SignupOK,
    OwnerIsCreator, goto, done, tables
<1>1. ASSUME NEW r \in Requests, LocalAuthStep(r) PROVE OwnerIsCreator'
  BY <1>1 DEF LocalAuthStep, SignupCredential, SignupFindOrg, SignupCreateOrg, SignupOwner,
           StartSession, LoginSession, PasswordUpdate, PasswordCreate, PasswordReply,
               EnsureMembership
<1>2. ASSUME NEW r \in Requests, InvitesStep(r) PROVE OwnerIsCreator'
  BY <1>2 DEF InvitesStep, InviteInsert, AcceptUser, AcceptMember, AcceptUse,
      EnsureMembership
<1>3. ASSUME NEW r \in Requests, NEW e \in Emails, NEW n \in Usernames,
              NEW p \in Passwords, NEW o \in Slugs,
              SignupUser(r, e, n, p, o)
      PROVE  OwnerIsCreator'
  BY <1>3 DEF SignupUser, UpsertUserByVerifiedEmail, begin
<1>4. ASSUME NEW r \in Requests, NEW n \in Usernames, NEW p \in Passwords,
              LoginCredential(r, n, p) PROVE OwnerIsCreator'
  BY <1>4 DEF LoginCredential, begin
<1>5. ASSUME NEW r \in Requests, NEW e \in Emails, NEW p \in Passwords,
              PasswordLookup(r, e, p) PROVE OwnerIsCreator'
  BY <1>5 DEF PasswordLookup, begin
<1>6. ASSUME NEW r \in Requests, NEW u \in Emails, NEW e \in Emails,
              NEW o \in Slugs, NEW g \in Roles \ {"Owner"},
              InviteAuthorize(r, u, o, e, g)
      PROVE  OwnerIsCreator'
  BY <1>6 DEF InviteAuthorize, begin
<1>7. ASSUME NEW r \in Requests, NEW t \in Tokens, AcceptFind(r, t) PROVE OwnerIsCreator'
  BY <1>7 DEF AcceptFind, begin
<1>8. ASSUME NEW r \in Requests, Abort(r) PROVE OwnerIsCreator'
  BY <1>8 DEF Abort
<1>9. ASSUME NEW t \in Tokens, InviteExpires(t) PROVE OwnerIsCreator'
  BY <1>9 DEF InviteExpires, request
<1>10. CASE UNCHANGED vars
  BY <1>10 DEF vars
<1>11. QED
  BY <1>1, <1>2, <1>3, <1>4, <1>5, <1>6, <1>7, <1>8, <1>9, <1>10 DEF Next, Arrive

\* A request that does not move keeps what its sign-up has done.
LEMMA SignupKept ==
  ASSUME TypeOK, LocalsInv, SignupInv, NothingLost, NEW q \in Requests,
         pc'[q] = pc[q], loc'[q] = loc[q]
  PROVE  SignupOK(q)'
<1> DEFINE u == loc[q].user
           o == loc[q].org
<1>1. /\ Invited(o, u) => Invited(o, u)'
      /\ loc'[q] = loc[q]
  BY DEF NothingLost, Invited
<1>2. ASSUME pc[q] \in {"signup_find", "signup_org", "signup_owner", "signup_session"}
      PROVE  /\ u \in Emails /\ o \in Slugs
             /\ cred'[u] # None /\ cred'[u].name = loc[q].name
  BY <1>2 DEF LocalsInv, SignupInv, SignupOK, NothingLost
<1>3. ASSUME pc[q] \in {"signup_owner", "signup_session"} PROVE creator'[o] = u
  BY <1>2, <1>3, DirectoryAssumption DEF SignupInv, SignupOK, NothingLost
<1>4. ASSUME pc[q] = "signup_session"
      PROVE  role'[o][u] # None /\ (role'[o][u] = "Owner" \/ Invited(o, u)')
  BY <1>1, <1>2, <1>4 DEF SignupInv, SignupOK, NothingLost
<1>5. QED
  BY <1>1, <1>2, <1>3, <1>4 DEF SignupOK, Invited

\* A sign-up loses nothing to the requests that interleave with it.
LEMMA StepSignupInv ==
  TypeOK /\ LocalsInv /\ CreatorInv /\ SignupInv /\ NothingLost /\ [Next]_vars => SignupInv'
<1> SUFFICES ASSUME TypeOK, LocalsInv, CreatorInv, SignupInv, NothingLost,
    [Next]_vars PROVE SignupInv'
  OBVIOUS
<1> USE DirectoryAssumption DEF TypeOK, SignupInv, goto, done, tables
<1>1. ASSUME NEW r \in Requests, NEW e \in Emails, NEW n \in Usernames,
              NEW p \in Passwords, NEW o \in Slugs,
              SignupUser(r, e, n, p, o)
      PROVE  SignupInv'
  <2>1. ASSUME NEW q \in Requests, q # r PROVE SignupOK(q)'
    BY <1>1, <2>1, SignupKept DEF SignupUser, begin
  <2>2. SignupOK(r)'
    BY <1>1 DEF SignupUser, UpsertUserByVerifiedEmail, begin, SignupOK, LocalsInv,
        SignupInv, CreatorInv, NothingLost, Invited, NoLocals
  <2>3. QED
    BY <2>1, <2>2
<1>2. ASSUME NEW r \in Requests, NEW n \in Usernames, NEW p \in Passwords,
              LoginCredential(r, n, p) PROVE SignupInv'
  <2>1. ASSUME NEW q \in Requests, q # r PROVE SignupOK(q)'
    BY <1>2, <2>1, SignupKept DEF LoginCredential, begin
  <2>2. SignupOK(r)'
    BY <1>2 DEF LoginCredential, begin, SignupOK, LocalsInv, SignupInv, CreatorInv,
        NothingLost, Invited, NoLocals
  <2>3. QED
    BY <2>1, <2>2
<1>3. ASSUME NEW r \in Requests, NEW e \in Emails, NEW p \in Passwords,
              PasswordLookup(r, e, p) PROVE SignupInv'
  <2>1. ASSUME NEW q \in Requests, q # r PROVE SignupOK(q)'
    BY <1>3, <2>1, SignupKept DEF PasswordLookup, begin
  <2>2. SignupOK(r)'
    BY <1>3 DEF PasswordLookup, begin, SignupOK, LocalsInv, SignupInv, CreatorInv,
        NothingLost, Invited, NoLocals
  <2>3. QED
    BY <2>1, <2>2
<1>4. ASSUME NEW r \in Requests, NEW u \in Emails, NEW e \in Emails,
              NEW o \in Slugs, NEW g \in Roles \ {"Owner"},
              InviteAuthorize(r, u, o, e, g)
      PROVE  SignupInv'
  <2>1. ASSUME NEW q \in Requests, q # r PROVE SignupOK(q)'
    BY <1>4, <2>1, SignupKept DEF InviteAuthorize, begin
  <2>2. SignupOK(r)'
    BY <1>4 DEF InviteAuthorize, begin, SignupOK, LocalsInv, SignupInv, CreatorInv,
        NothingLost, Invited, NoLocals
  <2>3. QED
    BY <2>1, <2>2
<1>5. ASSUME NEW r \in Requests, NEW t \in Tokens, AcceptFind(r, t) PROVE SignupInv'
  <2>1. ASSUME NEW q \in Requests, q # r PROVE SignupOK(q)'
    BY <1>5, <2>1, SignupKept DEF AcceptFind, begin
  <2>2. SignupOK(r)'
    BY <1>5 DEF AcceptFind, begin, SignupOK, LocalsInv, SignupInv, CreatorInv,
        NothingLost, Invited, NoLocals
  <2>3. QED
    BY <2>1, <2>2
<1>6. ASSUME NEW r \in Requests, SignupCredential(r) PROVE SignupInv'
  <2>1. ASSUME NEW q \in Requests, q # r PROVE SignupOK(q)'
    BY <1>6, <2>1, SignupKept DEF SignupCredential
  <2>2. SignupOK(r)'
    BY <1>6 DEF SignupCredential, CreateLocalCredential, Credentials, SignupOK,
        LocalsInv, SignupInv, CreatorInv, NothingLost, Invited, NoLocals
  <2>3. QED
    BY <2>1, <2>2
<1>7. ASSUME NEW r \in Requests, SignupFindOrg(r) PROVE SignupInv'
  <2>1. ASSUME NEW q \in Requests, q # r PROVE SignupOK(q)'
    BY <1>7, <2>1, SignupKept DEF SignupFindOrg
  <2>2. SignupOK(r)'
    BY <1>7 DEF SignupFindOrg, SignupOK, LocalsInv, SignupInv, CreatorInv, NothingLost,
        Invited, NoLocals
  <2>3. QED
    BY <2>1, <2>2
<1>8. ASSUME NEW r \in Requests, SignupCreateOrg(r) PROVE SignupInv'
  <2>1. ASSUME NEW q \in Requests, q # r PROVE SignupOK(q)'
    BY <1>8, <2>1, SignupKept DEF SignupCreateOrg
  <2>2. SignupOK(r)'
    BY <1>8 DEF SignupCreateOrg, SignupOK, LocalsInv, SignupInv, CreatorInv, NothingLost,
        Invited, NoLocals
  <2>3. QED
    BY <2>1, <2>2
<1>9. ASSUME NEW r \in Requests, SignupOwner(r) PROVE SignupInv'
  <2>1. ASSUME NEW q \in Requests, q # r PROVE SignupOK(q)'
    BY <1>9, <2>1, SignupKept DEF SignupOwner
  <2>2. SignupOK(r)'
    BY <1>9 DEF SignupOwner, EnsureMembership, Roles, SignupOK, LocalsInv, SignupInv,
        CreatorInv, NothingLost, Invited, NoLocals
  <2>3. QED
    BY <2>1, <2>2
<1>10. ASSUME NEW r \in Requests, StartSession(r) PROVE SignupInv'
  <2>1. ASSUME NEW q \in Requests, q # r PROVE SignupOK(q)'
    BY <1>10, <2>1, SignupKept DEF StartSession
  <2>2. SignupOK(r)'
    BY <1>10 DEF StartSession, SignupOK, LocalsInv, SignupInv, CreatorInv, NothingLost,
        Invited, NoLocals
  <2>3. QED
    BY <2>1, <2>2
<1>11. ASSUME NEW r \in Requests, LoginSession(r) PROVE SignupInv'
  <2>1. ASSUME NEW q \in Requests, q # r PROVE SignupOK(q)'
    BY <1>11, <2>1, SignupKept DEF LoginSession
  <2>2. SignupOK(r)'
    BY <1>11 DEF LoginSession, PickUserOrg, SignupOK, LocalsInv, SignupInv, CreatorInv,
        NothingLost, Invited, NoLocals
  <2>3. QED
    BY <2>1, <2>2
<1>12. ASSUME NEW r \in Requests, PasswordUpdate(r) PROVE SignupInv'
  <2>1. ASSUME NEW q \in Requests, q # r PROVE SignupOK(q)'
    BY <1>12, <2>1, SignupKept DEF PasswordUpdate
  <2>2. SignupOK(r)'
    BY <1>12 DEF PasswordUpdate, UpdateLocalPasswordHash, SignupOK, LocalsInv, SignupInv,
        CreatorInv, NothingLost, Invited, NoLocals
  <2>3. QED
    BY <2>1, <2>2
<1>13. ASSUME NEW r \in Requests, PasswordCreate(r) PROVE SignupInv'
  <2>1. ASSUME NEW q \in Requests, q # r PROVE SignupOK(q)'
    BY <1>13, <2>1, SignupKept DEF PasswordCreate
  <2>2. SignupOK(r)'
    BY <1>13 DEF PasswordCreate, CreateLocalCredential, CredentialFree, SignupOK,
        LocalsInv, SignupInv, CreatorInv, NothingLost, Invited, NoLocals
  <2>3. QED
    BY <2>1, <2>2
<1>14. ASSUME NEW r \in Requests, PasswordReply(r) PROVE SignupInv'
  <2>1. ASSUME NEW q \in Requests, q # r PROVE SignupOK(q)'
    BY <1>14, <2>1, SignupKept DEF PasswordReply
  <2>2. SignupOK(r)'
    BY <1>14 DEF PasswordReply, SignupOK, LocalsInv, SignupInv, CreatorInv, NothingLost,
        Invited, NoLocals
  <2>3. QED
    BY <2>1, <2>2
<1>15. ASSUME NEW r \in Requests, InviteInsert(r) PROVE SignupInv'
  <2>1. ASSUME NEW q \in Requests, q # r PROVE SignupOK(q)'
    BY <1>15, <2>1, SignupKept DEF InviteInsert
  <2>2. SignupOK(r)'
    BY <1>15 DEF InviteInsert, SignupOK, LocalsInv, SignupInv, CreatorInv, NothingLost,
        Invited, NoLocals
  <2>3. QED
    BY <2>1, <2>2
<1>16. ASSUME NEW r \in Requests, AcceptUser(r) PROVE SignupInv'
  <2>1. ASSUME NEW q \in Requests, q # r PROVE SignupOK(q)'
    BY <1>16, <2>1, SignupKept DEF AcceptUser
  <2>2. SignupOK(r)'
    BY <1>16 DEF AcceptUser, UpsertUserByVerifiedEmail, SignupOK, LocalsInv, SignupInv,
        CreatorInv, NothingLost, Invited, NoLocals
  <2>3. QED
    BY <2>1, <2>2
<1>17. ASSUME NEW r \in Requests, AcceptMember(r) PROVE SignupInv'
  <2>1. ASSUME NEW q \in Requests, q # r PROVE SignupOK(q)'
    BY <1>17, <2>1, SignupKept DEF AcceptMember
  <2>2. SignupOK(r)'
    BY <1>17 DEF AcceptMember, EnsureMembership, SignupOK, LocalsInv, SignupInv,
        CreatorInv, NothingLost, Invited, NoLocals
  <2>3. QED
    BY <2>1, <2>2
<1>18. ASSUME NEW r \in Requests, AcceptUse(r) PROVE SignupInv'
  <2>1. ASSUME NEW q \in Requests, q # r PROVE SignupOK(q)'
    BY <1>18, <2>1, SignupKept DEF AcceptUse
  <2>2. SignupOK(r)'
    BY <1>18 DEF AcceptUse, SignupOK, LocalsInv, SignupInv, CreatorInv, NothingLost,
        Invited, NoLocals
  <2>3. QED
    BY <2>1, <2>2
<1>19. ASSUME NEW r \in Requests, Abort(r) PROVE SignupInv'
  <2>1. ASSUME NEW q \in Requests, q # r PROVE SignupOK(q)'
    BY <1>19, <2>1, SignupKept DEF Abort
  <2>2. SignupOK(r)'
    BY <1>19 DEF Abort, SignupOK, LocalsInv, SignupInv, CreatorInv, NothingLost, Invited,
        NoLocals
  <2>3. QED
    BY <2>1, <2>2
<1>20. ASSUME NEW t \in Tokens, InviteExpires(t) PROVE SignupInv'
  BY <1>20, SignupKept DEF InviteExpires, request
<1>21. CASE UNCHANGED vars
  BY <1>21, SignupKept DEF vars
<1>22. QED
  BY <1>1, <1>2, <1>3, <1>4, <1>5, <1>6, <1>7, <1>8, <1>9, <1>10, <1>11, <1>12, <1>13,
      <1>14, <1>15, <1>16, <1>17, <1>18, <1>19, <1>20, <1>21
  DEF Next, Arrive, LocalAuthStep, InvitesStep

\* An acceptance that interleaves with others still holds a true copy of the invite.
LEMMA StepAcceptInv ==
  TypeOK /\ LocalsInv /\ AcceptInv /\ NothingLost /\ [Next]_vars => AcceptInv'
<1> SUFFICES ASSUME TypeOK, LocalsInv, AcceptInv, NothingLost, [Next]_vars PROVE AcceptInv'
  OBVIOUS
<1> USE DirectoryAssumption DEF TypeOK, LocalsInv, AcceptInv, NothingLost, NoLocals,
    Invitations, goto, done, tables
<1>1. ASSUME NEW r \in Requests, LocalAuthStep(r) PROVE AcceptInv'
  BY <1>1 DEF LocalAuthStep, SignupCredential, SignupFindOrg, SignupCreateOrg, SignupOwner,
           StartSession, LoginSession, PasswordUpdate, PasswordCreate, PasswordReply
<1>2. ASSUME NEW r \in Requests, InvitesStep(r) PROVE AcceptInv'
  BY <1>2 DEF InvitesStep, InviteInsert, AcceptUser, AcceptMember, AcceptUse,
      EnsureMembership
<1>3. ASSUME NEW r \in Requests, NEW e \in Emails, NEW n \in Usernames,
              NEW p \in Passwords, NEW o \in Slugs,
              SignupUser(r, e, n, p, o)
      PROVE  AcceptInv'
  BY <1>3 DEF SignupUser, UpsertUserByVerifiedEmail, begin
<1>4. ASSUME NEW r \in Requests, NEW n \in Usernames, NEW p \in Passwords,
              LoginCredential(r, n, p) PROVE AcceptInv'
  BY <1>4 DEF LoginCredential, begin
<1>5. ASSUME NEW r \in Requests, NEW e \in Emails, NEW p \in Passwords,
              PasswordLookup(r, e, p) PROVE AcceptInv'
  BY <1>5 DEF PasswordLookup, begin
<1>6. ASSUME NEW r \in Requests, NEW u \in Emails, NEW e \in Emails,
              NEW o \in Slugs, NEW g \in Roles \ {"Owner"},
              InviteAuthorize(r, u, o, e, g)
      PROVE  AcceptInv'
  BY <1>6 DEF InviteAuthorize, begin
<1>7. ASSUME NEW r \in Requests, NEW t \in Tokens, AcceptFind(r, t) PROVE AcceptInv'
  BY <1>7 DEF AcceptFind, begin
<1>8. ASSUME NEW r \in Requests, Abort(r) PROVE AcceptInv'
  BY <1>8 DEF Abort
<1>9. ASSUME NEW t \in Tokens, InviteExpires(t) PROVE AcceptInv'
  BY <1>9 DEF InviteExpires, request
<1>10. CASE UNCHANGED vars
  BY <1>10 DEF vars
<1>11. QED
  BY <1>1, <1>2, <1>3, <1>4, <1>5, <1>6, <1>7, <1>8, <1>9, <1>10 DEF Next, Arrive

\* A session is issued only after a membership was written or read.
LEMMA StepSessions ==
  TypeOK /\ LocalsInv /\ SignupInv /\ AcceptInv /\ SessionsAreMembers /\ NothingLost
    /\ [Next]_vars => SessionsAreMembers'
<1> SUFFICES ASSUME TypeOK, LocalsInv, SignupInv, AcceptInv, SessionsAreMembers,
    NothingLost, [Next]_vars PROVE SessionsAreMembers'
  OBVIOUS
<1> USE DirectoryAssumption DEF TypeOK, LocalsInv, SignupInv, SignupOK, AcceptInv,
    SessionsAreMembers, NothingLost, goto, done, tables
<1>1. ASSUME NEW r \in Requests, LocalAuthStep(r) PROVE SessionsAreMembers'
  BY <1>1 DEF LocalAuthStep, SignupCredential, SignupFindOrg, SignupCreateOrg, SignupOwner,
           StartSession, LoginSession, PasswordUpdate, PasswordCreate, PasswordReply,
               PickUserOrg
<1>2. ASSUME NEW r \in Requests, InvitesStep(r) PROVE SessionsAreMembers'
  BY <1>2 DEF InvitesStep, InviteInsert, AcceptUser, AcceptMember, AcceptUse
<1>3. ASSUME NEW r \in Requests, NEW e \in Emails, NEW n \in Usernames,
              NEW p \in Passwords, NEW o \in Slugs,
              SignupUser(r, e, n, p, o)
      PROVE  SessionsAreMembers'
  BY <1>3 DEF SignupUser, UpsertUserByVerifiedEmail, begin
<1>4. ASSUME NEW r \in Requests, NEW n \in Usernames, NEW p \in Passwords,
              LoginCredential(r, n, p) PROVE SessionsAreMembers'
  BY <1>4 DEF LoginCredential, begin
<1>5. ASSUME NEW r \in Requests, NEW e \in Emails, NEW p \in Passwords,
              PasswordLookup(r, e, p) PROVE SessionsAreMembers'
  BY <1>5 DEF PasswordLookup, begin
<1>6. ASSUME NEW r \in Requests, NEW u \in Emails, NEW e \in Emails,
              NEW o \in Slugs, NEW g \in Roles \ {"Owner"},
              InviteAuthorize(r, u, o, e, g)
      PROVE  SessionsAreMembers'
  BY <1>6 DEF InviteAuthorize, begin
<1>7. ASSUME NEW r \in Requests, NEW t \in Tokens, AcceptFind(r,
    t) PROVE SessionsAreMembers'
  BY <1>7 DEF AcceptFind, begin
<1>8. ASSUME NEW r \in Requests, Abort(r) PROVE SessionsAreMembers'
  BY <1>8 DEF Abort
<1>9. ASSUME NEW t \in Tokens, InviteExpires(t) PROVE SessionsAreMembers'
  BY <1>9 DEF InviteExpires, request
<1>10. CASE UNCHANGED vars
  BY <1>10 DEF vars
<1>11. QED
  BY <1>1, <1>2, <1>3, <1>4, <1>5, <1>6, <1>7, <1>8, <1>9, <1>10 DEF Next, Arrive

\* An invite is marked after its membership is written.
LEMMA StepUsed ==
  TypeOK /\ LocalsInv /\ AcceptInv /\ UsedInviteMeansMember /\ NothingLost
    /\ [Next]_vars => UsedInviteMeansMember'
<1> SUFFICES ASSUME TypeOK, LocalsInv, AcceptInv, UsedInviteMeansMember, NothingLost,
    [Next]_vars PROVE UsedInviteMeansMember'
  OBVIOUS
<1> USE DirectoryAssumption DEF TypeOK, LocalsInv, AcceptInv, UsedInviteMeansMember,
    NothingLost, goto, done, tables
<1>1. ASSUME NEW r \in Requests, NEW e \in Emails, NEW n \in Usernames,
              NEW p \in Passwords, NEW o \in Slugs,
              SignupUser(r, e, n, p, o)
      PROVE  UsedInviteMeansMember'
  BY <1>1 DEF SignupUser, UpsertUserByVerifiedEmail, begin
<1>2. ASSUME NEW r \in Requests, NEW n \in Usernames, NEW p \in Passwords,
              LoginCredential(r, n, p) PROVE UsedInviteMeansMember'
  BY <1>2 DEF LoginCredential, begin
<1>3. ASSUME NEW r \in Requests, NEW e \in Emails, NEW p \in Passwords,
              PasswordLookup(r, e, p) PROVE UsedInviteMeansMember'
  BY <1>3 DEF PasswordLookup, begin
<1>4. ASSUME NEW r \in Requests, NEW u \in Emails, NEW e \in Emails,
              NEW o \in Slugs, NEW g \in Roles \ {"Owner"},
              InviteAuthorize(r, u, o, e, g)
      PROVE  UsedInviteMeansMember'
  BY <1>4 DEF InviteAuthorize, begin
<1>5. ASSUME NEW r \in Requests, NEW t \in Tokens, AcceptFind(r,
    t) PROVE UsedInviteMeansMember'
  BY <1>5 DEF AcceptFind, begin
<1>6. ASSUME NEW r \in Requests, SignupCredential(r) PROVE UsedInviteMeansMember'
  BY <1>6 DEF SignupCredential, CreateLocalCredential, CredentialFree
<1>7. ASSUME NEW r \in Requests, SignupFindOrg(r) PROVE UsedInviteMeansMember'
  BY <1>7 DEF SignupFindOrg
<1>8. ASSUME NEW r \in Requests, SignupCreateOrg(r) PROVE UsedInviteMeansMember'
  BY <1>8 DEF SignupCreateOrg
<1>9. ASSUME NEW r \in Requests, SignupOwner(r) PROVE UsedInviteMeansMember'
  BY <1>9 DEF SignupOwner, EnsureMembership
<1>10. ASSUME NEW r \in Requests, StartSession(r) PROVE UsedInviteMeansMember'
  BY <1>10 DEF StartSession
<1>11. ASSUME NEW r \in Requests, LoginSession(r) PROVE UsedInviteMeansMember'
  BY <1>11 DEF LoginSession, PickUserOrg
<1>12. ASSUME NEW r \in Requests, PasswordUpdate(r) PROVE UsedInviteMeansMember'
  BY <1>12 DEF PasswordUpdate, UpdateLocalPasswordHash
<1>13. ASSUME NEW r \in Requests, PasswordCreate(r) PROVE UsedInviteMeansMember'
  BY <1>13 DEF PasswordCreate, CreateLocalCredential, CredentialFree
<1>14. ASSUME NEW r \in Requests, PasswordReply(r) PROVE UsedInviteMeansMember'
  BY <1>14 DEF PasswordReply
<1>15. ASSUME NEW r \in Requests, InviteInsert(r) PROVE UsedInviteMeansMember'
  BY <1>15 DEF InviteInsert
<1>16. ASSUME NEW r \in Requests, AcceptUser(r) PROVE UsedInviteMeansMember'
  BY <1>16 DEF AcceptUser, UpsertUserByVerifiedEmail
<1>17. ASSUME NEW r \in Requests, AcceptMember(r) PROVE UsedInviteMeansMember'
  BY <1>17 DEF AcceptMember, EnsureMembership
<1>18. ASSUME NEW r \in Requests, AcceptUse(r) PROVE UsedInviteMeansMember'
  BY <1>18 DEF AcceptUse
<1>19. ASSUME NEW r \in Requests, Abort(r) PROVE UsedInviteMeansMember'
  BY <1>19 DEF Abort
<1>20. ASSUME NEW t \in Tokens, InviteExpires(t) PROVE UsedInviteMeansMember'
  BY <1>20 DEF InviteExpires, request
<1>21. CASE UNCHANGED vars
  BY <1>21 DEF vars
<1>22. QED
  BY <1>1, <1>2, <1>3, <1>4, <1>5, <1>6, <1>7, <1>8, <1>9, <1>10, <1>11, <1>12, <1>13,
      <1>14, <1>15, <1>16, <1>17, <1>18, <1>19, <1>20, <1>21
  DEF Next, Arrive, LocalAuthStep, InvitesStep

\* The invariant is inductive.
LEMMA StepIInv == IInv /\ [Next]_vars => IInv'
<1> SUFFICES ASSUME IInv, [Next]_vars PROVE IInv'
  OBVIOUS
<1>1. TypeOK'
  BY StepControl, StepTables DEF IInv, TypeOK, ControlOK, TablesOK
<1>2. NothingLost
  BY StepNothingLost DEF IInv
<1>3. LocalsInv' /\ CreatorInv' /\ OwnerIsCreator'
  BY StepLocalsInv, StepCreatorInv, StepOwner DEF IInv
<1>4. SignupInv' /\ AcceptInv' /\ SessionsAreMembers' /\ UsedInviteMeansMember'
  BY <1>2, StepSignupInv, StepAcceptInv, StepSessions, StepUsed DEF IInv
<1>5. QED
  BY <1>1, <1>3, <1>4 DEF IInv

-------------------------------------------------------------------------------

\* Every reachable state satisfies the invariant.
THEOREM Invariance == Spec => []IInv
  BY InitIInv, StepIInv, PTL DEF Spec

\* The tables and the requests' locals keep their types.
THEOREM TypeCorrect == Spec => []TypeOK
<1>1. IInv => TypeOK
  BY DEF IInv
<1>2. QED
  BY <1>1, Invariance, PTL

\* However many sign-ups race for a slug and whatever invites are accepted, an
\* organisation's Owner is the user whose sign-up created it.
THEOREM OneOwner == Spec => []OwnerIsCreator
<1>1. IInv => OwnerIsCreator
  BY DEF IInv
<1>2. QED
  BY <1>1, Invariance, PTL

\* A sign-up that reaches its answer has delivered what it answers, whatever ran
\* between its statements.
THEOREM SignupKeepsItsWord == Spec => []SignupDelivers
<1>1. IInv => SignupDelivers
  BY DEF IInv, SignupInv, SignupOK, SignupDelivers
<1>2. QED
  BY <1>1, Invariance, PTL

\* No session is issued for an organisation its user is not a member of.
THEOREM SessionsNeedMembership == Spec => []SessionsAreMembers
<1>1. IInv => SessionsAreMembers
  BY DEF IInv
<1>2. QED
  BY <1>1, Invariance, PTL

\* An invite that is spent has made its addressee a member, wherever the requests
\* that accepted it stopped.
THEOREM InviteNotLost == Spec => []UsedInviteMeansMember
<1>1. IInv => UsedInviteMeansMember
  BY DEF IInv
<1>2. QED
  BY <1>1, Invariance, PTL

\* A step that changes an existing credential is its own user's set-password.
LEMMA StepOnlyOwn ==
  IInv /\ [Next]_vars =>
    [\A e \in Emails : cred[e] # None /\ cred'[e] # cred[e] =>
       \E r \in Requests : pc[r] = "password_update" /\ loc[r].user = e]_vars
<1> SUFFICES ASSUME IInv, [Next]_vars, NEW e \in Emails,
                    cred[e] # None, cred'[e] # cred[e]
             PROVE  \E r \in Requests : pc[r] = "password_update" /\ loc[r].user = e
  OBVIOUS
<1>1. PICK r \in Requests : SignupCredential(r) \/ PasswordUpdate(r) \/ PasswordCreate(r)
  BY DEF Next, Arrive, LocalAuthStep, InvitesStep, vars, tables, request, SignupUser,
         SignupFindOrg, SignupCreateOrg, SignupOwner, StartSession, LoginCredential,
         LoginSession, PasswordLookup, PasswordReply, InviteAuthorize, InviteInsert,
         InviteExpires, AcceptFind, AcceptUser, AcceptMember, AcceptUse, Abort
<1>2. TypeOK /\ LocalsInv
  BY DEF IInv
<1>3. CASE SignupCredential(r)
  BY <1>2, <1>3 DEF SignupCredential, CredentialFree, CreateLocalCredential, TypeOK,
      LocalsInv
<1>4. CASE PasswordUpdate(r)
  BY <1>2, <1>4 DEF PasswordUpdate, UpdateLocalPasswordHash, TypeOK
<1>5. CASE PasswordCreate(r)
  BY <1>2, <1>5 DEF PasswordCreate, CredentialFree, CreateLocalCredential, TypeOK, LocalsInv
<1>6. QED
  BY <1>1, <1>3, <1>4, <1>5

\* Nobody's credential is changed but by their own set-password, even when one user's
\* username is another user's email.
THEOREM CredentialsAreTheirOwners == Spec => OnlyOwnCredential
  BY Invariance, StepOnlyOwn, PTL DEF Spec, OnlyOwnCredential

-------------------------------------------------------------------------------
(* Onboarding implements Membership.                                          *)

Memberless(members) == \A e \in Emails : members[e] = None

\* An organisation whose owner statement is still to come has nobody in it and nobody
\* is invited into it; one request only will run that statement.  An acceptance
\* writes the role its invite offers.
FoundedInv ==
  /\ \A r \in Requests : pc[r] = "signup_owner" => Memberless(role[loc[r].org])
  /\ \A r, q \in Requests :
       pc[r] = "signup_owner" /\ pc[q] = "signup_owner" /\ r # q => loc[r].org # loc[q].org
  /\ \A r \in Requests : pc[r] = "invite_insert" => ~Memberless(role[loc[r].org])
  /\ \A t \in Tokens : invites[t] # None => ~Memberless(role[invites[t].org])
  /\ \A o \in Slugs \ orgs : Memberless(role[o])
  /\ \A r \in Requests : pc[r] \in {"accept_user", "accept_member", "accept_use"} =>
       invites[loc[r].token].role = loc[r].role

\* At the start no organisation has members, and no request is under way.
LEMMA InitFoundedInv == Init => FoundedInv
  BY DEF Init, DirectoryInit, FoundedInv, Memberless

\* No step changes what an invite offers.
LEMMA OffersKept ==
  IInv /\ [Next]_vars => \A t \in Tokens : invites[t] # None =>
    /\ invites'[t] # None
    /\ invites'[t].org = invites[t].org
    /\ invites'[t].email = invites[t].email
    /\ invites'[t].role = invites[t].role
<1> SUFFICES ASSUME IInv, [Next]_vars, NEW t \in Tokens, invites[t] # None
             PROVE  /\ invites'[t] # None
                    /\ invites'[t].org = invites[t].org
                    /\ invites'[t].email = invites[t].email
                    /\ invites'[t].role = invites[t].role
  OBVIOUS
<1>1. invites \in [Tokens -> Invitations \cup {None}] /\ invites[t] \in Invitations
  BY DEF IInv, TypeOK
<1>2. invites'[t] \in {invites[t], [invites[t] EXCEPT !.used = TRUE],
                       [invites[t] EXCEPT !.expired = TRUE]}
  BY <1>1 DEF Next, Arrive, LocalAuthStep, InvitesStep, vars, tables, request, SignupUser,
     SignupCredential, SignupFindOrg, SignupCreateOrg, SignupOwner, StartSession,
     LoginCredential, LoginSession, PasswordLookup, PasswordUpdate, PasswordCreate,
     PasswordReply, InviteAuthorize, InviteInsert, InviteExpires, AcceptFind, AcceptUser,
     AcceptMember, AcceptUse, Abort
<1>3. PICK i : i = invites'[t]
  OBVIOUS
<1>4. /\ i \in Invitations
      /\ i.org = invites[t].org /\ i.email = invites[t].email /\ i.role = invites[t].role
  BY <1>1, <1>2, <1>3, MarkedInvite
<1>5. QED
  BY <1>3, <1>4, DirectoryAssumption

\* Only an owner statement, in its empty organisation, and acceptances write roles;
\* only sessions of members ask for invites.
LEMMA StepFoundedInv == IInv /\ FoundedInv /\ [Next]_vars => FoundedInv'
<1> SUFFICES ASSUME IInv, FoundedInv, [Next]_vars PROVE FoundedInv'
  OBVIOUS
<1> USE DEF FoundedInv, goto, done, tables
<1>1. /\ TypeOK /\ LocalsInv /\ CreatorInv /\ SignupInv /\ AcceptInv
      /\ pc \in [Requests -> PCs]
      /\ loc \in [Requests -> Locals]
      /\ orgs \subseteq Slugs
      /\ role \in [Slugs -> [Emails -> Roles \cup {None}]]
      /\ invites \in [Tokens -> Invitations \cup {None}]
  BY DEF IInv, TypeOK
<1>2. \A t \in Tokens : invites[t] # None =>
        invites'[t].org = invites[t].org /\ invites'[t].role = invites[t].role
  BY OffersKept
<1>3. \A r \in Requests :
        /\ pc[r] \in {"signup_org", "signup_owner", "invite_insert", "accept_user",
                      "accept_member", "accept_use"} => loc[r].org \in Slugs
        /\ pc[r] # "idle" => loc[r].user \in Emails
        /\ pc[r] = "signup_owner" => loc[r].org \in orgs
  BY <1>1, DirectoryAssumption DEF LocalsInv, SignupInv, SignupOK, CreatorInv
<1>4. \A t \in Tokens : invites[t] # None => invites[t] \in Invitations
  BY <1>1
<1>5. ASSUME NEW r \in Requests, SignupCreateOrg(r) PROVE FoundedInv'
  BY <1>1, <1>3, <1>5 DEF SignupCreateOrg
<1>6. ASSUME NEW r \in Requests, SignupOwner(r) PROVE FoundedInv'
  <2> DEFINE o == loc[r].org
  <2>1. o \in orgs /\ o \in Slugs /\ loc[r].user \in Emails
    BY <1>1, <1>3, <1>6 DEF SignupOwner
  <2>2. /\ ~Memberless(role'[o])
        /\ \A p \in Slugs \ {o} : role'[p] = role[p]
    BY <1>1, <1>6, <2>1, DirectoryAssumption DEF SignupOwner, EnsureMembership, Memberless, Roles
  <2>3. \A q \in Requests : q # r /\ pc[q] = "signup_owner" => loc[q].org # o
    BY <1>6 DEF SignupOwner
  <2>4. /\ pc' = [pc EXCEPT ![r] = "signup_session"]
        /\ UNCHANGED <<loc, orgs, invites>>
    BY <1>6 DEF SignupOwner
  <2> HIDE DEF o
  <2>5. QED
    BY <1>1, <1>3, <1>4, <2>1, <2>2, <2>3, <2>4 DEF Invitations
<1>7. ASSUME NEW r \in Requests, AcceptMember(r) PROVE FoundedInv'
  <2> DEFINE o == loc[r].org
  <2>1. o \in Slugs /\ ~Memberless(role[o])
    BY <1>1, <1>3, <1>7 DEF AcceptMember, AcceptInv, LocalsInv
  <2>2. /\ ~Memberless(role'[o])
        /\ \A p \in Slugs \ {o} : role'[p] = role[p]
    BY <1>1, <1>3, <1>7, <2>1, DirectoryAssumption
    DEF AcceptMember, EnsureMembership, Memberless, LocalsInv
  <2>3. /\ pc' = [pc EXCEPT ![r] = "accept_use"]
        /\ UNCHANGED <<loc, orgs, invites>>
    BY <1>7 DEF AcceptMember
  <2>4. pc[r] = "accept_member"
    BY <1>7 DEF AcceptMember
  <2> HIDE DEF o
  <2>5. QED
    BY <1>1, <1>3, <1>4, <2>1, <2>2, <2>3, <2>4 DEF Invitations
<1>8. ASSUME NEW r \in Requests, InviteInsert(r) PROVE FoundedInv'
  <2>1. PICK t \in Tokens :
          /\ invites[t] = None
          /\ invites' = [invites EXCEPT ![t] =
               [org |-> loc[r].org, email |-> loc[r].user, role |-> loc[r].role,
                expired |-> FALSE, used |-> FALSE]]
    BY <1>8 DEF InviteInsert
  <2>2. /\ pc[r] = "invite_insert" /\ ~Memberless(role[loc[r].org])
        /\ pc' = [pc EXCEPT ![r] = "idle"] /\ loc' = [loc EXCEPT ![r] = NoLocals]
        /\ UNCHANGED <<orgs, role>>
    BY <1>8 DEF InviteInsert
  <2>3. invites'[t].org = loc[r].org /\ \A s \in Tokens \ {t} : invites'[s] = invites[s]
    BY <1>1, <2>1
  <2>4. \A q \in Requests : pc[q] \in {"accept_user", "accept_member", "accept_use"} =>
          loc[q].token \in Tokens \ {t}
    BY <1>1, <2>1 DEF AcceptInv, LocalsInv
  <2>5. QED
    BY <1>1, <2>2, <2>3, <2>4
<1>9. ASSUME NEW r \in Requests, NEW u \in Emails, NEW e \in Emails,
              NEW o \in Slugs, NEW g \in Roles \ {"Owner"},
              InviteAuthorize(r, u, o, e, g)
      PROVE  FoundedInv'
  <2>1. loc'[r].org = o /\ ~Memberless(role[o])
    BY <1>1, <1>9, DirectoryAssumption DEF InviteAuthorize, begin, NoLocals, Memberless, Roles
  <2>2. QED
    BY <1>1, <1>9, <2>1 DEF InviteAuthorize, begin
<1>10. ASSUME NEW r \in Requests, NEW t \in Tokens, AcceptFind(r, t) PROVE FoundedInv'
  <2>1. loc'[r].token = t /\ loc'[r].role = invites[t].role
    BY <1>1, <1>10 DEF AcceptFind, begin, NoLocals
  <2>2. QED
    BY <1>1, <1>10, <2>1 DEF AcceptFind, begin
<1>11. ASSUME NEW r \in Requests, Abort(r) PROVE FoundedInv'
  BY <1>1, <1>11 DEF Abort
<1>12. ASSUME UNCHANGED <<orgs, role>>,
              \A t \in Tokens : invites'[t] # None <=> invites[t] # None,
              \A r \in Requests :
                \/ pc'[r] \in PCs \ {"signup_owner", "invite_insert", "accept_user",
                                     "accept_member", "accept_use"}
                \/ pc'[r] = pc[r] /\ loc'[r] = loc[r]
                \/ /\ {pc[r], pc'[r]} \subseteq {"accept_user", "accept_member", "accept_use"}
                   /\ loc'[r] = loc[r]
       PROVE  FoundedInv'
  <2>1. \A r \in Requests : pc[r] \in {"accept_user", "accept_member", "accept_use"} =>
          loc[r].token \in Tokens /\ invites[loc[r].token] # None
    BY <1>1 DEF AcceptInv, LocalsInv
  <2>2. QED
    BY <1>2, <1>12, <2>1
<1>13. ASSUME NEW r \in Requests, LocalAuthStep(r), ~SignupCreateOrg(r), ~SignupOwner(r)
       PROVE  FoundedInv'
  BY <1>1, <1>12, <1>13 DEF LocalAuthStep, SignupCredential, SignupFindOrg, StartSession,
     LoginSession, PasswordUpdate, PasswordCreate, PasswordReply, PCs
<1>14. ASSUME NEW r \in Requests, AcceptUser(r) \/ AcceptUse(r) PROVE FoundedInv'
  <2>1. \A t \in Tokens : invites'[t] # None <=> invites[t] # None
    BY <1>1, <1>14, StepNothingLost
    DEF AcceptUser, AcceptUse, IInv, NothingLost, AcceptInv, LocalsInv
  <2>2. QED
    BY <1>1, <1>12, <1>14, <2>1 DEF AcceptUser, AcceptUse, PCs
<1>15. ASSUME NEW r \in Requests,
              \/ \E e \in Emails, n \in Usernames, p \in Passwords, o \in Slugs :
                   SignupUser(r, e, n, p, o)
              \/ \E n \in Usernames, p \in Passwords : LoginCredential(r, n, p)
              \/ \E e \in Emails, p \in Passwords : PasswordLookup(r, e, p)
       PROVE  FoundedInv'
  <2>1. PICK l \in {"signup_cred", "login_org", "password_update", "password_create"} :
          /\ pc' = [pc EXCEPT ![r] = l]
          /\ \A q \in Requests \ {r} : loc'[q] = loc[q]
          /\ UNCHANGED <<orgs, role, invites>>
    BY <1>1, <1>15 DEF SignupUser, LoginCredential, PasswordLookup, begin
  <2>2. QED
    BY <1>1, <1>12, <2>1 DEF PCs
<1>16. ASSUME NEW t \in Tokens, InviteExpires(t) PROVE FoundedInv'
  <2>1. \A s \in Tokens : invites'[s] # None <=> invites[s] # None
    BY <1>1, <1>16, StepNothingLost DEF InviteExpires, IInv, NothingLost
  <2>2. QED
    BY <1>1, <1>12, <1>16, <2>1 DEF InviteExpires, request
<1>17. CASE UNCHANGED vars
  BY <1>12, <1>17 DEF vars
<1>18. QED
  BY <1>5, <1>6, <1>7, <1>8, <1>9, <1>10, <1>11, <1>13, <1>14, <1>15, <1>16, <1>17
  DEF Next, Arrive, InvitesStep

\* In every reachable state an organisation without members is one nobody acts for but
\* the sign-up that creates it.
LEMMA FoundedInvariance == Spec => []FoundedInv
  BY InitFoundedInv, StepFoundedInv, Invariance, PTL DEF Spec

\* A step that leaves the creators, the invites and the roles alone stutters.
LEMMA MembersStutter ==
  ASSUME UNCHANGED <<creator, invites, role>>
  PROVE  UNCHANGED Members!vars
  BY DEF Members!vars, Offers

\* A step that keeps what the invites offer makes no offers and withdraws none.
LEMMA SameOffers ==
  ASSUME IInv, [Next]_vars,
         \A t \in Tokens : invites'[t] # None => invites[t] # None
  PROVE  Offers' = Offers
  BY OffersKept DEF Offers

\* Every step of the handlers is a step of the memberships or leaves them alone.
LEMMA StepMembers ==
  IInv /\ FoundedInv /\ [Next]_vars => [Members!Next]_(Members!vars)
<1> SUFFICES ASSUME IInv, FoundedInv, [Next]_vars PROVE [Members!Next]_(Members!vars)
  OBVIOUS
<1> USE DEF tables
<1>1. /\ TypeOK /\ LocalsInv /\ CreatorInv /\ SignupInv /\ AcceptInv
      /\ pc \in [Requests -> PCs]
      /\ role \in [Slugs -> [Emails -> Roles \cup {None}]]
      /\ invites \in [Tokens -> Invitations \cup {None}]
      /\ creator \in [Slugs -> Emails \cup {None}]
  BY DEF IInv, TypeOK
<1>2. ASSUME NEW r \in Requests, SignupCreateOrg(r) PROVE [Members!Next]_(Members!vars)
  <2> DEFINE o == loc[r].org
             e == loc[r].user
  <2>1. o \in Slugs /\ e \in Emails
    BY <1>1, <1>2 DEF SignupCreateOrg, LocalsInv
  <2>2. CASE o \in orgs
    BY <1>2, <2>2, MembersStutter DEF SignupCreateOrg
  <2>3. CASE o \notin orgs
    <3>1. creator[o] = None /\ creator' = [creator EXCEPT ![o] = e]
      BY <1>1, <1>2, <2>1, <2>3 DEF SignupCreateOrg, CreatorInv
    <3>2. UNCHANGED <<Offers, role>>
      BY <1>2 DEF SignupCreateOrg, Offers
    <3>3. Members!Found(o, e)
      BY <3>1, <3>2 DEF Members!Found
    <3>4. QED
      BY <2>1, <3>3 DEF Members!Next
  <2>4. QED
    BY <2>2, <2>3
<1>3. ASSUME NEW r \in Requests, SignupOwner(r) PROVE [Members!Next]_(Members!vars)
  <2> DEFINE o == loc[r].org
  <2>1. o \in Slugs /\ loc[r].user \in Emails /\ creator[o] = loc[r].user
    BY <1>1, <1>3 DEF SignupOwner, LocalsInv, SignupInv, SignupOK
  <2>2. ~Members!Started(o)
    BY <1>3 DEF SignupOwner, FoundedInv, Memberless, Members!Started
  <2>3. role' = [role EXCEPT ![o][creator[o]] = "Owner"] /\ UNCHANGED <<creator, Offers>>
    BY <1>3, <2>1 DEF SignupOwner, EnsureMembership, Offers
  <2>4. Members!Own(o)
    BY <2>1, <2>2, <2>3, DirectoryAssumption DEF Members!Own
  <2>5. QED
    BY <2>1, <2>4 DEF Members!Next
<1>4. ASSUME NEW r \in Requests, InviteInsert(r) PROVE [Members!Next]_(Members!vars)
  <2> DEFINE o == loc[r].org
             e == loc[r].user
             g == loc[r].role
  <2>1. o \in Slugs /\ e \in Emails /\ g \in Members!OfferedRoles
    BY <1>1, <1>4 DEF InviteInsert, LocalsInv, Roles, Members!OfferedRoles
  <2>2. Members!Started(o)
    BY <1>4 DEF InviteInsert, FoundedInv, Memberless, Members!Started
  <2>3. Offers' = Offers \cup {<<o, e, g>>}
    <3>1. PICK t \in Tokens :
            /\ invites[t] = None
            /\ invites' = [invites EXCEPT ![t] =
                 [org |-> o, email |-> e, role |-> g, expired |-> FALSE, used |-> FALSE]]
      BY <1>4 DEF InviteInsert
    <3>2. PICK i : i = [org |-> o, email |-> e, role |-> g, expired |-> FALSE, used |-> FALSE]
      OBVIOUS
    <3>3. i \in Invitations
      BY <2>1, <3>2 DEF Invitations, Roles, Members!OfferedRoles
    <3>4. /\ i # None /\ <<i.org, i.email, i.role>> = <<o, e, g>>
      BY <3>2, <3>3, DirectoryAssumption
    <3>5. invites' = [invites EXCEPT ![t] = i]
      BY <3>1, <3>2
    <3> HIDE DEF o, e, g
    <3>6. invites'[t] = i /\ \A s \in Tokens \ {t} : invites'[s] = invites[s]
      BY <1>1, <3>5
    <3>7. {u \in Tokens : invites'[u] # None} = {u \in Tokens : invites[u] # None} \cup {t}
      BY <3>4, <3>6
    <3>8. QED
      BY <3>1, <3>4, <3>6, <3>7 DEF Offers
  <2>4. Members!Offer(o, e, g)
    BY <1>4, <2>2, <2>3 DEF InviteInsert, Members!Offer
  <2>5. QED
    BY <2>1, <2>4 DEF Members!Next
<1>5. ASSUME NEW r \in Requests, AcceptMember(r) PROVE [Members!Next]_(Members!vars)
  <2> DEFINE o == loc[r].org
             e == loc[r].user
             g == loc[r].role
  <2>1. o \in Slugs /\ e \in Emails /\ g \in Members!OfferedRoles
    BY <1>1, <1>5 DEF AcceptMember, LocalsInv, Roles, Members!OfferedRoles
  <2>2. <<o, e, g>> \in Offers
    BY <1>1, <1>5 DEF AcceptMember, AcceptInv, LocalsInv, FoundedInv, Offers
  <2>3. Members!Accept(o, e, g)
    BY <1>5, <2>2 DEF AcceptMember, EnsureMembership, Offers, Members!Accept
  <2>4. QED
    BY <2>1, <2>3 DEF Members!Next
<1>6. ASSUME NEW r \in Requests, AcceptUse(r) PROVE [Members!Next]_(Members!vars)
  <2>1. \A t \in Tokens : invites'[t] # None => invites[t] # None
    BY <1>1, <1>6 DEF AcceptUse, AcceptInv
  <2>2. QED
    BY <1>6, <2>1, SameOffers DEF AcceptUse, Members!vars
<1>7. ASSUME NEW t \in Tokens, InviteExpires(t) PROVE [Members!Next]_(Members!vars)
  <2>1. \A s \in Tokens : invites'[s] # None => invites[s] # None
    BY <1>1, <1>7 DEF InviteExpires
  <2>2. QED
    BY <1>7, <2>1, SameOffers DEF InviteExpires, Members!vars
<1>8. ASSUME NEW r \in Requests, LocalAuthStep(r), ~SignupCreateOrg(r), ~SignupOwner(r)
      PROVE  [Members!Next]_(Members!vars)
  BY <1>8, MembersStutter DEF LocalAuthStep, SignupCredential, SignupFindOrg, StartSession,
     LoginSession, PasswordUpdate, PasswordCreate, PasswordReply
<1>9. ASSUME NEW r \in Requests, Arrive(r) \/ Abort(r) \/ AcceptUser(r)
      PROVE  [Members!Next]_(Members!vars)
  BY <1>9, MembersStutter DEF Arrive, SignupUser, LoginCredential, PasswordLookup,
     InviteAuthorize, AcceptFind, Abort, AcceptUser
<1>10. CASE UNCHANGED vars
  BY <1>10, MembersStutter DEF vars
<1>11. QED
  BY <1>2, <1>3, <1>4, <1>5, <1>6, <1>7, <1>8, <1>9, <1>10 DEF Next, InvitesStep

\* Sign-ups, invites and acceptances, statement by statement and failing anywhere, write
\* memberships just as the abstract specification of who may join what allows.
THEOREM OnboardingImplementsMembership == Spec => MembershipSpec
<1>1. Init => Members!Init
  BY DEF Init, DirectoryInit, Members!Init, Offers
<1>2. QED
  BY <1>1, StepMembers, Invariance, FoundedInvariance, PTL
  DEF Spec, MembershipSpec, Members!Spec
===============================================================================
