--------------------------- MODULE OnboardingCauses ---------------------------
(***************************************************************************)
(* Why the three promises that Onboarding breaks are broken: each is shown *)
(* to hold in every behavior without one named event, which the code does  *)
(* nothing to prevent.  The events are what a fix has to rule out, and     *)
(* there is no other cause.                                                *)
(***************************************************************************)
EXTENDS OnboardingProofs

-------------------------------------------------------------------------------
(* Invites that are accepted twice.                                           *)

Accepting(r) == pc[r] \in {"accept_user", "accept_member", "accept_use"}

\* Two requests are between the check and the mark of one invite.
AcceptancesOverlap ==
  \E r, q \in Requests :
    r # q /\ Accepting(r) /\ Accepting(q) /\ loc[r].token = loc[q].token

\* An invite is marked when it has been accepted, and not before, as long as an
\* acceptance of it is under way.
OnceInv ==
  /\ \A t \in Tokens :
       /\ accepted[t] <= 1
       /\ accepted[t] # 0 => invites[t] # None /\ invites[t].used
  /\ \A r \in Requests : Accepting(r) => ~invites[loc[r].token].used

\* Nothing is accepted before the first request.
LEMMA InitOnceInv == Init => OnceInv
  BY DEF Init, DirectoryInit, OnceInv, Accepting

\* An acceptance that runs alone finds its invite unmarked.
LEMMA StepOnceInv ==
  IInv /\ IInv' /\ OnceInv /\ ~AcceptancesOverlap /\ [Next]_vars => OnceInv'
<1> SUFFICES ASSUME IInv, IInv', OnceInv, ~AcceptancesOverlap, [Next]_vars PROVE OnceInv'
  OBVIOUS
<1> USE DEF OnceInv, Accepting, goto, done, tables
<1>1. /\ TypeOK /\ LocalsInv /\ AcceptInv
      /\ accepted \in [Tokens -> Nat]
      /\ invites \in [Tokens -> Invitations \cup {None}]
      /\ pc \in [Requests -> PCs]
      /\ loc \in [Requests -> Locals]
  BY DEF IInv, TypeOK
<1>2. \A r \in Requests : Accepting(r) =>
        loc[r].token \in Tokens /\ invites[loc[r].token] \in Invitations
  BY <1>1 DEF LocalsInv, AcceptInv
<1>3. ASSUME NEW r \in Requests, LocalAuthStep(r) PROVE OnceInv'
  BY <1>1, <1>3 DEF LocalAuthStep, SignupCredential, SignupFindOrg, SignupCreateOrg,
     SignupOwner, StartSession, LoginSession, PasswordUpdate, PasswordCreate, PasswordReply
<1>4. ASSUME NEW r \in Requests, InviteInsert(r) PROVE OnceInv'
  BY <1>1, <1>2, <1>4 DEF InviteInsert, AcceptInv
<1>5. ASSUME NEW r \in Requests, AcceptUser(r) \/ AcceptMember(r) PROVE OnceInv'
  BY <1>1, <1>5 DEF AcceptUser, AcceptMember
<1>6. ASSUME NEW r \in Requests, AcceptUse(r) PROVE OnceInv'
  <2> DEFINE t == loc[r].token
  <2>1. /\ t \in Tokens /\ invites[t] \in Invitations
        /\ ~invites[t].used
        /\ accepted[t] = 0
    BY <1>1, <1>2, <1>6 DEF AcceptUse
  <2>2. accepted' = [accepted EXCEPT ![t] = 1]
    BY <1>1, <1>6, <2>1 DEF AcceptUse
  <2>3. /\ invites'[t].used /\ invites'[t] # None
        /\ \A s \in Tokens \ {t} : invites'[s] = invites[s]
    <3>1. invites' = [invites EXCEPT ![t] = [invites[t] EXCEPT !.used = TRUE]]
      BY <1>6 DEF AcceptUse
    <3>2. PICK i : i = [invites[t] EXCEPT !.used = TRUE]
      OBVIOUS
    <3>3. i.used /\ i # None
      <4>1. invites[t] \in Invitations
        BY <2>1
      <4> HIDE DEF t
      <4>2. i \in Invitations /\ i.used
        BY <3>2, <4>1, MarkedInvite
      <4>3. QED
        BY <4>2, DirectoryAssumption
    <3>4. t \in Tokens /\ invites' = [invites EXCEPT ![t] = i]
      BY <2>1, <3>1, <3>2
    <3> HIDE DEF t
    <3>5. QED
      BY <1>1, <3>3, <3>4
  <2>4. ASSUME NEW q \in Requests, Accepting(q)'
        PROVE  ~invites'[loc'[q].token].used
    <3>1. q # r /\ Accepting(q) /\ loc'[q] = loc[q]
      BY <1>1, <1>6, <2>4 DEF AcceptUse
    <3>2. loc[q].token # t
      BY <1>6, <3>1 DEF AcceptancesOverlap, AcceptUse
    <3>3. QED
      BY <1>2, <2>3, <3>1, <3>2
  <2>5. \A s \in Tokens :
          /\ accepted'[s] <= 1
          /\ accepted'[s] # 0 => invites'[s] # None /\ invites'[s].used
    BY <1>1, <2>2, <2>3
  <2>6. QED
    BY <2>4, <2>5
<1>7. ASSUME NEW r \in Requests, Arrive(r) PROVE OnceInv'
  <2>1. ASSUME NEW t \in Tokens, AcceptFind(r, t) PROVE OnceInv'
    <3>1. loc'[r].token = t /\ UNCHANGED <<invites, accepted>>
      BY <1>1, <2>1 DEF AcceptFind, begin, NoLocals
    <3>2. \A q \in Requests \ {r} : pc'[q] = pc[q] /\ loc'[q] = loc[q]
      BY <1>1, <2>1 DEF AcceptFind, begin
    <3>3. ~invites[t].used
      BY <2>1 DEF AcceptFind
    <3>4. QED
      BY <3>1, <3>2, <3>3
  <2>2. CASE ~\E t \in Tokens : AcceptFind(r, t)
    BY <1>1, <1>7, <2>2 DEF Arrive, SignupUser, UpsertUserByVerifiedEmail,
       LoginCredential, PasswordLookup, InviteAuthorize, begin
  <2>3. QED
    BY <2>1, <2>2
<1>8. ASSUME NEW r \in Requests, Abort(r) PROVE OnceInv'
  BY <1>1, <1>8 DEF Abort
<1>9. ASSUME NEW t \in Tokens, InviteExpires(t) PROVE OnceInv'
  <2>1. invites[t] \in Invitations
    BY <1>1, <1>9 DEF InviteExpires
  <2>2. /\ invites'[t] # None /\ invites'[t].used = invites[t].used
        /\ \A s \in Tokens \ {t} : invites'[s] = invites[s]
    <3>1. invites' = [invites EXCEPT ![t] = [invites[t] EXCEPT !.expired = TRUE]]
      BY <1>9 DEF InviteExpires
    <3>2. /\ [invites[t] EXCEPT !.expired = TRUE].used = invites[t].used
          /\ [invites[t] EXCEPT !.expired = TRUE] # None
      BY <2>1, MarkedInvite, DirectoryAssumption
    <3>3. QED
      BY <1>1, <1>9, <3>1, <3>2
  <2>3. QED
    BY <1>1, <1>2, <1>9, <2>2, DirectoryAssumption DEF InviteExpires, request
<1>10. CASE UNCHANGED vars
  BY <1>10 DEF vars
<1>11. QED
  BY <1>3, <1>4, <1>5, <1>6, <1>7, <1>8, <1>9, <1>10 DEF Next, InvitesStep

\* An invite token is one-time unless two acceptances of it overlap.
THEOREM AcceptedTwiceOnlyByOverlap ==
  Spec /\ []~AcceptancesOverlap => []InviteAcceptedOnce
<1>1. OnceInv => InviteAcceptedOnce
  BY DEF OnceInv, InviteAcceptedOnce
<1>2. QED
  BY <1>1, InitOnceInv, StepOnceInv, Invariance, PTL DEF Spec

-------------------------------------------------------------------------------
(* Passwords that are not set.                                                *)

\* Some user's username is the email of another user.
NameIsAnothersEmail ==
  \E e, f \in Emails : e # f /\ cred[f] # None /\ cred[f].name = e

\* What the lookup of set-password has found stays found.
FoundInv ==
  \A r \in Requests : pc[r] \in {"password_update", "password_ok"} => cred[loc[r].user] # None

\* No request is past the lookup at the start.
LEMMA InitFoundInv == Init => FoundInv
  BY DEF Init, DirectoryInit, FoundInv

\* A credential found under the user's email is the user's.
LEMMA StepFoundInv ==
  IInv /\ FoundInv /\ ~NameIsAnothersEmail /\ [Next]_vars => FoundInv'
<1> SUFFICES ASSUME IInv, FoundInv, ~NameIsAnothersEmail, [Next]_vars PROVE FoundInv'
  OBVIOUS
<1> USE DEF FoundInv, goto, done, tables
<1>1. /\ TypeOK /\ LocalsInv
      /\ pc \in [Requests -> PCs]
      /\ loc \in [Requests -> Locals]
      /\ cred \in [Emails -> Credentials \cup {None}]
  BY DEF IInv, TypeOK
<1>2. \A e \in Emails : cred[e] # None => cred'[e] # None
  BY StepNothingLost DEF IInv, NothingLost
<1>3. \A r \in Requests : pc[r] # "idle" => loc[r].user \in Emails
  BY <1>1 DEF LocalsInv
<1>4. ASSUME NEW r \in Requests, NEW e \in Emails, NEW p \in Passwords,
              PasswordLookup(r, e, p) PROVE FoundInv'
  <2> DEFINE v == [NoLocals EXCEPT !.user = e, !.pw = p]
  <2>1. v.user = e /\ UNCHANGED cred
    BY <1>4 DEF NoLocals, PasswordLookup
  <2>2. ASSUME begin(r, "password_update", v), cred[e] # None PROVE FoundInv'
    BY <1>1, <2>1, <2>2 DEF begin
  <2>3. CASE begin(r, "password_create", v)
    BY <1>1, <2>1, <2>3 DEF begin
  <2>4. (\E f \in Emails : cred[f] # None /\ cred[f].name = e) => cred[e] # None
    BY DEF NameIsAnothersEmail
  <2>5. QED
    BY <1>4, <2>2, <2>3, <2>4 DEF PasswordLookup
<1>5. ASSUME NEW r \in Requests, PasswordCreate(r) PROVE FoundInv'
  <2>1. loc[r].user \in Emails
    BY <1>3, <1>5 DEF PasswordCreate
  <2>2. [name |-> loc[r].user, pw |-> loc[r].pw] \in Credentials
    BY <1>1, <1>5, <2>1, DirectoryAssumption DEF PasswordCreate, LocalsInv, Credentials
  <2>3. QED
    BY <1>1, <1>2, <1>3, <1>5, <2>1, <2>2, DirectoryAssumption
    DEF PasswordCreate, CreateLocalCredential
<1>6. ASSUME NEW r \in Requests, LocalAuthStep(r), ~PasswordCreate(r) PROVE FoundInv'
  BY <1>1, <1>2, <1>3, <1>6 DEF LocalAuthStep, SignupCredential, SignupFindOrg,
     SignupCreateOrg, SignupOwner, StartSession, LoginSession, PasswordUpdate, PasswordReply
<1>7. ASSUME NEW r \in Requests, InvitesStep(r) PROVE FoundInv'
  BY <1>1, <1>2, <1>3, <1>7 DEF InvitesStep, InviteInsert, AcceptUser, AcceptMember, AcceptUse
<1>8. ASSUME NEW r \in Requests, Arrive(r),
              ~\E e \in Emails, p \in Passwords : PasswordLookup(r, e, p)
      PROVE  FoundInv'
  BY <1>1, <1>2, <1>3, <1>8 DEF Arrive, SignupUser, UpsertUserByVerifiedEmail,
     LoginCredential, InviteAuthorize, AcceptFind, begin, NoLocals
<1>9. ASSUME NEW r \in Requests, Abort(r) PROVE FoundInv'
  BY <1>1, <1>2, <1>3, <1>9 DEF Abort
<1>10. CASE (\E t \in Tokens : InviteExpires(t)) \/ UNCHANGED vars
  BY <1>1, <1>2, <1>3, <1>10 DEF InviteExpires, request, vars
<1>11. QED
  BY <1>4, <1>5, <1>6, <1>7, <1>8, <1>9, <1>10 DEF Next, Arrive

\* Set-password that answers ok has set the password unless somebody's username is
\* another user's email.
THEOREM PasswordLostOnlyByName ==
  Spec /\ []~NameIsAnothersEmail => []PasswordIsSet
<1>1. FoundInv => PasswordIsSet
  BY DEF FoundInv, PasswordIsSet
<1>2. QED
  BY <1>1, InitFoundInv, StepFoundInv, Invariance, PTL DEF Spec

-------------------------------------------------------------------------------
(* Organisations without an owner.                                            *)

\* A sign-up that has created its organisation stops before it is its owner.
StopsBeforeOwner == \E r \in Requests : pc[r] = "signup_owner" /\ pc'[r] = "idle"

\* Somebody is invited into the organisation she has created.
CreatorInvited ==
  \E t \in Tokens : invites[t] # None /\ creator[invites[t].org] = invites[t].email

\* The creator of an organisation is its owner, or its sign-up is about to make her.
OwnedInv ==
  \A o \in orgs :
    /\ creator[o] \in Emails
    /\ \/ role[o][creator[o]] = "Owner"
       \/ \E r \in Requests : pc[r] = "signup_owner" /\ loc[r].org = o

\* There is no organisation at the start.
LEMMA InitOwnedInv == Init => OwnedInv
  BY DEF Init, DirectoryInit, OwnedInv

\* A request that does not move, or moves elsewhere, leaves owners alone.
LEMMA OwnedKept ==
  ASSUME TypeOK, CreatorInv, OwnedInv, UNCHANGED <<orgs, creator, role>>,
         \A r \in Requests : pc[r] = "signup_owner" =>
           pc'[r] = "signup_owner" /\ loc'[r] = loc[r]
  PROVE  OwnedInv'
  BY DEF OwnedInv

\* Only the owner statement and acceptances write roles, and no acceptance writes the
\* creator's.
LEMMA StepOwnedInv ==
  /\ IInv /\ OwnedInv /\ ~CreatorInvited
  /\ [Next]_vars /\ [~StopsBeforeOwner]_vars
  => OwnedInv'
<1> SUFFICES ASSUME IInv, OwnedInv, ~CreatorInvited, [Next]_vars, [~StopsBeforeOwner]_vars
             PROVE  OwnedInv'
  OBVIOUS
<1> USE DEF goto, done, tables
<1>1. /\ TypeOK /\ LocalsInv /\ CreatorInv /\ SignupInv /\ AcceptInv
      /\ pc \in [Requests -> PCs]
      /\ loc \in [Requests -> Locals]
      /\ role \in [Slugs -> [Emails -> Roles \cup {None}]]
      /\ creator \in [Slugs -> Emails \cup {None}]
      /\ orgs \subseteq Slugs
  BY DEF IInv, TypeOK
<1>2. ASSUME NEW r \in Requests, SignupCreateOrg(r) PROVE OwnedInv'
  <2>1. loc[r].user \in Emails /\ loc[r].org \in Slugs
    BY <1>1, <1>2 DEF SignupCreateOrg, LocalsInv
  <2>2. CASE loc[r].org \in orgs
    BY <1>1, <1>2, <2>2, OwnedKept DEF SignupCreateOrg
  <2>3. CASE loc[r].org \notin orgs
    BY <1>1, <1>2, <2>1, <2>3 DEF SignupCreateOrg, OwnedInv
  <2>4. QED
    BY <2>2, <2>3
<1>3. ASSUME NEW r \in Requests, SignupOwner(r) PROVE OwnedInv'
  <2>1. loc[r].user \in Emails /\ loc[r].org \in Slugs /\ creator[loc[r].org] = loc[r].user
    BY <1>1, <1>3 DEF SignupOwner, LocalsInv, SignupInv, SignupOK
  <2>2. QED
    BY <1>1, <1>3, <2>1 DEF SignupOwner, EnsureMembership, OwnedInv
<1>4. ASSUME NEW r \in Requests, AcceptMember(r) PROVE OwnedInv'
  <2>1. /\ loc[r].user \in Emails /\ loc[r].org \in Slugs
        /\ creator[loc[r].org] # loc[r].user
    BY <1>1, <1>4 DEF AcceptMember, LocalsInv, AcceptInv, CreatorInvited
  <2>2. \A o \in Slugs : creator[o] \in Emails => role'[o][creator[o]] = role[o][creator[o]]
    BY <1>1, <1>4, <2>1 DEF AcceptMember, EnsureMembership
  <2>3. QED
    BY <1>1, <1>4, <2>2 DEF AcceptMember, OwnedInv
<1>5. ASSUME NEW r \in Requests, LocalAuthStep(r), ~SignupCreateOrg(r), ~SignupOwner(r)
      PROVE  OwnedInv'
  BY <1>1, <1>5, OwnedKept DEF LocalAuthStep, SignupCredential, SignupFindOrg,
     StartSession, LoginSession, PasswordUpdate, PasswordCreate, PasswordReply
<1>6. ASSUME NEW r \in Requests, InvitesStep(r), ~AcceptMember(r) PROVE OwnedInv'
  BY <1>1, <1>6, OwnedKept DEF InvitesStep, InviteInsert, AcceptUser, AcceptUse
<1>7. ASSUME NEW r \in Requests, Arrive(r) PROVE OwnedInv'
  BY <1>1, <1>7, OwnedKept DEF Arrive, SignupUser, UpsertUserByVerifiedEmail,
     LoginCredential, PasswordLookup, InviteAuthorize, AcceptFind, begin
<1>8. ASSUME NEW r \in Requests, Abort(r) PROVE OwnedInv'
  <2>1. UNCHANGED <<orgs, creator, role>>
    BY <1>8 DEF Abort
  <2>2. pc'[r] = "idle" /\ pc[r] # "idle"
    BY <1>1, <1>8 DEF Abort
  <2>3. pc[r] # "signup_owner"
    BY <2>2 DEF StopsBeforeOwner, vars
  <2>4. QED
    BY <1>1, <1>8, <2>1, <2>3, OwnedKept DEF Abort
<1>9. CASE (\E t \in Tokens : InviteExpires(t)) \/ UNCHANGED vars
  BY <1>1, <1>9, OwnedKept DEF InviteExpires, request, vars
<1>10. QED
  BY <1>2, <1>3, <1>4, <1>5, <1>6, <1>7, <1>8, <1>9 DEF Next

\* Every organisation has an owner or is about to get one, unless a sign-up stops
\* between the two statements or a creator is invited into a lower role.
THEOREM OwnerlessOnlyByAbortOrDemotion ==
  Spec /\ []~CreatorInvited /\ [][~StopsBeforeOwner]_vars => []ExistingOrgHasOwner
<1>1. OwnedInv => ExistingOrgHasOwner
  BY DEF OwnedInv, ExistingOrgHasOwner
<1>2. QED
  BY <1>1, InitOwnedInv, StepOwnedInv, Invariance, PTL DEF Spec
===============================================================================
